---------------------------- MODULE MCDictSizing ----------------------------
(***************************************************************************)
(* Model checking of DictSizing with enough keys for the forced resize:    *)
(* resizing may be disabled at any moment (as a server does while a child  *)
(* process saves), and at most MaxUsed entries are stored.                 *)
(***************************************************************************)
EXTENDS DictSizing

TypeOK ==
    /\ ht \in [{0, 1} -> [size : {0} \cup {2^i : i \in 2..7}, used : 0..MaxUsed]]
    /\ rehashing \in BOOLEAN
    /\ dict_can_resize \in BOOLEAN

\* With resizing disabled _dictExpandIfNeeded still doubles the table once
\* used/size (an integer division) exceeds dict_force_resize_ratio, so
\* outside a rehash ht[0] never holds more than ratio + 1 entries per
\* bucket, whatever the order of adds, deletes, explicit dictExpand and
\* dictResize calls, rehash steps and dictDisableResize/dictEnableResize.
LoadBound ==
    ~rehashing => ht[0].used <= (dict_force_resize_ratio + 1) * ht[0].size

=============================================================================
