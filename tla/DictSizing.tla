----------------------------- MODULE DictSizing -----------------------------
(***************************************************************************)
(* The sizing of a dictionary, with its entries reduced to counts: the    *)
(* size and used fields of ht[0] and ht[1], whether a rehash is running,   *)
(* and dict_can_resize.  Which keys are stored, and in which buckets, is  *)
(* left out; what it decides is a nondeterministic choice:                *)
(*   - whether a key operation finds its key (possible only when the      *)
(*     dictionary holds an entry);                                        *)
(*   - how many entries one rehash step moves: the whole chain of the     *)
(*     next non-empty bucket, between 1 and ht[0].used entries.            *)
(* Every _dictRehashStep runs: the host holds no safe iterator (Dict       *)
(* models how safe iterators pause the rehash).  Dict implements this     *)
(* specification under the mapping of MCDictRefine, so what is checked     *)
(* here about the counts holds of Dict as well, for any number of keys.   *)
(***************************************************************************)
EXTENDS Integers, FiniteSets

CONSTANTS
    MaxUsed,            \* bound on the entries the host inserts
    ExpandSizes,        \* the sizes passed to dictExpand
    RehashSteps,        \* the n passed to dictRehash
    MaxRehashMsRounds   \* rounds of dictRehash(d,100) before the clock stops

VARIABLES
    ht,                 \* [t \in {0, 1} |-> [size, used]]
    rehashing,          \* rehashidx # -1
    dict_can_resize

vars == <<ht, rehashing, dict_can_resize>>

DICT_HT_INITIAL_SIZE == 4
dict_force_resize_ratio == 5

Reset == [size |-> 0, used |-> 0]

Init ==
    /\ ht = [t \in {0, 1} |-> Reset]
    /\ rehashing = FALSE
    /\ dict_can_resize = TRUE

\* A dictionary as a record, for the operators below.
D == [ht |-> ht, rehashing |-> rehashing]

RECURSIVE NextPower(_, _)
NextPower(i, size) == IF i >= size THEN i ELSE NextPower(i * 2, size)

\* Mutant: the new table records the requested size, not the power of two.
ExpandRequestedSize(d, size) ==
    LET n == [size |-> size, used |-> 0] IN
    IF d.rehashing \/ d.ht[0].used > size THEN [d |-> d, ok |-> FALSE]
    ELSE IF d.ht[0].size = 0 THEN [d |-> [d EXCEPT !.ht[0] = n], ok |-> TRUE]
    ELSE [d |-> [d EXCEPT !.ht[1] = n, !.rehashing = TRUE], ok |-> TRUE]

\* dictExpand: refused while rehashing or below ht[0].used; the first table,
\* or ht[1] and a rehash.
Expand(d, size) ==
    LET n == [size |-> NextPower(DICT_HT_INITIAL_SIZE, size), used |-> 0] IN
    IF d.rehashing \/ d.ht[0].used > size THEN [d |-> d, ok |-> FALSE]
    ELSE IF d.ht[0].size = 0 THEN [d |-> [d EXCEPT !.ht[0] = n], ok |-> TRUE]
    ELSE [d |-> [d EXCEPT !.ht[1] = n, !.rehashing = TRUE], ok |-> TRUE]

\* Mutant: no growth past the ratio while resizing is disabled.
ExpandIfNeededNoForce(d) ==
    LET t0 == d.ht[0] IN
    IF d.rehashing THEN [d |-> d, ok |-> TRUE]
    ELSE IF t0.size = 0 THEN Expand(d, DICT_HT_INITIAL_SIZE)
    ELSE IF t0.used >= t0.size /\ dict_can_resize
         THEN Expand(d, (IF t0.size > t0.used THEN t0.size ELSE t0.used) * 2)
         ELSE [d |-> d, ok |-> TRUE]

\* _dictExpandIfNeeded; used/size is an unsigned long division.
ExpandIfNeeded(d) ==
    LET t0 == d.ht[0] IN
    IF d.rehashing THEN [d |-> d, ok |-> TRUE]
    ELSE IF t0.size = 0 THEN Expand(d, DICT_HT_INITIAL_SIZE)
    ELSE IF /\ t0.used >= t0.size
            /\ \/ dict_can_resize
               \/ t0.used \div t0.size > dict_force_resize_ratio
         THEN Expand(d, (IF t0.size > t0.used THEN t0.size ELSE t0.used) * 2)
         ELSE [d |-> d, ok |-> TRUE]

\* One iteration of the loop of dictRehash: the swap once ht[0] is empty,
\* else the chain of one bucket (m entries) moves to ht[1].
RehashOnce(d) ==
    IF ~d.rehashing THEN {d}
    ELSE IF d.ht[0].used = 0
         THEN {[ht |-> [t \in {0, 1} |-> IF t = 0 THEN d.ht[1] ELSE Reset],
                rehashing |-> FALSE]}
    ELSE {[d EXCEPT !.ht[0].used = @ - m, !.ht[1].used = @ + m] :
              m \in 1..d.ht[0].used}

\* dictRehash(d, n), over the set of dictionaries it may leave; it returns
\* once the rehash is over.
RECURSIVE Rehash(_, _)
Rehash(S, n) ==
    IF n = 0 \/ \A d \in S : ~d.rehashing THEN S
    ELSE Rehash(UNION {RehashOnce(d) : d \in S}, n - 1)

\* The "if (dictIsRehashing(d)) _dictRehashStep(d)" that opens lookups.
Step(d) == Rehash({d}, 1)

\* dictRehashMilliseconds: rounds of dictRehash(d,100) while the rehash
\* goes on, until the clock has moved past ms, which may happen after any.
RECURSIVE RehashRounds(_, _)
RehashRounds(S, r) ==
    LET x == Rehash(S, 100) IN
    x \cup (IF r > 1 THEN RehashRounds({y \in x : y.rehashing}, r - 1) ELSE {})

Total(d) == d.ht[0].used + d.ht[1].used

\* dictAddRaw: a rehash step, then _dictKeyIndex expands if needed and
\* returns -1 on a failed expansion or a present key (possible only when
\* the dictionary holds an entry); else the entry goes to ht[1] while
\* rehashing, to ht[0] otherwise.
AddRaw(d) ==
    UNION {LET e == ExpandIfNeeded(x)
               t == IF e.d.rehashing THEN 1 ELSE 0
           IN  (IF ~e.ok \/ Total(x) > 0 THEN {[d |-> e.d, ok |-> FALSE]} ELSE {})
               \cup (IF e.ok /\ Total(x) < MaxUsed
                     THEN {[d |-> [e.d EXCEPT !.ht[t].used = @ + 1], ok |-> TRUE]}
                     ELSE {})
           : x \in Step(d)}

\* dictFind: nothing without a table, else one step.
Find(d) == IF d.ht[0].size = 0 THEN {d} ELSE Step(d)

\* dictReplace: dictAdd, then dictFind when it failed.
Replace(d) ==
    {r.d : r \in {r \in AddRaw(d) : r.ok}}
    \cup UNION {Find(r.d) : r \in {r \in AddRaw(d) : ~r.ok}}

\* dictReplaceRaw: dictFind, then dictAddRaw when the key is absent.
ReplaceRaw(d) ==
    {x \in Find(d) : Total(x) > 0} \cup {r.d : r \in UNION {AddRaw(x) : x \in Find(d)}}

\* dictGenericDelete: nothing without a table; else a step, then the
\* entry leaves the first searched table that holds it.
Delete(d) ==
    IF d.ht[0].size = 0 THEN {d}
    ELSE UNION {{x} \cup {[x EXCEPT !.ht[t].used = @ - 1] :
                         t \in {u \in (IF x.rehashing THEN {0, 1} ELSE {0}) :
                                  x.ht[u].used > 0}} : x \in Step(d)}

\* dictGetRandomKey: a step when the dictionary is not empty.
RandomKey(d) == IF Total(d) = 0 THEN {d} ELSE Step(d)

\* dictResize: to max(used, 4) when allowed and not rehashing.
Resize(d) ==
    IF ~dict_can_resize \/ d.rehashing THEN d
    ELSE Expand(d, IF d.ht[0].used < DICT_HT_INITIAL_SIZE
                   THEN DICT_HT_INITIAL_SIZE ELSE d.ht[0].used).d

-----------------------------------------------------------------------------
(* Actions.                                                                *)

Become(S) ==
    /\ \E d \in S : ht' = d.ht /\ rehashing' = d.rehashing
    /\ UNCHANGED dict_can_resize

DictKeyOp ==
    \/ Become({r.d : r \in AddRaw(D)}) \/ Become(Replace(D)) \/ Become(ReplaceRaw(D))
    \/ Become(Find(D)) \/ Become(Delete(D)) \/ Become(RandomKey(D))

DictExpand(n) == Become({Expand(D, n).d})

DictResize == Become({Resize(D)})

DictRehash(n) == Become(Rehash({D}, n))

DictRehashMilliseconds == Become(RehashRounds({D}, MaxRehashMsRounds))

\* dictEmpty: both tables reset, rehashidx = -1.
DictEmpty ==
    /\ ht' = [t \in {0, 1} |-> Reset]
    /\ rehashing' = FALSE
    /\ UNCHANGED dict_can_resize

DictEnableResize == dict_can_resize' = TRUE /\ UNCHANGED <<ht, rehashing>>

DictDisableResize == dict_can_resize' = FALSE /\ UNCHANGED <<ht, rehashing>>

Next ==
    \/ DictKeyOp
    \/ \E n \in ExpandSizes : DictExpand(n)
    \/ DictResize
    \/ \E n \in RehashSteps : DictRehash(n)
    \/ DictRehashMilliseconds
    \/ DictEmpty
    \/ DictEnableResize \/ DictDisableResize

Spec == Init /\ [][Next]_vars

=============================================================================
