---------------------------- MODULE MCDictValues ----------------------------
(***************************************************************************)
(* Model checking of DictValues.  The host is a server that creates value  *)
(* objects (refcount 1, its own reference), takes and drops references of  *)
(* its own, and stores objects in the dictionary by the rule of the type:  *)
(*   - transfer (no valDup): it passes a reference it owns, and gives it up *)
(*     once dictAdd succeeds or dictReplace returns;                        *)
(*   - lend (valDup increments): it passes any live object it owns or has  *)
(*     just fetched from the dictionary with dictFetchValue.                *)
(* After dictDeleteNoFree the value's reference is the host's.             *)
(***************************************************************************)
EXTENDS DictValues, TLC

CONSTANTS K1, K2, O1, O2, MaxOwn

VARIABLES
    own,      \* the references the host holds on each object
    created   \* the objects the host has created

allVars == <<vars, own, created>>

MCKeys == {K1, K2}
MCObjs == {O1, O2}
MCTypes == {[valDup |-> "none", valDestructor |-> "decr"],
            [valDup |-> "incr", valDestructor |-> "decr"]}

Transfer == type.valDup = "none"

\* The objects the dictionary holds a reference to: every stored value
\* when the type's destructor drops one.
DictRefs(o) ==
    IF type.valDestructor = "decr"
    THEN Cardinality({k \in DOMAIN val : val[k] = o})
    ELSE 0

HostInit == Init /\ own = [o \in Objs |-> 0] /\ created = {}

\* createObject: a fresh object with refcount 1, owned by the host.
Create(o) ==
    /\ o \notin created
    /\ created' = created \cup {o}
    /\ heap' = [heap EXCEPT !.refs[o] = 1]
    /\ own' = [own EXCEPT ![o] = 1]
    /\ UNCHANGED <<alive, type, val>>

Retain(o) ==
    /\ own[o] \in 1..(MaxOwn - 1)
    /\ heap' = Incr(heap, o)
    /\ own' = [own EXCEPT ![o] = @ + 1]
    /\ UNCHANGED <<alive, type, val, created>>

Drop(o) ==
    /\ own[o] > 0
    /\ heap' = Decr(heap, o)
    /\ own' = [own EXCEPT ![o] = @ - 1]
    /\ UNCHANGED <<alive, type, val, created>>

\* The objects the host may pass as a value.
Passable == IF Transfer THEN {o \in Objs : own[o] > 0}
            ELSE {o \in created \ heap.freed : own[o] > 0}
                 \cup {dictFetchValue(k) : k \in DOMAIN val}

GiveUp(o, given) ==
    own' = IF Transfer /\ given THEN [own EXCEPT ![o] = @ - 1] ELSE own

HostNext ==
    \/ \E o \in Objs : Create(o) \/ Retain(o) \/ Drop(o)
    \/ \E t \in Types : DictCreate(t) /\ UNCHANGED <<own, created>>
    \/ \E k \in Keys, o \in Passable :
          \/ DictAdd(k, o) /\ GiveUp(o, TRUE) /\ UNCHANGED created
          \/ DictReplace(k, o) /\ GiveUp(o, TRUE) /\ UNCHANGED created
    \/ \E k \in Keys :
          \/ DictDelete(k) /\ UNCHANGED <<own, created>>
          \/ /\ k \in DOMAIN val /\ own[val[k]] < MaxOwn
             /\ DictDeleteNoFree(k)
             /\ own' = [own EXCEPT ![val[k]] = @ + 1]
             /\ UNCHANGED created
    \/ (DictEmpty \/ DictRelease) /\ UNCHANGED <<own, created>>

HostSpec == HostInit /\ [][HostNext]_allVars

-----------------------------------------------------------------------------
(* Properties.                                                             *)

TypeOK ==
    /\ alive \in BOOLEAN /\ type \in Types
    /\ val \in [DOMAIN val -> Objs] /\ DOMAIN val \subseteq Keys
    /\ heap.refs \in [Objs -> Nat] /\ heap.freed \subseteq created
    /\ own \in [Objs -> Nat] /\ created \subseteq Objs

\* No callback of dictSetVal or dictFreeVal touches an object already
\* freed, and no entry keeps a freed value, whatever the host stores where
\* (dictReplace of a key with the value it already holds included).
NoUseAfterFree ==
    /\ ~heap.uaf
    /\ \A k \in DOMAIN val : val[k] \notin heap.freed

\* Every reference is accounted for: a live object's refcount is the
\* host's references plus one per entry that holds it, and an object is
\* freed only when neither the host nor the dictionary holds it.
RefsBalanced ==
    \A o \in created :
        IF o \in heap.freed THEN own[o] = 0 /\ DictRefs(o) = 0
        ELSE heap.refs[o] = own[o] + DictRefs(o)

=============================================================================
