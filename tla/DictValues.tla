----------------------------- MODULE DictValues -----------------------------
(***************************************************************************)
(* The values of a dictionary and the type callbacks that own them:        *)
(* dictSetVal (type->valDup) and dictFreeVal (type->valDestructor), as      *)
(* dictAdd, dictReplace, dictDelete, dictDeleteNoFree, dictEmpty and        *)
(* dictRelease call them.  The tables are abstracted to a function from    *)
(* the stored keys to their values (where the entries live, and that the    *)
(* key operations act as a map, is Dict's and DictMap's business).           *)
(*                                                                         *)
(* A value is a reference-counted object, as the types of a Redis server    *)
(* store them.  A type either has no valDup and a destructor that drops a  *)
(* reference ("transfer": the dictionary takes over the caller's           *)
(* reference), or a valDup that takes a reference of its own and the same  *)
(* destructor ("lend").  heap holds each object's refcount, the objects     *)
(* already freed, and whether a callback ever touched a freed object.      *)
(***************************************************************************)
EXTENDS Integers, FiniteSets, Functions

CONSTANTS
    Keys,    \* the keys the caller uses
    Objs,    \* the value objects
    Types    \* the dictType callbacks: [valDup : {"none", "incr"}, valDestructor : {"none", "decr"}]

VARIABLES
    alive,   \* the dict exists (between dictCreate and dictRelease)
    type,    \* d->type
    val,     \* the stored keys and the value of each entry
    heap     \* [refs : the refcount of each object, freed, uaf]

vars == <<alive, type, val, heap>>

Init ==
    /\ alive = FALSE
    /\ type \in Types
    /\ val = <<>>
    /\ heap = [refs |-> [o \in Objs |-> 0], freed |-> {}, uaf |-> FALSE]

\* incrRefCount / decrRefCount of the object; the last reference frees it.
Incr(h, o) == [h EXCEPT !.refs[o] = @ + 1, !.uaf = @ \/ o \in h.freed]

Decr(h, o) == [h EXCEPT !.refs[o] = @ - 1,
                        !.freed = IF h.refs[o] = 1 THEN @ \cup {o} ELSE @,
                        !.uaf = @ \/ o \in h.freed]

\* dictSetVal: entry->v.val = valDup(val) when the type has one, else val.
dictSetVal(h, o) == IF type.valDup = "incr" THEN Incr(h, o) ELSE h

\* dictFreeVal: valDestructor(entry->v.val) when the type has one.
dictFreeVal(h, o) == IF type.valDestructor = "decr" THEN Decr(h, o) ELSE h

\* The loop of _dictClear over every entry of a table.  It stops once used
\* reaches 0; used counts the entries (UsedCounts of Dict), so every entry
\* is visited.
RECURSIVE FreeVals(_, _)
FreeVals(h, ks) ==
    IF ks = {} THEN h
    ELSE LET k == CHOOSE x \in ks : TRUE
         IN FreeVals(dictFreeVal(h, val[k]), ks \ {k})

StoreVal(k, o) == val' = [x \in DOMAIN val \cup {k} |-> IF x = k THEN o ELSE val[x]]

-----------------------------------------------------------------------------
(* Operations.                                                             *)

\* dictCreate with a type; _dictInit resets both tables.
DictCreate(t) ==
    /\ ~alive
    /\ alive' = TRUE
    /\ type' = t
    /\ val' = <<>>
    /\ UNCHANGED heap

\* dictAdd: nothing happens for a present key, else the entry gets the value.
DictAdd(k, o) ==
    /\ alive
    /\ k \notin DOMAIN val
    /\ StoreVal(k, o)
    /\ heap' = dictSetVal(heap, o)
    /\ UNCHANGED <<alive, type>>

\* Mutant: the old value is freed before the new one is set.
DictReplaceFreeFirst(k, o) ==
    /\ alive
    /\ StoreVal(k, o)
    /\ heap' = IF k \notin DOMAIN val THEN dictSetVal(heap, o)
               ELSE dictSetVal(dictFreeVal(heap, val[k]), o)
    /\ UNCHANGED <<alive, type>>

\* dictReplace: dictAdd for a new key; else auxentry = *entry, set the new
\* value, then free the old one ("it is important to do that in this
\* order, as the value may just be exactly the same as the previous one").
DictReplace(k, o) ==
    /\ alive
    /\ StoreVal(k, o)
    /\ heap' = IF k \notin DOMAIN val THEN dictSetVal(heap, o)
               ELSE dictFreeVal(dictSetVal(heap, o), val[k])
    /\ UNCHANGED <<alive, type>>

\* Mutant: nofree is ignored.
dictGenericDeleteAlwaysFree(k, nofree) ==
    /\ alive
    /\ k \in DOMAIN val
    /\ val' = [x \in DOMAIN val \ {k} |-> val[x]]
    /\ heap' = dictFreeVal(heap, val[k])
    /\ UNCHANGED <<alive, type>>

\* dictGenericDelete of a present key: unlink the entry and, unless
\* nofree, free its key and value.
dictGenericDelete(k, nofree) ==
    /\ alive
    /\ k \in DOMAIN val
    /\ val' = [x \in DOMAIN val \ {k} |-> val[x]]
    /\ heap' = IF nofree THEN heap ELSE dictFreeVal(heap, val[k])
    /\ UNCHANGED <<alive, type>>

DictDelete(k) == dictGenericDelete(k, FALSE)

DictDeleteNoFree(k) == dictGenericDelete(k, TRUE)

\* Mutant: _dictClear frees the entries but does not reset the table.
DictEmptyKeepsEntries ==
    /\ alive
    /\ heap' = FreeVals(heap, DOMAIN val)
    /\ UNCHANGED <<alive, type, val>>

\* dictEmpty: _dictClear of both tables frees every value.
DictEmpty ==
    /\ alive
    /\ val' = <<>>
    /\ heap' = FreeVals(heap, DOMAIN val)
    /\ UNCHANGED <<alive, type>>

\* dictRelease: _dictClear of both tables, then zfree(d).
DictRelease ==
    /\ alive
    /\ alive' = FALSE
    /\ val' = <<>>
    /\ heap' = FreeVals(heap, DOMAIN val)
    /\ UNCHANGED type

\* dictFetchValue: dictGetVal of the entry, NULL for a missing key.
dictFetchValue(k) == IF k \in DOMAIN val THEN val[k] ELSE "NULL"

=============================================================================
