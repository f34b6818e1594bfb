-------------------------------- MODULE Dict --------------------------------
(***************************************************************************)
(* The incremental-rehashing hash table of dict.c / dict.h.                *)
(*                                                                         *)
(* A dictionary is one variable, dict, shaped like struct dict: two       *)
(* sub-tables ht[0] and ht[1] (bucket array, size, used), rehashidx and    *)
(* the count of running safe iterators.  A bucket array of size n is a     *)
(* function 0..n-1 -> chain, a chain is a sequence of keys head first,     *)
(* and an entry is identified with its key (keys are unique in a dict).    *)
(* The C helpers are pure operators from a dict to a result record         *)
(* [d |-> dict after the call, ...]; every public function is an action   *)
(* that applies the whole call, the rehash steps it performs included.    *)
(* Keys are model values with a fixed hash; values are not modelled.       *)
(***************************************************************************)
EXTENDS Integers, Sequences, FiniteSets, SequencesExt

CONSTANTS
    Keys,         \* the keys callers insert (model values)
    Seeds,        \* values of dict_hash_function_seed a caller may set
    DefaultSeed,  \* its initial value (5381)
    Hash,         \* dictHashKey: Hash[seed] is the type's hash function
                  \*   (dictGenHashFunction reads the seed), Keys -> Nat
    Iters,        \* iterator handles a caller may hold at once
    ExpandSizes,  \* sizes a caller passes to dictExpand
    RehashSteps,  \* budgets n a caller passes to dictRehash(d, n)
    MaxRehashMsRounds, \* dictRehash(d,100) rounds before the clock expires
    NULL

ASSUME DefaultSeed \in Seeds /\ Hash \in [Seeds -> [Keys -> Nat]]
ASSUME NULL \notin Keys
ASSUME ExpandSizes \subseteq Nat /\ RehashSteps \subseteq Nat \ {0}
ASSUME MaxRehashMsRounds \in Nat \ {0}

DICT_HT_INITIAL_SIZE == 4
dict_force_resize_ratio == 5

VARIABLES
    dict,             \* the struct dict
    dict_can_resize,  \* the process-wide resize permission flag
    seed,             \* dict_hash_function_seed, process-wide too
    it,               \* it[i]: the struct dictIterator behind handle i
    ret,              \* what the last key operation returned
    visits,           \* history: visits[i][k], times iterator i returned k
                      \*   since k was last inserted
    stable            \* history: keys present when iterator i started and
                      \*   not deleted since

vars == <<dict, dict_can_resize, seed, it, ret, visits, stable>>

-----------------------------------------------------------------------------
(* Sub-tables.                                                             *)

\* _dictReset: table = NULL, size = sizemask = used = 0.
_dictReset == [table |-> [b \in {} |-> <<>>], size |-> 0, used |-> 0]

EmptyTable(n) == [b \in 0..(n - 1) |-> <<>>]

\* h & sizemask; size is a power of two, so this is h mod size.
BucketOf(t, k) == Hash[seed][k] % t.size

InTable(t, k) == t.size > 0 /\ Contains(t.table[BucketOf(t, k)], k)

Entries(t) == UNION {ToSet(t.table[b]) : b \in DOMAIN t.table}

dictIsRehashing(dd) == dd.rehashidx # -1

\* The tables a lookup searches: ht[1] only while rehashing.
LookupTables(dd) == IF dictIsRehashing(dd) THEN {0, 1} ELSE {0}

DictKeys(dd) == Entries(dd.ht[0]) \cup Entries(dd.ht[1])

\* dictSize
dictSize(dd) == dd.ht[0].used + dd.ht[1].used

-----------------------------------------------------------------------------
(* Sizing.                                                                 *)

RECURSIVE NextPowerFrom(_, _)
NextPowerFrom(i, size) == IF i >= size THEN i ELSE NextPowerFrom(i * 2, size)

\* _dictNextPower (the LONG_MAX cap is beyond any bounded size).
_dictNextPower(size) == NextPowerFrom(DICT_HT_INITIAL_SIZE, size)

\* Mutant: the new table records the requested size, not the power of two.
dictExpandRequestedSize(dd, size) ==
    LET realsize == _dictNextPower(size)
        n == [table |-> EmptyTable(realsize), size |-> size, used |-> 0]
    IN  IF dictIsRehashing(dd) \/ dd.ht[0].used > size
        THEN [d |-> dd, ok |-> FALSE]
        ELSE IF dd.ht[0].size = 0
             THEN [d |-> [dd EXCEPT !.ht[0] = n], ok |-> TRUE]
             ELSE [d |-> [dd EXCEPT !.ht[1] = n, !.rehashidx = 0], ok |-> TRUE]

\* dictExpand: rejected while rehashing or when size < ht[0].used; the new
\* table becomes ht[0] on first use, otherwise ht[1] and rehashing starts.
dictExpand(dd, size) ==
    LET realsize == _dictNextPower(size)
        n == [table |-> EmptyTable(realsize), size |-> realsize, used |-> 0]
    IN  IF dictIsRehashing(dd) \/ dd.ht[0].used > size
        THEN [d |-> dd, ok |-> FALSE]
        ELSE IF dd.ht[0].size = 0
             THEN [d |-> [dd EXCEPT !.ht[0] = n], ok |-> TRUE]
             ELSE [d |-> [dd EXCEPT !.ht[1] = n, !.rehashidx = 0], ok |-> TRUE]

\* _dictExpandIfNeeded: first table of 4 buckets; double at 1:1 when
\* resizing is allowed, or past dict_force_resize_ratio regardless.
_dictExpandIfNeeded(dd) ==
    LET t0 == dd.ht[0] IN
    IF dictIsRehashing(dd) THEN [d |-> dd, ok |-> TRUE]
    ELSE IF t0.size = 0 THEN dictExpand(dd, DICT_HT_INITIAL_SIZE)
    ELSE IF /\ t0.used >= t0.size
            /\ \/ dict_can_resize
               \/ t0.used \div t0.size > dict_force_resize_ratio
         THEN dictExpand(dd, Max({t0.size, t0.used}) * 2)
         ELSE [d |-> dd, ok |-> TRUE]

-----------------------------------------------------------------------------
(* Incremental rehashing.                                                  *)

\* One entry of the migrated chain: prepended to its ht[1] bucket.
MoveEntry(t1, k) ==
    [t1 EXCEPT !.table[BucketOf(t1, k)] = <<k>> \o @, !.used = @ + 1]

\* The while(table[rehashidx] == NULL) rehashidx++ skip.
FirstNonEmptyBucket(dd) ==
    Min({b \in dd.rehashidx..(dd.ht[0].size - 1) : dd.ht[0].table[b] # <<>>})

\* Mutant: ht[0].used and ht[1].used adjusted once per bucket, not per entry.
RehashBucketPerBucket(dd, b) ==
    LET chain == dd.ht[0].table[b] IN
    [dd EXCEPT !.ht[1] = [FoldLeft(MoveEntry, @, chain) EXCEPT !.used = dd.ht[1].used + 1],
               !.ht[0].used = @ - 1,
               !.ht[0].table[b] = <<>>,
               !.rehashidx = b + 1]

\* Moves bucket b of ht[0] to ht[1], entry by entry from the chain head.
RehashBucket(dd, b) ==
    LET chain == dd.ht[0].table[b] IN
    [dd EXCEPT !.ht[1] = FoldLeft(MoveEntry, @, chain),
               !.ht[0].used = @ - Len(chain),
               !.ht[0].table[b] = <<>>,
               !.rehashidx = b + 1]

\* dictRehash(d, n): up to n bucket moves; the swap of ht[1] into ht[0]
\* happens at the first iteration that finds ht[0].used = 0.
RECURSIVE dictRehash(_, _)
dictRehash(dd, n) ==
    IF ~dictIsRehashing(dd) THEN [d |-> dd, more |-> FALSE]
    ELSE IF n = 0 THEN [d |-> dd, more |-> TRUE]
    ELSE IF dd.ht[0].used = 0
         THEN [d |-> [dd EXCEPT !.ht[0] = dd.ht[1], !.ht[1] = _dictReset,
                                !.rehashidx = -1],
               more |-> FALSE]
         ELSE dictRehash(RehashBucket(dd, FirstNonEmptyBucket(dd)), n - 1)

\* Mutant: the rehash step ignores d->iterators.
_dictRehashStepUnguarded(dd) == dictRehash(dd, 1).d

\* _dictRehashStep: one step, only when no safe iterator is running.
_dictRehashStep(dd) == IF dd.iterators = 0 THEN dictRehash(dd, 1).d ELSE dd

\* The "if (dictIsRehashing(d)) _dictRehashStep(d)" that opens lookups.
StepIfRehashing(dd) ==
    IF dictIsRehashing(dd) THEN _dictRehashStep(dd) ELSE dd

\* dictRehashMilliseconds: rounds of dictRehash(d,100) until done or until
\* the clock has moved past ms, which may happen after any round.
RECURSIVE RehashRounds(_, _)
RehashRounds(dd, r) ==
    LET x == dictRehash(dd, 100) IN
    IF ~x.more THEN {x.d}
    ELSE {x.d} \cup (IF r > 1 THEN RehashRounds(x.d, r - 1) ELSE {})

dictRehashMilliseconds(dd) == RehashRounds(dd, MaxRehashMsRounds)

-----------------------------------------------------------------------------
(* Lookup, insertion, deletion.                                            *)

\* Mutant: the duplicate search stops after ht[0].
_dictKeyIndexHt0Only(dd, k) ==
    LET e == _dictExpandIfNeeded(dd)
        d1 == e.d
        last == Max(LookupTables(d1))
    IN  IF ~e.ok \/ InTable(d1.ht[0], k)
        THEN [d |-> d1, idx |-> -1]
        ELSE [d |-> d1, idx |-> BucketOf(d1.ht[last], k)]

\* Mutant: the index returned is the one computed in ht[0].
_dictKeyIndexFirstIdx(dd, k) ==
    LET e == _dictExpandIfNeeded(dd)
        d1 == e.d
    IN  IF ~e.ok \/ \E t \in LookupTables(d1) : InTable(d1.ht[t], k)
        THEN [d |-> d1, idx |-> -1]
        ELSE [d |-> d1, idx |-> BucketOf(d1.ht[0], k)]

\* _dictKeyIndex: expands if needed, then -1 if the key is present in a
\* searched table, else its bucket in the last table searched.
_dictKeyIndex(dd, k) ==
    LET e == _dictExpandIfNeeded(dd)
        d1 == e.d
        last == Max(LookupTables(d1))
    IN  IF ~e.ok \/ \E t \in LookupTables(d1) : InTable(d1.ht[t], k)
        THEN [d |-> d1, idx |-> -1]
        ELSE [d |-> d1, idx |-> BucketOf(d1.ht[last], k)]

\* Mutant: new entries always go to ht[0].
dictAddRawHt0(dd, k) ==
    LET d1 == StepIfRehashing(dd)
        ki == _dictKeyIndex(d1, k)
    IN  IF ki.idx = -1
        THEN [d |-> ki.d, ok |-> FALSE]
        ELSE [d |-> [ki.d EXCEPT !.ht[0].table[ki.idx] = <<k>> \o @,
                                 !.ht[0].used = @ + 1],
              ok |-> TRUE]

\* dictAddRaw (and dictAdd): the new entry goes to the head of its bucket
\* in ht[1] while rehashing, else in ht[0].
dictAddRaw(dd, k) ==
    LET d1 == StepIfRehashing(dd)
        ki == _dictKeyIndex(d1, k)
        t == IF dictIsRehashing(ki.d) THEN 1 ELSE 0
    IN  IF ki.idx = -1
        THEN [d |-> ki.d, ok |-> FALSE]
        ELSE [d |-> [ki.d EXCEPT !.ht[t].table[ki.idx] = <<k>> \o @,
                                 !.ht[t].used = @ + 1],
              ok |-> TRUE]

\* Mutant: dictFind does not look into ht[1].
dictFindHt0Only(dd, k) ==
    IF dd.ht[0].size = 0 THEN [d |-> dd, ok |-> FALSE]
    ELSE LET d1 == StepIfRehashing(dd) IN
         [d |-> d1, ok |-> InTable(d1.ht[0], k)]

\* Mutant: the lookup does not take a rehash step.
dictFindNoStep(dd, k) ==
    IF dd.ht[0].size = 0 THEN [d |-> dd, ok |-> FALSE]
    ELSE [d |-> dd, ok |-> \E t \in LookupTables(dd) : InTable(dd.ht[t], k)]

\* dictFind
dictFind(dd, k) ==
    IF dd.ht[0].size = 0 THEN [d |-> dd, ok |-> FALSE]
    ELSE LET d1 == StepIfRehashing(dd) IN
         [d |-> d1, ok |-> \E t \in LookupTables(d1) : InTable(d1.ht[t], k)]

\* dictGenericDelete: unlinks the entry from the first table holding it.
dictGenericDelete(dd, k) ==
    IF dd.ht[0].size = 0 THEN [d |-> dd, ok |-> FALSE]
    ELSE LET d1 == StepIfRehashing(dd)
             holders == {t \in LookupTables(d1) : InTable(d1.ht[t], k)}
         IN  IF holders = {} THEN [d |-> d1, ok |-> FALSE]
             ELSE LET t == Min(holders)
                      b == BucketOf(d1.ht[t], k)
                  IN  [d |-> [d1 EXCEPT !.ht[t].table[b] = RemoveFirst(@, k),
                                        !.ht[t].used = @ - 1],
                       ok |-> TRUE]

-----------------------------------------------------------------------------
(* Iterators.                                                              *)

\* A handle not allocated by dictGetIterator; done records that the caller
\* has seen dictNext return NULL.
NoIterator == [live |-> FALSE, safe |-> FALSE, table |-> 0, index |-> -1,
               entry |-> NULL, nextEntry |-> NULL, done |-> FALSE]

\* dictGetIterator / dictGetSafeIterator
dictGetIterator(safe) == [NoIterator EXCEPT !.live = TRUE, !.safe = safe]

\* The iterator has run its first dictNext (the test of dictReleaseIterator).
Started(i) == ~(i.index = -1 /\ i.table = 0)

\* he->next of the live entry k, found in whichever chain holds it.
EntryNext(dd, k) ==
    LET chains == UNION {Range(dd.ht[t].table) : t \in {0, 1}}
        holding == {c \in chains : Contains(c, k)}
    IN  IF holding = {} THEN NULL
        ELSE LET c == CHOOSE c \in holding : TRUE
                 p == CHOOSE p \in 1..Len(c) : c[p] = k
             IN  IF p < Len(c) THEN c[p + 1] ELSE NULL

ChainHead(c) == IF c = <<>> THEN NULL ELSE Head(c)

\* The while(1) loop of dictNext, one pass per call.  The result is
\* [d, i]; the entry returned is i.entry (NULL at the end).
RECURSIVE NextLoop(_, _), NextSnap(_, _), NextGot(_, _), NextLoopNoSwitch(_, _)
NextGot(dd, i) ==
    IF i.entry # NULL
    THEN [d |-> dd, i |-> [i EXCEPT !.nextEntry = EntryNext(dd, i.entry)]]
    ELSE NextLoop(dd, i)
NextSnap(dd, i) ==
    NextGot(dd, [i EXCEPT !.entry = ChainHead(dd.ht[i.table].table[i.index])])
\* Mutant: at the end of ht[0] the iterator stops, never moving to ht[1].
NextLoopNoSwitch(dd, i) ==
    IF i.entry = NULL
    THEN LET d1 == IF i.safe /\ ~Started(i)
                   THEN [dd EXCEPT !.iterators = @ + 1] ELSE dd
             idx == i.index + 1
         IN  IF idx >= d1.ht[i.table].size
             THEN [d |-> d1, i |-> [i EXCEPT !.index = idx]]
             ELSE NextSnap(d1, [i EXCEPT !.index = idx])
    ELSE NextGot(dd, [i EXCEPT !.entry = i.nextEntry])
NextLoop(dd, i) ==
    IF i.entry = NULL
    THEN LET d1 == IF i.safe /\ ~Started(i)
                   THEN [dd EXCEPT !.iterators = @ + 1] ELSE dd
             idx == i.index + 1
         IN  IF idx >= d1.ht[i.table].size
             THEN IF dictIsRehashing(d1) /\ i.table = 0
                  THEN NextSnap(d1, [i EXCEPT !.table = 1, !.index = 0])
                  ELSE [d |-> d1, i |-> [i EXCEPT !.index = idx]]
             ELSE NextSnap(d1, [i EXCEPT !.index = idx])
    ELSE NextGot(dd, [i EXCEPT !.entry = i.nextEntry])

dictNext(dd, i) == NextLoop(dd, i)

\* Mutant: every safe iterator gives back a count, started or not.
dictReleaseIteratorAnySafe(dd, i) ==
    IF i.safe THEN [dd EXCEPT !.iterators = @ - 1] ELSE dd

\* dictReleaseIterator: a started safe iterator gives back its count.
dictReleaseIterator(dd, i) ==
    IF i.safe /\ Started(i) THEN [dd EXCEPT !.iterators = @ - 1] ELSE dd

-----------------------------------------------------------------------------
(* The public API, one action per call.                                    *)

NoResult == [op |-> "none", key |-> NULL, ok |-> FALSE]

Init ==
    /\ dict = [ht |-> [t \in {0, 1} |-> _dictReset],   \* dictCreate
               rehashidx |-> -1, iterators |-> 0]
    /\ dict_can_resize = TRUE
    /\ seed = DefaultSeed
    /\ it = [i \in Iters |-> NoIterator]
    /\ ret = NoResult
    /\ visits = [i \in Iters |-> [k \in Keys |-> 0]]
    /\ stable = [i \in Iters |-> {}]

\* History bookkeeping of a deletion: k's next insertion is a new entry.
Forget(k) ==
    /\ visits' = [i \in Iters |-> [visits[i] EXCEPT ![k] = 0]]
    /\ stable' = [i \in Iters |-> stable[i] \ {k}]

Answer(op, k, ok) == ret' = [op |-> op, key |-> k, ok |-> ok]

KeyOpUnchanged == UNCHANGED <<dict_can_resize, seed, it, visits, stable>>

\* dictAdd / dictAddRaw
DictAdd(k) ==
    LET r == dictAddRaw(dict, k) IN
    /\ dict' = r.d
    /\ Answer("add", k, r.ok)
    /\ KeyOpUnchanged

\* dictReplace: dictAdd, and on a duplicate dictFind to update the value.
DictReplace(k) ==
    LET a == dictAddRaw(dict, k)
        f == dictFind(a.d, k)
    IN  /\ dict' = IF a.ok THEN a.d ELSE f.d
        /\ Answer("replace", k, a.ok)
        /\ KeyOpUnchanged

\* dictReplaceRaw: dictFind, then dictAddRaw when absent.
DictReplaceRaw(k) ==
    LET f == dictFind(dict, k)
        a == dictAddRaw(f.d, k)
    IN  /\ dict' = IF f.ok THEN f.d ELSE a.d
        /\ Answer("replaceraw", k, f.ok \/ a.ok)
        /\ KeyOpUnchanged

\* dictDelete / dictDeleteNoFree (they differ only in the destructors).
DictDelete(k) ==
    LET r == dictGenericDelete(dict, k) IN
    /\ dict' = r.d
    /\ Answer("delete", k, r.ok)
    /\ IF r.ok THEN Forget(k) ELSE UNCHANGED <<visits, stable>>
    /\ UNCHANGED <<dict_can_resize, seed, it>>

\* dictFind / dictFetchValue
DictFind(k) ==
    LET r == dictFind(dict, k) IN
    /\ dict' = r.d
    /\ Answer("find", k, r.ok)
    /\ KeyOpUnchanged

\* dictGetRandomKey: any entry of a non-empty bucket of the tables in use.
DictGetRandomKey ==
    \/ /\ dictSize(dict) = 0
       /\ Answer("random", NULL, FALSE)
       /\ UNCHANGED dict
       /\ KeyOpUnchanged
    \/ /\ dictSize(dict) # 0
       /\ LET d1 == StepIfRehashing(dict) IN
          \E k \in UNION {Entries(d1.ht[t]) : t \in LookupTables(d1)} :
             /\ dict' = d1
             /\ Answer("random", k, TRUE)
       /\ KeyOpUnchanged

SizingUnchanged == UNCHANGED <<it, ret, visits, stable>>

DictExpand(n) ==
    /\ dict' = dictExpand(dict, n).d
    /\ UNCHANGED <<dict_can_resize, seed>>
    /\ SizingUnchanged

\* dictResize: to max(used, 4) when resizing is allowed and not rehashing.
dictResize(dd) ==
    IF ~dict_can_resize \/ dictIsRehashing(dd) THEN [d |-> dd, ok |-> FALSE]
    ELSE dictExpand(dd, Max({dd.ht[0].used, DICT_HT_INITIAL_SIZE}))

DictResize ==
    /\ dict' = dictResize(dict).d
    /\ UNCHANGED <<dict_can_resize, seed>>
    /\ SizingUnchanged

\* dictRehash(d, n) called directly: it does not consult d->iterators.
DictRehash(n) ==
    /\ dict' = dictRehash(dict, n).d
    /\ UNCHANGED <<dict_can_resize, seed>>
    /\ SizingUnchanged

DictRehashMilliseconds ==
    /\ dict' \in dictRehashMilliseconds(dict)
    /\ UNCHANGED <<dict_can_resize, seed>>
    /\ SizingUnchanged

\* _dictClear: every entry is freed (the keys leave the model with their
\* chains), the table array is freed, then _dictReset.
_dictClear == _dictReset

\* dictEmpty: _dictClear of both tables, rehashidx = -1, iterators = 0.
DictEmpty ==
    /\ dict' = [ht |-> [t \in {0, 1} |-> _dictClear],
                rehashidx |-> -1, iterators |-> 0]
    /\ visits' = [i \in Iters |-> [k \in Keys |-> 0]]
    /\ stable' = [i \in Iters |-> {}]
    /\ UNCHANGED <<dict_can_resize, seed, it, ret>>

DictEnableResize ==
    /\ dict_can_resize' = TRUE
    /\ UNCHANGED <<dict, it, ret, visits, stable, seed>>

DictDisableResize ==
    /\ dict_can_resize' = FALSE
    /\ UNCHANGED <<dict, it, ret, visits, stable, seed>>

\* dictSetHashFunctionSeed: every later hash uses the new seed, including
\* the hashes of keys already stored.
DictSetHashFunctionSeed(sd) ==
    /\ seed' = sd
    /\ UNCHANGED <<dict, dict_can_resize, it, ret, visits, stable>>

DictGetIterator(i, safe) ==
    /\ ~it[i].live
    /\ it' = [it EXCEPT ![i] = dictGetIterator(safe)]
    /\ visits' = [visits EXCEPT ![i] = [k \in Keys |-> 0]]
    /\ stable' = [stable EXCEPT ![i] = {}]
    /\ UNCHANGED <<dict, dict_can_resize, seed, ret>>

\* dictNext; the first call of an iterator fixes the keys it must visit.
DictNext(i) ==
    LET r == dictNext(dict, it[i])
        e == r.i.entry
    IN  /\ it[i].live
        /\ dict' = r.d
        /\ it' = [it EXCEPT ![i] = [r.i EXCEPT !.done = (e = NULL)]]
        /\ visits' = IF e = NULL THEN visits
                     ELSE [visits EXCEPT ![i][e] = @ + 1]
        /\ stable' = IF Started(it[i]) THEN stable
                     ELSE [stable EXCEPT ![i] = DictKeys(dict)]
        /\ UNCHANGED <<dict_can_resize, seed, ret>>

DictReleaseIterator(i) ==
    /\ it[i].live
    /\ dict' = dictReleaseIterator(dict, it[i])
    /\ it' = [it EXCEPT ![i] = NoIterator]
    /\ UNCHANGED <<dict_can_resize, seed, ret, visits, stable>>

\* Key operations and every other call, for hosts that restrict the calls
\* they make (see MCDict).
KeyOps(k) ==
    \/ DictAdd(k) \/ DictReplace(k) \/ DictReplaceRaw(k) \/ DictFind(k)

Next ==
    \/ \E k \in Keys : KeyOps(k) \/ DictDelete(k)
    \/ DictGetRandomKey
    \/ \E n \in ExpandSizes : DictExpand(n)
    \/ DictResize
    \/ \E n \in RehashSteps : DictRehash(n)
    \/ DictRehashMilliseconds
    \/ DictEmpty
    \/ DictEnableResize \/ DictDisableResize
    \/ \E sd \in Seeds : DictSetHashFunctionSeed(sd)
    \/ \E i \in Iters : \/ \E safe \in BOOLEAN : DictGetIterator(i, safe)
                        \/ DictNext(i)
                        \/ DictReleaseIterator(i)

Spec == Init /\ [][Next]_vars

-----------------------------------------------------------------------------
(* Properties.                                                             *)

Chain == Seq(Keys)

\* No table, or a power of two from DICT_HT_INITIAL_SIZE up (sizemask is
\* size - 1, so h & sizemask is a bucket only for these sizes).
TableSizes == {0} \cup {2^i : i \in 2..16}

TypeOK ==
    /\ dict.rehashidx \in Int /\ dict.iterators \in Int
    /\ \A t \in {0, 1} : /\ dict.ht[t].size \in TableSizes
                         /\ DOMAIN dict.ht[t].table = 0..(dict.ht[t].size - 1)
                         /\ \A b \in DOMAIN dict.ht[t].table :
                                dict.ht[t].table[b] \in Chain
    /\ dict_can_resize \in BOOLEAN
    /\ seed \in Seeds
    /\ \A i \in Iters : /\ it[i].table \in {0, 1} /\ it[i].index \in Int
                        /\ {it[i].entry, it[i].nextEntry} \subseteq Keys \cup {NULL}
                        /\ {it[i].live, it[i].safe, it[i].done} \subseteq BOOLEAN
    /\ ret.key \in Keys \cup {NULL} /\ ret.ok \in BOOLEAN
    /\ visits \in [Iters -> [Keys -> Nat]]
    /\ stable \in [Iters -> SUBSET Keys]

\* Entries stored in a sub-table, counting repeats.
Occupancy(t) == SumFunction([b \in DOMAIN t.table |-> Len(t.table[b])])

(* No key is stored twice across ht[0] and ht[1]: dictAddRaw relies on    *)
(* _dictKeyIndex searching both tables while a rehash is in progress.      *)
KeysUnique ==
    Occupancy(dict.ht[0]) + Occupancy(dict.ht[1]) = Cardinality(DictKeys(dict))

(* ht[t].used, maintained by ++/-- in add, delete and every rehash move,   *)
(* equals the number of entries the table really holds.                    *)
UsedCounts == \A t \in {0, 1} : dict.ht[t].used = Occupancy(dict.ht[t])

(* Every entry sits in bucket hash & sizemask of the table holding it, so  *)
(* dictFind and dictDelete reach it; both during and after a rehash.       *)
BucketPlacement ==
    \A t \in {0, 1} : \A b \in DOMAIN dict.ht[t].table :
        \A k \in ToSet(dict.ht[t].table[b]) : BucketOf(dict.ht[t], k) = b

(* rehashidx is -1 exactly when ht[1] is unallocated, and while rehashing  *)
(* every bucket of ht[0] below rehashidx has been emptied: the skip loop   *)
(* and assert(ht[0].size > rehashidx) of dictRehash never run off ht[0].   *)
RehashFrontier ==
    /\ (dict.rehashidx = -1) <=> (dict.ht[1].size = 0)
    /\ dictIsRehashing(dict) =>
          /\ dict.rehashidx \in 0..dict.ht[0].size
          /\ \A b \in 0..(dict.rehashidx - 1) : dict.ht[0].table[b] = <<>>

(* d->iterators counts the safe iterators that have run dictNext and are   *)
(* not yet released: the count _dictRehashStep trusts to freeze buckets.   *)
IteratorCount ==
    dict.iterators = Cardinality({i \in Iters : it[i].live /\ it[i].safe
                                                /\ Started(it[i])})

(* An iterator never returns the same entry twice.                         *)
IterNoDuplicate == \A i \in Iters : \A k \in Keys : visits[i][k] <= 1

(* An iterator that has returned NULL has returned every entry present     *)
(* from its first dictNext to its end.                                     *)
IterComplete ==
    \A i \in Iters : it[i].live /\ it[i].done =>
        \A k \in stable[i] : visits[i][k] = 1

(* The nextEntry a started iterator cached is still a live entry, so the   *)
(* next dictNext does not read freed memory.                               *)
IterNoDangling ==
    \A i \in Iters : it[i].live /\ it[i].entry # NULL /\ it[i].nextEntry # NULL
        => it[i].nextEntry \in DictKeys(dict)


(* A rehash that has started ends: dict.c 338-340 promises that the table *)
(* "automatically migrates from H1 to H2 while it is actively used", one  *)
(* bucket per lookup made while d->iterators is 0 (_dictRehashStep).      *)
RehashCompletes == dictIsRehashing(dict) ~> ~dictIsRehashing(dict)

=============================================================================
