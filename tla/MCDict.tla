------------------------------- MODULE MCDict -------------------------------
(***************************************************************************)
(* Model checking of Dict for a host that obeys the iterator rules of      *)
(* dict.h: while an unsafe iterator is walking, only dictNext and iterator *)
(* calls are made; while a safe iterator is walking, the dictionary is not *)
(* not rehashed by direct calls and the entry the iterator will return     *)
(* next is not deleted (its current entry may be); and until it is         *)
(* released, the dictionary is not emptied.                                *)
(***************************************************************************)
EXTENDS Dict, TLC

CONSTANTS K1, K2, K3, K4, K5, I1, I2, S1, S2

\* Hashes chosen so that chains of two and three keys form at size 4 and
\* split differently at size 8 and 16.
\* Under the second seed S2 every key hashes elsewhere.
MCHash == K1 :> 0 @@ K2 :> 4 @@ K3 :> 12 @@ K4 :> 1 @@ K5 :> 5
MCHashS2 == K1 :> 1 @@ K2 :> 0 @@ K3 :> 2 @@ K4 :> 3 @@ K5 :> 8

MCSeeds1 == {S1}
MCSeeds2 == {S1, S2}
MCKeys1 == {K1}
MCKeys4 == {K1, K2, K3, K4}
MCKeys5 == {K1, K2, K3, K4, K5}
MCHash1 == S1 :> Restrict(MCHash, MCKeys1)
MCHash4 == S1 :> Restrict(MCHash, MCKeys4)
MCHash5 == S1 :> MCHash @@ S2 :> MCHashS2
MCIters1 == {I1}
MCIters2 == {I1, I2}

Walking(i) == it[i].live /\ Started(it[i]) /\ ~it[i].done

SafeWalking == {i \in Iters : Walking(i) /\ it[i].safe}
\* Safe iterators counted in d->iterators (started, not yet released).
SafeHeld == {i \in Iters : it[i].live /\ it[i].safe /\ Started(it[i])}
UnsafeWalking == {i \in Iters : Walking(i) /\ ~it[i].safe}

\* Entries some walking iterator has cached as its next one.
CachedNext == {it[i].nextEntry : i \in {j \in Iters : Walking(j) /\ it[j].entry # NULL}}

IteratorCalls ==
    \E i \in Iters : \/ \E safe \in BOOLEAN : DictGetIterator(i, safe)
                     \/ ~it[i].done /\ DictNext(i)
                     \/ DictReleaseIterator(i)

\* The dictionary calls a host makes; the arguments say which of them it
\* makes while iterators are out: the keys it may delete, whether it calls
\* dictRehash / dictRehashMilliseconds and whether it calls dictEmpty.  It
\* sets the hash seed only while the dictionary holds no key.
TableCallsWhen(deletable, rehashing, emptying) ==
    \/ \E k \in Keys : KeyOps(k)
    \/ \E k \in deletable : DictDelete(k)
    \/ DictGetRandomKey
    \/ \E n \in ExpandSizes : DictExpand(n)
    \/ DictResize
    \/ DictEnableResize \/ DictDisableResize
    \/ rehashing /\ \/ \E n \in RehashSteps : DictRehash(n)
                    \/ DictRehashMilliseconds
    \/ emptying /\ DictEmpty
    \/ DictKeys(dict) = {} /\ \E sd \in Seeds : DictSetHashFunctionSeed(sd)

HostNext ==
    \/ IteratorCalls
    \/ /\ UnsafeWalking = {}
       /\ TableCallsWhen(Keys \ CachedNext, SafeWalking = {}, SafeHeld = {})

HostSpec == Init /\ [][HostNext]_vars

(***************************************************************************)
(* Hosts that each break one rule, for the calls dict.h or the design      *)
(* allows during iteration.                                                *)
(***************************************************************************)

\* dict.h: with a safe iterator "you can call dictAdd, dictFind, and other
\* functions against the dictionary even while iterating".
DeleteAnyNext ==
    \/ IteratorCalls
    \/ /\ UnsafeWalking = {}
       /\ TableCallsWhen(Keys, SafeWalking = {}, SafeHeld = {})

\* dictRehash and dictRehashMilliseconds are public and do not consult
\* d->iterators.
RehashAnyNext ==
    \/ IteratorCalls
    \/ /\ UnsafeWalking = {}
       /\ TableCallsWhen(Keys \ CachedNext, TRUE, SafeHeld = {})

\* dictEmpty between the last dictNext and dictReleaseIterator.
EmptyAnyNext ==
    \/ IteratorCalls
    \/ /\ UnsafeWalking = {}
       /\ TableCallsWhen(Keys \ CachedNext, SafeWalking = {}, SafeWalking = {})

DeleteAnySpec == Init /\ [][DeleteAnyNext]_vars
RehashAnySpec == Init /\ [][RehashAnyNext]_vars
EmptyAnySpec == Init /\ [][EmptyAnyNext]_vars

\* No action reads ret, so states that differ only in ret have the same
\* futures; runs whose properties do not mention ret fingerprint without it.
StateView == <<dict, dict_can_resize, seed, it, visits, stable>>

(***************************************************************************)
(* Fairness for RehashCompletes.  The library only promises progress      *)
(* while the table is "actively used" (dict.c 338-340), so the host is    *)
(* assumed to (1) release every iterator it gets (dict.h), and (2) keep    *)
(* making lookups at moments when it holds no safe iterator; these are     *)
(* intermittently possible, so (2) is strong fairness.  Nothing else, and  *)
(* no direct dictRehash call, is assumed to happen.                        *)
(***************************************************************************)
IdleLookup == SafeHeld = {} /\ UnsafeWalking = {} /\ \E k \in Keys : DictFind(k)

HostFairness == /\ \A i \in Iters : WF_vars(DictReleaseIterator(i))
                /\ SF_vars(IdleLookup)

FairHostSpec == HostSpec /\ HostFairness
FairEmptyAnySpec == EmptyAnySpec /\ HostFairness

=============================================================================
