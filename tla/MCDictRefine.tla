---------------------------- MODULE MCDictRefine ----------------------------
(***************************************************************************)
(* Dict refines DictMap: every behaviour of the hash table under the host  *)
(* of MCDict, with its incremental rehashing and resizing, is a behaviour  *)
(* of a plain set of keys that reports the same results.                   *)
(***************************************************************************)
EXTENDS MCDict

H == INSTANCE DictHash

\* The keys are the sds strings "k1" .. "k5"; seed S1 is the default 5381
\* and S2 is 0, the two values dictSetHashFunctionSeed leaves in practice.
KeyBytes == K1 :> <<107, 49>> @@ K2 :> <<107, 50>> @@ K3 :> <<107, 51>>
            @@ K4 :> <<107, 52>> @@ K5 :> <<107, 53>>
SeedValue == S1 :> H!DefaultHashSeed @@ S2 :> H!U32(0)

\* The hash dict.c computes for each key under each seed.  Its low half
\* alone decides the bucket: h & sizemask for the sizes (<= 2^16) reached.
\* The cfg gives Dict the table MurmurLow5, whose values the ASSUME below
\* checks against dictGenHashFunction once, before the search.
MurmurHash5 ==
    [s \in MCSeeds2 |-> [k \in MCKeys5 |-> H!dictGenHashFunction(KeyBytes[k], SeedValue[s])[2]]]

MurmurLow5 ==
    S1 :> (K1 :> 21396 @@ K2 :> 39026 @@ K3 :> 44561 @@ K4 :> 40946 @@ K5 :> 54053)
    @@ S2 :> (K1 :> 53286 @@ K2 :> 53209 @@ K3 :> 13813 @@ K4 :> 55518 @@ K5 :> 40201)

ASSUME MurmurLow5 = MurmurHash5

Abstract == INSTANCE DictMap WITH keys <- DictKeys(dict)

(* Each call reports what a set of keys would report, and changes the set  *)
(* as the set would change: lookups during a rehash see both tables.       *)
DictRefinement == Abstract!Spec

\* The sizing counts of the tables, for DictSizing.
Sizing == INSTANCE DictSizing
    WITH ht <- [t \in {0, 1} |-> [size |-> dict.ht[t].size, used |-> dict.ht[t].used]],
         rehashing <- dictIsRehashing(dict),
         MaxUsed <- Cardinality(Keys)

(* Every call changes the size and used fields of the two tables, and      *)
(* starts and ends rehashes, as DictSizing allows: the count-level model,  *)
(* where the forced resize is checked with 25 entries, is an abstraction   *)
(* of the hash table with its chains.                                      *)
SizingRefinement == Sizing!Spec

=============================================================================
