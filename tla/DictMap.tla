------------------------------- MODULE DictMap ------------------------------
(***************************************************************************)
(* What a dictionary promises its callers, without tables or rehashing:    *)
(* a set of keys, and the result each key operation reports.  Dict         *)
(* implements it under the mapping keys <- the keys stored in ht[0] and    *)
(* ht[1] (see MCDictRefine).  Iterators, sizing and rehashing calls are    *)
(* stuttering steps of this specification.                                 *)
(***************************************************************************)
CONSTANTS Keys, NULL

VARIABLES keys, ret

Init ==
    /\ keys = {}
    /\ ret = [op |-> "none", key |-> NULL, ok |-> FALSE]

Reply(op, k, ok) == ret' = [op |-> op, key |-> k, ok |-> ok]

\* dictAdd fails on a present key.
Add(k) == /\ Reply("add", k, k \notin keys)
          /\ keys' = keys \cup {k}

\* dictReplace reports whether the key was new.
Replace(k) == /\ Reply("replace", k, k \notin keys)
              /\ keys' = keys \cup {k}

\* dictReplaceRaw always hands back an entry for the key.
ReplaceRaw(k) == /\ Reply("replaceraw", k, TRUE)
                 /\ keys' = keys \cup {k}

\* dictDelete fails on a missing key.
Delete(k) == /\ Reply("delete", k, k \in keys)
             /\ keys' = keys \ {k}

Find(k) == /\ Reply("find", k, k \in keys)
           /\ UNCHANGED keys

\* dictGetRandomKey: some present key, NULL when there is none.
RandomKey == /\ \/ keys = {} /\ Reply("random", NULL, FALSE)
                \/ \E k \in keys : Reply("random", k, TRUE)
             /\ UNCHANGED keys

Clear == /\ keys' = {}
         /\ UNCHANGED ret

Next ==
    \/ \E k \in Keys : Add(k) \/ Replace(k) \/ ReplaceRaw(k) \/ Delete(k)
                       \/ Find(k)
    \/ RandomKey
    \/ Clear

Spec == Init /\ [][Next]_<<keys, ret>>

=============================================================================
