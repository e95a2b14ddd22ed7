-------------------------------- MODULE Map --------------------------------
(***************************************************************************)
(* What a hash table promises: a partial function from keys to values that *)
(* changes at one key at a time.  The listener (Standalone) keeps its      *)
(* processes and its counts per address in two of these.                   *)
(***************************************************************************)
CONSTANTS Keys, Values

VARIABLE map

Init == map = [k \in {} |-> 0]

Add(k, v) == k \notin DOMAIN map /\ map' = [j \in DOMAIN map \cup {k} |-> IF j = k THEN v ELSE map[j]]
Set(k, v) == k \in DOMAIN map /\ map' = [map EXCEPT ![k] = v]
Remove(k) == k \in DOMAIN map /\ map' = [j \in DOMAIN map \ {k} |-> map[j]]

Next ==
    \E k \in Keys :
        \/ Remove(k)
        \/ \E v \in Values : Add(k, v) \/ Set(k, v)

Spec == Init /\ [][Next]_map
=============================================================================
