-------------------------------- MODULE Hash --------------------------------
(***************************************************************************)
(* The hash table of hash.c as it lies in memory: an array of buckets,     *)
(* each the head of a doubly linked chain of nodes.  A node is a record at *)
(* an address; memory that was freed holds a key that nobody asks for.     *)
(***************************************************************************)
EXTENDS Integers

CONSTANTS
    Keys, Values,
    Buckets,       \* number of buckets
    HashFunc,      \* the hash function of the table's owner
    Addresses      \* bound: the addresses malloc can return

CONSTANTS Null, Garbage

\* The hash functions of the listener take the remainder by the number of buckets.
ASSUME HashAssumption ==
    /\ Buckets \in Nat \ {0}
    /\ HashFunc \in [Keys -> 0..Buckets - 1]
    /\ Null \notin Addresses /\ Garbage \notin Keys

VARIABLES
    heap,          \* what is stored at an address
    p_nodes        \* the head of the chain of each bucket

hvars == <<heap, p_nodes>>

Freed == [key |-> Garbage, value |-> Garbage, prev |-> Null, next |-> Null]
InUse == {a \in Addresses : heap[a].key # Garbage}

\* hash_alloc
HInit ==
    /\ heap = [a \in Addresses |-> Freed]
    /\ p_nodes = [b \in 0..Buckets - 1 |-> Null]

-----------------------------------------------------------------------------
\* hash_get_bucket: "bad bucket lookup" if the hash function is out of range.
Bucket(k) == HashFunc[k]

\* hash_get_node_by_key: down the chain until the key is found or the chain ends.
NodeByKey(k) ==
    LET Walk[a \in Addresses \cup {Null}] ==
            IF a = Null \/ heap[a].key = k THEN a ELSE Walk[heap[a].next]
    IN  Walk[p_nodes[Bucket(k)]]

\* hash_lookup_entry
LookupEntry(k) == IF NodeByKey(k) = Null THEN Null ELSE heap[NodeByKey(k)].value

\* Mutant: the old head is not told of the node before it.
AddEntryNoBackLink(k, v) ==
    /\ NodeByKey(k) = Null
    /\ \E a \in Addresses \ InUse :
           /\ heap' = [heap EXCEPT ![a] =
                  [key |-> k, value |-> v, prev |-> Null, next |-> p_nodes[Bucket(k)]]]
           /\ p_nodes' = [p_nodes EXCEPT ![Bucket(k)] = a]

\* hash_add_entry: "duplicate hash key" if the key is there; the new node becomes
\* the head of its chain.
AddEntry(k, v) ==
    /\ NodeByKey(k) = Null
    /\ \E a \in Addresses \ InUse : LET head == p_nodes[Bucket(k)] IN
           /\ heap' = [c \in Addresses |->
                  IF c = a THEN [key |-> k, value |-> v, prev |-> Null, next |-> head]
                  ELSE IF c = head THEN [heap[c] EXCEPT !.prev = a] ELSE heap[c]]
           /\ p_nodes' = [p_nodes EXCEPT ![Bucket(k)] = a]

\* The owner changes a value through the pointer that hash_lookup_entry returned
\* (handle_ip_count and drop_ip_count of the listener).
ChangeValue(k, v) ==
    /\ NodeByKey(k) # Null
    /\ heap' = [heap EXCEPT ![NodeByKey(k)].value = v]
    /\ UNCHANGED p_nodes

\* hash_free_entry: "hash node not found" if there is none; the neighbours, or the
\* bucket, are linked past the node.
FreeEntry(k) ==
    LET a == NodeByKey(k) n == heap[a] IN
    /\ a # Null
    /\ heap' = [c \in Addresses |->
           IF c = a THEN Freed
           ELSE IF c = n.prev THEN [heap[c] EXCEPT !.next = n.next]
           ELSE IF c = n.next THEN [heap[c] EXCEPT !.prev = n.prev]
           ELSE heap[c]]
    /\ p_nodes' = IF n.prev # Null THEN p_nodes
                  ELSE [p_nodes EXCEPT ![Bucket(k)] = n.next]

HNext ==
    \E k \in Keys :
        \/ FreeEntry(k)
        \/ \E v \in Values : AddEntry(k, v) \/ ChangeValue(k, v)

HSpec == HInit /\ [][HNext]_hvars

-----------------------------------------------------------------------------
Lookups == [k \in {j \in Keys : NodeByKey(j) # Null} |-> LookupEntry(k)]

Table == INSTANCE Map WITH map <- Lookups

\* What hash_lookup_entry answers for all keys is a map: hash_add_entry and
\* hash_free_entry change the answer for their own key only, whichever keys share
\* its chain, and wherever in the chain the key is.  No node is lost when its
\* neighbour goes: the entry of a living process or of a connected address must
\* be found when the listener needs it.
HashIsAMap == Table!Spec
=============================================================================
