-------------------------- MODULE StandaloneProofs --------------------------
(***************************************************************************)
(* Proofs about the listener (module Standalone) for any set of addresses, *)
(* any finite set of process ids and any config files.                     *)
(*                                                                         *)
(* The counters are only right together with what the listener remembers   *)
(* of every child, so the inductive invariant relates the two hashes, the  *)
(* processes and the counters the children inherited.                      *)
(*                                                                         *)
(* Then about the hash tables it keeps them in: hash.c (module Hash)       *)
(* implements a map (module Map), for any keys, any hash function, any     *)
(* number of buckets and any memory.  What hash_get_node_by_key returns is *)
(* the result of a walk along pointers.  The invariant gives every node a  *)
(* rank that falls along the chain and rises to its head, so that a walk   *)
(* can be followed by induction: a set of nodes where it goes wrong would  *)
(* have one of the least rank.                                             *)
(***************************************************************************)
EXTENDS Standalone, Hash, FiniteSetTheorems, WellFoundedInduction, TLAPS

\* What the listener remembers of every child: everything it needs to reap it,
\* except for the child whose fork() has just returned.
Remembered ==
    /\ pc # "dead"
    /\ pc \in {"fork", "parent"} => conn \in Addrs
    /\ pc = "parent" => /\ new_child \in Pids
                        /\ child[new_child] # "free"
                        /\ pid_ip[new_child] = None
                        /\ info[new_child].addr = conn
    /\ \A p \in Pids :
         /\ child[p] = "free" => pid_ip[p] = None
         /\ child[p] # "free" =>
              /\ info[p] \in Info
              /\ (pc = "parent" /\ p = new_child) \/ pid_ip[p] = info[p].addr
         /\ child[p] = "session" => ~OverLimit(info[p])

RankedUpTo(n) == {p \in Unreaped : info[p].num_clients <= n}
RankedAtUpTo(a, n) ==
    {p \in Unreaped : info[p].addr = a /\ info[p].num_this_ip <= n}

\* No more than n unreaped children inherited a counter of at most n: the
\* counters the children compare with their limits are never too small.
Ranked ==
    /\ \A n \in Nat : Cardinality(RankedUpTo(n)) <= n
    /\ \A a \in Addrs, n \in Nat : Cardinality(RankedAtUpTo(a, n)) <= n

IInv == TypeOK /\ NeverBug /\ Remembered /\ CountersMatchProcesses /\ Ranked

-----------------------------------------------------------------------------
\* Sets of processes are finite and gain or lose one by one.
LEMMA CardPids ==
    ASSUME NEW S \in SUBSET Pids, NEW p \in Pids
    PROVE  /\ Cardinality(S) \in Nat
           /\ p \notin S => Cardinality(S \cup {p}) = Cardinality(S) + 1
           /\ p \in S => /\ Cardinality(S \ {p}) = Cardinality(S) - 1
                         /\ Cardinality(S) >= 1
           /\ \A T \in SUBSET S : Cardinality(T) <= Cardinality(S)
<1>1. IsFiniteSet(S) /\ Cardinality(S) \in Nat
  BY PidsFinite, FS_Subset, FS_CardinalityType
<1>2. p \in S => Cardinality(S) # 0
  BY <1>1, FS_EmptySet
<1>3. \A T \in SUBSET S : Cardinality(T) <= Cardinality(S)
  BY <1>1, FS_Subset
<1>4. p \notin S => Cardinality(S \cup {p}) = Cardinality(S) + 1
  BY <1>1, FS_AddElement
<1>5. p \in S => Cardinality(S \ {p}) = Cardinality(S) - 1
  BY <1>1, FS_RemoveElement
<1> QED
  BY <1>1, <1>2, <1>3, <1>4, <1>5

\* A step that neither creates nor reaps a child leaves every set of processes
\* the invariant counts as it is.
LEMMA SameProcesses ==
    ASSUME \A p \in Pids : child'[p] = "free" <=> child[p] = "free",
           info' = info
    PROVE  /\ Unreaped' = Unreaped
           /\ \A a : AtAddr(a)' = AtAddr(a)
           /\ \A n : RankedUpTo(n)' = RankedUpTo(n)
           /\ \A a, n : RankedAtUpTo(a, n)' = RankedAtUpTo(a, n)
<1>1. Unreaped' = Unreaped
  BY DEF Unreaped
<1> QED
  BY <1>1 DEF AtAddr, RankedUpTo, RankedAtUpTo
\* The steps that leave the counters alone and create or reap no child.
Quiet ==
    \/ AcceptBlocks \/ CheckHup \/ HandleSighup \/ CheckChld \/ ClearChld
    \/ ReapDone \/ AcceptFailed \/ HashAddEntry
    \/ (\E a \in Addrs : AcceptReturns(a)) \/ SigHup \/ AlarmFires
    \/ (\E p \in Pids : CheckLimits(p) \/ ChildExits(p))
    \/ UNCHANGED listenervars

\* What every such step has in common.
LEMMA QuietFrame ==
    ASSUME TypeOK, Quiet
    PROVE  /\ s_children' = s_children /\ ip_count' = ip_count /\ info' = info
           /\ \A p \in Pids : child'[p] = "free" <=> child[p] = "free"
           /\ pc' = "fork" <=> pc = "fork"
           /\ pc = "fork" => conn' = conn
<1> USE DEF TypeOK, Interrupt, Goto, listener, signals
<1>1. CASE AcceptBlocks BY <1>1 DEF AcceptBlocks
<1>2. CASE CheckHup BY <1>2 DEF CheckHup
<1>3. CASE HandleSighup BY <1>3 DEF HandleSighup
<1>4. CASE CheckChld BY <1>4 DEF CheckChld
<1>5. CASE ClearChld BY <1>5 DEF ClearChld
<1>6. CASE ReapDone BY <1>6 DEF ReapDone
<1>7. CASE AcceptFailed BY <1>7 DEF AcceptFailed
<1>8. CASE HashAddEntry BY <1>8 DEF HashAddEntry
<1>9. CASE \E a \in Addrs : AcceptReturns(a) BY <1>9 DEF AcceptReturns
<1>10. CASE SigHup BY <1>10 DEF SigHup
<1>11. CASE AlarmFires BY <1>11 DEF AlarmFires
<1>12. CASE \E p \in Pids : CheckLimits(p) BY <1>12 DEF CheckLimits
<1>13. CASE \E p \in Pids : ChildExits(p) BY <1>13 DEF ChildExits
<1>14. CASE UNCHANGED listenervars BY <1>14 DEF listenervars
<1> QED
  BY <1>1, <1>2, <1>3, <1>4, <1>5, <1>6, <1>7, <1>8, <1>9, <1>10, <1>11, <1>12,
     <1>13, <1>14 DEF Quiet

\* So a quiet step keeps the counters right.
LEMMA QuietCounters ==
    ASSUME IInv, Quiet
    PROVE  CountersMatchProcesses' /\ Ranked'
<1>1. /\ s_children' = s_children /\ ip_count' = ip_count /\ info' = info
      /\ \A p \in Pids : child'[p] = "free" <=> child[p] = "free"
      /\ pc' = "fork" <=> pc = "fork"
      /\ pc = "fork" => conn' = conn
  BY QuietFrame DEF IInv
<1>2. /\ Unreaped' = Unreaped
      /\ \A a : AtAddr(a)' = AtAddr(a)
      /\ \A n : RankedUpTo(n)' = RankedUpTo(n)
      /\ \A a, n : RankedAtUpTo(a, n)' = RankedAtUpTo(a, n)
  BY <1>1, SameProcesses
<1>3. CountedButNotForked' = CountedButNotForked
  BY <1>1 DEF CountedButNotForked
<1>4. \A a : NumAt(a)' = NumAt(a)
  BY <1>1, <1>2, <1>3 DEF NumAt, CountedButNotForked
<1>5. CountersMatchProcesses'
  BY <1>1, <1>2, <1>3, <1>4 DEF CountersMatchProcesses, IInv
<1>6. Ranked'
  BY <1>2 DEF Ranked, IInv
<1> QED
  BY <1>5, <1>6
-----------------------------------------------------------------------------
(* The four steps that change the counters or the set of children.         *)

\* The counter of an address, as a number, is NumAt.
LEMMA CountOf ==
    ASSUME IInv, NEW a \in Addrs
    PROVE  /\ AtAddr(a) \in SUBSET Pids
           /\ Cardinality(AtAddr(a)) \in Nat /\ NumAt(a) \in Nat
           /\ NumAt(a) = 0 => ip_count[a] = NoEntry
           /\ NumAt(a) # 0 => ip_count[a] = NumAt(a)
<1>1. AtAddr(a) \in SUBSET Pids
  BY DEF AtAddr, Unreaped
<1>2. Cardinality(AtAddr(a)) \in Nat
  BY <1>1, PidsFinite, FS_Subset, FS_CardinalityType
<1>3. NumAt(a) \in Nat
  BY <1>2 DEF NumAt, CountedButNotForked
<1> QED
  BY <1>1, <1>2, <1>3 DEF IInv, CountersMatchProcesses

\* Counting a connection: one more counted and not forked.
LEMMA CountConnectionCounters ==
    ASSUME IInv, CountConnection
    PROVE  CountersMatchProcesses' /\ Ranked'
<1>1. /\ pc = "accepted" /\ pc' = "fork" /\ conn \in Addrs /\ conn' = conn
      /\ s_children' = s_children + 1
      /\ ip_count' = [ip_count EXCEPT ![conn] = HandleIpCount(conn)]
      /\ child' = child /\ info' = info
  BY DEF CountConnection, Goto, IInv, TypeOK
<1>2. /\ Unreaped' = Unreaped
      /\ \A a : AtAddr(a)' = AtAddr(a)
      /\ \A n : RankedUpTo(n)' = RankedUpTo(n)
      /\ \A a, n : RankedAtUpTo(a, n)' = RankedAtUpTo(a, n)
  BY <1>1, SameProcesses
<1>3. CountedButNotForked = 0 /\ CountedButNotForked' = 1
  BY <1>1 DEF CountedButNotForked
<1>4. \A a \in Addrs : /\ NumAt(a) \in Nat
                       /\ NumAt(a)' = IF a = conn THEN NumAt(a) + 1 ELSE NumAt(a)
  <2> SUFFICES ASSUME NEW a \in Addrs
               PROVE  /\ NumAt(a) \in Nat
                      /\ NumAt(a)' = IF a = conn THEN NumAt(a) + 1 ELSE NumAt(a)
    OBVIOUS
  <2>1. Cardinality(AtAddr(a)) \in Nat /\ NumAt(a) \in Nat
    BY CountOf
  <2> QED
    BY <2>1, <1>1, <1>2, <1>3 DEF NumAt
<1>5. ip_count'[conn] = NumAt(conn) + 1
  <2>1. ip_count'[conn] = HandleIpCount(conn)
    BY <1>1 DEF IInv, TypeOK
  <2>2. /\ NumAt(conn) \in Nat
        /\ NumAt(conn) = 0 => ip_count[conn] = NoEntry
        /\ NumAt(conn) # 0 => ip_count[conn] = NumAt(conn)
    BY <1>1, CountOf
  <2> QED
    BY <2>1, <2>2 DEF HandleIpCount, NoEntry
<1>6. \A a \in Addrs : ip_count'[a] = IF NumAt(a)' = 0 THEN NoEntry ELSE NumAt(a)'
  BY <1>1, <1>4, <1>5 DEF IInv, TypeOK, CountersMatchProcesses
<1>7. s_children' = Cardinality(Unreaped') + CountedButNotForked'
  <2>1. Cardinality(Unreaped) \in Nat
    BY PidsFinite, FS_Subset, FS_CardinalityType DEF Unreaped
  <2> QED
    BY <2>1, <1>1, <1>2, <1>3 DEF IInv, CountersMatchProcesses
<1>8. Ranked'
  BY <1>2 DEF IInv, Ranked
<1> QED
  BY <1>6, <1>7, <1>8 DEF CountersMatchProcesses

\* A failed fork() takes the count back and finds a positive counter.
LEMMA ForkFailedCounters ==
    ASSUME IInv, ForkFailed
    PROVE  CountersMatchProcesses' /\ Ranked' /\ NeverBug' /\ TypeOK'
<1>1. /\ pc = "fork" /\ pc' = "loop" /\ conn \in Addrs /\ conn' = None
      /\ s_children' = s_children - 1
      /\ ip_count' = [ip_count EXCEPT ![conn] = IF @ = 1 THEN NoEntry ELSE @ - 1]
      /\ child' = child /\ info' = info /\ bug' = DropIsBug(conn)
  BY DEF ForkFailed, Goto, IInv, Remembered, DropIpCount
<1>2. /\ Unreaped' = Unreaped
      /\ \A a : AtAddr(a)' = AtAddr(a)
      /\ \A n : RankedUpTo(n)' = RankedUpTo(n)
      /\ \A a, n : RankedAtUpTo(a, n)' = RankedAtUpTo(a, n)
  BY <1>1, SameProcesses
<1>3. CountedButNotForked = 1 /\ CountedButNotForked' = 0
  BY <1>1 DEF CountedButNotForked
<1>4. \A a \in Addrs : /\ NumAt(a) \in Nat /\ NumAt(a)' \in Nat
                       /\ NumAt(a) = IF a = conn THEN NumAt(a)' + 1 ELSE NumAt(a)'
  <2> SUFFICES ASSUME NEW a \in Addrs
               PROVE  /\ NumAt(a) \in Nat /\ NumAt(a)' \in Nat
                      /\ NumAt(a) = IF a = conn THEN NumAt(a)' + 1 ELSE NumAt(a)'
    OBVIOUS
  <2>1. Cardinality(AtAddr(a)) \in Nat /\ NumAt(a) \in Nat
    BY CountOf
  <2>2. a # None
    BY NoneIsNew
  <2> QED
    BY <2>1, <2>2, <1>1, <1>2, <1>3 DEF NumAt
<1>5. ip_count[conn] = NumAt(conn) /\ NumAt(conn) >= 1
  BY <1>1, <1>4, CountOf
<1>6. \A a \in Addrs : ip_count'[a] = IF NumAt(a)' = 0 THEN NoEntry ELSE NumAt(a)'
  BY <1>1, <1>4, <1>5 DEF IInv, TypeOK, CountersMatchProcesses, NoEntry
<1>7. /\ s_children' = Cardinality(Unreaped') + CountedButNotForked'
      /\ s_children' \in Nat
  <2>1. Cardinality(Unreaped) \in Nat
    BY PidsFinite, FS_Subset, FS_CardinalityType DEF Unreaped
  <2> QED
    BY <2>1, <1>1, <1>2, <1>3 DEF IInv, CountersMatchProcesses
<1>8. Ranked'
  BY <1>2 DEF IInv, Ranked
<1>9. NeverBug'
  <2>1. ~DropIsBug(conn)
    BY <1>1, <1>4, <1>5, NoneIsNew DEF DropIsBug, NoEntry
  <2> QED
    BY <2>1, <1>1 DEF NeverBug
<1>10. ip_count' \in [Addrs -> Nat \cup {NoEntry}]
  BY <1>1, <1>4, <1>5 DEF IInv, TypeOK, NoEntry
<1>11. bug' \in BOOLEAN
  BY <1>1 DEF DropIsBug
<1>12. TypeOK'
  BY <1>1, <1>7, <1>10, <1>11 DEF IInv, TypeOK, ForkFailed, signals
<1> QED
  BY <1>6, <1>7, <1>8, <1>9, <1>12 DEF CountersMatchProcesses
\* fork() turns the counted connection into a child, which inherits counters
\* that include itself.
LEMMA ForkCounters ==
    ASSUME IInv, NEW p \in Pids, Fork(p)
    PROVE  CountersMatchProcesses' /\ Ranked' /\ info'[p] \in Info
<1> DEFINE i == [addr |-> conn, num_clients |-> s_children,
                 num_this_ip |-> ip_count[conn],
                 max_clients |-> tunables[1], max_per_ip |-> tunables[2]]
<1>1. /\ pc = "fork" /\ pc' = "parent" /\ conn \in Addrs /\ conn' = conn
      /\ s_children' = s_children /\ ip_count' = ip_count
      /\ child[p] = "free"
      /\ child' = [child EXCEPT ![p] = "launched"]
      /\ info' = [info EXCEPT ![p] = i]
  BY DEF Fork, Goto, IInv, Remembered
<1>2. /\ info'[p] = i /\ child'[p] = "launched"
      /\ \A q \in Pids \ {p} : info'[q] = info[q] /\ child'[q] = child[q]
  BY <1>1 DEF IInv, TypeOK
<1>3. CountedButNotForked = 1 /\ CountedButNotForked' = 0
  BY <1>1 DEF CountedButNotForked
<1>4. p \notin Unreaped /\ Unreaped' = Unreaped \cup {p} /\ Unreaped \in SUBSET Pids
  BY <1>1, <1>2 DEF Unreaped
<1>5. \A a \in Addrs :
        AtAddr(a)' = IF a = conn THEN AtAddr(a) \cup {p} ELSE AtAddr(a)
  BY <1>1, <1>2, <1>4 DEF AtAddr
<1>6. s_children = Cardinality(Unreaped) + 1 /\ Cardinality(Unreaped) \in Nat
      /\ Cardinality(Unreaped') = Cardinality(Unreaped) + 1
  BY <1>3, <1>4, CardPids DEF IInv, CountersMatchProcesses
<1>7. \A a \in Addrs : NumAt(a)' = NumAt(a)
  <2> SUFFICES ASSUME NEW a \in Addrs PROVE NumAt(a)' = NumAt(a)
    OBVIOUS
  <2>1. AtAddr(a) \in SUBSET Pids /\ Cardinality(AtAddr(a)) \in Nat
    BY CountOf
  <2>2. p \notin AtAddr(a)
    BY <1>4 DEF AtAddr
  <2>3. Cardinality(AtAddr(a) \cup {p}) = Cardinality(AtAddr(a)) + 1
    BY <2>1, <2>2, CardPids
  <2>4. NumAt(a) = IF conn = a THEN Cardinality(AtAddr(a)) + 1 ELSE Cardinality(AtAddr(a))
    BY <2>1, <1>3 DEF NumAt
  <2>5. /\ AtAddr(a)' \in SUBSET Pids
        /\ Cardinality(AtAddr(a)') \in Nat
    BY <2>1, <1>5, CardPids
  <2>6. NumAt(a)' = Cardinality(AtAddr(a)')
    BY <2>5, <1>3 DEF NumAt
  <2> QED
    BY <2>3, <2>4, <2>6, <1>5
<1>8. CountersMatchProcesses'
  BY <1>1, <1>3, <1>6, <1>7 DEF IInv, CountersMatchProcesses
<1>9. /\ ip_count[conn] = Cardinality(AtAddr(conn)) + 1
      /\ Cardinality(AtAddr(conn)) \in Nat
  BY <1>1, <1>3, CountOf DEF NumAt
<1>10. ASSUME NEW n \in Nat PROVE Cardinality(RankedUpTo(n)') <= n
  <2>1. RankedUpTo(n)' = IF s_children <= n THEN RankedUpTo(n) \cup {p} ELSE RankedUpTo(n)
    BY <1>2, <1>4 DEF RankedUpTo
  <2>2. RankedUpTo(n) \in SUBSET Unreaped /\ p \notin RankedUpTo(n)
    BY <1>4 DEF RankedUpTo
  <2>3. /\ Cardinality(RankedUpTo(n)) \in Nat
        /\ Cardinality(RankedUpTo(n)) <= Cardinality(Unreaped)
        /\ Cardinality(RankedUpTo(n) \cup {p}) = Cardinality(RankedUpTo(n)) + 1
    BY <2>2, <1>4, CardPids
  <2> QED
    BY <2>1, <2>3, <1>6 DEF IInv, Ranked
<1>11. ASSUME NEW a \in Addrs, NEW n \in Nat
       PROVE  Cardinality(RankedAtUpTo(a, n)') <= n
  <2>1. RankedAtUpTo(a, n)' = IF a = conn /\ ip_count[conn] <= n
                              THEN RankedAtUpTo(a, n) \cup {p} ELSE RankedAtUpTo(a, n)
    BY <1>2, <1>4 DEF RankedAtUpTo
  <2>2. RankedAtUpTo(a, n) \in SUBSET AtAddr(a) /\ p \notin RankedAtUpTo(a, n)
    BY <1>4 DEF RankedAtUpTo, AtAddr
  <2>3. AtAddr(a) \in SUBSET Pids
    BY CountOf
  <2>4. /\ Cardinality(RankedAtUpTo(a, n)) \in Nat
        /\ Cardinality(RankedAtUpTo(a, n)) <= Cardinality(AtAddr(a))
        /\ Cardinality(RankedAtUpTo(a, n) \cup {p}) = Cardinality(RankedAtUpTo(a, n)) + 1
    BY <2>2, <2>3, CardPids
  <2> QED
    BY <2>1, <2>4, <1>9 DEF IInv, Ranked
<1>12. Ranked'
  BY <1>10, <1>11 DEF Ranked
<1>13. info'[p] \in Info
  BY <1>1, <1>2, <1>9 DEF Info, IInv, TypeOK
<1> QED
  BY <1>8, <1>12, <1>13

\* Reaping: the listener remembers the address, its counter is positive.
LEMMA ReapCounters ==
    ASSUME IInv, NEW p \in Pids, HandleSigchld(p)
    PROVE  /\ CountersMatchProcesses' /\ Ranked'
           /\ pc' = pc /\ bug' = bug /\ pid_ip' = [pid_ip EXCEPT ![p] = None]
           /\ s_children' \in Nat /\ ip_count' \in [Addrs -> Nat \cup {NoEntry}]
<1> DEFINE b == pid_ip[p]
<1>1. pc = "reap" /\ child[p] = "zombie"
  BY DEF HandleSigchld, Zombies
<1>2. b \in Addrs /\ b = info[p].addr /\ info[p] \in Info
  BY <1>1 DEF IInv, Remembered, Info
<1>3. p \in Unreaped /\ p \in AtAddr(b) /\ Unreaped \in SUBSET Pids
  BY <1>1, <1>2 DEF Unreaped, AtAddr
<1>4. CountedButNotForked = 0
  BY <1>1 DEF CountedButNotForked
<1>5. /\ ip_count[b] = Cardinality(AtAddr(b))
      /\ Cardinality(AtAddr(b)) \in Nat /\ Cardinality(AtAddr(b)) >= 1
  <2>1. AtAddr(b) \in SUBSET Pids /\ Cardinality(AtAddr(b)) \in Nat
    BY <1>2, CountOf
  <2>2. Cardinality(AtAddr(b)) >= 1
    BY <2>1, <1>3, CardPids
  <2>3. NumAt(b) = Cardinality(AtAddr(b))
    BY <2>1, <1>4 DEF NumAt
  <2> QED
    BY <2>1, <2>2, <2>3, <1>2, CountOf
<1>6. ~DropIsBug(b)
  BY <1>2, <1>5, NoneIsNew DEF DropIsBug, NoEntry
<1>7. /\ child' = [child EXCEPT ![p] = "free"] /\ info' = [info EXCEPT ![p] = NoInfo]
      /\ s_children' = s_children - 1
      /\ ip_count' = [ip_count EXCEPT ![b] = IF @ = 1 THEN NoEntry ELSE @ - 1]
      /\ pid_ip' = [pid_ip EXCEPT ![p] = None]
      /\ pc' = pc /\ bug' = bug /\ conn' = conn
  BY <1>6 DEF HandleSigchld, DropIpCount
<1>8. child'[p] = "free" /\ \A q \in Pids \ {p} : info'[q] = info[q] /\ child'[q] = child[q]
  BY <1>7 DEF IInv, TypeOK
<1>9. Unreaped' = Unreaped \ {p}
  BY <1>8, <1>3 DEF Unreaped
<1>10. \A a \in Addrs : AtAddr(a)' = AtAddr(a) \ {p}
  BY <1>8, <1>9, <1>3 DEF AtAddr
<1>11. CountedButNotForked' = 0
  BY <1>1, <1>7 DEF CountedButNotForked
<1>12. \A a \in Addrs : /\ NumAt(a) \in Nat
                        /\ NumAt(a)' = IF a = b THEN NumAt(a) - 1 ELSE NumAt(a)
  <2> SUFFICES ASSUME NEW a \in Addrs
               PROVE  /\ NumAt(a) \in Nat
                      /\ NumAt(a)' = IF a = b THEN NumAt(a) - 1 ELSE NumAt(a)
    OBVIOUS
  <2>1. AtAddr(a) \in SUBSET Pids /\ Cardinality(AtAddr(a)) \in Nat /\ NumAt(a) \in Nat
    BY CountOf
  <2> AtAddr(a)' \in SUBSET Pids /\ Cardinality(AtAddr(a)') \in Nat
    BY <2>1, <1>10, CardPids
  <2>2. NumAt(a) = Cardinality(AtAddr(a)) /\ NumAt(a)' = Cardinality(AtAddr(a)')
    BY <2>1, <1>4, <1>11 DEF NumAt
  <2>3. p \in AtAddr(a) <=> a = b
    BY <1>2, <1>3 DEF AtAddr
  <2>4. CASE a = b
    BY <2>1, <2>2, <2>3, <2>4, <1>10, CardPids
  <2>5. CASE a # b
    <3>1. AtAddr(a) \ {p} = AtAddr(a)
      BY <2>3, <2>5
    <3> QED
      BY <3>1, <2>1, <2>2, <2>5, <1>10
  <2> QED
    BY <2>4, <2>5
<1>13. NumAt(b) = ip_count[b] /\ NumAt(b) >= 1
  BY <1>2, <1>4, <1>5 DEF NumAt
<1>14. \A a \in Addrs : ip_count'[a] = IF NumAt(a)' = 0 THEN NoEntry ELSE NumAt(a)'
  BY <1>2, <1>7, <1>12, <1>13 DEF IInv, TypeOK, CountersMatchProcesses, NoEntry
<1>15. s_children' = Cardinality(Unreaped') + CountedButNotForked' /\ s_children' \in Nat
  <2>1. /\ Cardinality(Unreaped) \in Nat /\ Cardinality(Unreaped) >= 1
        /\ Cardinality(Unreaped \ {p}) = Cardinality(Unreaped) - 1
    BY <1>3, CardPids
  <2> QED
    BY <2>1, <1>4, <1>7, <1>9, <1>11 DEF IInv, CountersMatchProcesses
<1>16. ASSUME NEW n \in Nat PROVE Cardinality(RankedUpTo(n)') <= n
  <2>1. RankedUpTo(n)' \in SUBSET RankedUpTo(n) /\ RankedUpTo(n) \in SUBSET Pids
    BY <1>3, <1>8, <1>9 DEF RankedUpTo
  <2>2. /\ Cardinality(RankedUpTo(n)') <= Cardinality(RankedUpTo(n))
        /\ Cardinality(RankedUpTo(n)') \in Nat /\ Cardinality(RankedUpTo(n)) \in Nat
    BY <2>1, CardPids
  <2> QED
    BY <2>2 DEF IInv, Ranked
<1>17. ASSUME NEW a \in Addrs, NEW n \in Nat
       PROVE  Cardinality(RankedAtUpTo(a, n)') <= n
  <2>1. /\ RankedAtUpTo(a, n)' \in SUBSET RankedAtUpTo(a, n)
        /\ RankedAtUpTo(a, n) \in SUBSET Pids
    BY <1>3, <1>8, <1>9 DEF RankedAtUpTo
  <2>2. /\ Cardinality(RankedAtUpTo(a, n)') <= Cardinality(RankedAtUpTo(a, n))
        /\ Cardinality(RankedAtUpTo(a, n)') \in Nat
        /\ Cardinality(RankedAtUpTo(a, n)) \in Nat
    BY <2>1, CardPids
  <2> QED
    BY <2>2 DEF IInv, Ranked
<1>18. ip_count' \in [Addrs -> Nat \cup {NoEntry}]
  BY <1>2, <1>5, <1>7 DEF IInv, TypeOK, NoEntry
<1> QED
  BY <1>7, <1>14, <1>15, <1>16, <1>17, <1>18 DEF CountersMatchProcesses, Ranked
-----------------------------------------------------------------------------
(* The parts of the invariant that count nothing.                          *)

\* Quiet steps keep the types.
LEMMA QuietType ==
    ASSUME TypeOK, Quiet
    PROVE  TypeOK'
<1> USE DEF TypeOK, Interrupt, Goto, listener, signals
<1>1. CASE AcceptBlocks BY <1>1 DEF AcceptBlocks
<1>2. CASE CheckHup BY <1>2 DEF CheckHup
<1>3. CASE HandleSighup BY <1>3, ConfigsAreTunables DEF HandleSighup
<1>4. CASE CheckChld BY <1>4 DEF CheckChld
<1>5. CASE ClearChld BY <1>5 DEF ClearChld
<1>6. CASE ReapDone BY <1>6 DEF ReapDone
<1>7. CASE AcceptFailed BY <1>7 DEF AcceptFailed
<1>8. CASE HashAddEntry BY <1>8 DEF HashAddEntry
<1>9. CASE \E a \in Addrs : AcceptReturns(a) BY <1>9 DEF AcceptReturns
<1>10. CASE SigHup BY <1>10 DEF SigHup
<1>11. CASE AlarmFires BY <1>11 DEF AlarmFires
<1>12. CASE \E p \in Pids : CheckLimits(p) BY <1>12 DEF CheckLimits
<1>13. CASE \E p \in Pids : ChildExits(p) BY <1>13 DEF ChildExits
<1>14. CASE UNCHANGED listenervars BY <1>14 DEF listenervars
<1> QED
  BY <1>1, <1>2, <1>3, <1>4, <1>5, <1>6, <1>7, <1>8, <1>9, <1>10, <1>11, <1>12,
     <1>13, <1>14 DEF Quiet

\* Quiet steps keep what the listener remembers; recording the new child is one
\* of them, and its pid has no old entry.
LEMMA QuietRemembered ==
    ASSUME TypeOK, NeverBug, Remembered, Quiet
    PROVE  Remembered' /\ NeverBug'
<1> USE DEF TypeOK, Remembered, NeverBug, Interrupt, Goto, listener, signals
<1>1. CASE AcceptBlocks BY <1>1 DEF AcceptBlocks
<1>2. CASE CheckHup BY <1>2 DEF CheckHup
<1>3. CASE HandleSighup BY <1>3 DEF HandleSighup
<1>4. CASE CheckChld BY <1>4 DEF CheckChld
<1>5. CASE ClearChld BY <1>5 DEF ClearChld
<1>6. CASE ReapDone BY <1>6 DEF ReapDone
<1>7. CASE AcceptFailed BY <1>7 DEF AcceptFailed
<1>8. CASE HashAddEntry BY <1>8 DEF HashAddEntry
<1>9. CASE \E a \in Addrs : AcceptReturns(a) BY <1>9 DEF AcceptReturns
<1>10. CASE SigHup BY <1>10 DEF SigHup
<1>11. CASE AlarmFires BY <1>11 DEF AlarmFires
<1>12. CASE \E p \in Pids : CheckLimits(p) BY <1>12 DEF CheckLimits
<1>13. CASE \E p \in Pids : ChildExits(p) BY <1>13 DEF ChildExits
<1>14. CASE UNCHANGED listenervars BY <1>14 DEF listenervars
<1> QED
  BY <1>1, <1>2, <1>3, <1>4, <1>5, <1>6, <1>7, <1>8, <1>9, <1>10, <1>11, <1>12,
     <1>13, <1>14 DEF Quiet
-----------------------------------------------------------------------------
\* At the start there is no child and no count.
LEMMA InitIInv == ListenerInit => IInv
<1> SUFFICES ASSUME ListenerInit PROVE IInv
  OBVIOUS
<1>1. TypeOK
  BY ConfigsAreTunables DEF ListenerInit, TypeOK
<1>2. NeverBug /\ Remembered
  BY DEF ListenerInit, NeverBug, Remembered
<1>3. Unreaped = {}
  BY DEF ListenerInit, Unreaped
<1>4. /\ \A a : AtAddr(a) = {} /\ \A n : RankedAtUpTo(a, n) = {}
      /\ \A n : RankedUpTo(n) = {}
  BY <1>3 DEF AtAddr, RankedUpTo, RankedAtUpTo
<1>5. Ranked
  BY <1>4, FS_EmptySet DEF Ranked
<1>6. CountersMatchProcesses
  BY <1>3, <1>4, FS_EmptySet DEF ListenerInit, CountersMatchProcesses, NumAt, CountedButNotForked
<1> QED
  BY <1>1, <1>2, <1>5, <1>6 DEF IInv

\* Every step of the listener, of a child and of the signals keeps the invariant.
LEMMA NextIInv == IInv /\ [ListenerNext]_listenervars => IInv'
<1> SUFFICES ASSUME IInv, [ListenerNext]_listenervars PROVE IInv'
  OBVIOUS
<1>1. CASE Quiet
  BY <1>1, QuietType, QuietRemembered, QuietCounters DEF IInv
<1>2. CASE CountConnection
  <2>1. CountersMatchProcesses' /\ Ranked'
    BY <1>2, CountConnectionCounters
  <2>2. conn \in Addrs /\ HandleIpCount(conn) \in Nat
    <3>1. conn \in Addrs
      BY <1>2 DEF CountConnection, IInv, TypeOK
    <3> QED
      BY <3>1 DEF HandleIpCount, IInv, TypeOK, NoEntry
  <2>3. TypeOK'
    BY <1>2, <2>2 DEF CountConnection, Goto, signals, IInv, TypeOK
  <2>4. Remembered' /\ NeverBug'
    BY <1>2, <2>2 DEF CountConnection, Goto, signals, IInv, TypeOK, Remembered, NeverBug
  <2> QED
    BY <2>1, <2>3, <2>4 DEF IInv
<1>3. ASSUME NEW p \in Pids, Fork(p) PROVE IInv'
  <2>1. CountersMatchProcesses' /\ Ranked' /\ info'[p] \in Info
    BY <1>3, ForkCounters
  <2>2. TypeOK'
    <3>1. info' \in [Pids -> Info \cup {NoInfo}]
      BY <1>3, <2>1 DEF Fork, IInv, TypeOK
    <3> QED
      BY <1>3, <3>1 DEF Fork, Goto, signals, IInv, TypeOK
  <2>3. Remembered' /\ NeverBug'
    BY <1>3, <2>1 DEF Fork, Goto, signals, IInv, TypeOK, Remembered, NeverBug
  <2> QED
    BY <2>1, <2>2, <2>3 DEF IInv
<1>4. CASE ForkFailed
  <2>1. CountersMatchProcesses' /\ Ranked' /\ NeverBug' /\ TypeOK'
    BY <1>4, ForkFailedCounters
  <2>2. Remembered'
    BY <1>4 DEF ForkFailed, Goto, signals, IInv, TypeOK, Remembered
  <2> QED
    BY <2>1, <2>2 DEF IInv
<1>5. ASSUME NEW p \in Pids, HandleSigchld(p) PROVE IInv'
  <2>1. /\ CountersMatchProcesses' /\ Ranked'
        /\ pc' = pc /\ bug' = bug /\ pid_ip' = [pid_ip EXCEPT ![p] = None]
        /\ s_children' \in Nat /\ ip_count' \in [Addrs -> Nat \cup {NoEntry}]
    BY <1>5, ReapCounters
  <2>2. /\ pc = "reap" /\ child' = [child EXCEPT ![p] = "free"]
        /\ info' = [info EXCEPT ![p] = NoInfo]
        /\ UNCHANGED <<conn, new_child, tunables, hup, chld, alarm>>
    BY <1>5 DEF HandleSigchld, signals
  <2>3. TypeOK'
    BY <2>1, <2>2 DEF IInv, TypeOK
  <2>4. Remembered' /\ NeverBug'
    BY <2>1, <2>2 DEF IInv, TypeOK, Remembered, NeverBug
  <2> QED
    BY <2>1, <2>3, <2>4 DEF IInv
<1> QED
  BY <1>1, <1>2, <1>3, <1>4, <1>5 DEF ListenerNext, ListenerStep, Quiet

\* Types: in particular no unsigned counter of the listener goes below zero.
THEOREM ListenerTypes == ListenerSpec => []TypeOK
<1>1. IInv => TypeOK
  BY DEF IInv
<1> QED
  BY <1>1, InitIInv, NextIInv, PTL DEF ListenerSpec

\* No assertion of the listener can fail (bug() in drop_ip_count and hash.c).
THEOREM ListenerNeverBugs == ListenerSpec => []NeverBug
<1>1. IInv => NeverBug
  BY DEF IInv
<1> QED
  BY <1>1, InitIInv, NextIInv, PTL DEF ListenerSpec

\* The listener's counters are exact at every moment.
THEOREM ListenerCounts == ListenerSpec => []CountersMatchProcesses
<1>1. IInv => CountersMatchProcesses
  BY DEF IInv
<1> QED
  BY <1>1, InitIInv, NextIInv, PTL DEF ListenerSpec

\* Under every sequence of config reloads, no limit on the number of clients is
\* exceeded: a session's rank is at most its limit, and ranks are distinct enough.
THEOREM ListenerMaxClients == ListenerSpec => []MaxClientsHolds
<1>1. IInv => MaxClientsHolds
  <2> SUFFICES ASSUME IInv, NEW q \in Sessions
               PROVE  Cardinality(ServedUnder(info[q].max_clients)) <= info[q].max_clients
    BY DEF MaxClientsHolds
  <2> DEFINE L == info[q].max_clients
  <2>1. L \in Nat
    BY DEF IInv, Remembered, Sessions, Info
  <2>2. ServedUnder(L) \in SUBSET RankedUpTo(L) /\ RankedUpTo(L) \in SUBSET Pids
    BY <2>1 DEF IInv, Remembered, Sessions, Info, ServedUnder, RankedUpTo, Unreaped, OverLimit
  <2>3. Cardinality(RankedUpTo(L)) <= L
    BY <2>1 DEF IInv, Ranked
  <2>4. /\ Cardinality(ServedUnder(L)) <= Cardinality(RankedUpTo(L))
        /\ Cardinality(ServedUnder(L)) \in Nat /\ Cardinality(RankedUpTo(L)) \in Nat
    BY <2>2, CardPids DEF Sessions
  <2> HIDE DEF L
  <2>5. Cardinality(ServedUnder(L)) <= L
    BY <2>1, <2>3, <2>4
  <2> QED
    BY <2>5 DEF L
<1> QED
  BY <1>1, InitIInv, NextIInv, PTL DEF ListenerSpec

\* And no limit on the number of clients of one address is exceeded.
THEOREM ListenerMaxPerIp == ListenerSpec => []MaxPerIpHolds
<1>1. IInv => MaxPerIpHolds
  <2> SUFFICES ASSUME IInv, NEW a \in Addrs, NEW q \in Sessions
               PROVE  Cardinality(ServedAtUnder(a, info[q].max_per_ip)) <= info[q].max_per_ip
    BY DEF MaxPerIpHolds
  <2> DEFINE L == info[q].max_per_ip
  <2>1. L \in Nat
    BY DEF IInv, Remembered, Sessions, Info
  <2>2. /\ ServedAtUnder(a, L) \in SUBSET RankedAtUpTo(a, L)
        /\ RankedAtUpTo(a, L) \in SUBSET Pids
    BY <2>1 DEF IInv, Remembered, Sessions, Info, ServedAtUnder, RankedAtUpTo, Unreaped,
                OverLimit
  <2>3. Cardinality(RankedAtUpTo(a, L)) <= L
    BY <2>1 DEF IInv, Ranked
  <2>4. /\ Cardinality(ServedAtUnder(a, L)) <= Cardinality(RankedAtUpTo(a, L))
        /\ Cardinality(ServedAtUnder(a, L)) \in Nat
        /\ Cardinality(RankedAtUpTo(a, L)) \in Nat
    BY <2>2, CardPids DEF Sessions
  <2> HIDE DEF L
  <2>5. Cardinality(ServedAtUnder(a, L)) <= L
    BY <2>1, <2>3, <2>4
  <2> QED
    BY <2>5 DEF L
<1> QED
  BY <1>1, InitIInv, NextIInv, PTL DEF ListenerSpec

-----------------------------------------------------------------------------
(* The hash table.                                                         *)

Node == [key : Keys \cup {Garbage}, value : Values \cup {Garbage},
         prev : Addresses \cup {Null}, next : Addresses \cup {Null}]

HTypeOK ==
    /\ heap \in [Addresses -> Node]
    /\ p_nodes \in [0..Buckets - 1 -> Addresses \cup {Null}]

\* The bucket of the node at an address.
Home(a) == Bucket(heap[a].key)

\* The two pointers of a node and those of its neighbours agree.
Linked ==
    \A a \in InUse :
        /\ heap[a].next # Null =>
               /\ heap[a].next \in InUse /\ Home(heap[a].next) = Home(a)
               /\ heap[heap[a].next].prev = a
        /\ heap[a].prev # Null =>
               /\ heap[a].prev \in InUse /\ Home(heap[a].prev) = Home(a)
               /\ heap[heap[a].prev].next = a
        /\ heap[a].prev = Null => p_nodes[Home(a)] = a

\* A bucket points to the first node of its own chain.
Headed ==
    /\ \A b \in 0..Buckets - 1 :
           p_nodes[b] # Null =>
               /\ p_nodes[b] \in InUse /\ Home(p_nodes[b]) = b
               /\ heap[p_nodes[b]].prev = Null
    /\ \A a \in InUse : p_nodes[Home(a)] # Null

\* No key is in the table twice.
OnceEach == \A a, c \in InUse : heap[a].key = heap[c].key => a = c

\* Along a chain the rank falls, and no node of the bucket is left out.
Falling(rank) ==
    \A a \in InUse :
        /\ rank[a] <= rank[p_nodes[Home(a)]]
        /\ heap[a].next # Null => rank[heap[a].next] < rank[a]
        /\ \A c \in InUse :
               /\ Home(c) = Home(a) /\ rank[c] = rank[a] => c = a
               /\ Home(c) = Home(a) /\ rank[c] < rank[a] =>
                      heap[a].next # Null /\ rank[c] <= rank[heap[a].next]

Chains == \E rank \in [Addresses -> Nat] : Falling(rank)

\* Memory that is not in use holds nothing.
Cleared == \A a \in Addresses \ InUse : heap[a] = Freed

HInv == HTypeOK /\ Cleared /\ Linked /\ Headed /\ OnceEach /\ Chains

-----------------------------------------------------------------------------
\* Every set of numbers has a least one.
LEMMA LeastNumber ==
    ASSUME NEW S \in SUBSET Nat, S # {}
    PROVE  \E m \in S : \A n \in S : m <= n
<1> DEFINE R == OpToRel(<, Nat)
<1>1. IsWellFoundedOn(R, Nat)
  BY NatLessThanWellFounded
<1>2. \A x, y \in Nat : <<y, x>> \in R <=> y < x
  BY DEF OpToRel
<1> HIDE DEF R
<1>3. PICK m \in S : \A n \in S : ~(<<n, m>> \in R)
  BY <1>1, WFMin
<1>4. \A n \in S : ~(n < m)
  BY <1>2, <1>3, Zenon
<1> QED
  BY <1>4

\* A set of addresses has one of the least rank.
LEMMA LeastRank ==
    ASSUME NEW rank \in [Addresses -> Nat], NEW T \in SUBSET Addresses, T # {}
    PROVE  \E a \in T : \A c \in T : rank[a] <= rank[c]
<1> DEFINE S == {rank[a] : a \in T}
<1>1. S \in SUBSET Nat /\ S # {}
  OBVIOUS
<1> HIDE DEF S
<1>2. PICK m \in S : \A n \in S : m <= n
  BY <1>1, LeastNumber
<1> QED
  BY <1>2 DEF S

\* The recursion of hash_get_node_by_key, as an equation.
IsWalk(k, f) ==
    f = [a \in Addresses \cup {Null} |->
             IF a = Null \/ heap[a].key = k THEN a ELSE f[heap[a].next]]

\* If there is a function that solves the equation, the code computes one.
LEMMA WalkIsWalk ==
    ASSUME NEW k, NEW g, IsWalk(k, g)
    PROVE  \E f : IsWalk(k, f) /\ NodeByKey(k) = f[p_nodes[Bucket(k)]]
<1> DEFINE f == CHOOSE h : IsWalk(k, h)
<1>1. IsWalk(k, f)
  OBVIOUS
<1>2. NodeByKey(k) = f[p_nodes[Bucket(k)]]
  BY Zenon DEF NodeByKey, IsWalk
<1> QED
  BY <1>1, <1>2

\* Where the key is.
Holds(k, n) == \/ n \in InUse /\ heap[n].key = k
               \/ n = Null /\ \A a \in InUse : heap[a].key # k

\* Every walk from the head of the key's bucket ends where the key is.
LEMMA WalkFinds ==
    ASSUME HInv, NEW k \in Keys, NEW f, IsWalk(k, f)
    PROVE  Holds(k, f[p_nodes[Bucket(k)]])
<1> DEFINE head == p_nodes[Bucket(k)]
<1>1. PICK rank \in [Addresses -> Nat] : Falling(rank)
  BY DEF HInv, Chains
<1>t. /\ Bucket(k) \in 0..Buckets - 1 /\ head \in Addresses \cup {Null}
      /\ heap \in [Addresses -> Node] /\ InUse \subseteq Addresses
      /\ Null \notin Addresses
  BY HashAssumption DEF HInv, HTypeOK, Bucket, InUse
<1>f. /\ f[Null] = Null
      /\ \A a \in InUse : f[a] = IF heap[a].key = k THEN a ELSE f[heap[a].next]
  BY <1>t DEF IsWalk, Node
<1>2. CASE \E n \in InUse : heap[n].key = k
  <2>1. PICK n \in InUse : heap[n].key = k
    BY <1>2
  <2>2. /\ head \in InUse /\ Home(head) = Bucket(k) /\ rank[n] <= rank[head]
        /\ Home(n) = Bucket(k)
    BY <1>1, <1>t, <2>1 DEF HInv, Headed, Falling, Home
  <2> DEFINE T == {a \in InUse : Home(a) = Bucket(k) /\ rank[n] <= rank[a] /\ f[a] # n}
  <2>3. ASSUME T # {} PROVE FALSE
    <3>1. PICK a \in T : \A c \in T : rank[a] <= rank[c]
      BY <1>t, <2>3, LeastRank
    <3>2. a # n /\ heap[a].key # k
      BY <1>f, <2>1, <3>1 DEF HInv, OnceEach
    <3>3. rank[n] < rank[a]
      BY <1>1, <1>t, <2>1, <2>2, <3>1, <3>2 DEF Falling
    <3>4. heap[a].next \in InUse /\ Home(heap[a].next) = Home(a)
          /\ rank[n] <= rank[heap[a].next] /\ rank[heap[a].next] < rank[a]
      BY <1>1, <2>1, <2>2, <3>1, <3>3 DEF Falling, HInv, Linked
    <3>5. f[heap[a].next] # n
      BY <1>f, <3>1, <3>2
    <3> QED
      BY <1>t, <3>1, <3>4, <3>5
  <2> QED
    BY <2>1, <2>2, <2>3 DEF Holds
<1>3. CASE \A n \in InUse : heap[n].key # k
  <2> DEFINE T == {a \in InUse : f[a] # Null}
  <2>1. ASSUME T # {} PROVE FALSE
    <3>1. PICK a \in T : \A c \in T : rank[a] <= rank[c]
      BY <1>t, <2>1, LeastRank
    <3>2. f[a] = f[heap[a].next]
      BY <1>3, <1>f, <3>1
    <3>3. heap[a].next # Null
      BY <1>f, <3>1, <3>2
    <3>4. heap[a].next \in InUse /\ rank[heap[a].next] < rank[a]
      BY <1>1, <3>1, <3>3 DEF Falling, HInv, Linked
    <3> QED
      BY <1>t, <3>1, <3>2, <3>4
  <2>2. head = Null \/ head \in InUse
    BY <1>t DEF HInv, Headed
  <2> QED
    BY <1>3, <1>f, <2>1, <2>2 DEF Holds
<1> QED
  BY <1>2, <1>3

\* The recursion of hash_get_node_by_key ends on every chain: its equation has a
\* solution, which takes a node to the first one behind it that holds the key.
LEMMA WalkExists ==
    ASSUME HInv, NEW k \in Keys
    PROVE  \E f : IsWalk(k, f)
<1>1. PICK rank \in [Addresses -> Nat] : Falling(rank)
  BY DEF HInv, Chains
<1>t. /\ heap \in [Addresses -> Node] /\ InUse \subseteq Addresses
      /\ Null \notin Addresses /\ k # Garbage
      /\ \A a \in Addresses : a \notin InUse => heap[a] = Freed
  BY HashAssumption DEF HInv, HTypeOK, InUse, Cleared
<1> DEFINE Ahead(a, n) == /\ a \in InUse /\ n \in InUse /\ heap[n].key = k
                          /\ Home(n) = Home(a) /\ rank[n] <= rank[a]
           g == [a \in Addresses \cup {Null} |->
                     IF \E n \in InUse : Ahead(a, n)
                     THEN CHOOSE n \in InUse : Ahead(a, n) ELSE Null]
<1>2. ASSUME NEW a \in Addresses \cup {Null}, NEW n \in InUse, Ahead(a, n)
      PROVE  g[a] = n
  <2>1. \A c \in InUse : Ahead(a, c) => c = n
    BY <1>2 DEF HInv, OnceEach
  <2> QED
    BY <1>2, <2>1
<1>3. ASSUME NEW a \in Addresses \cup {Null}, \A n \in InUse : ~ Ahead(a, n)
      PROVE  g[a] = Null
  BY <1>3
<1> HIDE DEF g
<1>4. ASSUME NEW a \in Addresses \cup {Null}
      PROVE  g[a] = IF a = Null \/ heap[a].key = k THEN a ELSE g[heap[a].next]
  <2>1. CASE a = Null
    BY <1>t, <1>3, <2>1
  <2>2. CASE a # Null /\ a \notin InUse
    <3>1. heap[a].key # k /\ heap[a].next = Null
      BY <1>t, <2>2 DEF Freed
    <3> QED
      BY <1>t, <1>3, <2>2, <3>1
  <2>3. CASE a \in InUse /\ heap[a].key = k
    <3>1. Ahead(a, a)
      BY <1>t, <2>3
    <3> QED
      BY <1>2, <2>3, <3>1
  <2>4. CASE a \in InUse /\ heap[a].key # k
    <3> DEFINE next == heap[a].next
    <3>0. next \in Addresses \cup {Null} /\ a # Null
      BY <1>t, <2>4 DEF Node
    <3>1. \A n \in InUse : Ahead(a, n) <=> next # Null /\ Ahead(next, n)
      BY <1>1, <1>t, <2>4, <3>0 DEF Falling, HInv, Linked
    <3>2. g[a] = g[next]
      <4>1. CASE \E n \in InUse : Ahead(a, n)
        BY <1>2, <3>0, <3>1, <4>1
      <4>2. CASE \A n \in InUse : ~ Ahead(a, n)
        BY <1>t, <1>3, <3>0, <3>1, <4>2
      <4> QED
        BY <4>1, <4>2
    <3> QED
      BY <2>4, <3>0, <3>2
  <2> QED
    BY <2>1, <2>2, <2>3, <2>4
<1>5. IsWalk(k, g)
  BY <1>4 DEF IsWalk, g
<1> QED
  BY <1>5

\* hash_get_node_by_key finds the node of the key, or that there is none.
LEMMA NodeByKeyFinds ==
    HInv => \A k \in Keys : Holds(k, NodeByKey(k))
<1> SUFFICES ASSUME HInv, NEW k \in Keys PROVE Holds(k, NodeByKey(k))
  OBVIOUS
<1>1. PICK g : IsWalk(k, g)
  BY WalkExists
<1>2. PICK f : IsWalk(k, f) /\ NodeByKey(k) = f[p_nodes[Bucket(k)]]
  BY <1>1, WalkIsWalk
<1> QED
  BY <1>2, WalkFinds

-----------------------------------------------------------------------------
LEMMA InvInit == HInit => HInv
<1> SUFFICES ASSUME HInit PROVE HInv
  OBVIOUS
<1>1. HTypeOK /\ InUse = {} /\ Cleared
  BY HashAssumption DEF HInit, HTypeOK, Node, Freed, InUse, Cleared
<1>2. Linked /\ OnceEach /\ Headed
  BY <1>1, HashAssumption DEF Linked, OnceEach, Headed, HInit
<1>3. Chains
  <2>1. Falling([a \in Addresses |-> 0])
    BY <1>1 DEF Falling
  <2> QED
    BY <2>1 DEF Chains
<1> QED
  BY <1>1, <1>2, <1>3 DEF HInv

\* A node with another pointer is a node.
LEMMA Relinked ==
    ASSUME NEW n \in Node, NEW x \in Addresses \cup {Null}
    PROVE  [n EXCEPT !.prev = x] \in Node /\ [n EXCEPT !.next = x] \in Node
  BY DEF Node

\* hash_add_entry puts a node in front of a chain that does not hold its key.
LEMMA InvAdd ==
    ASSUME HInv, NEW k \in Keys, NEW v \in Values, AddEntry(k, v)
    PROVE  HInv'
<1> DEFINE head == p_nodes[Bucket(k)]
<1>1. PICK a \in Addresses \ InUse :
         /\ heap' = [c \in Addresses |->
                IF c = a THEN [key |-> k, value |-> v, prev |-> Null, next |-> head]
                ELSE IF c = head THEN [heap[c] EXCEPT !.prev = a] ELSE heap[c]]
         /\ p_nodes' = [p_nodes EXCEPT ![Bucket(k)] = a]
  BY DEF AddEntry
<1>2. PICK rank \in [Addresses -> Nat] : Falling(rank)
  BY DEF HInv, Chains
<1>t. /\ Bucket(k) \in 0..Buckets - 1 /\ heap \in [Addresses -> Node]
      /\ p_nodes \in [0..Buckets - 1 -> Addresses \cup {Null}]
      /\ InUse \subseteq Addresses /\ Null \notin Addresses /\ k # Garbage
      /\ \A c \in InUse : Home(c) \in 0..Buckets - 1
      /\ head = Null \/ head \in InUse
  BY HashAssumption DEF HInv, HTypeOK, Bucket, InUse, Node, Home, Headed
<1>n. \A c \in InUse : heap[c].key # k
  BY NodeByKeyFinds, <1>t DEF AddEntry, Holds
<1>h. /\ heap'[a] = [key |-> k, value |-> v, prev |-> Null, next |-> head]
      /\ \A c \in Addresses : c # a =>
             /\ heap'[c].key = heap[c].key /\ heap'[c].value = heap[c].value
             /\ heap'[c].next = heap[c].next
             /\ heap'[c].prev = IF c = head THEN a ELSE heap[c].prev
      /\ \A c \in Addresses : c # a /\ c # head => heap'[c] = heap[c]
      /\ p_nodes'[Bucket(k)] = a
      /\ \A b \in 0..Buckets - 1 : b # Bucket(k) => p_nodes'[b] = p_nodes[b]
  BY <1>1, <1>t DEF Node
<1>u. /\ InUse' = InUse \cup {a} /\ a \notin InUse /\ a # head
      /\ Home(a)' = Bucket(k) /\ \A c \in InUse : Home(c)' = Home(c)
  <2>1. InUse' = InUse \cup {a}
    BY <1>1, <1>h, <1>t DEF InUse
  <2>2. a \notin InUse /\ a # head
    BY <1>t
  <2> QED
    BY <1>1, <1>h, <1>t, <2>1, <2>2 DEF Home, Bucket
<1>3. HTypeOK'
  <2>1. ASSUME NEW c \in Addresses PROVE heap'[c] \in Node
    <3>1. CASE c = a
      BY <1>h, <1>t, <3>1 DEF Node
    <3>2. CASE c # a /\ c = head
      <4>1. heap'[c] = [heap[c] EXCEPT !.prev = a] /\ heap[c] \in Node
        BY <1>1, <1>t, <3>2
      <4> QED
        BY <4>1, Relinked
    <3>3. CASE c # a /\ c # head
      BY <1>h, <1>t, <3>3
    <3> QED
      BY <3>1, <3>2, <3>3
  <2>2. heap' \in [Addresses -> Node]
    BY <1>1, <2>1
  <2>3. p_nodes' \in [0..Buckets - 1 -> Addresses \cup {Null}]
    BY <1>1, <1>t
  <2> QED
    BY <2>2, <2>3 DEF HTypeOK
<1>4. Cleared'
  BY <1>h, <1>u, <1>t DEF HInv, Cleared, Freed
<1>5. OnceEach'
  BY <1>h, <1>u, <1>t, <1>n DEF HInv, OnceEach
<1>6. Linked'
  <2>1. ASSUME NEW c \in InUse, heap[c].next # Null
        PROVE  heap[c].next \in InUse /\ heap[c].next # head
    BY <1>t, <2>1 DEF HInv, Linked, Headed
  <2>2. ASSUME NEW c \in InUse
        PROVE  (/\ heap[c].next # Null =>
                      /\ heap[c].next \in InUse /\ Home(heap[c].next) = Home(c)
                      /\ heap[heap[c].next].prev = c
                /\ heap[c].prev # Null =>
                      /\ heap[c].prev \in InUse /\ Home(heap[c].prev) = Home(c)
                      /\ heap[heap[c].prev].next = c
                /\ heap[c].prev = Null => p_nodes[Home(c)] = c)'
    <3>1. CASE c = head
      BY <1>h, <1>u, <1>t, <2>1, <3>1 DEF HInv, Linked, Headed
    <3>2. CASE c # head
      <4>1. /\ c # a /\ c \in Addresses /\ heap'[c].next = heap[c].next
            /\ heap'[c].prev = heap[c].prev /\ Home(c)' = Home(c)
        BY <1>h, <1>u, <1>t, <3>2
      <4>2. (heap[c].prev = Null => p_nodes[Home(c)] = c)'
        BY <1>h, <1>t, <3>2, <4>1 DEF HInv, Linked
      <4>3. (heap[c].next # Null =>
                /\ heap[c].next \in InUse /\ Home(heap[c].next) = Home(c)
                /\ heap[heap[c].next].prev = c)'
        <5> DEFINE d == heap[c].next
        <5> SUFFICES ASSUME d # Null
                     PROVE  d \in InUse' /\ Home(d)' = Home(c)' /\ heap'[d].prev = c
          BY <4>1
        <5>1. d \in InUse /\ d # head /\ Home(d) = Home(c) /\ heap[d].prev = c
          BY <2>1 DEF HInv, Linked
        <5>2. d \in Addresses /\ d # a
          BY <5>1, <1>t
        <5>3. heap'[d].prev = heap[d].prev
          BY <5>1, <5>2, <1>h
        <5> QED
          BY <4>1, <5>1, <5>3, <1>u
      <4>4. (heap[c].prev # Null =>
                /\ heap[c].prev \in InUse /\ Home(heap[c].prev) = Home(c)
                /\ heap[heap[c].prev].next = c)'
        BY <1>h, <1>u, <1>t, <4>1 DEF HInv, Linked
      <4> QED
        BY <4>2, <4>3, <4>4
    <3> QED
      BY <3>1, <3>2
  <2>3. (/\ heap[a].next # Null =>
               /\ heap[a].next \in InUse /\ Home(heap[a].next) = Home(a)
               /\ heap[heap[a].next].prev = a
         /\ heap[a].prev = Null /\ p_nodes[Home(a)] = a)'
    BY <1>h, <1>u, <1>t DEF HInv, Headed
  <2> QED
    BY <1>u, <2>2, <2>3 DEF Linked
<1>7. Headed'
  BY <1>h, <1>u, <1>t DEF HInv, Headed
<1>8. Chains'
  <2>0. [rank EXCEPT ![a] = IF head = Null THEN 0 ELSE rank[head] + 1]
            \in [Addresses -> Nat]
    BY <1>t
  <2>1. PICK r \in [Addresses -> Nat] :
            r = [rank EXCEPT ![a] = IF head = Null THEN 0 ELSE rank[head] + 1]
    BY <2>0
  <2>2. /\ r[a] = IF head = Null THEN 0 ELSE rank[head] + 1
        /\ \A c \in Addresses : c # a => r[c] = rank[c]
    BY <2>1
  <2>3. ASSUME NEW c \in InUse, Home(c) = Bucket(k)
        PROVE  head # Null /\ rank[c] <= rank[head]
    BY <1>2, <1>t, <2>3 DEF Falling, HInv, Headed
  <2>4. Falling(r)'
    <3> SUFFICES ASSUME NEW c \in InUse' PROVE
          (/\ r[c] <= r[p_nodes[Home(c)]]
           /\ heap[c].next # Null => r[heap[c].next] < r[c]
           /\ \A d \in InUse :
               /\ Home(d) = Home(c) /\ r[d] = r[c] => d = c
               /\ Home(d) = Home(c) /\ r[d] < r[c] =>
                      heap[c].next # Null /\ r[d] <= r[heap[c].next])'
      BY DEF Falling
    <3>1. CASE c = a
      BY <3>1, <1>h, <1>u, <1>t, <2>2, <2>3
    <3>2. CASE c \in InUse
      <4>1. /\ heap'[c].next = heap[c].next /\ Home(c)' = Home(c) /\ c # a
            /\ r[c] = rank[c] /\ heap[c].next # a
            /\ heap[c].next # Null => r[heap[c].next] = rank[heap[c].next]
        BY <3>2, <1>h, <1>u, <1>t, <2>2 DEF HInv, Linked
      <4>2. (r[c] <= r[p_nodes[Home(c)]])'
        BY <3>2, <4>1, <1>h, <1>u, <1>t, <1>2, <2>2, <2>3 DEF Falling, HInv, Headed
      <4>3. ASSUME NEW d \in InUse
            PROVE  (/\ Home(d) = Home(c) /\ r[d] = r[c] => d = c
                    /\ Home(d) = Home(c) /\ r[d] < r[c] =>
                           heap[c].next # Null /\ r[d] <= r[heap[c].next])'
        BY <3>2, <4>1, <1>u, <1>t, <1>2, <2>2 DEF Falling
      <4>4. Home(a)' = Home(c)' => r[c] < r[a]
        BY <3>2, <4>1, <1>u, <1>t, <2>2, <2>3
      <4>5. heap[c].next # Null => r[heap[c].next] < r[c]
        BY <3>2, <4>1, <1>2 DEF Falling
      <4>6. r[a] \in Nat /\ r[c] \in Nat /\ rank[c] \in Nat
        BY <4>1, <3>2, <1>t
      <4> QED
        BY <1>u, <4>1, <4>2, <4>3, <4>4, <4>5, <4>6
    <3> QED
      BY <1>u, <3>1, <3>2
  <2> QED
    BY <2>4 DEF Chains
<1> QED
  BY <1>3, <1>4, <1>5, <1>6, <1>7, <1>8 DEF HInv

\* A value is changed in its place.
LEMMA InvChange ==
    ASSUME HInv, NEW k \in Keys, NEW v \in Values, ChangeValue(k, v)
    PROVE  HInv'
<1> DEFINE n == NodeByKey(k)
<1>1. n \in InUse /\ heap[n].key = k
  BY NodeByKeyFinds DEF ChangeValue, Holds
<1>t. /\ heap \in [Addresses -> Node] /\ InUse \subseteq Addresses
      /\ p_nodes' = p_nodes /\ heap' = [heap EXCEPT ![n].value = v]
  BY DEF HInv, HTypeOK, InUse, ChangeValue
<1>h. /\ \A c \in Addresses :
             /\ heap'[c].key = heap[c].key /\ heap'[c].next = heap[c].next
             /\ heap'[c].prev = heap[c].prev
      /\ \A c \in Addresses : c # n => heap'[c] = heap[c]
  BY <1>t DEF Node
<1>u. InUse' = InUse /\ \A c \in InUse : Home(c)' = Home(c)
  BY <1>h, <1>t DEF InUse, Home, Bucket
<1>3. HTypeOK'
  BY <1>1, <1>t DEF HTypeOK, Node, HInv
<1>4. Cleared'
  BY <1>h, <1>u, <1>t, <1>1 DEF HInv, Cleared, Freed
<1>5. OnceEach'
  BY <1>h, <1>u, <1>t DEF HInv, OnceEach
<1>6. Linked' /\ Headed'
  BY <1>h, <1>u, <1>t DEF HInv, Linked, Headed
<1>7. Chains'
  <2>1. PICK rank \in [Addresses -> Nat] : Falling(rank)
    BY DEF HInv, Chains
  <2>2. Falling(rank)'
    BY <1>h, <1>u, <1>t, <2>1 DEF Falling
  <2> QED
    BY <2>2 DEF Chains
<1> QED
  BY <1>3, <1>4, <1>5, <1>6, <1>7 DEF HInv

\* hash_free_entry links the neighbours of a node past it.
LEMMA InvFree ==
    ASSUME HInv, NEW k \in Keys, FreeEntry(k)
    PROVE  HInv'
<1>0. PICK a \in InUse : a = NodeByKey(k) /\ heap[a].key = k
  BY NodeByKeyFinds DEF FreeEntry, Holds
<1> DEFINE prev == heap[a].prev
           next == heap[a].next
<1>1. /\ heap' = [c \in Addresses |->
             IF c = a THEN Freed
             ELSE IF c = prev THEN [heap[c] EXCEPT !.next = next]
             ELSE IF c = next THEN [heap[c] EXCEPT !.prev = prev]
             ELSE heap[c]]
      /\ p_nodes' = IF prev # Null THEN p_nodes
                    ELSE [p_nodes EXCEPT ![Bucket(k)] = next]
  BY <1>0 DEF FreeEntry
<1>2. PICK rank \in [Addresses -> Nat] : Falling(rank)
  BY DEF HInv, Chains
<1>t. /\ Bucket(k) \in 0..Buckets - 1 /\ heap \in [Addresses -> Node]
      /\ p_nodes \in [0..Buckets - 1 -> Addresses \cup {Null}]
      /\ InUse \subseteq Addresses /\ Null \notin Addresses
      /\ \A c \in InUse : Home(c) \in 0..Buckets - 1
      /\ prev \in Addresses \cup {Null} /\ next \in Addresses \cup {Null}
  BY HashAssumption DEF HInv, HTypeOK, Bucket, InUse, Node, Home
<1>l. /\ prev # Null => prev \in InUse /\ Home(prev) = Bucket(k) /\ heap[prev].next = a
      /\ next # Null => next \in InUse /\ Home(next) = Bucket(k) /\ heap[next].prev = a
      /\ prev = Null => p_nodes[Bucket(k)] = a
      /\ Home(a) = Bucket(k)
  BY <1>0 DEF HInv, Linked, Home
<1>r. /\ next # Null => rank[next] < rank[a]
      /\ prev # Null => rank[a] < rank[prev]
      /\ rank[a] \in Nat
      /\ next # Null => rank[next] \in Nat
      /\ prev # Null => rank[prev] \in Nat
  BY <1>0, <1>2, <1>t, <1>l DEF Falling
<1>d. prev # a /\ next # a /\ (prev # Null => prev # next)
  BY <1>0, <1>t, <1>r
<1>h. /\ heap'[a] = Freed
      /\ \A c \in Addresses : c # a =>
             /\ heap'[c].key = heap[c].key /\ heap'[c].value = heap[c].value
             /\ heap'[c].next = IF c = prev THEN next ELSE heap[c].next
             /\ heap'[c].prev = IF c = next THEN prev ELSE heap[c].prev
      /\ \A c \in Addresses : c # a /\ c # prev /\ c # next => heap'[c] = heap[c]
      /\ p_nodes'[Bucket(k)] = IF prev = Null THEN next ELSE p_nodes[Bucket(k)]
      /\ \A b \in 0..Buckets - 1 : b # Bucket(k) => p_nodes'[b] = p_nodes[b]
  BY <1>0, <1>1, <1>t, <1>d DEF Node
<1>u. /\ InUse' = InUse \ {a}
      /\ \A c \in InUse' : Home(c)' = Home(c) /\ c \in InUse /\ c # a
  <2>1. InUse' = InUse \ {a}
    BY <1>1, <1>h, <1>t DEF InUse, Freed
  <2> QED
    BY <1>1, <1>h, <1>t, <2>1 DEF Home, Bucket
<1>3. HTypeOK'
  <2> HIDE DEF prev, next
  <2>0. \A c \in Addresses :
           heap'[c] = IF c = a THEN Freed
                      ELSE IF c = prev THEN [heap[c] EXCEPT !.next = next]
                      ELSE IF c = next THEN [heap[c] EXCEPT !.prev = prev]
                      ELSE heap[c]
    BY <1>1
  <2>1. ASSUME NEW c \in Addresses PROVE heap'[c] \in Node
    <3>1. CASE c = a
      BY <1>h, <3>1 DEF Node, Freed
    <3>2. CASE c # a /\ c = prev
      <4>1. heap[c] \in Node
        BY <1>t
      <4>2. heap'[c] = [heap[c] EXCEPT !.next = next]
        BY <2>0, <3>2
      <4>3. next \in Addresses \cup {Null}
        BY <1>t
      <4>4. [heap[c] EXCEPT !.next = next] \in Node
        BY <4>1, <4>3, Relinked
      <4> QED
        BY <4>2, <4>4
    <3>3. CASE c # a /\ c # prev /\ c = next
      <4>1. heap[c] \in Node
        BY <1>t
      <4>2. heap'[c] = [heap[c] EXCEPT !.prev = prev]
        BY <2>0, <3>3
      <4>3. prev \in Addresses \cup {Null}
        BY <1>t
      <4>4. [heap[c] EXCEPT !.prev = prev] \in Node
        BY <4>1, <4>3, Relinked
      <4> QED
        BY <4>2, <4>4
    <3>4. CASE c # a /\ c # prev /\ c # next
      BY <1>h, <1>t, <3>4
    <3> QED
      BY <3>1, <3>2, <3>3, <3>4
  <2>2. heap' \in [Addresses -> Node]
    BY <1>1, <2>1
  <2>3. p_nodes' \in [0..Buckets - 1 -> Addresses \cup {Null}]
    BY <1>1, <1>t
  <2> QED
    BY <2>2, <2>3 DEF HTypeOK
<1>4. Cleared'
  BY <1>h, <1>u, <1>t, <1>l DEF HInv, Cleared
<1>5. OnceEach'
  BY <1>h, <1>u, <1>t DEF HInv, OnceEach
<1>6. Linked'
  <2> SUFFICES ASSUME NEW c \in InUse'
        PROVE  (/\ heap[c].next # Null =>
                      /\ heap[c].next \in InUse /\ Home(heap[c].next) = Home(c)
                      /\ heap[heap[c].next].prev = c
                /\ heap[c].prev # Null =>
                      /\ heap[c].prev \in InUse /\ Home(heap[c].prev) = Home(c)
                      /\ heap[heap[c].prev].next = c
                /\ heap[c].prev = Null => p_nodes[Home(c)] = c)'
    BY DEF Linked
  <2>0. /\ c \in InUse /\ c \in Addresses /\ c # a /\ Home(c)' = Home(c)
        /\ heap[c].next # Null =>
               /\ heap[c].next \in InUse /\ Home(heap[c].next) = Home(c)
               /\ heap[heap[c].next].prev = c
        /\ heap[c].prev # Null =>
               /\ heap[c].prev \in InUse /\ Home(heap[c].prev) = Home(c)
               /\ heap[heap[c].prev].next = c
        /\ heap[c].prev = Null => p_nodes[Home(c)] = c
    BY <1>u, <1>t DEF HInv, Linked
  <2>1. (heap[c].next # Null =>
            /\ heap[c].next \in InUse /\ Home(heap[c].next) = Home(c)
            /\ heap[heap[c].next].prev = c)'
    <3>1. CASE c = prev
      BY <1>h, <1>u, <1>t, <1>l, <1>d, <2>0, <3>1
    <3>2. CASE c # prev
      BY <1>h, <1>u, <1>t, <1>l, <1>d, <2>0, <3>2
    <3> QED
      BY <3>1, <3>2
  <2>2. (heap[c].prev # Null =>
            /\ heap[c].prev \in InUse /\ Home(heap[c].prev) = Home(c)
            /\ heap[heap[c].prev].next = c)'
    <3>1. CASE c = next
      BY <1>h, <1>u, <1>t, <1>l, <1>d, <2>0, <3>1
    <3>2. CASE c # next
      BY <1>h, <1>u, <1>t, <1>l, <1>d, <2>0, <3>2
    <3> QED
      BY <3>1, <3>2
  <2>3. (heap[c].prev = Null => p_nodes[Home(c)] = c)'
    BY <1>h, <1>t, <1>l, <1>d, <2>0
  <2> QED
    BY <2>1, <2>2, <2>3
<1>7. Headed'
  <2>1. ASSUME NEW b \in 0..Buckets - 1, p_nodes'[b] # Null
        PROVE  (p_nodes[b] \in InUse /\ Home(p_nodes[b]) = b
                /\ heap[p_nodes[b]].prev = Null)'
    <3>1. CASE b = Bucket(k) /\ prev = Null
      BY <1>h, <1>u, <1>t, <1>l, <1>d, <2>1, <3>1
    <3>2. CASE b = Bucket(k) /\ prev # Null
      BY <1>h, <1>u, <1>t, <1>l, <1>d, <2>1, <3>2 DEF HInv, Headed
    <3>3. CASE b # Bucket(k)
      BY <1>h, <1>u, <1>t, <1>l, <1>d, <2>1, <3>3 DEF HInv, Headed
    <3> QED
      BY <3>1, <3>2, <3>3
  <2>2. ASSUME NEW c \in InUse' PROVE (p_nodes[Home(c)] # Null)'
    <3>1. CASE Home(c) = Bucket(k) /\ prev = Null
      <4>1. rank[c] < rank[a]
        BY <1>0, <1>2, <1>u, <1>t, <1>l, <3>1, <1>r DEF Falling
      <4>2. next # Null
        BY <1>0, <1>2, <1>u, <1>l, <3>1, <4>1 DEF Falling
      <4> QED
        BY <1>h, <1>u, <3>1, <4>2
    <3>2. CASE Home(c) # Bucket(k) \/ prev # Null
      BY <1>h, <1>u, <1>t, <3>2 DEF HInv, Headed
    <3> QED
      BY <3>1, <3>2
  <2> QED
    BY <2>1, <2>2 DEF Headed
<1>8. Chains'
  <2>1. ASSUME NEW c \in InUse' PROVE
          (/\ rank[c] <= rank[p_nodes[Home(c)]]
           /\ heap[c].next # Null => rank[heap[c].next] < rank[c]
           /\ \A d \in InUse :
               /\ Home(d) = Home(c) /\ rank[d] = rank[c] => d = c
               /\ Home(d) = Home(c) /\ rank[d] < rank[c] =>
                      heap[c].next # Null /\ rank[d] <= rank[heap[c].next])'
    <3>0. /\ c \in InUse /\ c \in Addresses /\ c # a /\ Home(c)' = Home(c)
          /\ Home(c) \in 0..Buckets - 1
          /\ rank[c] \in Nat /\ rank[a] \in Nat
          /\ heap'[c].next = IF c = prev THEN next ELSE heap[c].next
      BY <1>u, <1>t, <1>h
    <3>1. (rank[c] <= rank[p_nodes[Home(c)]])'
      <4>1. CASE Home(c) = Bucket(k) /\ prev = Null
        <5>1. rank[c] < rank[a]
          BY <1>0, <1>2, <3>0, <1>l, <4>1, <1>r DEF Falling
        <5>2. rank[c] <= rank[next]
          BY <1>0, <1>2, <3>0, <1>l, <4>1, <5>1 DEF Falling
        <5> QED
          BY <1>h, <3>0, <4>1, <5>2
      <4>2. CASE Home(c) # Bucket(k) \/ prev # Null
        <5>1. p_nodes'[Home(c)] = p_nodes[Home(c)]
          BY <1>h, <3>0, <4>2
        <5> QED
          BY <1>2, <3>0, <5>1 DEF Falling
      <4> QED
        BY <4>1, <4>2
    <3>2. (heap[c].next # Null => rank[heap[c].next] < rank[c])'
      <4>1. CASE c = prev
        BY <3>0, <1>r, <1>t, <4>1
      <4>2. CASE c # prev
        BY <3>0, <1>2, <4>2 DEF Falling
      <4> QED
        BY <4>1, <4>2
    <3>3. ASSUME NEW d \in InUse'
          PROVE (/\ Home(d) = Home(c) /\ rank[d] = rank[c] => d = c
                 /\ Home(d) = Home(c) /\ rank[d] < rank[c] =>
                      heap[c].next # Null /\ rank[d] <= rank[heap[c].next])'
      <4>0. /\ d \in InUse /\ d # a /\ Home(d)' = Home(d) /\ rank[d] \in Nat
        BY <1>u, <1>t
      <4>1. Home(d) = Home(c) /\ rank[d] = rank[c] => d = c
        BY <1>2, <3>0, <4>0 DEF Falling
      <4>2. ASSUME Home(d) = Home(c), rank[d] < rank[c]
            PROVE  heap[c].next # Null /\ rank[d] <= rank[heap[c].next]
        BY <1>2, <3>0, <4>0, <4>2 DEF Falling
      <4>3. ASSUME Home(d) = Home(c), rank[d] < rank[c], c = prev
            PROVE  next # Null /\ rank[d] <= rank[next]
        <5>1. heap[c].next = a /\ Home(d) = Home(a)
          BY <1>l, <3>0, <4>3, <1>t
        <5>2. rank[d] < rank[a]
          BY <1>2, <1>0, <4>0, <3>0, <4>2, <4>3, <5>1 DEF Falling
        <5> QED
          BY <1>2, <1>0, <4>0, <5>1, <5>2 DEF Falling
      <4> QED
        BY <3>0, <4>0, <4>1, <4>2, <4>3
    <3> QED
      BY <3>1, <3>2, <3>3
  <2>2. Falling(rank)'
    BY <2>1 DEF Falling
  <2> QED
    BY <2>2 DEF Chains
<1> QED
  BY <1>3, <1>4, <1>5, <1>6, <1>7, <1>8 DEF HInv

\* Every operation keeps the chains in order.
LEMMA InvNext == HInv /\ [HNext]_hvars => HInv'
<1> SUFFICES ASSUME HInv, [HNext]_hvars PROVE HInv'
  OBVIOUS
<1>1. CASE HNext
  BY <1>1, InvAdd, InvChange, InvFree DEF HNext
<1>2. CASE UNCHANGED hvars
  <2>1. heap' = heap /\ p_nodes' = p_nodes
    BY <1>2 DEF hvars
  <2> QED
    BY <2>1 DEF HInv, HTypeOK, Cleared, Linked, Headed, OnceEach, Chains, Falling,
                InUse, Home, Bucket
<1> QED
  BY <1>1, <1>2

\* The chains of the table are in order in every state: the two pointers of a node
\* agree with its neighbours', every node is reached from its own bucket and no key
\* is in the table twice, whatever hash_add_entry and hash_free_entry did before.
THEOREM ChainsAreInOrder == HSpec => []HInv
<1> QED
  BY InvInit, InvNext, PTL DEF HSpec

-----------------------------------------------------------------------------
\* The table answers for the keys that a node in use holds.
Answers ==
    /\ DOMAIN Lookups = {heap[a].key : a \in InUse}
    /\ \A a \in InUse : Lookups[heap[a].key] = heap[a].value
    /\ Lookups = [k \in DOMAIN Lookups |-> Lookups[k]]

LEMMA LookupsAnswer == HInv => Answers
<1> SUFFICES ASSUME HInv PROVE Answers
  OBVIOUS
<1>1. \A a \in InUse : heap[a].key \in Keys /\ a # Null
  BY HashAssumption DEF HInv, HTypeOK, Node, InUse
<1>2. \A k \in Keys : Holds(k, NodeByKey(k))
  BY NodeByKeyFinds
<1>3. \A k \in Keys : NodeByKey(k) # Null <=> \E a \in InUse : heap[a].key = k
  BY <1>1, <1>2 DEF Holds
<1>4. \A a \in InUse : NodeByKey(heap[a].key) = a
  BY <1>1, <1>2 DEF Holds, HInv, OnceEach
<1>5. DOMAIN Lookups = {heap[a].key : a \in InUse}
  BY <1>1, <1>3 DEF Lookups
<1>6. \A a \in InUse : Lookups[heap[a].key] = heap[a].value
  BY <1>1, <1>3, <1>4 DEF Lookups, LookupEntry
<1>7. Lookups = [k \in DOMAIN Lookups |-> Lookups[k]]
  BY DEF Lookups
<1> QED
  BY <1>5, <1>6, <1>7 DEF Answers

LEMMA LookupsAnswerNext == HInv' => Answers'
  BY LookupsAnswer, PTL

LEMMA AddIsAdd ==
    ASSUME HInv, HInv', NEW k \in Keys, NEW v \in Values, AddEntry(k, v)
    PROVE  Table!Add(k, v)
<1> DEFINE head == p_nodes[Bucket(k)]
<1>1. PICK a \in Addresses \ InUse :
          heap' = [c \in Addresses |->
              IF c = a THEN [key |-> k, value |-> v, prev |-> Null, next |-> head]
              ELSE IF c = head THEN [heap[c] EXCEPT !.prev = a] ELSE heap[c]]
  BY DEF AddEntry
<1>t. heap \in [Addresses -> Node] /\ InUse \subseteq Addresses /\ k # Garbage
  BY HashAssumption DEF HInv, HTypeOK, InUse
<1>2. \A c \in InUse : heap[c].key # k
  BY NodeByKeyFinds, HashAssumption, <1>t DEF AddEntry, Holds
<1>3. /\ heap'[a].key = k /\ heap'[a].value = v
      /\ \A c \in Addresses : c # a =>
             heap'[c].key = heap[c].key /\ heap'[c].value = heap[c].value
  BY <1>1, <1>t DEF Node
<1>4. InUse' = InUse \cup {a} /\ a \notin InUse
  BY <1>3, <1>t DEF InUse
<1>5. /\ DOMAIN Lookups = {heap[c].key : c \in InUse}
      /\ \A c \in InUse : Lookups[heap[c].key] = heap[c].value
  BY LookupsAnswer DEF Answers
<1>6. (/\ DOMAIN Lookups = {heap[c].key : c \in InUse}
       /\ \A c \in InUse : Lookups[heap[c].key] = heap[c].value
       /\ Lookups = [j \in DOMAIN Lookups |-> Lookups[j]])'
  BY LookupsAnswerNext DEF Answers
<1> QED
  <2>1. k \notin DOMAIN Lookups
    BY <1>2, <1>5
  <2>2. DOMAIN Lookups' = DOMAIN Lookups \cup {k}
    BY <1>3, <1>4, <1>5, <1>6, <1>t
  <2>3. Lookups'[k] = v
    BY <1>3, <1>4, <1>6
  <2>4. \A j \in DOMAIN Lookups : Lookups'[j] = Lookups[j]
    BY <1>3, <1>4, <1>5, <1>6, <1>t
  <2>5. Lookups' = [j \in DOMAIN Lookups \cup {k} |-> IF j = k THEN v ELSE Lookups[j]]
    BY <1>6, <2>1, <2>2, <2>3, <2>4
  <2> QED
    BY <2>1, <2>5 DEF Table!Add

LEMMA ChangeIsSet ==
    ASSUME HInv, HInv', NEW k \in Keys, NEW v \in Values, ChangeValue(k, v)
    PROVE  Table!Set(k, v)
<1>1. PICK a \in InUse : a = NodeByKey(k) /\ heap[a].key = k
  BY NodeByKeyFinds DEF ChangeValue, Holds
<1>t. heap \in [Addresses -> Node] /\ InUse \subseteq Addresses
  BY DEF HInv, HTypeOK, InUse
<1>2. heap' = [heap EXCEPT ![a].value = v]
  BY <1>1 DEF ChangeValue
<1>3. /\ heap'[a].key = k /\ heap'[a].value = v
      /\ \A c \in Addresses : heap'[c].key = heap[c].key
      /\ \A c \in Addresses : c # a => heap'[c].value = heap[c].value
  BY <1>1, <1>2, <1>t DEF Node
<1>4. InUse' = InUse
  BY <1>3 DEF InUse
<1>5. /\ DOMAIN Lookups = {heap[c].key : c \in InUse}
      /\ \A c \in InUse : Lookups[heap[c].key] = heap[c].value
      /\ Lookups = [j \in DOMAIN Lookups |-> Lookups[j]]
  BY LookupsAnswer DEF Answers
<1>6. (/\ DOMAIN Lookups = {heap[c].key : c \in InUse}
       /\ \A c \in InUse : Lookups[heap[c].key] = heap[c].value
       /\ Lookups = [j \in DOMAIN Lookups |-> Lookups[j]])'
  BY LookupsAnswerNext DEF Answers
<1> QED
  <2>1. k \in DOMAIN Lookups
    BY <1>1, <1>5
  <2>2. DOMAIN Lookups' = DOMAIN Lookups
    BY <1>3, <1>4, <1>5, <1>6, <1>t
  <2>3. Lookups'[k] = v
    BY <1>1, <1>3, <1>4, <1>6
  <2>4. \A j \in DOMAIN Lookups : j # k => Lookups'[j] = Lookups[j]
    BY <1>1, <1>3, <1>4, <1>5, <1>6, <1>t
  <2>5. Lookups' = [Lookups EXCEPT ![k] = v]
    BY <1>5, <1>6, <2>1, <2>2, <2>3, <2>4
  <2> QED
    BY <2>1, <2>5 DEF Table!Set

LEMMA FreeIsRemove ==
    ASSUME HInv, HInv', NEW k \in Keys, FreeEntry(k)
    PROVE  Table!Remove(k)
<1>1. PICK a \in InUse : a = NodeByKey(k) /\ heap[a].key = k
  BY NodeByKeyFinds DEF FreeEntry, Holds
<1>t. heap \in [Addresses -> Node] /\ InUse \subseteq Addresses
  BY DEF HInv, HTypeOK, InUse
<1>2. heap' = [c \in Addresses |->
          IF c = a THEN Freed
          ELSE IF c = heap[a].prev THEN [heap[c] EXCEPT !.next = heap[a].next]
          ELSE IF c = heap[a].next THEN [heap[c] EXCEPT !.prev = heap[a].prev]
          ELSE heap[c]]
  BY <1>1 DEF FreeEntry
<1>3. /\ heap'[a] = Freed
      /\ \A c \in Addresses : c # a =>
             heap'[c].key = heap[c].key /\ heap'[c].value = heap[c].value
  BY <1>1, <1>2, <1>t DEF Node
<1>4. InUse' = InUse \ {a}
  BY <1>3, <1>t DEF InUse, Freed
<1>5. /\ DOMAIN Lookups = {heap[c].key : c \in InUse}
      /\ \A c \in InUse : Lookups[heap[c].key] = heap[c].value
  BY LookupsAnswer DEF Answers
<1>6. (/\ DOMAIN Lookups = {heap[c].key : c \in InUse}
       /\ \A c \in InUse : Lookups[heap[c].key] = heap[c].value
       /\ Lookups = [j \in DOMAIN Lookups |-> Lookups[j]])'
  BY LookupsAnswerNext DEF Answers
<1> QED
  <2>1. k \in DOMAIN Lookups
    BY <1>1, <1>5
  <2>2. DOMAIN Lookups' = DOMAIN Lookups \ {k}
    BY <1>1, <1>3, <1>4, <1>5, <1>6, <1>t DEF HInv, OnceEach
  <2>3. \A j \in DOMAIN Lookups \ {k} : Lookups'[j] = Lookups[j]
    BY <1>1, <1>3, <1>4, <1>5, <1>6, <1>t
  <2>4. Lookups' = [j \in DOMAIN Lookups \ {k} |-> Lookups[j]]
    BY <1>6, <2>2, <2>3
  <2> QED
    BY <2>1, <2>4 DEF Table!Remove

\* The table in memory implements a map: what hash_lookup_entry answers changes for
\* the key of hash_add_entry, of hash_free_entry or of a changed value, and for no
\* other, whichever keys share the chain and wherever in it the key is.
THEOREM HashRefinesMap == HSpec => HashIsAMap
<1>1. HInit => Table!Init
  <2> SUFFICES ASSUME HInit PROVE Lookups = [k \in {} |-> 0]
    BY DEF Table!Init
  <2>1. HInv /\ InUse = {}
    BY InvInit DEF HInit, InUse, Freed
  <2>2. DOMAIN Lookups = {} /\ Lookups = [k \in DOMAIN Lookups |-> Lookups[k]]
    BY <2>1, LookupsAnswer DEF Answers
  <2> QED
    BY <2>2
<1>2. HInv /\ HInv' /\ [HNext]_hvars => [Table!Next]_Lookups
  <2> SUFFICES ASSUME HInv, HInv', [HNext]_hvars PROVE [Table!Next]_Lookups
    OBVIOUS
  <2>1. CASE HNext
    BY <2>1, AddIsAdd, ChangeIsSet, FreeIsRemove DEF HNext, Table!Next
  <2>2. CASE UNCHANGED hvars
    BY <2>2 DEF hvars, Lookups, LookupEntry, NodeByKey, Bucket
  <2> QED
    BY <2>1, <2>2
<1> QED
  BY <1>1, <1>2, ChainsAreInOrder, PTL DEF HSpec, HashIsAMap, Table!Spec
==============================================================================
