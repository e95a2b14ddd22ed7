----------------------------- MODULE Standalone -----------------------------
(***************************************************************************)
(* The listener process of the FTP server (standalone.c) with the          *)
(* synchronous signal framework it runs on (sysutil.c) and the limit check *)
(* every launched child makes before it talks to its client (prelogin.c).  *)
(*                                                                         *)
(* The listener forks one child per connection.  It counts its children    *)
(* (s_children), the children of every address (s_p_ip_count_hash) and     *)
(* remembers which address a child serves (s_p_pid_ip_hash).  Children     *)
(* exit at any moment; the asynchronous half of a signal only sets a flag  *)
(* and an alarm, and the flag is looked at when accept() returns.          *)
(***************************************************************************)
EXTENDS Integers, FiniteSets

CONSTANTS
    Pids,          \* process ids the kernel can hand out
    Addrs,         \* client addresses
    Configs,       \* the pairs <<max_clients, max_per_ip>> the config file can hold
    None           \* "no value": a NULL pointer, an accept() that failed

ASSUME PidsFinite == IsFiniteSet(Pids)
ASSUME NoneIsNew == None \notin Addrs \cup Pids
ASSUME ConfigsAreTunables == Configs \subseteq Nat \X Nat

\* A key that has no node in the hash of counts.
NoEntry == -1

VARIABLES
    pc,            \* where the listener is in its accept loop
    conn,          \* the address accept() returned, None when it failed
    new_child,     \* the pid fork() returned to the listener
    s_children,    \* number of children the listener believes in
    ip_count,      \* s_p_ip_count_hash
    pid_ip,        \* s_p_pid_ip_hash
    tunables,      \* the listener's current <<max_clients, max_per_ip>>
    hup, chld,     \* the "pending" flags of SIGHUP and SIGCHLD
    alarm,         \* an alarm(1) is running
    child,         \* the processes: what each pid is doing
    info,          \* what each child inherited at fork()
    bug            \* a bug() or a NULL dereference was reached

listener == <<pc, conn, new_child, s_children, ip_count, pid_ip, tunables>>
signals == <<hup, chld, alarm>>
listenervars == <<pc, conn, new_child, s_children, ip_count, pid_ip, tunables,
          hup, chld, alarm, child, info, bug>>

\* A child's inheritance: its peer's address, its two counters and its tunables.
Info == [addr : Addrs, num_clients : Nat, num_this_ip : Nat,
         max_clients : Nat, max_per_ip : Nat]
NoInfo == None

ListenerInit ==
    /\ pc = "loop" /\ conn = None /\ new_child = None
    /\ s_children = 0
    /\ ip_count = [a \in Addrs |-> NoEntry]
    /\ pid_ip = [p \in Pids |-> None]
    /\ tunables \in Configs
    /\ hup = FALSE /\ chld = FALSE /\ alarm = FALSE
    /\ child = [p \in Pids |-> "free"]
    /\ info = [p \in Pids |-> NoInfo]
    /\ bug = FALSE

Goto(from, to) == pc = from /\ pc' = to

-----------------------------------------------------------------------------
(* Blocking in accept(), and what ends it.                                 *)

\* The listener enters the system call; a signal that came in before is not seen.
AcceptBlocks ==
    /\ Goto("loop", "blocked")
    /\ UNCHANGED <<conn, new_child, s_children, ip_count, pid_ip, tunables,
                   signals, child, info, bug>>

\* A client connects.
AcceptReturns(a) ==
    /\ Goto("blocked", "check_hup")
    /\ conn' = a
    /\ UNCHANGED <<new_child, s_children, ip_count, pid_ip, tunables,
                   signals, child, info, bug>>

\* A signal handler that runs while accept() blocks makes it fail with EINTR.
Interrupt ==
    /\ pc' = IF pc = "blocked" THEN "check_hup" ELSE pc
    /\ conn' = IF pc = "blocked" THEN None ELSE conn

\* vsf_sysutil_common_sighandler for SIGHUP: flag and alarm.
SigHup ==
    /\ hup' = TRUE /\ alarm' = TRUE
    /\ Interrupt
    /\ UNCHANGED <<new_child, s_children, ip_count, pid_ip, tunables, chld,
                   child, info, bug>>

\* Mutant: the alarm is not set again.
AlarmFiresOnce ==
    /\ alarm
    /\ alarm' = FALSE
    /\ Interrupt
    /\ UNCHANGED <<new_child, s_children, ip_count, pid_ip, tunables, hup, chld,
                   child, info, bug>>

\* vsf_sysutil_alrm_sighandler: the alarm starts itself again.
AlarmFires ==
    /\ alarm
    /\ alarm' = TRUE
    /\ Interrupt
    /\ UNCHANGED <<new_child, s_children, ip_count, pid_ip, tunables, hup, chld,
                   child, info, bug>>

-----------------------------------------------------------------------------
(* vsf_sysutil_check_pending_actions: the signals in numerical order,      *)
(* SIGHUP (1) before SIGCHLD (17).  A signal can arrive between any two    *)
(* of these steps.                                                         *)

\* The loop looks at SIGHUP's flag; if set, alarm(0) stops every alarm.
CheckHup ==
    /\ pc = "check_hup"
    /\ pc' = IF hup THEN "handle_hup" ELSE "check_chld"
    /\ alarm' = IF hup THEN FALSE ELSE alarm
    /\ UNCHANGED <<conn, new_child, s_children, ip_count, pid_ip, tunables,
                   hup, chld, child, info, bug>>

\* The flag is cleared, handle_sighup reads the config file again.
HandleSighup ==
    /\ Goto("handle_hup", "check_chld")
    /\ hup' = FALSE
    /\ tunables' \in Configs
    /\ UNCHANGED <<conn, new_child, s_children, ip_count, pid_ip,
                   chld, alarm, child, info, bug>>

\* The loop reaches SIGCHLD's flag.
CheckChld ==
    /\ pc = "check_chld"
    /\ pc' = IF chld THEN "handle_chld" ELSE "accepted"
    /\ UNCHANGED <<conn, new_child, s_children, ip_count, pid_ip, tunables,
                   signals, child, info, bug>>

\* alarm(0) for SIGCHLD, which also stops an alarm set for SIGHUP meanwhile,
\* and the flag is cleared.
ClearChld ==
    /\ Goto("handle_chld", "reap")
    /\ chld' = FALSE /\ alarm' = FALSE
    /\ UNCHANGED <<conn, new_child, s_children, ip_count, pid_ip, tunables,
                   hup, child, info, bug>>

Zombies == {p \in Pids : child[p] = "zombie"}

\* drop_ip_count: bug() on a missing or a zero count, the node is freed at zero.
DropIsBug(a) == a = None \/ (a \in Addrs /\ ip_count[a] \in {NoEntry, 0})
DropIpCount(a) ==
    ip_count' = [ip_count EXCEPT ![a] = IF @ = 1 THEN NoEntry ELSE @ - 1]

\* One turn of handle_sigchld's loop: waitpid() returns a dead child.
HandleSigchld(p) ==
    /\ pc = "reap" /\ p \in Zombies
    /\ child' = [child EXCEPT ![p] = "free"]
    /\ info' = [info EXCEPT ![p] = NoInfo]
    /\ IF DropIsBug(pid_ip[p])
       THEN /\ bug' = TRUE
            /\ pc' = "dead"
            /\ UNCHANGED <<s_children, ip_count, pid_ip>>
       ELSE /\ s_children' = s_children - 1
            /\ DropIpCount(pid_ip[p])
            /\ pid_ip' = [pid_ip EXCEPT ![p] = None]
            /\ UNCHANGED <<pc, bug>>
    /\ UNCHANGED <<conn, new_child, tunables, signals>>

\* waitpid() has nobody left: the loop ends and accept_timeout returns.
ReapDone ==
    /\ Goto("reap", "accepted")
    /\ Zombies = {}
    /\ UNCHANGED <<conn, new_child, s_children, ip_count, pid_ip, tunables,
                   signals, child, info, bug>>

-----------------------------------------------------------------------------
(* The body of the accept loop.                                            *)

\* accept() failed: the loop starts over.
AcceptFailed ==
    /\ Goto("accepted", "loop")
    /\ conn = None
    /\ UNCHANGED <<conn, new_child, s_children, ip_count, pid_ip, tunables,
                   signals, child, info, bug>>

\* Mutant: the counter that was found is not incremented.
HandleIpCountStuck(a) == IF ip_count[a] = NoEntry THEN 1 ELSE ip_count[a]

\* handle_ip_count: the counter of an address after one more connection.
HandleIpCount(a) == IF ip_count[a] = NoEntry THEN 1 ELSE ip_count[a] + 1

\* The connection is counted before the fork, so that the child can inherit
\* both counters.
CountConnection ==
    /\ Goto("accepted", "fork")
    /\ conn # None
    /\ s_children' = s_children + 1
    /\ ip_count' = [ip_count EXCEPT ![conn] = HandleIpCount(conn)]
    /\ UNCHANGED <<conn, new_child, pid_ip, tunables, signals, child, info, bug>>

\* fork(): the child runs from here on with what it inherited.
Fork(p) ==
    /\ Goto("fork", "parent")
    /\ child[p] = "free"
    /\ new_child' = p
    /\ child' = [child EXCEPT ![p] = "launched"]
    /\ info' = [info EXCEPT ![p] =
         [addr |-> conn, num_clients |-> s_children, num_this_ip |-> ip_count[conn],
          max_clients |-> tunables[1], max_per_ip |-> tunables[2]]]
    /\ UNCHANGED <<conn, s_children, ip_count, pid_ip, tunables, signals, bug>>

\* Mutant: a failed fork() gives back the total only.
ForkFailedKeepsIp ==
    /\ Goto("fork", "loop")
    /\ s_children' = s_children - 1
    /\ conn' = None
    /\ UNCHANGED <<new_child, ip_count, pid_ip, tunables, signals, child, info, bug>>

\* fork() failed: both counters go back.
ForkFailed ==
    /\ Goto("fork", "loop")
    /\ s_children' = s_children - 1
    /\ bug' = DropIsBug(conn)
    /\ DropIpCount(conn)
    /\ conn' = None
    /\ UNCHANGED <<new_child, pid_ip, tunables, signals, child, info>>

\* The parent remembers the child's address; hash_add_entry refuses a key twice.
HashAddEntry ==
    /\ Goto("parent", "loop")
    /\ bug' = (pid_ip[new_child] # None)
    /\ pid_ip' = [pid_ip EXCEPT ![new_child] = conn]
    /\ conn' = None /\ new_child' = None
    /\ UNCHANGED <<s_children, ip_count, tunables, signals, child, info>>

-----------------------------------------------------------------------------
(* The children.                                                           *)

\* Mutant: one client too many.
OverLimitOffByOne(i) ==
    \/ i.max_clients > 0 /\ i.num_clients > i.max_clients + 1
    \/ i.max_per_ip > 0 /\ i.num_this_ip > i.max_per_ip

\* Mutant: the limit per address is forgotten.
OverLimitNoIp(i) == i.max_clients > 0 /\ i.num_clients > i.max_clients

\* A child over one of its limits.
OverLimit(i) ==
    \/ i.max_clients > 0 /\ i.num_clients > i.max_clients
    \/ i.max_per_ip > 0 /\ i.num_this_ip > i.max_per_ip

\* check_limits: a child inside its limits greets its client.
CheckLimits(p) ==
    /\ child[p] = "launched"
    /\ ~OverLimit(info[p])
    /\ child' = [child EXCEPT ![p] = "session"]
    /\ UNCHANGED <<listener, signals, info, bug>>

\* A child exits: refused by check_limits, at the end of its session, or killed.
\* The SIGCHLD sets the flag and the alarm.
ChildExits(p) ==
    /\ child[p] \in {"launched", "session"}
    /\ child' = [child EXCEPT ![p] = "zombie"]
    /\ chld' = TRUE /\ alarm' = TRUE
    /\ Interrupt
    /\ UNCHANGED <<new_child, s_children, ip_count, pid_ip, tunables, hup,
                   info, bug>>

-----------------------------------------------------------------------------
ListenerStep ==
    \/ AcceptBlocks \/ CheckHup \/ HandleSighup \/ CheckChld \/ ClearChld
    \/ (\E p \in Pids : HandleSigchld(p)) \/ ReapDone
    \/ AcceptFailed \/ CountConnection \/ (\E p \in Pids : Fork(p)) \/ ForkFailed
    \/ HashAddEntry

ListenerNext ==
    \/ ListenerStep
    \/ \E a \in Addrs : AcceptReturns(a)
    \/ SigHup \/ AlarmFires
    \/ \E p \in Pids : CheckLimits(p) \/ ChildExits(p)

\* The listener runs when it is not blocked in accept(), and a running alarm
\* goes off.  Nothing is assumed of clients, of children and of the operator.
Fairness == WF_listenervars(ListenerStep) /\ WF_listenervars(AlarmFires)

ListenerSpec == ListenerInit /\ [][ListenerNext]_listenervars /\ Fairness
-----------------------------------------------------------------------------
(* Properties.                                                             *)

Unreaped == {p \in Pids : child[p] # "free"}
Sessions == {p \in Pids : child[p] = "session"}
CountedButNotForked == IF pc = "fork" THEN 1 ELSE 0

\* Every variable keeps its type; the counters are unsigned and never go below
\* zero (s_children, *p_count in standalone.c).
TypeOK ==
    /\ pc \in {"loop", "blocked", "check_hup", "handle_hup", "check_chld",
               "handle_chld", "reap", "accepted", "fork", "parent", "dead"}
    /\ conn \in Addrs \cup {None}
    /\ new_child \in Pids \cup {None}
    /\ s_children \in Nat
    /\ ip_count \in [Addrs -> Nat \cup {NoEntry}]
    /\ pid_ip \in [Pids -> Addrs \cup {None}]
    /\ tunables \in Nat \X Nat
    /\ hup \in BOOLEAN /\ chld \in BOOLEAN /\ alarm \in BOOLEAN
    /\ child \in [Pids -> {"free", "launched", "session", "zombie"}]
    /\ info \in [Pids -> Info \cup {NoInfo}]
    /\ bug \in BOOLEAN

\* None of the assertions of the listener fails: handle_sigchld finds the
\* address of every child it reaps, drop_ip_count a positive count for it, and
\* hash_add_entry no old entry of a recycled pid - although a child may exit
\* before the listener has recorded it.
NeverBug == ~bug

AtAddr(a) == {p \in Unreaped : info[p].addr = a}
NumAt(a) == Cardinality(AtAddr(a)) + (IF conn = a THEN CountedButNotForked ELSE 0)

\* The listener's total is the number of children it has not reaped, and its
\* count for an address is the number of unreaped children that serve this
\* address (a node is freed at zero), plus the connection it has just counted
\* and not yet forked a child for.
CountersMatchProcesses ==
    /\ s_children = Cardinality(Unreaped) + CountedButNotForked
    /\ \A a \in Addrs : ip_count[a] = IF NumAt(a) = 0 THEN NoEntry ELSE NumAt(a)

ServedUnder(L) == {p \in Sessions : info[p].max_clients \in 1..L}
ServedAtUnder(a, L) ==
    {p \in Sessions : info[p].addr = a /\ info[p].max_per_ip \in 1..L}

\* The promise of max_clients, config reloads included: for every L, at most L
\* sessions are served at the same time by children that were given a limit of
\* at most L (check_limits works on counters that were copied at fork() and
\* still count children that have died since).
MaxClientsHolds ==
    \A L \in {info[p].max_clients : p \in Sessions} : Cardinality(ServedUnder(L)) <= L

\* The promise of max_per_ip, for every address.
MaxPerIpHolds ==
    \A a \in Addrs : \A L \in {info[p].max_per_ip : p \in Sessions} :
        Cardinality(ServedAtUnder(a, L)) <= L

\* Every child that exits is reaped, even if its SIGCHLD arrives between the
\* check of the flags and the next blocking accept() (the alarm is there for
\* this) and no client ever connects again.
ZombiesAreReaped ==
    \A p \in Pids : (child[p] = "zombie") ~> (child[p] # "zombie")

=============================================================================
