---------------------------- MODULE SandboxProofs ----------------------------
(***************************************************************************)
(* The sandbox confines a session (Sandbox.tla), for every setting of the   *)
(* tunables and every system call.  The invariant says where the supervisor *)
(* may be for each place of the session: is_exit tells the two traps of a   *)
(* call apart although nothing but their number does, and while a call is   *)
(* let go on get_action still grants it, because nothing that a validator   *)
(* has read of the session's memory can change in between.  Once the        *)
(* supervisor has been killed nothing is left to say of a session that has  *)
(* changed its ids; one that has kept them is dead or has not begun.        *)
(*                                                                         *)
(* vsf_secutil_change_credentials, by which the sandboxed process becomes   *)
(* the session's user (Credentials.tla), does what its caller asks for or   *)
(* ends the process for a reason on the host, for every request the callers *)
(* can make and every host.  That invariant says, step by step, which ids   *)
(* and capabilities the process has: each call finds the privilege it needs *)
(* because no earlier one has given it up.                                  *)
(***************************************************************************)
EXTENDS Sandbox, Credentials, TLAPS

Shaped(c) ==
    c = [at |-> c.at, call |-> c.call, mem |-> c.mem, shared |-> c.shared,
         traced |-> c.traced, pdeath |-> c.pdeath, options |-> c.options]

BoxTyped ==
    /\ conf \in Configs
    /\ sup \in {"start", "allocated", "launching", "continue", "wait", "kill", "free", "gone", "killed"}
    /\ Shaped(child) /\ child.at \in Places

\* Where the supervisor can be for each place of the session, and what it takes
\* the next trap for.
InStep ==
    /\ child.at = "none" => sup \in {"start", "allocated", "gone"}
    /\ child.at \in {"new", "sane", "changed", "traceme"} => sup \in {"launching", "gone"} /\ ~is_exit
    /\ child.at = "stopped" => sup \in {"launching", "continue", "gone"} /\ ~is_exit
    /\ child.at = "user" => sup = "wait" /\ ~is_exit
    /\ child.at = "entry" => \/ (sup = "wait" /\ ~is_exit)
                             \/ (sup = "continue" /\ is_exit /\ GetAction(child.call))
                             \/ sup = "kill"
    /\ child.at = "exit" => (sup = "wait" /\ is_exit) \/ (sup = "continue" /\ ~is_exit)
    /\ child.at = "signal" => sup \in {"wait", "continue"} /\ ~is_exit
    /\ sup \in {"start", "allocated", "launching"} => ~is_exit
    /\ sup \in {"start", "allocated"} => child.at = "none"
    /\ sup = "launching" => child.at # "none"
    /\ sup = "continue" => child.at \in {"stopped", "entry", "exit", "signal", "dead"}
    /\ sup = "kill" => child.at \in {"entry", "dead"}
    /\ sup = "free" => child.at = "dead"

\* How far the session has come in giving itself up.
GivenUp ==
    /\ child.at = "sane" => child.pdeath
    /\ child.at \in {"changed", "traceme", "stopped", "user", "entry", "exit", "signal"} =>
         (conf.run_as_launching_user => child.pdeath)
    /\ child.at \in {"traceme", "stopped", "user", "entry", "exit", "signal"} => child.traced
    /\ child.at \in {"user", "entry", "exit", "signal"} => child.options
    /\ sup = "continue" => child.options
    /\ child.at = "none" => ~child.pdeath
    /\ child.shared => child.at = "dead"

\* The part of the invariant that the steps of both processes keep in step.
Control == BoxTyped /\ InStep /\ GivenUp

\* What a session is that has lost its supervisor before it began.
Starting == {"none", "new", "sane", "changed", "traceme", "stopped", "dead"}
Orphaned ==
    /\ BoxTyped /\ outside
    /\ conf.run_as_launching_user =>
         child.at \in Starting /\ (child.shared => child.at = "dead") /\ stray # "free"

Watched == Control /\ NothingForbiddenRuns /\ stray # "free"
BoxInv == IF sup = "killed" THEN Orphaned ELSE Watched

-----------------------------------------------------------------------------
(* What the policy grants.                                                   *)

\* No permission of a session allows a call that is forbidden by its number.
LEMMA NumbersGranted ==
    ASSUME NEW c, c.is_anonymous, NEW p \in PolicySetup(c), NEW nr \in Allows(p)
    PROVE  /\ nr \notin {"fork", "kill", "ptrace", "execve", "chmod"}
           /\ nr \in {"unlink", "rename", "rmdir", "utimes"} =>
                  c.write_enable /\ c.anon_other_write_enable
  BY SMTT(60) DEF PolicySetup, Allows, PermitBasics, PermitFiles, PermitDescriptors,
     PermitOthers, PermitSockets

LEMMA WritingGranted ==
    ASSUME NEW c, c.is_anonymous, "open_write" \in PolicySetup(c)
    PROVE  c.write_enable /\ c.anon_upload_enable
  BY SMTT(60) DEF PolicySetup

\* What get_action lets pass is not forbidden.
LEMMA GrantedIsNotForbidden ==
    ASSUME conf \in Configs, GetAction(child.call)
    PROVE  ~Forbidden([call |-> child.call, mem |-> child.mem])
<1> DEFINE k == child.call
<1>1. conf.is_anonymous
  BY SandboxConstants
<1>2. PICK p \in PolicySetup(conf) : k.nr \in Allows(p)
  BY DEF GetAction, Policy
<1>3. /\ k.nr \notin {"fork", "kill", "ptrace", "execve", "chmod"}
      /\ k.nr \in {"unlink", "rename", "rmdir", "utimes"} =>
             conf.write_enable /\ conf.anon_other_write_enable
  BY <1>1, <1>2, NumbersGranted
<1>4. k.nr \notin {"64-bit_selector", "out_of_bounds"}
  BY DEF GetAction
<1>5. k.nr = "mmap2" => k.arg # "MAP_SHARED"
  BY DEF GetAction, ValidateMmap2
<1>6. k.nr = "open" => k.arg # "O_ASYNC" /\
          (k.arg # "O_RDONLY" => conf.write_enable /\ conf.anon_upload_enable)
  BY <1>1, WritingGranted DEF GetAction, ValidateOpen, Policy
<1>7. k.nr \in {"fcntl", "fcntl64"} => k.arg # "F_SETOWN_other"
  BY DEF GetAction, ValidateFcntl
<1>8. k.nr = "socketcall" /\ k.sub = "socket" => k.arg # "dgram"
  BY DEF GetAction, ValidateSocketcall, SocketValidator
<1>9. k.nr = "socketcall" /\ k.sub \in {"connect", "bind"} => child.mem = "remote"
  BY DEF GetAction, ValidateSocketcall, ConnectValidator
<1> QED
  BY <1>3, <1>4, <1>5, <1>6, <1>7, <1>8, <1>9 DEF Forbidden

LEMMA GrantKept ==
    ASSUME UNCHANGED <<conf, child>>, GetAction(child.call)
    PROVE  GetAction(child.call)'
  BY DEF GetAction, Policy, ValidateMmap2, ValidateOpen, ValidateFcntl, ValidateSocketcall,
         ConnectValidator, SocketValidator, SetsockoptValidator, GetsockoptValidator

-----------------------------------------------------------------------------
-----------------------------------------------------------------------------
(* What a step does to the session's record.                                *)

LEMMA GoesTo ==
    ASSUME NEW to, Shaped(child), ChildGoes(to)
    PROVE  /\ Shaped(child') /\ child'.at = to /\ child'.call = child.call
           /\ child'.mem = child.mem /\ child'.shared = child.shared
           /\ child'.traced = child.traced /\ child'.pdeath = child.pdeath
           /\ child'.options = child.options
  BY DEF Shaped, ChildGoes

LEMMA RunsTo ==
    ASSUME NEW to, Shaped(child), RunCall(to)
    PROVE  /\ Shaped(child') /\ child'.at \in {"dead", to} /\ child'.call = child.call
           /\ child'.mem = child.mem
           /\ child'.shared = (child.shared \/ (child.call.nr = "mmap2" /\ child.call.arg = "MAP_SHARED"))
           /\ child'.traced = child.traced /\ child'.pdeath = child.pdeath
           /\ child'.options = child.options
  BY DEF Shaped, RunCall

-----------------------------------------------------------------------------
LEMMA BoxInvInit == BoxInit => BoxInv
  BY DEF BoxInit, BoxInv, Watched, Control, BoxTyped, Shaped, InStep, GivenUp, NothingForbiddenRuns,
     Forbidden,
         NoChild, Idle, Places

\* A session that dies, from wherever it is, stays dead and has not left anything
\* running unwatched; what it had entered may run if the kill came from outside.
LEMMA DeathKeeps ==
    ASSUME Watched, Die, ~ChildIs({"none", "dead"}), conf' = conf, outside', is_exit' = is_exit,
           sup' = sup
    PROVE  Watched'
<1>1. Shaped(child)
  BY DEF Watched, Control, BoxTyped
<1>2. Shaped(child') /\ child'.at = "dead" /\ child'.options = child.options
  BY <1>1, GoesTo, RunsTo DEF Die
<1>3. NothingForbiddenRuns'
  BY DEF NothingForbiddenRuns
<1>4. stray' # "free"
  BY DEF Die, RunCall, Watched, Control, GivenUp
<1>5. Control'
  BY <1>2 DEF Watched, Control, BoxTyped, InStep, GivenUp, ChildIs, Places
<1> QED
  BY <1>3, <1>4, <1>5 DEF Watched

LEMMA WatchedNext ==
    ASSUME Watched, sup # "killed", [BoxNext]_boxvars, ~SupervisorDies
    PROVE  Watched'
<1>s. Shaped(child)
  BY DEF Watched, Control, BoxTyped
<1>f. conf' = conf /\ ran' = ran /\ outside' = outside => NothingForbiddenRuns'
  BY DEF Watched, NothingForbiddenRuns, Forbidden
<1> DEFINE Plain == UNCHANGED <<conf, ran, outside, stray>>
<1>p. Plain /\ Control' => Watched'
  BY <1>f DEF Watched
<1> HIDE DEF Plain
<1> USE DEF Control, BoxTyped, InStep, GivenUp, ChildIs, Places
<1>1. CASE SanitizeChild
  <2>1. Plain
    BY <1>1 DEF SanitizeChild, Quiet, Plain
  <2>2. CASE ChildGoes("dead")
    BY <1>1, <1>s, <2>2, GoesTo, <1>p, <2>1 DEF Watched, SanitizeChild, Quiet
  <2>3. CASE child' = [child EXCEPT !.at = "sane", !.pdeath = TRUE]
    <3>1. /\ Shaped(child') /\ child'.at = "sane" /\ child'.pdeath
          /\ child'.shared = child.shared
      BY <1>s, <2>3 DEF Shaped
    <3> QED
      BY <1>1, <3>1, <1>p, <2>1 DEF Watched, SanitizeChild, Quiet
  <2> QED
    BY <1>1, <2>2, <2>3 DEF SanitizeChild
<1>16. CASE ChangeCredentials
  <2>1. Plain
    BY <1>16 DEF ChangeCredentials, Quiet, Plain
  <2>2. CASE ChildGoes("dead")
    BY <1>16, <1>s, <2>2, GoesTo, <1>p, <2>1 DEF Watched, ChangeCredentials, Quiet
  <2>3. CASE child' = [child EXCEPT !.at = "changed", !.pdeath = child.pdeath /\ conf.run_as_launching_user]
    <3>1. /\ Shaped(child') /\ child'.at = "changed" /\ child'.shared = child.shared
          /\ child'.pdeath = (child.pdeath /\ conf.run_as_launching_user)
      BY <1>s, <2>3 DEF Shaped
    <3> QED
      BY <1>16, <3>1, <1>p, <2>1 DEF Watched, ChangeCredentials, Quiet, Plain
  <2> QED
    BY <1>16, <2>2, <2>3 DEF ChangeCredentials
<1>2. CASE AttachPoint
  <2>1. Plain /\ UNCHANGED <<conf, sup, is_exit>>
    BY <1>2 DEF AttachPoint, Quiet, Plain
  <2>2. CASE ChildIs({"traceme"}) /\ \E to \in {"stopped", "dead"} : ChildGoes(to)
    <3>1. PICK to \in {"stopped", "dead"} : ChildGoes(to)
      BY <2>2
    <3> QED
      BY <1>s, <2>2, <3>1, GoesTo, <1>p, <2>1 DEF Watched
  <2>3. CASE ChildGoes("dead") /\ ChildIs({"changed"})
    BY <1>2, <1>s, <2>3, GoesTo, <1>p, <2>1 DEF Watched, AttachPoint, Quiet
  <2>4. CASE ChildIs({"changed"}) /\ child' = [child EXCEPT !.at = "traceme", !.traced = TRUE]
    <3>1. /\ Shaped(child') /\ child'.at = "traceme" /\ child'.traced
          /\ child'.shared = child.shared /\ child'.pdeath = child.pdeath
      BY <1>s, <2>4 DEF Shaped
    <3> QED
      BY <1>2, <2>4, <3>1, <1>p, <2>1 DEF Watched, AttachPoint, Quiet
  <2> QED
    BY <1>2, <2>2, <2>3, <2>4 DEF AttachPoint
<1>3. CASE KilledFromOutside
  BY <1>3, DeathKeeps DEF KilledFromOutside
<1>4. CASE Alloc
  BY <1>4, <1>p DEF Watched, Plain, Alloc, Supervise, SupGoes
<1>5. CASE Launch
  <2>1. Plain
    BY <1>5 DEF Launch, Supervise, Plain
  <2>2. child.at = "none" /\ ~child.shared
    BY <1>5 DEF Watched, Launch, Supervise
  <2>3. CASE ChildGoes("new") /\ SupGoes("launching")
    BY <1>5, <1>s, <2>2, <2>3, GoesTo, <1>p, <2>1 DEF Watched, Launch, Supervise, SupGoes
  <2>4. CASE SupGoes("gone") /\ UNCHANGED child
    BY <1>5, <2>2, <2>4, <1>p, <2>1 DEF Watched, Launch, Supervise, SupGoes
  <2> QED
    BY <1>5, <2>3, <2>4 DEF Launch
<1>6. CASE Launched
  <2>1. Plain
    BY <1>6 DEF Launched, Supervise, Plain
  <2>2. CASE SupGoes("gone") /\ ChildGoes("dead")
    BY <1>6, <1>s, <2>2, GoesTo, <1>p, <2>1 DEF Watched, Launched, Supervise, SupGoes
  <2>3. CASE ChildIs({"stopped"}) /\ SupGoes("continue") /\ child' = [child EXCEPT !.options = TRUE]
    <3>1. /\ Shaped(child') /\ child'.at = "stopped" /\ child'.options
          /\ child'.shared = child.shared /\ child'.pdeath = child.pdeath
          /\ child'.traced = child.traced
      BY <1>s, <2>3 DEF Shaped
    <3> QED
      BY <1>6, <2>3, <3>1, <1>p, <2>1 DEF Watched, Launched, Supervise, SupGoes
  <2> QED
    BY <1>6, <2>2, <2>3 DEF Launched
<1>7. CASE ContinueProcess
  <2>1. sup = "continue" /\ conf' = conf /\ outside' = outside /\ is_exit' = is_exit
    BY <1>7 DEF ContinueProcess, Supervise
  <2>2. CASE child.at = "dead"
    BY <1>7, <1>p, <2>2 DEF Watched, Plain, ContinueProcess, Supervise, SupGoes
  <2>3. CASE child.at \in {"stopped", "exit", "signal"}
    <3>1. PICK to \in {"dead", "user"} : ChildGoes(to)
      BY <1>7, <2>3 DEF ContinueProcess
    <3>2. sup' = "wait" /\ Plain
      BY <1>7, <2>3 DEF ContinueProcess, Supervise, SupGoes, Plain
    <3> QED
      BY <1>p, <1>s, <2>1, <2>3, <3>1, <3>2, GoesTo DEF Watched
  <2>4. CASE child.at = "entry"
    <3>1. /\ is_exit /\ GetAction(child.call) /\ child.options /\ child.traced /\ ~child.shared
          /\ conf.run_as_launching_user => child.pdeath
      BY <2>1, <2>4 DEF Watched
    <3>2. RunCall("exit") /\ sup' = "wait"
      BY <1>7, <2>4 DEF ContinueProcess, SupGoes
    <3>3. ~Forbidden([call |-> child.call, mem |-> child.mem])
      BY <3>1, GrantedIsNotForbidden DEF Watched
    <3>4. NothingForbiddenRuns'
      BY <2>1, <3>2, <3>3 DEF NothingForbiddenRuns, RunCall, Forbidden
    <3>5. stray' # "free"
      BY <3>1, <3>2 DEF RunCall, Watched
    <3>6. ~(child.call.nr = "mmap2" /\ child.call.arg = "MAP_SHARED")
      BY <3>3 DEF Forbidden
    <3>7. /\ Shaped(child') /\ child'.at \in {"dead", "exit"} /\ ~child'.shared
          /\ child'.traced /\ child'.pdeath = child.pdeath /\ child'.options
      BY <1>s, <3>1, <3>2, <3>6, RunsTo
    <3>8. Control'
      BY <2>1, <2>4, <3>1, <3>2, <3>7 DEF Watched
    <3> QED
      BY <3>4, <3>5, <3>8 DEF Watched
  <2> QED
    BY <2>1, <2>2, <2>3, <2>4 DEF Watched
<1>8. CASE HandleEvent
  <2>1. Plain /\ child' = child /\ sup = "wait"
    BY <1>8 DEF HandleEvent, Supervise, Plain
  <2>2. GetAction(child.call) => GetAction(child.call)'
    BY <2>1, GrantKept DEF Plain
  <2>3. CASE child.at \in {"dead", "signal"}
    BY <1>8, <1>p, <2>1, <2>3 DEF Watched, HandleEvent, SupGoes, Supervise
  <2>4. CASE child.at = "entry"
    BY <1>8, <1>p, <2>1, <2>2, <2>4 DEF Watched, HandleEvent, SupGoes, Supervise
  <2>5. CASE child.at = "exit"
    BY <1>8, <1>p, <2>1, <2>5 DEF Watched, HandleEvent, SupGoes, Supervise
  <2> QED
    BY <1>8, <2>3, <2>4, <2>5 DEF HandleEvent
<1>9. CASE KillProcesses
  <2>1. Plain /\ ChildGoes("dead")
    BY <1>9 DEF KillProcesses, Supervise, Plain, ChildGoes
  <2> QED
    BY <1>9, <1>s, <1>p, <2>1, GoesTo DEF Watched, KillProcesses, Supervise, SupGoes
<1>10. CASE Free
  BY <1>10, <1>p DEF Watched, Plain, Free, Supervise, SupGoes
<1>11. CASE RunUnwatched
  BY <1>11 DEF Watched, RunUnwatched
<1>12. ASSUME NEW k \in Calls, TryCall(k) PROVE Watched'
  <2>1. /\ Shaped(child') /\ child'.at = "entry" /\ child'.shared = child.shared
        /\ child'.traced = child.traced /\ child'.pdeath = child.pdeath
        /\ child'.options = child.options
    BY <1>12, <1>s DEF TryCall, Shaped
  <2> QED
    BY <1>12, <1>p, <2>1 DEF Watched, Plain, TryCall, Quiet
<1>13. ASSUME NEW s, TakeSignal(s) PROVE Watched'
  <2>1. /\ Shaped(child') /\ child'.at = "signal" /\ child'.shared = child.shared
        /\ child'.traced = child.traced /\ child'.pdeath = child.pdeath
        /\ child'.options = child.options
    BY <1>13, <1>s DEF TakeSignal, Shaped
  <2> QED
    BY <1>13, <1>p, <2>1 DEF Watched, Plain, TakeSignal, Quiet
<1>14. ASSUME NEW a \in Addresses, WriteMemory(a) PROVE Watched'
  <2>1. /\ Shaped(child') /\ child'.at = "user" /\ child'.shared = child.shared
        /\ child'.traced = child.traced /\ child'.pdeath = child.pdeath
        /\ child'.options = child.options
    BY <1>14, <1>s DEF Watched, WriteMemory, Shaped
  <2> QED
    BY <1>14, <1>p, <2>1 DEF Watched, Plain, WriteMemory, Quiet
<1>15. CASE UNCHANGED boxvars
  <2>1. GetAction(child.call) => GetAction(child.call)'
    BY <1>15, GrantKept DEF boxvars
  <2> QED
    BY <1>15, <1>p, <2>1 DEF Watched, Plain, boxvars
<1> QED
  BY <1>1, <1>2, <1>3, <1>4, <1>5, <1>6, <1>7, <1>8, <1>9, <1>10, <1>11, <1>12, <1>13, <1>14,
     <1>15, <1>16
     DEF BoxNext, Session, ChildGoesOn, SupervisorSteps

LEMMA OnlyKilledOnce ==
    ASSUME [BoxNext]_boxvars, ~SupervisorDies
    PROVE  sup' = "killed" <=> sup = "killed"
<1>1. CASE Session
  BY <1>1 DEF Session, ChildGoesOn, SanitizeChild, ChangeCredentials, AttachPoint, RunUnwatched,
     KilledFromOutside, TryCall, TakeSignal, WriteMemory, Quiet
<1>2. CASE SupervisorSteps
  BY <1>2 DEF SupervisorSteps, Alloc, Launch, Launched, ContinueProcess, HandleEvent,
     KillProcesses, Free, Supervise, SupGoes
<1> QED
  BY <1>1, <1>2 DEF BoxNext, boxvars

\* The kill of the supervisor takes a session that has kept its ids along, unless it has
\* not even been sanitized.
LEMMA KillOrphans ==
    ASSUME Watched, sup # "killed", SupervisorDies
    PROVE  Orphaned' /\ sup' = "killed"
<1> USE DEF ChildIs, Places
<1>1. sup' = "killed" /\ outside' /\ conf' = conf
  BY DEF SupervisorDies, SupGoes
<1>2. Shaped(child) /\ child.at \in Places /\ conf \in Configs
  BY DEF Watched, Control, BoxTyped
<1>3. CASE ChildIs({"none", "dead"})
  <2>1. UNCHANGED <<child, stray>>
    BY <1>3 DEF SupervisorDies
  <2> QED
    BY <1>1, <1>2, <1>3, <2>1 DEF Orphaned, BoxTyped, Watched, Control, GivenUp, Starting
<1>4. CASE ~ChildIs({"none", "dead"}) /\ child.pdeath
  <2>1. Die
    BY <1>4 DEF SupervisorDies
  <2>2. Shaped(child') /\ child'.at = "dead"
    BY <1>2, <2>1, GoesTo, RunsTo DEF Die
  <2>3. stray' # "free"
    BY <2>1 DEF Die, RunCall, Watched, Control, GivenUp
  <2> QED
    BY <1>1, <1>2, <2>2, <2>3 DEF Orphaned, BoxTyped, Starting
<1>5. CASE ~ChildIs({"none", "dead"}) /\ ~child.pdeath
  <2>1. Detach /\ stray' = stray
    BY <1>5 DEF SupervisorDies
  <2>2. /\ Shaped(child') /\ child'.at = (IF child.traced /\ child.at = "exit" THEN "user" ELSE child.at)
        /\ child'.shared = child.shared
    BY <1>2, <2>1 DEF Detach, Shaped
  <2>3. conf.run_as_launching_user => child.at = "new"
    BY <1>2, <1>5 DEF Watched, Control, GivenUp
  <2>4. ~child.shared /\ stray # "free"
    BY <1>5 DEF Watched, Control, GivenUp
  <2> QED
    BY <1>1, <1>2, <2>1, <2>2, <2>3, <2>4 DEF Orphaned, BoxTyped, Starting
<1> QED
  BY <1>3, <1>4, <1>5

\* A session that lost its supervisor before it began never begins.
LEMMA OrphansKeep ==
    ASSUME Orphaned, sup = "killed", [BoxNext]_boxvars
    PROVE  Orphaned' /\ sup' = "killed"
<1> USE DEF ChildIs, Places
<1>1. ~SupervisorDies
  BY DEF SupervisorDies
<1>2. sup' = "killed"
  BY <1>1, OnlyKilledOnce
<1>3. Shaped(child) /\ child.at \in Places /\ conf \in Configs /\ outside
  BY DEF Orphaned, BoxTyped
<1>4. CASE UNCHANGED boxvars
  BY <1>2, <1>4 DEF boxvars, Orphaned, BoxTyped, Starting, Shaped
<1>5. CASE SanitizeChild \/ ChangeCredentials \/ AttachPoint
  <2>1. conf' = conf /\ stray' = stray /\ outside' = outside
    BY <1>5 DEF SanitizeChild, ChangeCredentials, AttachPoint, Quiet
  <2>2. Shaped(child') /\ child'.shared = child.shared /\ child'.at \in Starting
    <3>1. CASE SanitizeChild
      BY <1>3, <3>1, GoesTo DEF SanitizeChild, Shaped, Starting
    <3>2. CASE ChangeCredentials
      BY <1>3, <3>2, GoesTo DEF ChangeCredentials, Shaped, Starting
    <3>3. CASE AttachPoint
      BY <1>3, <3>3, GoesTo DEF AttachPoint, Shaped, Starting
    <3> QED
      BY <1>5, <3>1, <3>2, <3>3
  <2>3. child.at \notin {"none", "dead"}
    BY <1>5 DEF SanitizeChild, ChangeCredentials, AttachPoint
  <2> QED
    BY <1>2, <1>3, <2>1, <2>2, <2>3 DEF Orphaned, BoxTyped, Starting
<1>6. CASE RunUnwatched
  <2>1. conf' = conf /\ outside' = outside /\ child.at \in {"entry", "signal"}
    BY <1>6 DEF RunUnwatched
  <2>2. Shaped(child') /\ child'.at \in {"user", "dead"}
    BY <1>3, <1>6, GoesTo, RunsTo DEF RunUnwatched
  <2> QED
    BY <1>2, <1>3, <2>1, <2>2 DEF Orphaned, BoxTyped, Starting
<1>7. CASE KilledFromOutside
  <2>1. conf' = conf /\ outside' /\ Die /\ child.at \notin {"none", "dead"}
    BY <1>7 DEF KilledFromOutside
  <2>2. Shaped(child') /\ child'.at = "dead"
    BY <1>3, <2>1, GoesTo, RunsTo DEF Die
  <2>3. conf.run_as_launching_user => stray' # "free"
    BY <2>1 DEF Die, Orphaned, Starting
  <2> QED
    BY <1>2, <1>3, <2>1, <2>2, <2>3 DEF Orphaned, BoxTyped, Starting
<1>8. ASSUME \/ \E k \in Calls : TryCall(k)
             \/ \E s \in {"SIGALRM", "SIGSTOP"} : TakeSignal(s)
      PROVE  Orphaned' /\ sup' = "killed"
  <2>1. /\ conf' = conf /\ outside' = outside /\ child.at = "user"
        /\ child'.at \in {"entry", "signal"} /\ Shaped(child')
    BY <1>3, <1>8 DEF TryCall, TakeSignal, Quiet, Shaped
  <2> QED
    BY <1>2, <1>3, <2>1 DEF Orphaned, BoxTyped, Starting
<1>9. CASE \E a \in Addresses : WriteMemory(a)
  <2>1. /\ conf' = conf /\ outside' = outside /\ stray' = stray /\ child'.at = child.at
        /\ child'.shared = child.shared /\ Shaped(child')
    BY <1>3, <1>9 DEF WriteMemory, Quiet, Shaped
  <2> QED
    BY <1>2, <1>3, <2>1 DEF Orphaned, BoxTyped, Starting
<1>10. ~SupervisorSteps
  BY DEF SupervisorSteps, Alloc, Launch, Launched, ContinueProcess, HandleEvent,
     KillProcesses, Free, Supervise
<1>11. CASE Session
  <2>1. CASE ChildGoesOn
    BY <1>5, <1>6, <2>1 DEF ChildGoesOn
  <2>2. CASE KilledFromOutside
    BY <1>7, <2>2
  <2> QED
    BY <1>8, <1>9, <1>11, <2>1, <2>2 DEF Session
<1> QED
  BY <1>1, <1>4, <1>10, <1>11 DEF BoxNext

LEMMA BoxInvNext ==
    ASSUME BoxInv, [BoxNext]_boxvars
    PROVE  BoxInv'
<1>1. CASE sup = "killed"
  BY <1>1, OrphansKeep DEF BoxInv
<1>2. CASE sup # "killed" /\ SupervisorDies
  BY <1>2, KillOrphans DEF BoxInv
<1>3. CASE sup # "killed" /\ ~SupervisorDies
  BY <1>3, WatchedNext, OnlyKilledOnce DEF BoxInv
<1> QED
  BY <1>1, <1>2, <1>3

\* The sandbox holds for every setting of the tunables and every system call a
\* session can try: get_action grants nothing that is forbidden, is_exit and the
\* session stay in step, and the memory that a validator has read is the memory
\* that the call sees (ptracesandbox.c, ftppolicy.c).  Of a session that has changed its
\* ids and whose supervisor is killed it says nothing: the kernel has forgotten
\* the death signal (one_process_start), and it goes on unwatched.
THEOREM SandboxConfines == BoxSpec => []SessionsStayConfined
<1>1. BoxInv => SessionsStayConfined
  <2> SUFFICES ASSUME BoxInv PROVE NothingForbiddenRuns /\ NeverServesUnwatched
    BY DEF SessionsStayConfined
  <2>1. CASE sup = "killed"
    BY <2>1 DEF BoxInv, Orphaned, Starting, NothingForbiddenRuns, NeverServesUnwatched, Serving, ChildIs
  <2>2. CASE sup # "killed"
    BY <2>2 DEF BoxInv, Watched, Control, BoxTyped, InStep, GivenUp, NeverServesUnwatched, Serving,
       ChildIs
  <2> QED
    BY <2>1, <2>2
<1>2. BoxInv /\ [BoxNext]_boxvars => BoxInv'
  BY BoxInvNext
<1> QED
  BY BoxInvInit, <1>1, <1>2, PTL DEF BoxSpec

-----------------------------------------------------------------------------
(* The change of credentials.                                               *)


ProcShaped(p) ==
    p = [uid |-> p.uid, euid |-> p.euid, suid |-> p.suid, gid |-> p.gid, egid |-> p.egid,
         sgid |-> p.sgid, groups |-> p.groups, root |-> p.root, cwd |-> p.cwd,
         permitted |-> p.permitted, effective |-> p.effective, keep |-> p.keep,
         nofile |-> p.nofile, nproc |-> p.nproc]

\* The steps in their order.
UntilChdir == {"user", "groups", "setegid", "seteuid", "chdir"}
UntilChroot == UntilChdir \cup {"chdir_ext", "restore_euid", "restore_egid", "chroot"}
UntilSetgid == UntilChroot \cup {"no_fds", "caps", "keep", "adopt_as_root", "setgid"}
AfterSetuid == {"adopt", "no_procs", "check"}
Alive == UntilSetgid \cup {"setuid", "done"} \cup AfterSetuid

\* The effective ids are lent to the target, between seteuid() and its reversal.
Lent == step = "restore_euid" \/ (step \in {"chdir", "chdir_ext"} /\ Asked("change_euid"))

Typed ==
    /\ want \in Requests /\ step \in Alive \cup {"dead"}
    /\ ProcShaped(proc)
    /\ sys.as_non_root => sys.has_capabilities

\* Which way the process has taken.
Route ==
    /\ step \in {"setegid", "seteuid", "restore_euid", "restore_egid"} => Asked("change_euid")
    /\ step = "chdir_ext" => want.ext # "none"
    /\ step = "keep" => want.caps # {} /\ sys.as_non_root
    /\ step = "adopt_as_root" => want.caps # {} /\ sys.has_capabilities /\ ~sys.as_non_root
    /\ step \in {"setgid", "setuid"} \cup AfterSetuid => ~KeepsUserRoot
    /\ step = "adopt" => want.caps # {}

\* Who the process is, and what it may do.
Identity ==
    /\ step \in UntilSetgid \cup {"setuid"} => proc.uid = "root" /\ proc.permitted = Privileges
    /\ step \in UntilSetgid => proc.gid = "root"
    /\ Lent => proc.euid = want.user /\ proc.effective = {}
    /\ step \in UntilSetgid \cup {"setuid"} /\ ~Lent =>
         proc.euid = "root" /\ proc.effective = Privileges
    /\ step \in UntilSetgid \ {"seteuid", "restore_euid", "restore_egid"} /\ ~Lent =>
         proc.egid = "root"
    /\ Lent \/ step \in {"seteuid", "restore_egid"} => saved.euid = "root" /\ saved.egid = "root"
    /\ step \in UntilSetgid /\ want.caps # {} => proc.suid = "root"
    /\ step \in UntilSetgid \ {"setgid"} => proc.keep = FALSE
    /\ step \in {"setgid", "setuid"} => proc.keep = (want.caps # {})
    /\ step \in {"setuid"} \cup AfterSetuid =>
         proc.gid = want.user /\ proc.egid = want.user /\ proc.sgid = want.user
    /\ step \in AfterSetuid =>
         proc.uid = want.user /\ proc.euid = want.user /\ proc.suid = want.user
    /\ step = "adopt" => proc.permitted = Privileges
    /\ step \in {"no_procs", "check"} => proc.permitted = want.caps /\ proc.effective = want.caps

\* Where it is and in which jail, in which groups and under which limits.
Place ==
    /\ step \in UntilChroot => proc.root = "/"
    /\ step \in Alive \ UntilChroot => proc.root = IF Asked("chroot") THEN proc.cwd ELSE "/"
    /\ step = "chdir_ext" => proc.cwd = Home
    /\ step \in Alive \ (UntilChdir \cup {"chdir_ext"}) =>
         proc.cwd = IF want.ext # "none" /\ "no_ext" \notin sys.faults THEN want.ext ELSE Home
    /\ step \in Alive \ {"user", "groups"} =>
         proc.groups = IF Asked("use_groups") THEN Memberships ELSE {}
    /\ step \in UntilChroot \cup {"no_fds"} => proc.nofile = FALSE
    /\ step \in Alive \ (UntilChroot \cup {"no_fds"}) => proc.nofile = Asked("no_fds")
    /\ step \in UntilSetgid \cup {"setuid", "adopt", "no_procs"} => proc.nproc = FALSE
    /\ step = "check" => proc.nproc = Asked("no_procs")

\* What cannot be wrong with the host any more.
Passed ==
    /\ step \in Alive \ {"user"} => "no_user" \notin sys.faults
    /\ step \in Alive \ UntilChdir => "no_dir" \notin sys.faults
    /\ step \in Alive \ UntilChdir /\ ~Asked("change_euid") => "root_squashed" \notin sys.faults
    /\ step \in Alive \ (UntilChdir \cup {"chdir_ext"}) /\ want.ext # "none" /\ Asked("chroot") =>
         "no_ext" \notin sys.faults
    /\ step \in Alive \ UntilChroot /\ Asked("chroot") => "root_squashed" \notin sys.faults
    /\ step \in AfterSetuid => "too_many_processes" \notin sys.faults

\* What a step leaves alone.
SameIds ==
    /\ proc'.uid = proc.uid /\ proc'.euid = proc.euid /\ proc'.suid = proc.suid
    /\ proc'.gid = proc.gid /\ proc'.egid = proc.egid
    /\ proc'.sgid = proc.sgid
SameCaps == proc'.permitted = proc.permitted /\ proc'.effective = proc.effective /\ proc'.keep = proc.keep
SamePlace == proc'.root = proc.root /\ proc'.cwd = proc.cwd /\ proc'.groups = proc.groups
SameLimits == proc'.nofile = proc.nofile /\ proc'.nproc = proc.nproc

CredInv == Typed /\ Route /\ Identity /\ Place /\ Passed /\ CredentialsAreAsAsked

-----------------------------------------------------------------------------
LEMMA CredInvInit == CInit => CredInv
  BY RequestsFromTheCallers
     DEF CInit, CredInv, Typed, ProcShaped, Route, Identity, Place, Passed, CredentialsAreAsAsked,
         Lent,
         Alive, UntilChdir, UntilChroot, UntilSetgid, AfterSetuid, Asked

\* A call that fails for a reason on the host.
LEMMA DiesForAReason ==
    ASSUME CredInv, step' = "dead", UNCHANGED <<want, sys, proc>>,
           NEW f \in sys.faults, f \in InTheWay
    PROVE  CredInv'
<1> USE DEF Alive, UntilChdir, UntilChroot, UntilSetgid, AfterSetuid
<1>1. Typed' /\ Route' /\ Place' /\ Passed'
  BY DEF CredInv, Typed, Route, Place, Passed
<1>2. Identity'
  BY DEF Identity, Lent
<1>3. CredentialsAreAsAsked'
  BY DEF CredentialsAreAsAsked, InTheWay, KeepsUserRoot, Asked
<1> QED
  BY <1>1, <1>2, <1>3 DEF CredInv

-----------------------------------------------------------------------------
LEMMA CredInvNext ==
    ASSUME CredInv, [CNext]_cvars
    PROVE  CredInv'
<1>t. /\ want.user # "root" /\ ProcShaped(proc) /\ want.caps \subseteq Privileges
      /\ Asked("change_euid") => want.caps = {}
  BY RequestsFromTheCallers DEF CredInv, Typed, Asked, Privileges
<1> USE DEF Alive, UntilChdir, UntilChroot, UntilSetgid, AfterSetuid
<1>1. CASE LocateUser
  <2>1. UNCHANGED <<want, sys, saved>> /\ step = "user"
    BY <1>1 DEF LocateUser, Call
  <2>2. CASE step' = "dead" /\ UNCHANGED proc
    <3>1. PICK f \in sys.faults : f \in InTheWay
      BY <1>1, <1>t, <2>1, <2>2 DEF LocateUser, Call, InTheWay, CredInv, Identity
    <3> QED
      BY <2>1, <2>2, <3>1, DiesForAReason
  <2>3. CASE step' # "dead"
    <3>1. /\ step' = "groups" /\ ProcShaped(proc')
          /\ SameIds /\ SameCaps /\ SamePlace /\ SameLimits
          /\ "no_user" \notin sys.faults
      BY <1>1, <1>t, <2>1, <2>3 DEF LocateUser, Call, CredInv, Identity, ProcShaped, SameIds,
         SameCaps, SamePlace, SameLimits
    <3>2. Typed' /\ Route'
      BY <1>t, <2>1, <3>1, <2>3 DEF CredInv, Typed, Route, KeepsUserRoot, Asked, SameIds,
         SameCaps, SamePlace, SameLimits
    <3>3. Identity'
      BY <1>t, <2>1, <3>1, <2>3 DEF CredInv, Identity, Route, Lent, Asked, KeepsUserRoot,
         SameIds, SameCaps, SamePlace, SameLimits
    <3>4. Place'
      BY <1>t, <2>1, <3>1, <2>3 DEF CredInv, Place, Route, Asked, Home, Memberships, SameIds,
         SameCaps, SamePlace, SameLimits
    <3>5. Passed'
      BY <1>t, <2>1, <3>1, <2>3 DEF CredInv, Passed, Asked, Lent, Identity, SameIds, SameCaps,
         SamePlace, SameLimits
    <3>6. CredentialsAreAsAsked'
      BY <1>t, <2>1, <3>1, <2>3 DEF CredInv, CredentialsAreAsAsked, SameIds, SameCaps,
         SamePlace, SameLimits
    <3> QED
      BY <3>2, <3>3, <3>4, <3>5, <3>6 DEF CredInv
  <2> QED
    BY <1>1, <2>2, <2>3 DEF LocateUser, Call
<1>2. CASE SupplementaryGroups
  <2>1. UNCHANGED <<want, sys, saved>> /\ step = "groups"
    BY <1>2 DEF SupplementaryGroups, Call
  <2>2. /\ step' = (IF Asked("change_euid") THEN "setegid" ELSE "chdir") /\ ProcShaped(proc')
        /\ SameIds /\ SameCaps /\ SameLimits
        /\ proc'.root = proc.root /\ proc'.cwd = proc.cwd
        /\ proc'.groups = IF Asked("use_groups") THEN Memberships ELSE {}
    BY <1>2, <1>t, <2>1 DEF SupplementaryGroups, Call, CredInv, Identity, Place, Able,
       Initgroups, Privileges, Lent, ProcShaped, SameIds, SameCaps, SameLimits
  <2>3. Typed' /\ Route'
    BY <1>t, <2>1, <2>2 DEF CredInv, Typed, Route, KeepsUserRoot, Asked, SameIds, SameCaps,
       SameLimits
  <2>4. Identity'
    BY <1>t, <2>1, <2>2 DEF CredInv, Identity, Route, Lent, Asked, KeepsUserRoot, SameIds,
       SameCaps, SameLimits
  <2>5. Place'
    BY <1>t, <2>1, <2>2 DEF CredInv, Place, Route, Asked, Home, Memberships, SameIds, SameCaps,
       SameLimits
  <2>6. Passed'
    BY <1>t, <2>1, <2>2 DEF CredInv, Passed, Asked, Lent, Identity, SameIds, SameCaps, SameLimits
  <2>7. CredentialsAreAsAsked'
    BY <1>t, <2>1, <2>2 DEF CredInv, CredentialsAreAsAsked, SameIds, SameCaps, SameLimits
  <2> QED
    BY <2>3, <2>4, <2>5, <2>6, <2>7 DEF CredInv
<1>3. CASE Setegid
  <2>1. UNCHANGED <<want, sys>> /\ step = "setegid"
    BY <1>3 DEF Setegid
  <2>2. /\ step' = "seteuid" /\ ProcShaped(proc')
        /\ SameCaps /\ SamePlace /\ SameLimits
        /\ proc'.uid = proc.uid /\ proc'.euid = proc.euid /\ proc'.suid = proc.suid /\ proc'.gid = proc.gid
        /\ saved'.euid = "root" /\ saved'.egid = "root"
    BY <1>3, <1>t, <2>1 DEF Setegid, CanSetregid, Setregid, Able, Privileges, CredInv, Identity,
       Lent, ProcShaped, SameCaps, SamePlace, SameLimits
  <2>3. Typed' /\ Route'
    BY <1>t, <2>1, <2>2 DEF CredInv, Typed, Route, KeepsUserRoot, Asked, SameCaps, SamePlace,
       SameLimits
  <2>4. Identity'
    BY <1>t, <2>1, <2>2 DEF CredInv, Identity, Route, Lent, Asked, KeepsUserRoot, SameCaps,
       SamePlace, SameLimits
  <2>5. Place'
    BY <1>t, <2>1, <2>2 DEF CredInv, Place, Route, Asked, Home, Memberships, SameCaps,
       SamePlace, SameLimits
  <2>6. Passed'
    BY <1>t, <2>1, <2>2 DEF CredInv, Passed, Asked, Lent, Identity, SameCaps, SamePlace,
       SameLimits
  <2>7. CredentialsAreAsAsked'
    BY <1>t, <2>1, <2>2 DEF CredInv, CredentialsAreAsAsked, SameCaps, SamePlace, SameLimits
  <2> QED
    BY <2>3, <2>4, <2>5, <2>6, <2>7 DEF CredInv
<1>4. CASE Seteuid
  <2>1. UNCHANGED <<want, sys, saved>> /\ step = "seteuid"
    BY <1>4 DEF Seteuid, Call
  <2>x. /\ CanSetreuid(want.user)
        /\ Setreuid(want.user) = [proc EXCEPT !.uid = "root", !.euid = want.user, !.suid = want.user,
                                              !.permitted = Privileges, !.effective = {}]
    BY <1>t, <2>1 DEF CanSetreuid, Setreuid, WithUids, Able, Privileges, CredInv, Identity, Lent
  <2>y. /\ step' = "chdir"
        /\ proc' = [proc EXCEPT !.uid = "root", !.euid = want.user, !.suid = want.user,
                                   !.permitted = Privileges, !.effective = {}]
    BY <1>4, <1>t, <2>1, <2>x DEF Seteuid, Call
  <2>2. /\ step' = "chdir" /\ ProcShaped(proc')
        /\ SamePlace /\ SameLimits
        /\ proc'.uid = "root" /\ proc'.euid = want.user
        /\ proc'.gid = proc.gid /\ proc'.keep = proc.keep
        /\ proc'.permitted = Privileges /\ proc'.effective = {}
    BY <1>t, <2>y DEF ProcShaped, SamePlace, SameLimits
  <2>3. Typed' /\ Route'
    BY <1>t, <2>1, <2>2, <2>x DEF CredInv, Typed, Route, KeepsUserRoot, Asked, SamePlace,
       SameLimits
  <2>4. Identity'
    BY <1>t, <2>1, <2>2, <2>x DEF CredInv, Identity, Route, Lent, Asked, KeepsUserRoot,
       SamePlace, SameLimits
  <2>5. Place'
    BY <1>t, <2>1, <2>2, <2>x DEF CredInv, Place, Route, Asked, Home, Memberships, SamePlace,
       SameLimits
  <2>6. Passed'
    BY <1>t, <2>1, <2>2, <2>x DEF CredInv, Passed, Asked, Lent, Identity, SamePlace, SameLimits
  <2>7. CredentialsAreAsAsked'
    BY <1>t, <2>1, <2>2, <2>x DEF CredInv, CredentialsAreAsAsked, SamePlace, SameLimits
  <2> QED
    BY <2>3, <2>4, <2>5, <2>6, <2>7 DEF CredInv
<1>5. CASE Chdir
  <2>1. UNCHANGED <<want, sys, saved>> /\ step = "chdir"
    BY <1>5 DEF Chdir, Call
  <2>2. CASE step' = "dead" /\ UNCHANGED proc
    <3>1. PICK f \in sys.faults : f \in InTheWay
      BY <1>5, <1>t, <2>1, <2>2 DEF Chdir, Call, CanEnter, InTheWay, CredInv, Identity, Lent,
         Asked
    <3> QED
      BY <2>1, <2>2, <3>1, DiesForAReason
  <2>3. CASE step' # "dead"
    <3>1. /\ step' = (IF want.ext # "none" THEN "chdir_ext"
                    ELSE IF Asked("change_euid") THEN "restore_euid" ELSE "chroot")
          /\ ProcShaped(proc')
          /\ SameIds /\ SameCaps /\ SameLimits
          /\ proc'.root = proc.root /\ proc'.cwd = Home /\ proc'.groups = proc.groups
          /\ "no_dir" \notin sys.faults
          /\ "root_squashed" \in sys.faults => Asked("change_euid")
      BY <1>5, <1>t, <2>1, <2>3 DEF Chdir, Call, CanEnter, CredInv, Identity, Lent, ProcShaped,
         SameIds, SameCaps, SameLimits
    <3>2. Typed' /\ Route'
      BY <1>t, <2>1, <3>1, <2>3 DEF CredInv, Typed, Route, KeepsUserRoot, Asked, SameIds,
         SameCaps, SameLimits
    <3>3. Identity'
      BY <1>t, <2>1, <3>1, <2>3 DEF CredInv, Identity, Route, Lent, Asked, KeepsUserRoot,
         SameIds, SameCaps, SameLimits
    <3>4. Place'
      BY <1>t, <2>1, <3>1, <2>3 DEF CredInv, Place, Route, Asked, Home, Memberships, SameIds,
         SameCaps, SameLimits
    <3>5. Passed'
      BY <1>t, <2>1, <3>1, <2>3 DEF CredInv, Passed, Asked, Lent, Identity, SameIds, SameCaps,
         SameLimits
    <3>6. CredentialsAreAsAsked'
      BY <1>t, <2>1, <3>1, <2>3 DEF CredInv, CredentialsAreAsAsked, SameIds, SameCaps, SameLimits
    <3> QED
      BY <3>2, <3>3, <3>4, <3>5, <3>6 DEF CredInv
  <2> QED
    BY <1>5, <2>2, <2>3 DEF Chdir, Call
<1>6. CASE ChdirExt
  <2>1. UNCHANGED <<want, sys, saved>> /\ step = "chdir_ext"
    BY <1>6 DEF ChdirExt, Call
  <2>2. CASE step' = "dead" /\ UNCHANGED proc
    <3>1. PICK f \in sys.faults : f \in InTheWay
      BY <1>6, <1>t, <2>1, <2>2 DEF ChdirExt, Call, InTheWay, CredInv, Route
    <3> QED
      BY <2>1, <2>2, <3>1, DiesForAReason
  <2>3. CASE step' # "dead"
    <3>1. /\ step' = (IF Asked("change_euid") THEN "restore_euid" ELSE "chroot") /\ ProcShaped(proc')
          /\ SameIds /\ SameCaps /\ SameLimits
          /\ proc'.root = proc.root /\ proc'.groups = proc.groups
          /\ proc'.cwd = IF "no_ext" \notin sys.faults THEN want.ext ELSE Home
          /\ Asked("chroot") => "no_ext" \notin sys.faults
      BY <1>6, <1>t, <2>1, <2>3 DEF ChdirExt, Call, CredInv, Place, ProcShaped, SameIds, SameCaps,
         SameLimits
    <3>2. Typed' /\ Route'
      BY <1>t, <2>1, <3>1, <2>3 DEF CredInv, Typed, Route, KeepsUserRoot, Asked, SameIds,
         SameCaps, SameLimits
    <3>3. Identity'
      BY <1>t, <2>1, <3>1, <2>3 DEF CredInv, Identity, Route, Lent, Asked, KeepsUserRoot,
         SameIds, SameCaps, SameLimits
    <3>4. Place'
      BY <1>t, <2>1, <3>1, <2>3 DEF CredInv, Place, Route, Asked, Home, Memberships, SameIds,
         SameCaps, SameLimits
    <3>5. Passed'
      BY <1>t, <2>1, <3>1, <2>3 DEF CredInv, Passed, Asked, Lent, Identity, SameIds, SameCaps,
         SameLimits
    <3>6. CredentialsAreAsAsked'
      BY <1>t, <2>1, <3>1, <2>3 DEF CredInv, CredentialsAreAsAsked, SameIds, SameCaps, SameLimits
    <3> QED
      BY <3>2, <3>3, <3>4, <3>5, <3>6 DEF CredInv
  <2> QED
    BY <1>6, <2>2, <2>3 DEF ChdirExt, Call
<1>7. CASE RestoreEuid
  <2>1. UNCHANGED <<want, sys, saved>> /\ step = "restore_euid"
    BY <1>7 DEF RestoreEuid, Call
  <2>x. /\ CanSetreuid(saved.euid)
        /\ Setreuid(saved.euid) = [proc EXCEPT !.uid = "root", !.euid = "root", !.suid = proc.suid,
                                               !.permitted = Privileges, !.effective = Privileges]
    BY <1>t, <2>1 DEF CanSetreuid, Setreuid, WithUids, Able, Privileges, CredInv, Identity, Lent
  <2>y. /\ step' = "restore_egid"
        /\ proc' = [proc EXCEPT !.uid = "root", !.euid = "root", !.suid = proc.suid,
                                   !.permitted = Privileges, !.effective = Privileges]
    BY <1>7, <1>t, <2>1, <2>x DEF RestoreEuid, Call
  <2>2. /\ step' = "restore_egid" /\ ProcShaped(proc')
        /\ SamePlace /\ SameLimits
        /\ proc'.uid = "root" /\ proc'.euid = "root" /\ proc'.suid = proc.suid
        /\ proc'.gid = proc.gid /\ proc'.keep = proc.keep
        /\ proc'.permitted = Privileges /\ proc'.effective = Privileges
    BY <1>t, <2>y DEF ProcShaped, SamePlace, SameLimits
  <2>3. Typed' /\ Route'
    BY <1>t, <2>1, <2>2, <2>x DEF CredInv, Typed, Route, KeepsUserRoot, Asked, SamePlace,
       SameLimits
  <2>4. Identity'
    BY <1>t, <2>1, <2>2, <2>x DEF CredInv, Identity, Route, Lent, Asked, KeepsUserRoot,
       SamePlace, SameLimits
  <2>5. Place'
    BY <1>t, <2>1, <2>2, <2>x DEF CredInv, Place, Route, Asked, Home, Memberships, SamePlace,
       SameLimits
  <2>6. Passed'
    BY <1>t, <2>1, <2>2, <2>x DEF CredInv, Passed, Asked, Lent, Identity, SamePlace, SameLimits
  <2>7. CredentialsAreAsAsked'
    BY <1>t, <2>1, <2>2, <2>x DEF CredInv, CredentialsAreAsAsked, SamePlace, SameLimits
  <2> QED
    BY <2>3, <2>4, <2>5, <2>6, <2>7 DEF CredInv
<1>8. CASE RestoreEgid
  <2>1. UNCHANGED <<want, sys, saved>> /\ step = "restore_egid"
    BY <1>8 DEF RestoreEgid, Call
  <2>2. /\ step' = "chroot" /\ ProcShaped(proc')
        /\ SameCaps /\ SamePlace /\ SameLimits
        /\ proc'.uid = proc.uid /\ proc'.euid = proc.euid /\ proc'.suid = proc.suid
        /\ proc'.gid = proc.gid /\ proc'.egid = "root"
    BY <1>8, <1>t, <2>1 DEF RestoreEgid, Call, CanSetregid, Setregid, Able, Privileges, CredInv,
       Identity, Lent, ProcShaped, SameCaps, SamePlace, SameLimits
  <2>3. Typed' /\ Route'
    BY <1>t, <2>1, <2>2 DEF CredInv, Typed, Route, KeepsUserRoot, Asked, SameCaps, SamePlace,
       SameLimits
  <2>4. Identity'
    BY <1>t, <2>1, <2>2 DEF CredInv, Identity, Route, Lent, Asked, KeepsUserRoot, SameCaps,
       SamePlace, SameLimits
  <2>5. Place'
    BY <1>t, <2>1, <2>2 DEF CredInv, Place, Route, Asked, Home, Memberships, SameCaps,
       SamePlace, SameLimits
  <2>6. Passed'
    BY <1>t, <2>1, <2>2 DEF CredInv, Passed, Asked, Lent, Identity, SameCaps, SamePlace,
       SameLimits
  <2>7. CredentialsAreAsAsked'
    BY <1>t, <2>1, <2>2 DEF CredInv, CredentialsAreAsAsked, SameCaps, SamePlace, SameLimits
  <2> QED
    BY <2>3, <2>4, <2>5, <2>6, <2>7 DEF CredInv
<1>9. CASE Chroot
  <2>1. UNCHANGED <<want, sys, saved>> /\ step = "chroot"
    BY <1>9 DEF Chroot, Call
  <2>2. CASE step' = "dead" /\ UNCHANGED proc
    <3>1. PICK f \in sys.faults : f \in InTheWay
      BY <1>9, <1>t, <2>1, <2>2 DEF Chroot, Call, CanEnter, InTheWay, CredInv, Identity, Lent,
         Able, Privileges
    <3> QED
      BY <2>1, <2>2, <3>1, DiesForAReason
  <2>3. CASE step' # "dead"
    <3>1. /\ step' = "no_fds" /\ ProcShaped(proc')
          /\ SameIds /\ SameCaps /\ SameLimits
          /\ proc'.root = (IF Asked("chroot") THEN proc.cwd ELSE "/")
          /\ proc'.cwd = proc.cwd /\ proc'.groups = proc.groups
          /\ Asked("chroot") => "root_squashed" \notin sys.faults
      BY <1>9, <1>t, <2>1, <2>3 DEF Chroot, Call, CanEnter, CredInv, Identity, Lent, Place,
         ProcShaped, SameIds, SameCaps, SameLimits
    <3>2. Typed' /\ Route'
      BY <1>t, <2>1, <3>1, <2>3 DEF CredInv, Typed, Route, KeepsUserRoot, Asked, SameIds,
         SameCaps, SameLimits
    <3>3. Identity'
      BY <1>t, <2>1, <3>1, <2>3 DEF CredInv, Identity, Route, Lent, Asked, KeepsUserRoot,
         SameIds, SameCaps, SameLimits
    <3>4. Place'
      BY <1>t, <2>1, <3>1, <2>3 DEF CredInv, Place, Route, Asked, Home, Memberships, SameIds,
         SameCaps, SameLimits
    <3>5. Passed'
      BY <1>t, <2>1, <3>1, <2>3 DEF CredInv, Passed, Asked, Lent, Identity, SameIds, SameCaps,
         SameLimits
    <3>6. CredentialsAreAsAsked'
      BY <1>t, <2>1, <3>1, <2>3 DEF CredInv, CredentialsAreAsAsked, SameIds, SameCaps, SameLimits
    <3> QED
      BY <3>2, <3>3, <3>4, <3>5, <3>6 DEF CredInv
  <2> QED
    BY <1>9, <2>2, <2>3 DEF Chroot, Call
<1>10. CASE SetNoFds
  <2>1. UNCHANGED <<want, sys, saved>> /\ step = "no_fds"
    BY <1>10 DEF SetNoFds, Call
  <2>y. /\ step' = "caps"
        /\ proc' = [proc EXCEPT !.nofile = proc.nofile \/ Asked("no_fds")]
    BY <1>10, <1>t, <2>1 DEF SetNoFds, Call, CredInv, Place
  <2>2. /\ step' = "caps" /\ ProcShaped(proc')
        /\ SameIds /\ SameCaps /\ SamePlace
        /\ proc'.nofile = (proc.nofile \/ Asked("no_fds")) /\ proc'.nproc = proc.nproc
    BY <1>t, <2>y DEF ProcShaped, SameIds, SameCaps, SamePlace
  <2>3. Typed' /\ Route'
    BY <1>t, <2>1, <2>2 DEF CredInv, Typed, Route, KeepsUserRoot, Asked, SameIds, SameCaps,
       SamePlace
  <2>4. Identity'
    BY <1>t, <2>1, <2>2 DEF CredInv, Identity, Route, Lent, Asked, KeepsUserRoot, SameIds,
       SameCaps, SamePlace
  <2>5. Place'
    BY <1>t, <2>1, <2>2 DEF CredInv, Place, Route, Asked, Home, Memberships, SameIds, SameCaps,
       SamePlace
  <2>6. Passed'
    BY <1>t, <2>1, <2>2 DEF CredInv, Passed, Asked, Lent, Identity, SameIds, SameCaps, SamePlace
  <2>7. CredentialsAreAsAsked'
    BY <1>t, <2>1, <2>2 DEF CredInv, CredentialsAreAsAsked, SameIds, SameCaps, SamePlace
  <2> QED
    BY <2>3, <2>4, <2>5, <2>6, <2>7 DEF CredInv
<1>11. CASE HandleCapabilities
  <2>1. UNCHANGED <<want, sys, saved>> /\ step = "caps"
    BY <1>11 DEF HandleCapabilities, Call
  <2>2. /\ step' = (IF want.caps = {} THEN "setgid"
                  ELSE IF ~sys.has_capabilities THEN "done"
                  ELSE IF sys.as_non_root THEN "keep" ELSE "adopt_as_root")
        /\ ProcShaped(proc')
        /\ SameIds /\ SameCaps /\ SamePlace /\ SameLimits
    BY <1>11, <1>t, <2>1 DEF HandleCapabilities, Call, ProcShaped, SameIds, SameCaps, SamePlace,
       SameLimits
  <2>3. Typed' /\ Route'
    BY <1>t, <2>1, <2>2 DEF CredInv, Typed, Route, KeepsUserRoot, Asked, SameIds, SameCaps,
       SamePlace, SameLimits
  <2>4. Identity'
    BY <1>t, <2>1, <2>2 DEF CredInv, Identity, Route, Lent, Asked, KeepsUserRoot, SameIds,
       SameCaps, SamePlace, SameLimits
  <2>5. Place'
    BY <1>t, <2>1, <2>2 DEF CredInv, Place, Route, Asked, Home, Memberships, SameIds, SameCaps,
       SamePlace, SameLimits
  <2>6. Passed'
    BY <1>t, <2>1, <2>2 DEF CredInv, Passed, Asked, Lent, Identity, SameIds, SameCaps,
       SamePlace, SameLimits
  <2>7. ASSUME step' = "done" PROVE CredentialsAreAsAsked'
    <3>1. (sys.faults \cap InTheWay = {})'
      BY <1>t, <2>1, <2>2, <2>7 DEF CredInv, Typed, Route, Passed, InTheWay, KeepsUserRoot, Asked
    <3>2. /\ ({proc.uid, proc.euid, proc.suid, proc.gid, proc.egid} \subseteq
            {IF KeepsUserRoot THEN "root" ELSE want.user})'
          /\ (~KeepsUserRoot => proc.sgid = want.user)'
      BY <1>t, <2>1, <2>2, <2>7 DEF CredInv, Typed, Route, Identity, Lent, KeepsUserRoot,
         SameIds, SameCaps, SamePlace, SameLimits
    <3>3. (~KeepsRoot => proc.permitted = want.caps /\ proc.effective = want.caps)'
      BY <1>t, <2>1, <2>2, <2>7 DEF CredInv, Typed, Route, Identity, Lent, KeepsRoot, SameIds,
         SameCaps, SamePlace, SameLimits
    <3>4. (proc.nproc = (Asked("no_procs") /\ ~KeepsUserRoot))'
      BY <1>t, <2>1, <2>2, <2>7 DEF CredInv, Typed, Route, Place, KeepsUserRoot, Asked, SameIds,
         SameCaps, SamePlace, SameLimits
    <3> QED
      BY <1>t, <2>1, <2>2, <2>7, <3>1, <3>2, <3>3, <3>4
         DEF CredInv, CredentialsAreAsAsked, Place, Asked, Home, Memberships, SameIds, SameCaps,
             SamePlace, SameLimits
  <2>8. CredentialsAreAsAsked'
    BY <1>t, <2>1, <2>2, <2>7 DEF CredInv, CredentialsAreAsAsked, SameIds, SameCaps, SamePlace,
       SameLimits
  <2> QED
    BY <2>3, <2>4, <2>5, <2>6, <2>7, <2>8 DEF CredInv
<1>12. CASE KeepCapabilities
  <2>1. UNCHANGED <<want, sys, saved>> /\ step = "keep"
    BY <1>12 DEF KeepCapabilities, Call
  <2>2. /\ step' = "setgid" /\ ProcShaped(proc')
        /\ SameIds /\ SamePlace /\ SameLimits
        /\ proc'.permitted = proc.permitted /\ proc'.effective = proc.effective /\ proc'.keep = TRUE
    BY <1>12, <1>t, <2>1 DEF KeepCapabilities, Call, ProcShaped, SameIds, SamePlace, SameLimits
  <2>3. Typed' /\ Route'
    BY <1>t, <2>1, <2>2 DEF CredInv, Typed, Route, KeepsUserRoot, Asked, SameIds, SamePlace,
       SameLimits
  <2>4. Identity'
    BY <1>t, <2>1, <2>2 DEF CredInv, Identity, Route, Lent, Asked, KeepsUserRoot, SameIds,
       SamePlace, SameLimits
  <2>5. Place'
    BY <1>t, <2>1, <2>2 DEF CredInv, Place, Route, Asked, Home, Memberships, SameIds, SamePlace,
       SameLimits
  <2>6. Passed'
    BY <1>t, <2>1, <2>2 DEF CredInv, Passed, Asked, Lent, Identity, SameIds, SamePlace, SameLimits
  <2>7. CredentialsAreAsAsked'
    BY <1>t, <2>1, <2>2 DEF CredInv, CredentialsAreAsAsked, SameIds, SamePlace, SameLimits
  <2> QED
    BY <2>3, <2>4, <2>5, <2>6, <2>7 DEF CredInv
<1>13. CASE SetgidUser
  <2>1. UNCHANGED <<want, sys, saved>> /\ step = "setgid"
    BY <1>13 DEF SetgidUser, Call
  <2>2. /\ step' = "setuid" /\ ProcShaped(proc')
        /\ SameCaps /\ SamePlace /\ SameLimits
        /\ proc'.uid = proc.uid /\ proc'.euid = proc.euid /\ proc'.suid = proc.suid
        /\ proc'.gid = want.user /\ proc'.egid = want.user /\ proc'.sgid = want.user
    BY <1>13, <1>t, <2>1 DEF SetgidUser, Call, CanSetgid, Setgid, Able, Privileges, CredInv,
       Identity, Lent, ProcShaped, SameCaps, SamePlace, SameLimits
  <2>3. Typed' /\ Route'
    BY <1>t, <2>1, <2>2 DEF CredInv, Typed, Route, KeepsUserRoot, Asked, SameCaps, SamePlace,
       SameLimits
  <2>4. Identity'
    BY <1>t, <2>1, <2>2 DEF CredInv, Identity, Route, Lent, Asked, KeepsUserRoot, SameCaps,
       SamePlace, SameLimits
  <2>5. Place'
    BY <1>t, <2>1, <2>2 DEF CredInv, Place, Route, Asked, Home, Memberships, SameCaps,
       SamePlace, SameLimits
  <2>6. Passed'
    BY <1>t, <2>1, <2>2 DEF CredInv, Passed, Asked, Lent, Identity, SameCaps, SamePlace,
       SameLimits
  <2>7. CredentialsAreAsAsked'
    BY <1>t, <2>1, <2>2 DEF CredInv, CredentialsAreAsAsked, SameCaps, SamePlace, SameLimits
  <2> QED
    BY <2>3, <2>4, <2>5, <2>6, <2>7 DEF CredInv
<1>14. CASE SetuidUser
  <2>1. UNCHANGED <<want, sys, saved>> /\ step = "setuid"
    BY <1>14 DEF SetuidUser, Call
  <2>x. /\ CanSetuid(want.user)
        /\ Setuid(want.user) = [proc EXCEPT !.uid = want.user, !.euid = want.user, !.suid = want.user,
                                            !.permitted = IF want.caps # {} THEN Privileges ELSE {},
                                            !.effective = {}]
    BY <1>t, <2>1 DEF CanSetuid, Setuid, WithUids, Able, Privileges, CredInv, Identity, Lent
  <2>2. CASE step' = "dead" /\ UNCHANGED proc
    <3>1. PICK f \in sys.faults : f \in InTheWay
      BY <1>14, <1>t, <2>1, <2>2, <2>x DEF SetuidUser, Call, InTheWay, CredInv, Route,
         KeepsUserRoot
    <3> QED
      BY <2>1, <2>2, <3>1, DiesForAReason
  <2>3. CASE step' # "dead"
    <3>y. /\ step' = (IF want.caps # {} THEN "adopt" ELSE "no_procs")
          /\ proc' = [proc EXCEPT !.uid = want.user, !.euid = want.user, !.suid = want.user,
                                     !.permitted = IF want.caps # {} THEN Privileges ELSE {},
                                     !.effective = {}]
      BY <1>14, <1>t, <2>1, <2>x, <2>3 DEF SetuidUser, Call
    <3>1. /\ step' = (IF want.caps # {} THEN "adopt" ELSE "no_procs") /\ ProcShaped(proc')
          /\ SamePlace /\ SameLimits
          /\ proc'.uid = want.user /\ proc'.euid = want.user /\ proc'.suid = want.user
          /\ proc'.gid = proc.gid /\ proc'.egid = proc.egid /\ proc'.sgid = proc.sgid
          /\ proc'.permitted = (IF want.caps # {} THEN Privileges ELSE {}) /\ proc'.effective = {}
      BY <1>t, <3>y DEF ProcShaped, SamePlace, SameLimits
    <3>2. Typed' /\ Route'
      BY <1>t, <2>1, <3>1, <2>3, <2>x DEF CredInv, Typed, Route, KeepsUserRoot, Asked,
         SamePlace, SameLimits
    <3>3. Identity'
      BY <1>t, <2>1, <3>1, <2>3, <2>x DEF CredInv, Identity, Route, Lent, Asked, KeepsUserRoot,
         SamePlace, SameLimits
    <3>4. Place'
      BY <1>t, <2>1, <3>1, <2>3, <2>x DEF CredInv, Place, Route, Asked, Home, Memberships,
         SamePlace, SameLimits
    <3>5. Passed'
      BY <1>t, <2>1, <3>1, <2>3, <2>x, <1>14
         DEF CredInv, Passed, Asked, Lent, Identity, SetuidUser, Call, SamePlace, SameLimits
    <3>6. CredentialsAreAsAsked'
      BY <1>t, <2>1, <3>1, <2>3, <2>x DEF CredInv, CredentialsAreAsAsked, SamePlace, SameLimits
    <3> QED
      BY <3>2, <3>3, <3>4, <3>5, <3>6 DEF CredInv
  <2> QED
    BY <1>14, <2>2, <2>3 DEF SetuidUser, Call
<1>15. CASE (AdoptCapabilities /\ step = "adopt")
  <2>1. UNCHANGED <<want, sys, saved>> /\ step = "adopt"
    BY <1>15 DEF AdoptCapabilities, Call
  <2>2. /\ step' = "no_procs" /\ ProcShaped(proc')
        /\ SameIds /\ SamePlace /\ SameLimits
        /\ proc'.permitted = want.caps /\ proc'.effective = want.caps
    BY <1>15, <1>t, <2>1 DEF AdoptCapabilities, Call, CredInv, Identity, ProcShaped, SameIds,
       SamePlace, SameLimits
  <2>3. Typed' /\ Route'
    BY <1>t, <2>1, <2>2 DEF CredInv, Typed, Route, KeepsUserRoot, Asked, SameIds, SamePlace,
       SameLimits
  <2>4. Identity'
    BY <1>t, <2>1, <2>2 DEF CredInv, Identity, Route, Lent, Asked, KeepsUserRoot, SameIds,
       SamePlace, SameLimits
  <2>5. Place'
    BY <1>t, <2>1, <2>2 DEF CredInv, Place, Route, Asked, Home, Memberships, SameIds, SamePlace,
       SameLimits
  <2>6. Passed'
    BY <1>t, <2>1, <2>2 DEF CredInv, Passed, Asked, Lent, Identity, SameIds, SamePlace, SameLimits
  <2>7. CredentialsAreAsAsked'
    BY <1>t, <2>1, <2>2 DEF CredInv, CredentialsAreAsAsked, SameIds, SamePlace, SameLimits
  <2> QED
    BY <2>3, <2>4, <2>5, <2>6, <2>7 DEF CredInv
<1>16. CASE (AdoptCapabilities /\ step = "adopt_as_root")
  <2>1. UNCHANGED <<want, sys, saved>> /\ step = "adopt_as_root"
    BY <1>16 DEF AdoptCapabilities, Call
  <2>2. /\ step' = "done" /\ ProcShaped(proc')
        /\ SameIds /\ SamePlace /\ SameLimits
        /\ proc'.permitted = want.caps /\ proc'.effective = want.caps
    BY <1>16, <1>t, <2>1 DEF AdoptCapabilities, Call, CredInv, Identity, ProcShaped, SameIds,
       SamePlace, SameLimits
  <2>3. Typed' /\ Route'
    BY <1>t, <2>1, <2>2 DEF CredInv, Typed, Route, KeepsUserRoot, Asked, SameIds, SamePlace,
       SameLimits
  <2>4. Identity'
    BY <1>t, <2>1, <2>2 DEF CredInv, Identity, Route, Lent, Asked, KeepsUserRoot, SameIds,
       SamePlace, SameLimits
  <2>5. Place'
    BY <1>t, <2>1, <2>2 DEF CredInv, Place, Route, Asked, Home, Memberships, SameIds, SamePlace,
       SameLimits
  <2>6. Passed'
    BY <1>t, <2>1, <2>2 DEF CredInv, Passed, Asked, Lent, Identity, SameIds, SamePlace, SameLimits
  <2>7. ASSUME step' = "done" PROVE CredentialsAreAsAsked'
    <3>1. (sys.faults \cap InTheWay = {})'
      BY <1>t, <2>1, <2>2, <2>7 DEF CredInv, Typed, Route, Passed, InTheWay, KeepsUserRoot, Asked
    <3>2. /\ ({proc.uid, proc.euid, proc.suid, proc.gid, proc.egid} \subseteq
            {IF KeepsUserRoot THEN "root" ELSE want.user})'
          /\ (~KeepsUserRoot => proc.sgid = want.user)'
      BY <1>t, <2>1, <2>2, <2>7 DEF CredInv, Typed, Route, Identity, Lent, KeepsUserRoot,
         SameIds, SamePlace, SameLimits
    <3>3. (~KeepsRoot => proc.permitted = want.caps /\ proc.effective = want.caps)'
      BY <1>t, <2>1, <2>2, <2>7 DEF CredInv, Typed, Route, Identity, Lent, KeepsRoot, SameIds,
         SamePlace, SameLimits
    <3>4. (proc.nproc = (Asked("no_procs") /\ ~KeepsUserRoot))'
      BY <1>t, <2>1, <2>2, <2>7 DEF CredInv, Typed, Route, Place, KeepsUserRoot, Asked, SameIds,
         SamePlace, SameLimits
    <3> QED
      BY <1>t, <2>1, <2>2, <2>7, <3>1, <3>2, <3>3, <3>4
         DEF CredInv, CredentialsAreAsAsked, Place, Asked, Home, Memberships, SameIds,
             SamePlace, SameLimits
  <2>8. CredentialsAreAsAsked'
    BY <1>t, <2>1, <2>2, <2>7 DEF CredInv, CredentialsAreAsAsked, SameIds, SamePlace, SameLimits
  <2> QED
    BY <2>3, <2>4, <2>5, <2>6, <2>7, <2>8 DEF CredInv
<1>17. CASE SetNoProcs
  <2>1. UNCHANGED <<want, sys, saved>> /\ step = "no_procs"
    BY <1>17 DEF SetNoProcs, Call
  <2>y. /\ step' = "check"
        /\ proc' = [proc EXCEPT !.nproc = proc.nproc \/ Asked("no_procs")]
    BY <1>17, <1>t, <2>1 DEF SetNoProcs, Call, CredInv, Place
  <2>2. /\ step' = "check" /\ ProcShaped(proc')
        /\ SameIds /\ SameCaps /\ SamePlace
        /\ proc'.nproc = (proc.nproc \/ Asked("no_procs")) /\ proc'.nofile = proc.nofile
    BY <1>t, <2>y DEF ProcShaped, SameIds, SameCaps, SamePlace
  <2>3. Typed' /\ Route'
    BY <1>t, <2>1, <2>2 DEF CredInv, Typed, Route, KeepsUserRoot, Asked, SameIds, SameCaps,
       SamePlace
  <2>4. Identity'
    BY <1>t, <2>1, <2>2 DEF CredInv, Identity, Route, Lent, Asked, KeepsUserRoot, SameIds,
       SameCaps, SamePlace
  <2>5. Place'
    BY <1>t, <2>1, <2>2 DEF CredInv, Place, Route, Asked, Home, Memberships, SameIds, SameCaps,
       SamePlace
  <2>6. Passed'
    BY <1>t, <2>1, <2>2 DEF CredInv, Passed, Asked, Lent, Identity, SameIds, SameCaps, SamePlace
  <2>7. CredentialsAreAsAsked'
    BY <1>t, <2>1, <2>2 DEF CredInv, CredentialsAreAsAsked, SameIds, SameCaps, SamePlace
  <2> QED
    BY <2>3, <2>4, <2>5, <2>6, <2>7 DEF CredInv
<1>18. CASE RefuseWritableRoot
  <2>1. UNCHANGED <<want, sys, saved>> /\ step = "check"
    BY <1>18 DEF RefuseWritableRoot, Call
  <2>2. CASE step' = "dead" /\ UNCHANGED proc
    <3>1. PICK f \in sys.faults : f \in InTheWay
      BY <1>18, <1>t, <2>1, <2>2 DEF RefuseWritableRoot, Call, InTheWay, CredInv, Route,
         KeepsUserRoot
    <3> QED
      BY <2>1, <2>2, <3>1, DiesForAReason
  <2>3. CASE step' # "dead"
    <3>1. /\ step' = "done" /\ ProcShaped(proc')
          /\ SameIds /\ SameCaps /\ SamePlace /\ SameLimits
          /\ Asked("chroot") => "writable_root" \notin sys.faults
      BY <1>18, <1>t, <2>1, <2>3 DEF RefuseWritableRoot, Call, ProcShaped, SameIds, SameCaps,
         SamePlace, SameLimits
    <3>2. Typed' /\ Route'
      BY <1>t, <2>1, <3>1, <2>3 DEF CredInv, Typed, Route, KeepsUserRoot, Asked, SameIds,
         SameCaps, SamePlace, SameLimits
    <3>3. Identity'
      BY <1>t, <2>1, <3>1, <2>3 DEF CredInv, Identity, Route, Lent, Asked, KeepsUserRoot,
         SameIds, SameCaps, SamePlace, SameLimits
    <3>4. Place'
      BY <1>t, <2>1, <3>1, <2>3 DEF CredInv, Place, Route, Asked, Home, Memberships, SameIds,
         SameCaps, SamePlace, SameLimits
    <3>5. Passed'
      BY <1>t, <2>1, <3>1, <2>3 DEF CredInv, Passed, Asked, Lent, Identity, SameIds, SameCaps,
         SamePlace, SameLimits
    <3>6. ASSUME step' = "done" PROVE CredentialsAreAsAsked'
      <4>1. (sys.faults \cap InTheWay = {})'
        BY <1>t, <2>1, <3>1, <2>3, <3>6 DEF CredInv, Typed, Route, Passed, InTheWay,
           KeepsUserRoot, Asked
      <4>2. /\ ({proc.uid, proc.euid, proc.suid, proc.gid, proc.egid} \subseteq
              {IF KeepsUserRoot THEN "root" ELSE want.user})'
            /\ (~KeepsUserRoot => proc.sgid = want.user)'
        BY <1>t, <2>1, <3>1, <2>3, <3>6 DEF CredInv, Typed, Route, Identity, Lent,
           KeepsUserRoot, SameIds, SameCaps, SamePlace, SameLimits
      <4>3. (~KeepsRoot => proc.permitted = want.caps /\ proc.effective = want.caps)'
        BY <1>t, <2>1, <3>1, <2>3, <3>6 DEF CredInv, Typed, Route, Identity, Lent, KeepsRoot,
           SameIds, SameCaps, SamePlace, SameLimits
      <4>4. (proc.nproc = (Asked("no_procs") /\ ~KeepsUserRoot))'
        BY <1>t, <2>1, <3>1, <2>3, <3>6 DEF CredInv, Typed, Route, Place, KeepsUserRoot, Asked,
           SameIds, SameCaps, SamePlace, SameLimits
      <4> QED
        BY <1>t, <2>1, <3>1, <2>3, <3>6, <4>1, <4>2, <4>3, <4>4
           DEF CredInv, CredentialsAreAsAsked, Place, Asked, Home, Memberships, SameIds,
               SameCaps, SamePlace, SameLimits
    <3>7. CredentialsAreAsAsked'
      BY <1>t, <2>1, <3>1, <2>3, <3>6 DEF CredInv, CredentialsAreAsAsked, SameIds, SameCaps,
         SamePlace, SameLimits
    <3> QED
      BY <3>2, <3>3, <3>4, <3>5, <3>6, <3>7 DEF CredInv
  <2> QED
    BY <1>18, <2>2, <2>3 DEF RefuseWritableRoot, Call
<1>19. CASE UNCHANGED cvars
  BY <1>19 DEF cvars, CredInv, Typed, Route, Identity, Lent, Place, Passed, CredentialsAreAsAsked,
     Asked, Home, Memberships, InTheWay, KeepsRoot, KeepsUserRoot
<1> QED
  BY <1>1, <1>2, <1>3, <1>4, <1>5, <1>6, <1>7, <1>8, <1>9, <1>10, <1>11, <1>12, <1>13, <1>14,
     <1>15, <1>16, <1>17, <1>18, <1>19 DEF CNext, AdoptCapabilities, Call

\* Whatever the request and whatever is wrong with the host, the process that goes on
\* after vsf_secutil_change_credentials (secutil.c) has the ids, the groups, the jail,
\* the limits and the capabilities it was to have, and one that dies has died of a fault
\* of the host and not of the order of the calls.
THEOREM CredentialsChangeAsAsked == CSpec => []CredentialsAreAsAsked
<1>1. CredInv /\ [CNext]_cvars => CredInv'
  BY CredInvNext
<1>2. CredInv => CredentialsAreAsAsked
  BY DEF CredInv
<1> QED
  BY CredInvInit, <1>1, <1>2, PTL DEF CSpec
=============================================================================
