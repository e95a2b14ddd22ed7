------------------------------ MODULE Sandbox ------------------------------
(***************************************************************************)
(* The ptrace() sandbox of the one process model (ptracesandbox.c) and the  *)
(* policy built for a session (ftppolicy.c): a supervisor that launches the *)
(* session, sees each of its system calls twice, on entry and on exit, and  *)
(* lets it go on or rewrites and kills it.  The session may try any call;   *)
(* either process may be killed from outside at any moment.  The session is *)
(* to die with its supervisor, but Linux forgets PR_SET_PDEATHSIG when the  *)
(* process changes its effective ids.                                       *)
(***************************************************************************)
EXTENDS Integers, FiniteSets

CONSTANTS
    Configs,        \* the tunables and the session policy_setup() sees
    Calls           \* system calls the session may try: [nr, sub, arg]

\* Addresses a socket call may name: its argument lies in the session's memory.
Addresses == {"remote", "elsewhere", "other_family"}
Places == {"none", "new", "sane", "changed", "traceme", "stopped", "user", "entry", "exit", "signal", "dead"}

\* main() sets is_anonymous before the session is there.
ASSUME SandboxConstants ==
    /\ \A k \in Calls : k = [nr |-> k.nr, sub |-> k.sub, arg |-> k.arg]
    /\ \A c \in Configs : c.is_anonymous

VARIABLES
    conf,
    sup,        \* the supervisor: where it is in vsf_one_process_start, or "killed"
    pid,        \* p_sandbox->pid # -1
    is_exit,    \* the next trap is taken for the end of a call
    child,      \* the session: [at, call, mem, shared, traced, pdeath, options]
    ran,        \* history: the last call that took effect, and the memory it saw
    outside,    \* history: a kill from outside hit either process
    stray       \* a process the session started: "none", "traced" or "free"

boxvars == <<conf, sup, pid, is_exit, child, ran, outside, stray>>

Idle == [nr |-> "none", sub |-> "none", arg |-> "none"]
NoChild == [at |-> "none", call |-> Idle, mem |-> "remote", shared |-> FALSE, traced |-> FALSE,
            pdeath |-> FALSE, options |-> FALSE]

BoxInit ==
    /\ conf \in Configs
    /\ sup = "start" /\ pid = FALSE /\ is_exit = FALSE
    /\ child = NoChild /\ ran = [call |-> Idle, mem |-> "remote"]
    /\ outside = FALSE /\ stray = "none"

------------------------------------------------------------------------------
(* Permissions: what each ptrace_sandbox_permit_* sets in is_allowed.        *)

PermitBasics ==
    [exit |-> {"exit", "exit_group"}, read |-> {"read"}, write |-> {"write"},
     sigaction |-> {"sigaction", "rt_sigaction"}, alarm |-> {"alarm"},
     query_time |-> {"gettimeofday", "time"}, mmap |-> {"mmap2"}, mprotect |-> {"mprotect"},
     file_stats |-> {"stat", "stat64", "lstat", "lstat64"}, fd_stats |-> {"fstat", "fstat64"},
     getcwd |-> {"getcwd"}, chdir |-> {"chdir"}, umask |-> {"umask"}]

PermitFiles ==
    [sendfile |-> {"sendfile", "sendfile64"}, seek |-> {"lseek", "llseek"},
     select |-> {"select", "newselect"}, unlink |-> {"unlink"}, mkdir |-> {"mkdir"},
     rmdir |-> {"rmdir"}, rename |-> {"rename"}, utime |-> {"utime", "utimes"},
     sigreturn |-> {"sigreturn"}]

PermitDescriptors ==
    [open |-> {"open"}, open_write |-> {"open"}, close |-> {"close"},
     getdents |-> {"getdents", "getdents64"}, fcntl |-> {"fcntl", "fcntl64"}]

PermitOthers ==
    [readlink |-> {"readlink"}, brk |-> {"brk"}, sleep |-> {"nanosleep"}, fchmod |-> {"fchmod"},
     chmod |-> {"chmod"}, fchown |-> {"fchown", "fchown32"}, mremap |-> {"mremap"},
     ftruncate |-> {"ftruncate", "ftruncate64"}]

\* These go through socketcall(), which each of them installs.
PermitSockets == {"recv", "socket", "bind", "connect", "listen", "accept", "setsockopt",
                  "getsockopt", "shutdown"}

Allows(p) ==
    CASE p \in DOMAIN PermitBasics -> PermitBasics[p]
      [] p \in DOMAIN PermitFiles -> PermitFiles[p]
      [] p \in DOMAIN PermitDescriptors -> PermitDescriptors[p]
      [] p \in DOMAIN PermitOthers -> PermitOthers[p]
      [] p \in PermitSockets -> {"socketcall"}

\* policy_setup: the permissions of a session, before its login.  is_anonymous is
\* still what main() has set, and no other login is possible in this model.
PolicySetup(c) ==
    LET When(b, ps) == IF b THEN ps ELSE {}
        trusted == ~c.is_anonymous
    IN  {"exit", "mmap", "mprotect", "brk", "read", "write", "query_time", "file_stats", "fd_stats",
         "getcwd", "chdir", "umask", "open", "close", "sendfile", "getdents", "readlink", "fcntl",
         "seek", "select", "sigreturn", "sleep", "recv", "shutdown", "socket", "bind", "setsockopt"}
        \cup When(c.async_abor_enable \/ c.timeouts, {"sigaction"})
        \cup When(c.timeouts, {"alarm"})
        \cup When(c.text_userdb_names, {"mremap"})
        \cup When(c.port_enable, {"connect", "getsockopt"})
        \cup When(c.pasv_enable, {"listen", "accept"})
        \cup When(c.write_enable /\ (trusted \/ c.anon_upload_enable), {"open_write"})
        \cup When(c.write_enable /\ (trusted \/ c.anon_mkdir_write_enable), {"mkdir"})
        \cup When(c.write_enable /\ (trusted \/ c.anon_other_write_enable),
                  {"unlink", "rmdir", "rename", "ftruncate"} \cup When(c.mdtm_write, {"utime"}))
        \cup When(c.write_enable /\ trusted /\ c.chmod_enable, {"chmod"})
        \cup When(c.write_enable /\ c.is_anonymous /\ c.chown_uploads, {"fchmod", "fchown"})

Policy == PolicySetup(conf)

------------------------------------------------------------------------------
(* Validators.                                                              *)

\* Mutant: mappings may be shared.
ValidateMmap2Any(k) == TRUE
ValidateMmap2(k) == k.arg # "MAP_SHARED"

\* validate_open_default and validate_open_readonly
ValidateOpen(k) ==
    /\ k.arg \notin {"O_ASYNC", "O_DIRECT", "O_SYNC"}
    /\ "open_write" \in Policy \/ k.arg = "O_RDONLY"

ValidateFcntl(k) ==
    k.arg \in {"F_GETFL", "F_SETFL", "F_SETOWN_self", "F_SETLK", "F_SETLKW", "F_SETFD", "F_GETFD"}

SocketValidator(k) == k.arg = "stream_of_the_local_family"
\* For bind() too: the address in the session's memory must be the client's.
ConnectValidator(k) == k.arg = "length_of_the_local_family" /\ child.mem = "remote"
GetsockoptValidator(k) == k.arg = "SO_ERROR"
SetsockoptValidator(k) ==
    k.arg \in {"SO_KEEPALIVE", "SO_REUSEADDR", "SO_OOBINLINE", "SO_LINGER", "TCP_NODELAY", "IP_TOS"}

ValidateSocketcall(k) ==
    /\ k.sub \in PermitSockets /\ k.sub \in Policy
    /\ CASE k.sub = "socket" -> SocketValidator(k)
         [] k.sub \in {"bind", "connect"} -> ConnectValidator(k)
         [] k.sub = "setsockopt" -> SetsockoptValidator(k)
         [] k.sub = "getsockopt" -> GetsockoptValidator(k)
         [] OTHER -> TRUE

\* get_action: the selector, the table, the policy, the validator.  An argument
\* that cannot be read is refused.
GetAction(k) ==
    /\ k.nr \notin {"64-bit_selector", "out_of_bounds"}
    /\ \E p \in Policy : k.nr \in Allows(p)
    /\ CASE k.nr = "mmap2" -> ValidateMmap2(k)
         [] k.nr = "open" -> ValidateOpen(k)
         [] k.nr \in {"fcntl", "fcntl64"} -> ValidateFcntl(k)
         [] k.nr = "socketcall" -> ValidateSocketcall(k)
         [] OTHER -> TRUE

------------------------------------------------------------------------------
(* The session.                                                             *)

ChildIs(places) == child.at \in places
ChildGoes(to) == child' = [child EXCEPT !.at = to]
Quiet == UNCHANGED <<conf, sup, pid, is_exit, ran, outside, stray>>

\* sanitize_child: the parent's death is to be its own.
SanitizeChild ==
    /\ ChildIs({"new"})
    /\ \/ child' = [child EXCEPT !.at = "sane", !.pdeath = TRUE]
       \/ ChildGoes("dead")
    /\ Quiet

\* one_process_start: with other effective ids the kernel clears PR_SET_PDEATHSIG.
ChangeCredentials ==
    /\ ChildIs({"sane"})
    /\ \/ child' = [child EXCEPT !.at = "changed", !.pdeath = @ /\ conf.run_as_launching_user]
       \/ ChildGoes("dead")
    /\ Quiet

\* ptrace_sandbox_attach_point: PTRACE_TRACEME, then SIGSTOP for itself.
AttachPoint ==
    /\ \/ /\ ChildIs({"changed"})
          /\ \/ child' = [child EXCEPT !.at = "traceme", !.traced = TRUE]
             \/ ChildGoes("dead")
       \/ ChildIs({"traceme"}) /\ \E to \in {"stopped", "dead"} : ChildGoes(to)
    /\ Quiet

\* The session tries a call.
TryCall(k) == ChildIs({"user"}) /\ child' = [child EXCEPT !.at = "entry", !.call = k] /\ Quiet

TakeSignal(sig) ==
    /\ ChildIs({"user"}) /\ child' = [child EXCEPT !.at = "signal", !.call = [Idle EXCEPT !.arg = sig]]
    /\ Quiet

\* What it writes to its memory; another process may do so through a shared mapping.
WriteMemory(a) ==
    /\ \/ ChildIs({"user"})
       \/ child.shared /\ ~ChildIs({"none", "dead"})
    /\ child' = [child EXCEPT !.mem = a] /\ Quiet

\* A call takes effect and the session goes on to place `to'.
RunCall(to) ==
    /\ ran' = [call |-> child.call, mem |-> child.mem]
    /\ stray' = IF child.call.nr # "fork" THEN stray ELSE IF child.options THEN "traced" ELSE "free"
    /\ child' = [child EXCEPT !.at = IF child.call.nr \in {"exit", "exit_group"} THEN "dead" ELSE to,
                              !.shared = @ \/ (child.call.nr = "mmap2" /\ child.call.arg = "MAP_SHARED")]

\* Without a supervisor nothing stops it at its calls.
RunUnwatched ==
    /\ ~child.traced
    /\ \/ ChildIs({"entry"}) /\ RunCall("user")
       \/ /\ ChildIs({"signal"}) /\ UNCHANGED <<ran, stray>>
          /\ \E to \in {"user", "dead"} : ChildGoes(to)
    /\ UNCHANGED <<conf, sup, pid, is_exit, outside>>

\* SIGKILL: a call that was entered still runs before the signal takes effect.
Die == IF child.at = "entry" THEN RunCall("dead") ELSE ChildGoes("dead") /\ UNCHANGED <<ran, stray>>

KilledFromOutside ==
    /\ ~ChildIs({"none", "dead"}) /\ Die /\ outside' = TRUE
    /\ UNCHANGED <<conf, sup, pid, is_exit>>

------------------------------------------------------------------------------
(* The supervisor.                                                          *)

SupGoes(to) == sup' = to
Supervise(from) == sup = from /\ UNCHANGED <<conf, outside>>

\* ptrace_sandbox_alloc; other builds than 32-bit Linux have nothing but stubs.
Alloc ==
    /\ Supervise("start") /\ SupGoes(IF conf.i386 THEN "allocated" ELSE "gone")
    /\ UNCHANGED <<pid, is_exit, child, ran, stray>>

\* ptrace_sandbox_launch_process up to the fork.
Launch ==
    /\ Supervise("allocated")
    /\ \/ SupGoes("gone") /\ UNCHANGED <<pid, child>>
       \/ SupGoes("launching") /\ pid' = TRUE /\ ChildGoes("new")
    /\ UNCHANGED <<is_exit, ran, stray>>

\* The rest of it: the child has stopped itself, or it is killed.
Launched ==
    /\ Supervise("launching") /\ ChildIs({"stopped", "dead"})
    /\ \/ ChildIs({"stopped"}) /\ SupGoes("continue") /\ child' = [child EXCEPT !.options = TRUE]
          /\ UNCHANGED pid
       \/ SupGoes("gone") /\ pid' = FALSE /\ ChildGoes("dead")
    /\ UNCHANGED <<is_exit, ran, stray>>

\* ptrace_sandbox_continue_process: PTRACE_SYSCALL, which a dead child refuses.
ContinueProcess ==
    /\ Supervise("continue")
    /\ IF ChildIs({"dead"})
       THEN SupGoes("kill") /\ UNCHANGED <<child, ran, stray>>
       ELSE /\ SupGoes("wait")
            /\ CASE ChildIs({"stopped", "exit"}) -> ChildGoes("user") /\ UNCHANGED <<ran, stray>>
                 [] ChildIs({"entry"}) -> RunCall("exit")
                 [] ChildIs({"signal"}) ->
                      ChildGoes(IF child.call.arg \in {"SIGSTOP", "SIGCONT"} THEN "dead" ELSE "user")
                      /\ UNCHANGED <<ran, stray>>
    /\ UNCHANGED <<pid, is_exit>>

\* Mutant: a signal is taken note of and not passed on.
HandleEventForgetsSignals ==
    /\ Supervise("wait") /\ ChildIs({"signal", "entry", "exit", "dead"})
    /\ \/ ChildIs({"dead"}) /\ pid' = FALSE /\ SupGoes("free") /\ UNCHANGED is_exit
       \/ ChildIs({"signal"}) /\ UNCHANGED <<sup, pid, is_exit>>
       \/ /\ ChildIs({"entry", "exit"}) /\ is_exit' = ~is_exit /\ UNCHANGED pid
          /\ SupGoes(IF is_exit \/ GetAction(child.call) THEN "continue" ELSE "kill")
    /\ UNCHANGED <<child, ran, stray>>

\* ptrace_sandbox_get_event and ptrace_sandbox_handle_event.  Whether a trap is
\* the start or the end of a call is_exit alone tells.
HandleEvent ==
    /\ Supervise("wait") /\ ChildIs({"signal", "entry", "exit", "dead"})
    /\ \/ ChildIs({"dead"}) /\ pid' = FALSE /\ SupGoes("free") /\ UNCHANGED is_exit
       \/ ChildIs({"signal"}) /\ SupGoes("continue") /\ UNCHANGED <<pid, is_exit>>
       \/ /\ ChildIs({"entry", "exit"}) /\ is_exit' = ~is_exit /\ UNCHANGED pid
          /\ SupGoes(IF is_exit \/ GetAction(child.call) THEN "continue" ELSE "kill")
    /\ UNCHANGED <<child, ran, stray>>

\* ptrace_sandbox_kill_processes: the registers are rewritten, so that the call
\* that was entered is exit_group().
KillProcesses ==
    /\ Supervise("kill") /\ pid' = FALSE /\ SupGoes("free")
    /\ child' = [child EXCEPT !.at = "dead"]
    /\ UNCHANGED <<is_exit, ran, stray>>

\* ptrace_sandbox_free and the end of the process.
Free ==
    /\ Supervise("free") /\ SupGoes("gone")
    /\ IF pid /\ ~ChildIs({"dead"}) THEN Die ELSE UNCHANGED <<child, ran, stray>>
    /\ UNCHANGED <<pid, is_exit>>

\* The tracer is gone: the kernel lets the session run, but for one that has yet to
\* be woken from its SIGSTOP.
Detach ==
    IF child.traced
    THEN child' = [child EXCEPT !.traced = FALSE, !.options = FALSE,
                                !.at = IF @ = "exit" THEN "user" ELSE @]
    ELSE UNCHANGED child

\* The supervisor is killed: PR_SET_PDEATHSIG takes the child with it, if it still stands.
SupervisorDies ==
    /\ sup \notin {"gone", "killed"} /\ SupGoes("killed") /\ outside' = TRUE
    /\ CASE ChildIs({"none", "dead"}) -> UNCHANGED <<child, ran, stray>>
         [] ~ChildIs({"none", "dead"}) /\ child.pdeath -> Die
         [] ~ChildIs({"none", "dead"}) /\ ~child.pdeath -> Detach /\ UNCHANGED <<ran, stray>>
    /\ UNCHANGED <<conf, pid, is_exit>>

------------------------------------------------------------------------------
ChildGoesOn == SanitizeChild \/ ChangeCredentials \/ AttachPoint \/ RunUnwatched
Session ==
    \/ ChildGoesOn \/ KilledFromOutside
    \/ \E k \in Calls : TryCall(k)
    \/ \E s \in {"SIGALRM", "SIGSTOP"} : TakeSignal(s)
    \/ \E a \in Addresses : WriteMemory(a)
SupervisorSteps ==
    Alloc \/ Launch \/ Launched \/ ContinueProcess \/ HandleEvent \/ KillProcesses \/ Free

BoxNext == Session \/ SupervisorSteps \/ SupervisorDies
BoxSpec == BoxInit /\ [][BoxNext]_boxvars /\ WF_boxvars(ChildGoesOn) /\ WF_boxvars(SupervisorSteps)

------------------------------------------------------------------------------
\* What no session may do, whatever it is allowed: start processes, signal or
\* trace others, share memory, use other sockets than streams, speak to other
\* hosts than its client, change modes; and what the anonymous tunables withhold.
Forbidden(r) ==
    LET nr == r.call.nr
        sub == r.call.sub
        arg == r.call.arg
    IN  \/ nr \in {"fork", "kill", "ptrace", "execve", "64-bit_selector", "out_of_bounds", "chmod"}
        \/ nr = "mmap2" /\ arg = "MAP_SHARED"
        \/ nr \in {"fcntl", "fcntl64"} /\ arg = "F_SETOWN_other"
        \/ nr = "socketcall" /\ sub = "socket" /\ arg = "dgram"
        \/ nr = "socketcall" /\ sub \in {"connect", "bind"} /\ r.mem # "remote"
        \/ nr = "open" /\ arg = "O_ASYNC"
        \/ nr = "open" /\ arg # "O_RDONLY" /\ ~(conf.write_enable /\ conf.anon_upload_enable)
        \/ /\ nr \in {"unlink", "rename", "rmdir", "utimes"}
           /\ ~(conf.write_enable /\ conf.anon_other_write_enable)

\* Unless one of the two is killed from outside with a call already entered, a sandboxed
\* session never gets a forbidden call to run, and what the supervisor has read of its
\* memory still holds when the call does.
NothingForbiddenRuns == ~outside => ~Forbidden(ran)

\* Past its attach point a session is at work.
Serving == ChildIs({"user", "entry", "exit", "signal"})

\* Until the supervisor is killed, and with run_as_launching_user after that too, a
\* session that is past its attach point runs only while the supervisor watches,
\* and a process it started in the moment it was killed is traced from birth.
NeverServesUnwatched ==
    sup # "killed" \/ conf.run_as_launching_user =>
        /\ Serving => child.traced /\ sup \in {"continue", "wait", "kill", "free"}
        /\ ChildIs({"user"}) => ~is_exit
        /\ stray # "free"

\* The sandbox holds: nothing forbidden runs, and nothing runs unwatched, whatever the
\* session tries and whichever process is killed in between; but for a session that has
\* changed its ids, which makes the kernel forget the death signal of sanitize_child, and
\* outlives its supervisor: it is detached and serves on.
SessionsStayConfined == NothingForbiddenRuns /\ NeverServesUnwatched

\* The supervisor has an answer to everything a session does: a session that waits at
\* a trap goes on or dies.
TrapsAreAnswered == ChildIs({"entry", "exit", "signal"}) ~> ChildIs({"user", "dead"})
============================================================================
