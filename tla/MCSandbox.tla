----------------------------- MODULE MCSandbox -----------------------------
(***************************************************************************)
(* Model-checking instance of the confinement of a process: the sandbox     *)
(* with a call of every kind the policy tells apart, and the requests that  *)
(* the four callers of change_credentials make; and the life of a session's *)
(* commands and data connections.  They share no state: a behaviour is      *)
(* about one of them.                                                       *)
(***************************************************************************)
EXTENDS Sandbox, Credentials, Session

VARIABLE job

MCvars == <<job, boxvars, cvars, sessionvars>>

AnyRequest == CHOOSE r \in Requests : TRUE
AnyConfig == CHOOSE c \in Configs : TRUE
MCInit ==
    /\ job \in {"sandbox", "credentials", "session"}
    /\ job # "sandbox" => conf = AnyConfig
    /\ BoxInit /\ CInit /\ SessionInit
    /\ job # "credentials" => want = AnyRequest /\ sys.faults = {} /\ ~sys.has_capabilities

Boxed(A) == job = "sandbox" /\ A /\ UNCHANGED <<job, cvars, sessionvars>>
Changing(A) == job = "credentials" /\ A /\ UNCHANGED <<job, boxvars, sessionvars>>
InSession(A) == job = "session" /\ A /\ UNCHANGED <<job, boxvars, cvars>>

MCNext == Boxed(BoxNext) \/ Changing(CNext) \/ InSession(SessionNext)

\* The fairness of each.
MCSpec ==
    /\ MCInit /\ [][MCNext]_MCvars
    /\ WF_MCvars(Boxed(ChildGoesOn)) /\ WF_MCvars(Boxed(SupervisorSteps))
    /\ WF_MCvars(InSession(Server)) /\ WF_MCvars(InSession(AlarmFires))

\* A session whose client neither sends commands nor moves data ends (Session), in the
\* behaviours that are about a session.
SessionsEndWhenStalled == job = "session" => StalledSessionsEnd

\* one_process_start, minimize_privilege, drop_all_privs and common_do_login
MCRequests ==
    LET Request(user, dir, ext, caps, options) ==
            [user |-> user, dir |-> dir, ext |-> ext, caps |-> caps, options |-> options]
        CapSets == SUBSET {"CHOWN", "NET_BIND_SERVICE"}
    IN  {Request("ftp", "none", ext, caps, {"chroot", "use_groups", "no_procs"}) :
            ext \in {"none", "anon_root"}, caps \in CapSets}
        \cup {Request("nobody", "secure_chroot_dir", "none", caps, {"chroot"}) : caps \in CapSets}
        \cup {Request("nobody", "secure_chroot_dir", "none", {}, {"chroot", "no_procs"} \cup o) :
                 o \in SUBSET {"no_fds"}}
        \cup {Request("user", dir, ext, {}, {"use_groups", "no_procs"} \cup o) :
                 dir \in {"none", "passwd_chroot"}, ext \in {"none", "local_root"},
                 o \in SUBSET {"chroot", "change_euid"}}

K(nr, sub, arg) == [nr |-> nr, sub |-> sub, arg |-> arg]
MCCalls ==
    {K(nr, "none", "none") : nr \in {"read", "stat", "exit_group", "unlink", "rename", "rmdir", "mkdir", "chmod",
                             "fchmod", "rt_sigaction", "alarm", "mremap", "utimes", "fork", "kill",
                             "64-bit_selector", "out_of_bounds"}}
    \cup {K("mmap2", "none", a) : a \in {"MAP_PRIVATE", "MAP_SHARED"}}
    \cup {K("open", "none", a) : a \in {"O_RDONLY", "O_WRONLY", "O_ASYNC"}}
    \cup {K("fcntl64", "none", a) : a \in {"F_SETLKW", "F_SETOWN_self", "F_SETOWN_other", "F_DUPFD"}}
    \cup {K("socketcall", "socket", a) : a \in {"stream_of_the_local_family", "dgram"}}
    \cup {K("socketcall", s, "length_of_the_local_family") : s \in {"bind", "connect"}}
    \cup {K("socketcall", "setsockopt", a) : a \in {"SO_LINGER", "SO_BINDTODEVICE"}}
    \cup {K("socketcall", "getsockopt", "SO_ERROR"), K("socketcall", "accept", "none"),
          K("socketcall", "sendmsg", "none"), K("socketcall", "recv", "none")}

Strict == [i386 |-> TRUE, is_anonymous |-> TRUE, run_as_launching_user |-> FALSE,
           async_abor_enable |-> FALSE, timeouts |-> TRUE, text_userdb_names |-> FALSE,
           port_enable |-> TRUE, pasv_enable |-> TRUE, write_enable |-> FALSE,
           anon_upload_enable |-> FALSE, anon_mkdir_write_enable |-> FALSE,
           anon_other_write_enable |-> FALSE, mdtm_write |-> TRUE, chmod_enable |-> TRUE,
           chown_uploads |-> FALSE]
MCConfigs == {Strict, [Strict EXCEPT !.i386 = FALSE],
              [Strict EXCEPT !.port_enable = FALSE, !.pasv_enable = FALSE, !.timeouts = FALSE],
              [Strict EXCEPT !.write_enable = TRUE, !.anon_upload_enable = TRUE,
                               !.text_userdb_names = TRUE, !.chown_uploads = TRUE],
              [Strict EXCEPT !.write_enable = TRUE, !.anon_other_write_enable = TRUE,
                               !.run_as_launching_user = TRUE]}
============================================================================
