-------------------------------- MODULE Login --------------------------------
(***************************************************************************)
(* From a connection to a session: main.c, prelogin.c, twoprocess.c,       *)
(* oneprocess.c, privops.c, secutil.c and the private sockets of           *)
(* privsock.c.                                                             *)
(*                                                                         *)
(* "parent" keeps root until the login has succeeded; "pre" speaks to the  *)
(* client before the login, and after a login over TLS stays as the TLS    *)
(* handler; "post" is forked at the login and runs the session.  In the    *)
(* one-process model "parent" does all of it.  A private socket is a pair  *)
(* of ends with one inbox each; an end nobody holds any more gives its     *)
(* peer an end of file (reads) or EPIPE (writes), and both end a process.  *)
(*                                                                         *)
(* PR_SET_PDEATHSIG is left out: the kernel forgets it at the setuid() that *)
(* follows vsf_set_die_if_parent_dies, so nothing may depend on it.        *)
(***************************************************************************)
EXTENDS Integers, Sequences

CONSTANTS
    Configs,    \* the configurations to start with
    MaxLines    \* bound: lines the client sends

ASSUME MaxLinesIsNumber == MaxLines \in Nat

Procs == {"parent", "pre", "post"}
Ends == {"parent1", "child1", "parent2", "child2", "consumer", "slave"}
Peer == [parent1 |-> "child1", child1 |-> "parent1", parent2 |-> "child2",
         child2 |-> "parent2", consumer |-> "slave", slave |-> "consumer"]
Names == {"ftp", "alice", "listed", "dodgy"}   \* what USER may say
Signals == {"TERM", "CHLD"}

VARIABLES
    conf,       \* the tunables this connection runs with
    pc,         \* where each process is: "none" before its fork, "ended" after exit
    bug,        \* the bug() a process died of, or "none"
    cred,       \* uid, jail and capabilities of each process, what it has given up
    ends,       \* the ends of private sockets each process holds
    inbox,      \* what each end has to read
    sess,       \* each process's copy of struct vsf_session
    ctl,        \* the control connection: "open", or "shut" by either side
    encrypted,  \* history: TLS has been negotiated on the control connection
    lines,      \* lines the client has sent
    chld,       \* what the parent does about SIGCHLD: "default", "null", "handler"
    pending, alarm,           \* the parent's pending signals and alarm(1)
    asleep,     \* whether it sleeps in a call: "no", "yes", "woken" by a signal
    reaped,     \* children the parent has waited for
    pam,        \* the PAM session of the parent: "none", "open", "closed"
    granted     \* history: the account the parent has let in, or "none"

processes == <<pc, bug, cred, reaped>>
sockets == <<ends, inbox>>
client == <<ctl, encrypted, lines>>
signals == <<chld, pending, alarm, asleep>>
accounts == <<pam, granted>>
vars == <<conf, processes, sockets, sess, client, signals, accounts>>

Running(p) == pc[p] \notin {"none", "ended"}
Front == IF conf.one_process_model THEN "parent" ELSE "pre"

------------------------------------------------------------------------------
(* main                                                                     *)

\* do_sanity_checks, for a control connection that is a socket.
SanityChecks(c) ==
    /\ c.one_process_model => ~c.local_enable /\ c.capabilities
    /\ c.local_enable \/ c.anonymous_enable

Root == [uid |-> "root", jail |-> "none", caps |-> {}, procs |-> TRUE, fds |-> TRUE]
NewSession ==
    [user |-> "none", control_use_ssl |-> FALSE, data_use_ssl |-> FALSE,
     ssl_slave_active |-> FALSE, is_anonymous |-> FALSE, is_guest |-> FALSE,
     login_fails |-> 0, data_fd |-> FALSE, pasv_listen |-> FALSE]

Init ==
    /\ conf \in {c \in Configs : SanityChecks(c)}
    /\ pc = [p \in Procs |-> IF p = "parent" THEN "main" ELSE "none"]
    /\ bug = "none" /\ reaped = {}
    /\ cred = [p \in Procs |-> Root]
    /\ ends = [p \in Procs |-> {}] /\ inbox = [e \in Ends |-> << >>]
    /\ sess = [p \in Procs |-> NewSession]
    /\ ctl = "open" /\ encrypted = FALSE /\ lines = 0
    /\ chld = "default" /\ pending = {} /\ alarm = FALSE /\ asleep = "no"
    /\ pam = "none" /\ granted = "none"

------------------------------------------------------------------------------
(* The end of a process.                                                    *)

\* Mutant: the exit function runs only for a parent that still serves requests.
AuthShutdownServing(p) ==
    pam' = IF p = "parent" /\ pam = "open" /\ pc[p] = "requests" THEN "closed" ELSE pam

\* vsf_sysutil_exit: the exit function of the parent is vsf_auth_shutdown once a
\* PAM session is open; a forked child has none (vsf_sysutil_post_fork).
AuthShutdown(p) ==
    pam' = IF p = "parent" /\ pam = "open" THEN "closed" ELSE pam

\* Mutant: no alarm(1).
SignalWithoutAlarm(s) ==
    IF s = "CHLD" /\ chld # "handler"
    THEN UNCHANGED <<pending, alarm, asleep>>
    ELSE /\ pending' = pending \cup {s} /\ alarm' = alarm
         /\ asleep' = IF asleep = "yes" THEN "woken" ELSE asleep

\* vsf_sysutil_common_sighandler in the parent: pending, with an alarm(1) that
\* repeats until the flag is looked at.  A signal without a handler leaves no trace.
Signal(s) ==
    IF s = "CHLD" /\ chld # "handler"
    THEN UNCHANGED <<pending, alarm, asleep>>
    ELSE /\ pending' = pending \cup {s} /\ alarm' = TRUE
         /\ asleep' = IF asleep = "yes" THEN "woken" ELSE asleep

\* What is left when p has exited: its descriptors are closed, and the parent of
\* a child gets SIGCHLD.
Leave(p, newPc) ==
    /\ pc' = [newPc EXCEPT ![p] = "ended"]
    /\ ends' = [ends EXCEPT ![p] = {}]
    /\ AuthShutdown(p) /\ UNCHANGED <<chld, granted, conf, cred, reaped, inbox, sess>>
    /\ IF p # "parent" /\ Running("parent")
       THEN Signal("CHLD")
       ELSE UNCHANGED <<pending, alarm, asleep>>

\* die(), and vsf_sysutil_exit without a word to the client.
Exit(p) == Leave(p, pc) /\ UNCHANGED <<bug, ctl, encrypted, lines>>
Bug(p, what) == Leave(p, pc) /\ bug' = what /\ UNCHANGED <<ctl, encrypted, lines>>
\* vsf_cmdio_write_exit of a process that writes to the client itself.
WriteExit(p) == Leave(p, pc) /\ ctl' = "shut" /\ UNCHANGED <<bug, encrypted, lines>>

Move(p, place) == pc' = [pc EXCEPT ![p] = place] /\ UNCHANGED <<bug, cred, reaped>>

------------------------------------------------------------------------------
(* Private sockets.                                                         *)

Held(e) == \E p \in Procs : e \in ends[p]
Eof(e) == inbox[e] = << >> /\ ~Held(Peer[e])
\* priv_sock_send_*: what the peer of e will read next after what it has.
Send(e, msgs) == inbox' = [inbox EXCEPT ![Peer[e]] = @ \o msgs]
Got(e) == inbox[e] # << >>
\* priv_sock_get_*: the first message, which the caller has looked at.
Take(e) == inbox' = [inbox EXCEPT ![e] = Tail(@)]

\* priv_sock_init finds neither descriptor in use.
SocketsFree(p) == ends[p] \cap {"parent1", "child1", "parent2", "child2"} = {}

------------------------------------------------------------------------------
(* vsf_secutil_change_credentials, for a caller that is root.  With capabilities *)
(* to keep and no support for them the process stays root.                  *)

\* Mutant: the process keeps the user it has.
ChangeCredentialsKeepsUser(uid, dir, caps, options) ==
    [uid |-> "root", jail |-> dir, caps |-> caps, procs |-> TRUE, fds |-> TRUE]

ChangeCredentials(uid, dir, caps, options) ==
    [uid |-> IF caps # {} /\ ~conf.capabilities THEN "root" ELSE uid,
     jail |-> IF "chroot" \in options THEN dir ELSE "none",
     caps |-> IF conf.capabilities THEN caps ELSE {},
     procs |-> "no_procs" \notin options \/ (caps # {} /\ ~conf.capabilities),
     fds |-> "no_fds" \notin options]

\* A missing directory or user, a writable root inside the jail: die().
AdoptOrDie(p, new, place) ==
    IF cred[p].uid # "root"
    THEN Bug(p, "not_running_as_root")
    ELSE \/ /\ cred' = [cred EXCEPT ![p] = new]
            /\ pc' = [pc EXCEPT ![p] = place]
            /\ UNCHANGED <<bug, reaped, conf, sockets, sess, client, signals, accounts>>
         \/ Exit(p)

HelperCaps ==
    (IF conf.chown_uploads THEN {"CHOWN"} ELSE {})
        \cup (IF conf.connect_from_port_20 THEN {"NET_BIND_SERVICE"} ELSE {})

------------------------------------------------------------------------------
(* Starting.                                                                *)

\* session_init: the accounts it looks up and dies without.
SessionInitNeeds ==
    (IF conf.anonymous_enable THEN {"ftp_username"} ELSE {})
        \cup (IF conf.guest_enable THEN {"guest_username"} ELSE {})
        \cup (IF conf.chown_uploads THEN {"chown_username"} ELSE {})
\* ssl_init: certificates, keys, ciphers and a seeded generator.
SslInitNeeds == IF conf.ssl_enable THEN {"ssl"} ELSE {}

\* main from the connection to the choice of the process model.
Main ==
    /\ pc["parent"] = "main"
    /\ \/ /\ SessionInitNeeds \cup SslInitNeeds # {} /\ Exit("parent")
       \/ /\ Move("parent", "start")
          /\ UNCHANGED <<conf, sockets, sess, client, signals, accounts>>

\* one_process_start: the anonymous user and a jail at once.
OneProcessStart ==
    /\ pc["parent"] = "start" /\ conf.one_process_model
    /\ AdoptOrDie("parent", ChangeCredentials("ftp", "anon_root", HelperCaps,
                                              {"chroot", "no_procs"}), "connected")

\* vsf_two_process_start up to the parent's loop: sockets, handlers, fork.
TwoProcessStart ==
    /\ pc["parent"] = "start" /\ ~conf.one_process_model
    /\ IF SocketsFree("parent")
       THEN /\ LET ssl == IF conf.ssl_enable THEN {"consumer", "slave"} ELSE {}
               IN  ends' = [ends EXCEPT !["parent"] = {"parent1"} \cup (ssl \ {"slave"}),
                                        !["pre"] = {"parent1", "child1"} \cup ssl]
            /\ pc' = [pc EXCEPT !["parent"] = "login", !["pre"] = "drop"]
            /\ chld' = "handler"
            /\ UNCHANGED <<bug, cred, reaped, conf, inbox, sess, client, pending, alarm,
                           asleep, accounts>>
       ELSE Bug("parent", "parent_fd_active")

\* The child's side: its ends only, then drop_all_privs.  A user list that cannot
\* be read ends it.
DropAllPrivs ==
    /\ pc["pre"] = "drop"
    /\ LET options == {"chroot", "no_procs"} \cup (IF conf.ssl_enable THEN {} ELSE {"no_fds"})
       IN  IF cred["pre"].uid # "root" THEN Bug("pre", "not_running_as_root")
           ELSE \/ /\ cred' = [cred EXCEPT !["pre"] =
                           ChangeCredentials("nobody", "secure_chroot_dir", {}, options)]
                   /\ ends' = [ends EXCEPT !["pre"] = @ \ {"parent1", "consumer"}]
                   /\ pc' = [pc EXCEPT !["pre"] = "connected"]
                   /\ UNCHANGED <<bug, reaped, conf, inbox, sess, client, signals, accounts>>
                \/ Exit("pre")

------------------------------------------------------------------------------
(* The dialogue (prelogin.c, and the commands of ssl.c that come before a   *)
(* login).  The idle alarm runs in all of it.                               *)

Change(p, s) == sess' = [sess EXCEPT ![p] = s]
Dialogue == UNCHANGED <<conf, sockets, signals, accounts>>

\* get_ssl and ssl_session_init on the control connection: a failure is fatal.
SslControlHandshake(p, private) ==
    \/ /\ Change(p, [sess[p] EXCEPT !.control_use_ssl = TRUE, !.data_use_ssl = private \/ @])
       /\ Move(p, "getline") /\ encrypted' = TRUE /\ UNCHANGED ctl /\ Dialogue
    \/ Leave(p, pc) /\ UNCHANGED <<bug, ctl, encrypted>>

\* init_connection: a refusal by check_limits, an implicit TLS handshake, the greeting.
InitConnection(p) ==
    /\ p = Front /\ pc[p] = "connected"
    /\ \/ WriteExit(p)
       \/ IF conf.ssl_enable /\ conf.implicit_ssl
          THEN SslControlHandshake(p, FALSE) /\ UNCHANGED lines
          ELSE Move(p, "getline") /\ UNCHANGED <<sess, client>> /\ Dialogue

\* A line arrives; the reader handles it before the next one.
Line(p) == p = Front /\ pc[p] = "getline" /\ ctl = "open" /\ lines < MaxLines
Count == lines' = lines + 1 /\ UNCHANGED <<ctl, encrypted>>
\* Any reply that leaves the reader where it is.
Say(p, s) == Change(p, s) /\ Move(p, "getline") /\ Count /\ Dialogue
QuitAfterLine(p) ==
    Leave(p, pc) /\ ctl' = "shut" /\ lines' = lines + 1 /\ UNCHANGED <<bug, encrypted>>

\* check_login_fails, after the reply.
Failed(p, s) ==
    IF s.login_fails + 1 >= conf.max_login_fails
    THEN Exit(p)
    ELSE Say(p, [s EXCEPT !.user = "none", !.login_fails = @ + 1])

Denied(name) ==
    \/ conf.userlist = "deny" /\ name = "listed"
    \/ conf.userlist = "allow" /\ name # "listed"

\* handle_login before it asks anybody: who is being logged in, or "none".
Candidate(name) ==
    CASE name = "dodgy" -> "none"
      [] OTHER -> name
Anonymous(name) == conf.anonymous_enable /\ name = "ftp"

\* handle_pass_command: the parent is asked, or handle_login is called.  In the
\* one-process model a name that is not anonymous is fatal.
HandlePass(p, s) ==
    CASE s.user = "none" -> Say(p, s)
      [] s.user # "none" /\ ~conf.one_process_model ->
           IF Held("parent1")
           THEN /\ Send("child1", <<[cmd |-> "LOGIN", user |-> s.user,
                                     control_use_ssl |-> s.control_use_ssl,
                                     data_use_ssl |-> s.data_use_ssl]>>)
                /\ Change(p, s) /\ Move(p, "pass") /\ Count
                /\ UNCHANGED <<conf, ends, signals, accounts>>
           ELSE Exit(p)
      [] OTHER ->
           IF Candidate(s.user) # "none" /\ ~Anonymous(s.user)
           THEN Exit(p)
           ELSE \/ Failed(p, s)
                \/ /\ Anonymous(s.user)
                   /\ Change(p, [s EXCEPT !.user = "ftp", !.is_anonymous = TRUE])
                   /\ Move(p, "session") /\ granted' = "ftp" /\ Count
                   /\ UNCHANGED <<conf, sockets, signals, pam>>

PassCommand(p) == Line(p) /\ HandlePass(p, sess[p])

\* Mutant: forced encryption is looked at for anonymous names only.
ForcedAnonymousOnly(p, name) ==
    conf.ssl_enable /\ ~sess[p].control_use_ssl /\ name = "ftp" /\ conf.force_anon_logins_ssl

MustEncrypt(p, name) ==
    /\ conf.ssl_enable /\ ~sess[p].control_use_ssl
    /\ IF name = "ftp" THEN conf.force_anon_logins_ssl ELSE conf.force_local_logins_ssl

\* handle_user_command
UserCommand(p, name) ==
    /\ Line(p)
    /\ LET anon == name = "ftp"
           s == [sess[p] EXCEPT !.user = name]
       IN  IF ~conf.local_enable /\ ~anon THEN Say(p, [s EXCEPT !.user = "none"])
           ELSE IF anon /\ s.control_use_ssl /\ ~conf.allow_anon_ssl /\ ~conf.force_anon_logins_ssl
                THEN Say(p, [s EXCEPT !.user = "none"])
           ELSE IF MustEncrypt(p, name) THEN Exit(p)
           ELSE IF Denied(name) THEN Failed(p, s)
           ELSE IF anon /\ conf.no_anon_password THEN HandlePass(p, s)
           ELSE Say(p, s)

\* handle_auth and ssl_control_handshake: a failed negotiation ends the process.
\* AUTH SSL and AUTH TLS-P also protect the data connections.
AuthCommand(p, private) ==
    /\ Line(p) /\ conf.ssl_enable /\ ~sess[p].control_use_ssl
    /\ lines' = lines + 1 /\ SslControlHandshake(p, private)

\* handle_prot
ProtCommand(p, private) ==
    /\ Line(p) /\ conf.ssl_enable
    /\ Say(p, IF sess[p].control_use_ssl
              THEN [sess[p] EXCEPT !.data_use_ssl = private] ELSE sess[p])

\* QUIT, and the lines that change nothing: FEAT, OPTS, PBSZ, unknown ones, empty ones.
QuitCommand(p) == Line(p) /\ QuitAfterLine(p)
OtherCommand(p) == Line(p) /\ Say(p, sess[p])

\* handle_alarm_timeout
IdleTimeout(p) == p = Front /\ pc[p] \in {"getline", "pass"} /\ WriteExit(p)
\* The client is gone, or the connection has been shut down: the read fails.
ControlLost(p) == p = Front /\ pc[p] = "getline" /\ ctl = "shut" /\ Exit(p)
ClientCloses == ctl = "open" /\ ctl' = "shut"
                /\ UNCHANGED <<conf, processes, sockets, sess, encrypted, lines, signals, accounts>>

\* vsf_two_process_login: the answer of the parent.
LoginResult ==
    /\ pc["pre"] = "pass"
    /\ CASE Got("child1") /\ Head(inbox["child1"]) = "OK" /\ ~sess["pre"].control_use_ssl ->
              Exit("pre")
         [] Got("child1") /\ Head(inbox["child1"]) = "OK" /\ sess["pre"].control_use_ssl ->
              \* ssl_slave: the alarm is cleared, the parent's socket closed.
              /\ Take("child1") /\ ends' = [ends EXCEPT !["pre"] = @ \ {"child1"}]
              /\ Move("pre", "slave")
              /\ UNCHANGED <<conf, sess, client, signals, accounts>>
         [] Got("child1") /\ Head(inbox["child1"]) = "BAD" ->
              IF sess["pre"].login_fails + 1 >= conf.max_login_fails
              THEN Exit("pre")
              ELSE /\ Take("child1")
                   /\ Change("pre", [sess["pre"] EXCEPT !.user = "none", !.login_fails = @ + 1])
                   /\ Move("pre", "getline")
                   /\ UNCHANGED <<conf, ends, client, signals, accounts>>
         [] Eof("child1") -> Exit("pre")
         [] OTHER -> FALSE

------------------------------------------------------------------------------
(* The parent: process_login_req and common_do_login.                       *)

\* The parent goes on only with no signal waiting to be handled.
Calm == pending = {}
Quiet == UNCHANGED <<conf, client, chld, pending, alarm>>

ReadLogin ==
    /\ pc["parent"] = "login" /\ Calm /\ (Got("parent1") \/ Eof("parent1"))
    /\ IF Eof("parent1")
       THEN Exit("parent")
       ELSE LET req == Head(inbox["parent1"])
            IN  /\ Take("parent1")
                /\ Change("parent",
                     [sess["parent"] EXCEPT
                        !.user = req.user,
                        !.control_use_ssl = req.control_use_ssl /\ conf.ssl_enable,
                        !.data_use_ssl = req.data_use_ssl /\ conf.ssl_enable])
                /\ Move("parent", "auth") /\ asleep' = "no"
                /\ Quiet /\ UNCHANGED <<ends, accounts>>

Answer(msg) == IF Held("child1") THEN Send("parent1", <<msg>>) ELSE UNCHANGED inbox

\* handle_login says no: a dodgy name, a banned e-mail address, PAM.
LoginFails ==
    /\ pc["parent"] = "auth"
    /\ sess["parent"].user = "dodgy" \/ Anonymous(sess["parent"].user) \/ conf.local_enable
    /\ IF Held("child1")
       THEN /\ Answer("BAD") /\ Move("parent", "login")
            /\ Quiet /\ UNCHANGED <<ends, sess, asleep, accounts>>
       ELSE Exit("parent")

\* vsf_sysdep_check_auth opens a PAM session only with session_support.
LoginSucceeds ==
    /\ pc["parent"] = "auth" /\ sess["parent"].user # "dodgy"
    /\ LET anon == Anonymous(sess["parent"].user)
       IN  IF ~anon /\ ~conf.local_enable
           THEN Exit("parent")
           ELSE /\ granted' = sess["parent"].user
                /\ pam' = IF anon \/ ~conf.session_support THEN pam ELSE "open"
                /\ Change("parent", [sess["parent"] EXCEPT !.is_anonymous = anon])
                /\ Move("parent", "commit")
                /\ Quiet /\ UNCHANGED <<sockets, asleep>>

\* common_do_login up to the fork: SIGCHLD is not ours while the pre-login child
\* hears OK and, without TLS, goes away.
Commit ==
    /\ pc["parent"] = "commit"
    /\ IF Held("child1")
       THEN /\ Answer("OK") /\ chld' = "null"
            /\ Move("parent", IF sess["parent"].control_use_ssl THEN "fork" ELSE "wait")
            /\ Change("parent", [sess["parent"] EXCEPT !.ssl_slave_active = @ \/ sess["parent"].control_use_ssl])
            /\ UNCHANGED <<conf, ends, client, pending, alarm, asleep, accounts>>
       ELSE Exit("parent")

\* vsf_sysutil_wait
WaitForPre ==
    /\ pc["parent"] = "wait" /\ pc["pre"] = "ended"
    /\ pc' = [pc EXCEPT !["parent"] = "fork"] /\ reaped' = reaped \cup {"pre"}
    /\ asleep' = "no"
    /\ UNCHANGED <<bug, cred, conf, sockets, sess, client, chld, pending, alarm, accounts>>

\* Mutant: the child's end only.
PrivSockCloseChild(held) == held \ {"child1", "child2"}
\* priv_sock_close: both descriptors, whichever are open.
PrivSockClose(held) == held \ {"parent1", "child1", "parent2", "child2"}

\* handle_per_user_config: a file that is there and cannot be looked at.  Such a
\* file is assumed to leave the tunables of this module alone.
HandlePerUserConfigDies == conf.user_config_dir

\* A new private socket, the handler again, and the fork; the parent keeps its end.
Fork ==
    /\ pc["parent"] = "fork"
    /\ LET left == PrivSockClose(ends["parent"])
       IN  IF left \cap {"parent1", "child1"} # {}
           THEN Bug("parent", "parent_fd_active")
           ELSE \/ HandlePerUserConfigDies /\ Exit("parent")
                \/ /\ ends' = [ends EXCEPT !["parent"] = {"parent2"},
                                           !["post"] = {"parent2", "child2"} \cup left]
                   /\ sess' = [sess EXCEPT !["post"] = sess["parent"]]
                   /\ cred' = [cred EXCEPT !["post"] = cred["parent"]]
                   /\ pc' = [pc EXCEPT !["parent"] = "minimize", !["post"] = "adopt"]
                   /\ chld' = "handler"
                   /\ UNCHANGED <<bug, reaped, conf, inbox, client, pending, alarm, asleep,
                                  accounts>>

\* minimize_privilege: with a PAM session to close the parent stays root.
MinimizePrivilege ==
    /\ pc["parent"] = "minimize"
    /\ IF ~sess["parent"].is_anonymous /\ conf.session_support
       THEN /\ Move("parent", "requests")
            /\ UNCHANGED <<conf, sockets, sess, client, signals, accounts>>
       ELSE AdoptOrDie("parent", ChangeCredentials("nobody", "secure_chroot_dir", HelperCaps,
                                                   {"chroot"}), "requests")

\* process_login_req: the list names the exceptions.
DoChroot(user) == conf.chroot_local_user # (conf.chroot_list_enable /\ user = "listed")

\* calculate_chdir_dir: the place a jail is made of.
CalculateChdirDir(anon_login) ==
    CASE anon_login -> "anon_root"
      [] ~anon_login /\ conf.passwd_chroot_enable -> "passwd_dir"
      [] OTHER -> "home"

\* The child of the login: guests are remapped, and without local privileges
\* treated as anonymous; then credentials, and the session begins.
BecomeUser ==
    /\ pc["post"] = "adopt"
    /\ LET was_anon == sess["post"].is_anonymous
           guest == conf.guest_enable /\ ~was_anon
           anon == was_anon \/ (guest /\ ~conf.virtual_use_local_privs)
           do_chroot == anon \/ DoChroot(sess["post"].user)
           uid == CASE guest -> "guest" [] was_anon -> "ftp" [] OTHER -> sess["post"].user
           options == {"no_procs"} \cup (IF do_chroot THEN {"chroot"} ELSE {})
       IN  IF cred["post"].uid # "root" THEN Bug("post", "not_running_as_root")
           ELSE \/ /\ cred' = [cred EXCEPT !["post"] =
                           ChangeCredentials(uid, CalculateChdirDir(was_anon), {}, options)]
                   /\ Change("post", [sess["post"] EXCEPT !.is_anonymous = anon, !.is_guest = guest])
                   /\ ends' = [ends EXCEPT !["post"] = @ \ {"parent2"}]
                   /\ pc' = [pc EXCEPT !["post"] = "hello"]
                   /\ UNCHANGED <<bug, reaped, conf, inbox, client, signals, accounts>>
                \/ Exit("post")

------------------------------------------------------------------------------
(* The parent's signals.                                                    *)

ParentBlocking == {"login", "wait", "requests"}
\* The places where a call of the parent is followed by check_pending_actions.
ParentChecks == ParentBlocking \cup {"auth"}

ParentSleeps ==
    /\ pc["parent"] \in ParentBlocking /\ ~conf.one_process_model /\ asleep = "no"
    /\ asleep' = "yes"
    /\ UNCHANGED <<conf, processes, sockets, sess, client, chld, pending, alarm, accounts>>

\* The listener goes away, or an administrator stops the session.
Terminate ==
    /\ Running("parent") /\ ~conf.one_process_model /\ pc["parent"] \notin {"main", "start"}
    /\ "TERM" \notin pending
    /\ Signal("TERM")
    /\ UNCHANGED <<conf, processes, sockets, sess, client, chld, accounts>>

\* vsf_sysutil_alrm_sighandler: a signal that came just before the sleep.
AlarmWakes ==
    /\ Running("parent") /\ alarm /\ asleep = "yes" /\ asleep' = "woken"
    /\ UNCHANGED <<conf, processes, sockets, sess, client, chld, pending, alarm, accounts>>

\* check_pending_actions: handle_sigterm (15) before handle_sigchld (17), which
\* waits for a child that has ended.  Both end the parent.
HandleSignal ==
    /\ pc["parent"] \in ParentChecks /\ asleep # "yes" /\ pending # {}
    /\ IF "TERM" \in pending
       THEN WriteExit("parent")
       ELSE /\ \E p \in {"pre", "post"} \ reaped : pc[p] = "ended"
            /\ chld = "handler" /\ Exit("parent")
=============================================================================
