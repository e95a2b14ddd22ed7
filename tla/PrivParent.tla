------------------------------ MODULE PrivParent ------------------------------
(***************************************************************************)
(* After the login: the session process asks its privileged parent for     *)
(* sockets (postprivparent.c, the vsf_two_process_* calls) and, over TLS,   *)
(* has the former pre-login child read and write for it (sslslave.c,        *)
(* readwrite.c, ftpdataio.c).  An exchange is one request and its answer,   *)
(* and the only thing that keeps answers and requests together is that     *)
(* nobody starts an exchange in the middle of another.  Nobody but the      *)
(* handler of SIGURG, which async_abor_enable installs: it reads a line in  *)
(* the middle of whatever the session process is doing.                     *)
(***************************************************************************)
EXTENDS Login

CONSTANT DataStalls   \* a client may leave a data connection open and silent

ASSUME DataStallsIsBoolean == DataStalls \in BOOLEAN

VARIABLES
    op,     \* the call the session process is in, "none" between two commands
    cmd,    \* the command it handles
    port,   \* p_port_sockaddr # 0
    urgent  \* the exchange handle_sigurg waits in: "none", "GETLINE" or "RESP"

session == <<op, cmd, port, urgent>>
allvars == <<vars, session>>

Post == sess["post"]
\* Calls answered by the parent, and calls answered by the TLS handler.
ParentCalls == {"CLEANUP", "LISTEN", "ACTIVE", "ACCEPT", "DATASOCK", "CHOWN"}
SlaveCalls == {"GETLINE", "RESP", "HANDSHAKE", "READ", "WRITE", "CLOSE"}
Calls == ParentCalls \cup SlaveCalls
\* Whether a call goes to another process: ssl_slave_active, and the kind of data
\* connection for the calls about data.
Remote(c) ==
    \/ c \in ParentCalls
    \/ c \in {"GETLINE", "RESP"} /\ Post.ssl_slave_active
    \/ c \in {"HANDSHAKE", "READ", "WRITE", "CLOSE"} /\ Post.ssl_slave_active /\ Post.data_use_ssl
Line2(c) == IF c \in ParentCalls THEN "child2" ELSE "consumer"

\* What a whole answer looks like on the socket.
AnswersTo(c) ==
    CASE c \in {"CLEANUP", "CHOWN"} -> {<<"OK">>}
      [] c = "ACTIVE" -> {<<"0">>, <<"1">>}
      [] c = "LISTEN" -> {<<"port">>}
      [] c = "ACCEPT" -> {<<"OK", "fd">>, <<"BAD", "-1">>}
      [] c = "DATASOCK" -> {<<"OK", "fd">>, <<"BAD">>}
      [] c = "GETLINE" -> {<<"1", "str">>, <<"-1">>}
      [] c = "RESP" -> {<<"0">>, <<"-1">>}
      [] c = "READ" -> {<<"1", "str">>, <<"0", "str">>}
      [] c = "WRITE" -> {<<"1">>, <<"-1">>}
      [] c \in {"HANDSHAKE", "CLOSE"} -> {<<"OK">>, <<"BAD">>}

\* The call that follows c when the answer was a, by the command under way; "none"
\* when the command is over and the next line is read.
After(c, a) ==
    CASE c = "GETLINE" -> IF a = <<"-1">> THEN "EXIT" ELSE "none"
      [] c = "CLEANUP" -> CASE cmd = "PASV" -> "LISTEN" [] OTHER -> "RESP"
      [] c = "LISTEN" -> "RESP"
      [] c = "ACTIVE" -> IF a = <<"1">> THEN "ACCEPT" ELSE IF port THEN "DATASOCK" ELSE "RESP"
      [] c \in {"ACCEPT", "DATASOCK"} -> IF Head(a) = "OK" THEN "HANDSHAKE" ELSE "CLEANUP"
      [] c = "CHOWN" -> "ACTIVE"
      [] c = "HANDSHAKE" ->
             IF a = <<"BAD">> THEN "CLOSE" ELSE IF cmd = "STOR" THEN "READ" ELSE "WRITE"
      [] c \in {"READ", "WRITE"} -> IF Head(a) = "1" THEN c ELSE "CLOSE"
      [] c = "CLOSE" -> "CLEANUP"
      [] c = "RESP" -> IF a = <<"0">> THEN "GETLINE" ELSE "EXIT"

------------------------------------------------------------------------------
(* The session process.                                                     *)

KeepAll == UNCHANGED <<conf, bug, cred, reaped, client, signals, accounts>>

\* process_post_login starts with the login message.
Hello ==
    /\ pc["post"] = "hello"
    /\ pc' = [pc EXCEPT !["post"] = "call"] /\ op' = "RESP" /\ cmd' = "none" /\ port' = FALSE
    /\ KeepAll /\ UNCHANGED <<sockets, sess, urgent>>

\* Starts an exchange; a dead peer means die().
Ask ==
    /\ pc["post"] = "call" /\ op \in Calls /\ Remote(op) /\ urgent = "none"
    /\ IF Held(Peer[Line2(op)])
       THEN /\ Send(Line2(op), <<op>>) /\ pc' = [pc EXCEPT !["post"] = "await"]
            /\ KeepAll /\ UNCHANGED <<ends, sess>>
       ELSE Exit("post")
    /\ UNCHANGED session

Set(o, c, pt) == op' = o /\ cmd' = c /\ port' = pt /\ UNCHANGED urgent
\* port_cleanup at the end of a transfer, next to pasv_cleanup.
PortAfter(c) == port /\ ~(c = "CLEANUP" /\ cmd \in {"RETR", "STOR"})
\* The data connection begins and ends here as the session process sees it.
DataFd(c, a) ==
    [sess EXCEPT !["post"].data_fd =
        CASE c \in {"ACCEPT", "DATASOCK"} -> Head(a) = "OK"
          [] c = "CLOSE" -> FALSE
          [] OTHER -> @]

\* The answer: result, then the descriptor, string or number that goes with it.
Answered ==
    /\ pc["post"] = "await" /\ urgent = "none"
    /\ LET e == Line2(op)
       IN  CASE Eof(e) -> Exit("post") /\ UNCHANGED session
             [] Got(e) /\ inbox[e] \in AnswersTo(op) ->
                  IF After(op, inbox[e]) = "EXIT"
                  THEN Exit("post") /\ UNCHANGED session
                  ELSE /\ inbox' = [inbox EXCEPT ![e] = << >>]
                       /\ pc' = [pc EXCEPT !["post"] = IF After(op, inbox[e]) = "none" THEN "line" ELSE "call"]
                       /\ Set(After(op, inbox[e]), cmd, PortAfter(op))
                       /\ sess' = DataFd(op, inbox[e])
                       /\ KeepAll /\ UNCHANGED ends
             [] OTHER -> FALSE

\* A call the process makes itself.  Reading and writing fail once the control
\* connection is shut; data keeps moving or ends.
Local ==
    /\ pc["post"] = "call" /\ op \in Calls /\ ~Remote(op) /\ urgent = "none"
    /\ \E a \in AnswersTo(op) :
         /\ op = "RESP" => (a = <<"0">>) = (ctl = "open")
         /\ op = "HANDSHAKE" => a = <<"OK">>
         /\ op \in {"READ", "WRITE"} /\ Head(a) = "1" => lines < MaxLines
         /\ op = "GETLINE" /\ ctl = "open" => a = <<"1", "str">> /\ lines < MaxLines
         /\ op = "GETLINE" /\ ctl = "shut" => a = <<"-1">>
         /\ IF After(op, a) = "EXIT"
            THEN Exit("post") /\ UNCHANGED session
            ELSE /\ pc' = [pc EXCEPT !["post"] = IF After(op, a) = "none" THEN "line" ELSE "call"]
                 /\ Set(After(op, a), cmd, port) /\ sess' = DataFd(op, a)
                 /\ lines' = IF Head(a) = "1" /\ op # "ACTIVE" THEN lines + 1 ELSE lines
                 /\ UNCHANGED <<conf, bug, cred, reaped, sockets, ctl, encrypted, signals, accounts>>

\* A line has been read.  data_transfer_checks_ok lets a transfer start only after
\* PORT or PASV; an upload of an anonymous user is first given away (chown_uploads).
Dispatch(c) ==
    /\ pc["post"] = "line"
    /\ pc' = [pc EXCEPT !["post"] = "call"]
    /\ CASE c = "PASV" -> Set("CLEANUP", c, FALSE)
         [] c = "PORT" -> Set("CLEANUP", c, TRUE)
         [] c = "RETR" -> Set("ACTIVE", c, port)
         [] c = "STOR" -> Set(IF Post.is_anonymous /\ conf.chown_uploads THEN "CHOWN" ELSE "ACTIVE", c, port)
         [] c = "PROT" -> Set("RESP", c, port)
    /\ sess' = IF c = "PROT" /\ Post.control_use_ssl
               THEN [sess EXCEPT !["post"].data_use_ssl = ~@] ELSE sess
    /\ KeepAll /\ UNCHANGED sockets

\* handle_alarm_timeout, or handle_sigalrm without progress: vsf_cmdio_write_exit.
\* Over TLS the message goes through the TLS handler, whose answer is awaited;
\* shutting down the control connection unblocks a handler that reads from it.
Timeout ==
    /\ pc["post"] = "await" \/ (pc["post"] = "call" /\ op \in {"GETLINE", "READ", "WRITE"} /\ ~Remote(op))
    /\ IF Post.ssl_slave_active /\ Held("slave")
       THEN /\ ctl' = "shut" /\ Send("consumer", <<"RESP">>)
            /\ pc' = [pc EXCEPT !["post"] = "dying"]
            /\ UNCHANGED <<conf, bug, cred, reaped, ends, sess, encrypted, lines, signals, accounts>>
       ELSE WriteExit("post")
    /\ UNCHANGED session

\* The answer is read as a number: result bytes alone do not make one.
Dies ==
    /\ pc["post"] = "dying"
    /\ ~Held("slave") \/ \E i \in 1..Len(inbox["consumer"]) : inbox["consumer"][i] \notin {"OK", "BAD"}
    /\ WriteExit("post") /\ UNCHANGED session

\* handle_sigurg, while there is a data connection: the read of a line that the TLS
\* handler is asked for.  The handler runs from any call of the session process, one
\* that waits for the same socket included, and there also between the number and
\* the data of a READ.  Without TLS the line is read from the client at once (module
\* Session).
HandleSigurg ==
    /\ pc["post"] \in {"call", "await"} /\ urgent = "none"
    /\ Post.data_fd /\ Post.ssl_slave_active
    /\ IF Held("slave")
       THEN /\ \E begun \in BOOLEAN :   \* the number has been read
                 /\ begun => /\ pc["post"] = "await" /\ op = "READ"
                             /\ Got("consumer") /\ inbox["consumer"][1] = "1"
                 /\ inbox' = [inbox EXCEPT !["slave"] = Append(@, "GETLINE"),
                                           !["consumer"] = IF begun THEN Tail(@) ELSE @]
            /\ urgent' = "GETLINE"
            /\ KeepAll /\ UNCHANGED <<pc, ends, sess, op, cmd, port>>
       ELSE Exit("post") /\ UNCHANGED session

\* What the nested call finds: its answer, or whatever the interrupted call was to
\* get.  After a line that is not ABOR comes a reply, for which only 0 is a success.
UrgentAnswered ==
    /\ urgent # "none" /\ pc["post"] \in {"call", "await"}
    /\ LET a == inbox["consumer"]
           left(n) == SubSeq(a, 1 + n, Len(a))
           taken == IF urgent = "RESP" THEN 1 ELSE 2
           whole == /\ Len(a) >= taken
                    /\ IF urgent = "RESP" THEN a[1] = "0"
                      ELSE a[1] \in {"0", "1"} /\ a[2] = "str"
       IN  \/ /\ whole /\ urgent' = "none"
              /\ inbox' = [inbox EXCEPT !["consumer"] = left(taken)]
              /\ KeepAll /\ UNCHANGED <<pc, ends, sess, op, cmd, port>>
           \/ /\ whole /\ urgent = "GETLINE" /\ Held("slave") /\ urgent' = "RESP"
              /\ inbox' = [inbox EXCEPT !["consumer"] = left(taken), !["slave"] = Append(@, "RESP")]
              /\ KeepAll /\ UNCHANGED <<pc, ends, sess, op, cmd, port>>
           \/ /\ \/ ~Held("slave")
                 \/ ~whole /\ (Len(a) >= taken \/ a = <<"-1">>)
              /\ Exit("post") /\ UNCHANGED session
           \* The data of a READ, taken for a number and a line: what is left of it is
           \* then taken for the length of the data.
           \/ /\ a # << >> /\ a[1] = "str" /\ op = "READ"
              /\ Bug("post", "recv_len bigger than buffer") /\ UNCHANGED session

\* The interrupted call finds what the nested one has left.
OutOfStep ==
    /\ pc["post"] = "await" /\ urgent = "none"
    /\ Got(Line2(op)) /\ inbox[Line2(op)] \notin AnswersTo(op)
    /\ Exit("post") /\ UNCHANGED session

\* In the one-process model the session is the parent; its end is all that
\* matters here.
SessionOver ==
    /\ pc["parent"] = "session" /\ ctl = "shut" /\ Exit("parent") /\ UNCHANGED session

------------------------------------------------------------------------------
(* process_post_login_req.  The parent answers or dies.                     *)

Request == inbox["parent2"][1]
\* Mutant: a failed accept sends its result and not the number that follows.
AcceptAnswersShort == {<<"OK", "fd">>, <<"BAD">>}
AcceptAnswers == {<<"OK", "fd">>, <<"BAD", "-1">>}

\* vsf_privop_get_ftp_port_sock: no connection is an answer, no socket is die().
GetFtpPortSock == {<<"OK", "fd">>, <<"BAD">>}
\* vsf_privop_pasv_listen and vsf_privop_pasv_cleanup: whether there is a listener.
PasvListening(r) ==
    CASE r = "LISTEN" -> TRUE [] r = "CLEANUP" -> FALSE [] OTHER -> sess["parent"].pasv_listen
\* Requests that can end the parent: no usable port, no socket, and a file that is
\* not a regular one owned by the anonymous user (vsf_privop_do_file_chown).
DiesIn == {"LISTEN", "DATASOCK", "CHOWN"}

ParentAnswers(r) ==
    CASE r = "ACTIVE" -> {IF sess["parent"].pasv_listen THEN <<"1">> ELSE <<"0">>}
      [] r = "ACCEPT" -> AcceptAnswers
      [] r = "DATASOCK" -> GetFtpPortSock
      [] OTHER -> AnswersTo(r)

\* A bad request, an unusable socket or file, and a session process that is gone
\* end the parent.
ProcessRequest ==
    /\ pc["parent"] = "requests" /\ Calm /\ (Got("parent2") \/ Eof("parent2"))
    /\ \/ /\ Got("parent2") /\ Held("child2")
          /\ Request \in ParentCalls /\ (Request = "CHOWN" => conf.chown_uploads)
          /\ \E a \in ParentAnswers(Request) :
               inbox' = [inbox EXCEPT !["parent2"] = Tail(@), !["child2"] = @ \o a]
          /\ sess' = [sess EXCEPT !["parent"].pasv_listen = PasvListening(Request)]
          /\ asleep' = "no"
          /\ UNCHANGED <<conf, processes, ends, client, chld, pending, alarm, accounts>>
       \/ /\ Got("parent2") /\ Held("child2")
             => Request \in DiesIn \/ Request \notin ParentCalls
          /\ Exit("parent")
    /\ UNCHANGED session

------------------------------------------------------------------------------
(* ssl_slave: one request at a time, and calls that wait for the client.    *)

Reply(a, s, place) ==
    IF Held("consumer")
    THEN /\ inbox' = [inbox EXCEPT !["slave"] = Tail(@), !["consumer"] = @ \o a]
         /\ sess' = [sess EXCEPT !["pre"] = s] /\ pc' = [pc EXCEPT !["pre"] = place]
         /\ UNCHANGED <<conf, bug, cred, reaped, ends, ctl, encrypted, signals, accounts>>
    ELSE Leave("pre", pc) /\ UNCHANGED <<bug, ctl, encrypted>>

\* The answers of ssl_data_close; nothing to close is a success.
SslDataClose == IF sess["pre"].data_fd THEN AnswersTo("CLOSE") ELSE {<<"OK">>}
\* ssl_accept: refused without session reuse or with another certificate, which
\* takes the connection down again.
SslAccept(a) == [sess["pre"] EXCEPT !.data_fd = a = <<"OK">>]

SlaveAnswers ==
    /\ pc["pre"] = "slave" /\ Got("slave")
    /\ LET r == Head(inbox["slave"])
       IN  CASE r = "RESP" ->
                  /\ Reply(IF ctl = "open" THEN <<"0">> ELSE <<"-1">>, sess["pre"], "slave")
                  /\ UNCHANGED lines
             [] r = "CLOSE" ->
                  /\ \E a \in SslDataClose :
                       Reply(a, [sess["pre"] EXCEPT !.data_fd = FALSE], "slave")
                  /\ UNCHANGED lines
             [] r = "HANDSHAKE" /\ sess["pre"].data_fd -> Bug("pre", "state_not_clean")
             [] OTHER -> Move("pre", "waiting")
                         /\ UNCHANGED <<conf, sockets, sess, client, signals, accounts>>
    /\ UNCHANGED session

\* ftp_getline for the session process: a line, or the end of the connection.
SlaveReadsLine ==
    /\ pc["pre"] = "waiting" /\ Head(inbox["slave"]) = "GETLINE"
    /\ IF ctl = "shut" THEN Exit("pre")
       ELSE /\ lines < MaxLines /\ lines' = lines + 1
            /\ \E a \in AnswersTo("GETLINE") : Reply(a, sess["pre"], "slave")
    /\ UNCHANGED session

\* ssl_accept, ssl_read and ssl_write on the data connection.  A failed handshake
\* ends the process; one without session reuse is refused.
SlaveMovesData ==
    /\ pc["pre"] = "waiting" /\ Head(inbox["slave"]) \in {"HANDSHAKE", "READ", "WRITE"}
    /\ LET r == Head(inbox["slave"])
       IN  \/ \E a \in AnswersTo(r) :
                /\ Head(a) = "1" => lines < MaxLines
                /\ lines' = IF Head(a) = "1" THEN lines + 1 ELSE lines
                /\ Reply(a, IF r = "HANDSHAKE" THEN SslAccept(a) ELSE sess["pre"], "slave")
           \/ r = "HANDSHAKE" /\ Exit("pre")   \* die() in get_ssl
    /\ UNCHANGED session

SlaveEnds == pc["pre"] = "slave" /\ Eof("slave") /\ Exit("pre") /\ UNCHANGED session

------------------------------------------------------------------------------
LoginInit == Init /\ op = "none" /\ cmd = "none" /\ port = FALSE /\ urgent = "none"

\* What a client, the listener and an administrator may do.
Environment ==
    /\ \/ \E p \in {"parent", "pre"} :
             \/ PassCommand(p) \/ QuitCommand(p) \/ OtherCommand(p) \/ IdleTimeout(p)
             \/ \E n \in Names : UserCommand(p, n)
             \/ \E b \in BOOLEAN : AuthCommand(p, b) \/ ProtCommand(p, b)
       \/ ClientCloses \/ Terminate
    /\ UNCHANGED session

\* What the processes do by themselves.
Starting ==
    /\ Main \/ OneProcessStart \/ TwoProcessStart \/ DropAllPrivs
       \/ \E p \in {"parent", "pre"} : InitConnection(p)
    /\ UNCHANGED session
LoggingIn ==
    /\ \/ LoginResult \/ ReadLogin \/ LoginFails \/ LoginSucceeds \/ Commit \/ WaitForPre
       \/ Fork \/ MinimizePrivilege \/ BecomeUser
       \/ \E p \in {"parent", "pre"} : ControlLost(p)
    /\ UNCHANGED session
ParentSignals == (HandleSignal \/ AlarmWakes) /\ UNCHANGED session
PostSteps == Hello \/ Ask \/ Answered \/ Dies \/ \E c \in {"PASV", "PORT", "RETR", "STOR", "PROT"} : Dispatch(c)

AbortSteps == conf.async_abor_enable /\ (UrgentAnswered \/ OutOfStep)
AsyncAbor == conf.async_abor_enable /\ HandleSigurg

Steps == \/ Starting \/ LoggingIn \/ ParentSignals \/ PostSteps \/ Local
         \/ ProcessRequest \/ SlaveAnswers \/ SlaveReadsLine \/ SlaveEnds
         \/ SessionOver \/ AbortSteps
Next == \/ Environment \/ Steps \/ SlaveMovesData \/ Timeout \/ AsyncAbor
        \/ (ParentSleeps /\ UNCHANGED session)

\* The alarm of idle_session_timeout, set by vsf_cmdio_set_alarm while a line is read;
\* handle_sigurg reads its line under the alarm of the data connection.
IdleAlarm ==
    \/ \E p \in {"parent", "pre"} : IdleTimeout(p) /\ UNCHANGED session
    \/ (op = "GETLINE" \/ urgent # "none") /\ Timeout

\* Every process runs; alarms ring; a client may do as it likes, but for data
\* connections when DataStalls is FALSE.
Spec == /\ LoginInit /\ [][Next]_allvars
        /\ WF_allvars(Starting) /\ WF_allvars(LoggingIn) /\ WF_allvars(ParentSignals)
        /\ WF_allvars(PostSteps) /\ WF_allvars(Local)
        /\ WF_allvars(ProcessRequest)
        /\ WF_allvars(SlaveAnswers) /\ WF_allvars(SlaveReadsLine) /\ WF_allvars(SlaveEnds)
        /\ WF_allvars(SessionOver) /\ WF_allvars(IdleAlarm) /\ WF_allvars(AbortSteps)
        /\ (~DataStalls => WF_allvars(SlaveMovesData))

------------------------------------------------------------------------------
Places == {"none", "ended", "main", "start", "connected", "getline", "pass", "session", "drop",
           "login", "auth", "commit", "wait", "fork", "minimize", "requests", "slave",
           "waiting", "adopt", "hello", "call", "await", "line", "dying"}
Uids == {"root", "nobody", "guest"} \cup Names

\* Every variable keeps its type; in particular no private socket ever holds more
\* than a request, those of handle_sigurg and the message of a timeout, or more than
\* their answers.
TypeOK ==
    /\ conf \in Configs
    /\ pc \in [Procs -> Places] /\ bug \in STRING /\ reaped \subseteq {"pre", "post"}
    /\ cred \in [Procs -> [uid : Uids, jail : {"none", "anon_root", "home", "passwd_dir", "secure_chroot_dir"},
                           caps : SUBSET {"CHOWN", "NET_BIND_SERVICE"}, procs : BOOLEAN, fds : BOOLEAN]]
    /\ ends \in [Procs -> SUBSET Ends] /\ \A e \in Ends : Len(inbox[e]) <= IF conf.async_abor_enable THEN 6 ELSE 3
    /\ sess \in [Procs -> [user : Names \cup {"none"}, control_use_ssl : BOOLEAN, data_use_ssl : BOOLEAN,
                           ssl_slave_active : BOOLEAN, is_anonymous : BOOLEAN, is_guest : BOOLEAN,
                           login_fails : 0..MaxLines, data_fd : BOOLEAN, pasv_listen : BOOLEAN]]
    /\ ctl \in {"open", "shut"} /\ encrypted \in BOOLEAN /\ lines \in 0..MaxLines
    /\ chld \in {"default", "null", "handler"} /\ pending \subseteq Signals
    /\ alarm \in BOOLEAN /\ asleep \in {"no", "yes", "woken"}
    /\ pam \in {"none", "open", "closed"} /\ granted \in Names \cup {"none"}
    /\ op \in Calls \cup {"none"} /\ cmd \in {"none", "PASV", "PORT", "RETR", "STOR", "PROT"}
    /\ port \in BOOLEAN /\ urgent \in {"none", "GETLINE", "RESP"}

\* No bug() of privsock.c, ssl.c, secutil.c and sslslave.c is reached, whatever
\* the order of logins, exits and requests; with async_abor_enable one of them is: the
\* line that handle_sigurg asks for is taken for the answer to a READ, whose data
\* priv_sock_recv_buf then takes for a length.
NeverBug == bug = "none" \/ (conf.async_abor_enable /\ bug = "recv_len bigger than buffer")

\* A process that reads what the client sends is not root and can start no other;
\* the session process runs as the account that was let in, or the guest account
\* that stands for it, and is in a jail when its privileges are anonymous ones.
SessionsRunAsTheirUser ==
    /\ \A p \in Procs :
         pc[p] \in {"getline", "pass", "slave", "waiting", "session", "call", "await", "line", "dying"} =>
             /\ cred[p].uid # "root" /\ ~cred[p].procs
             /\ pc[p] = "getline" /\ ~conf.ssl_enable /\ ~conf.one_process_model => ~cred[p].fds
    /\ Running("post") /\ pc["post"] # "adopt" =>
         /\ granted # "none"
         /\ cred["post"].uid = IF Post.is_guest THEN "guest" ELSE granted
         /\ Post.is_anonymous => cred["post"].jail # "none"
    /\ pc["parent"] = "requests" /\ conf.capabilities /\ cred["parent"].uid = "root" =>
         pam = "open"

\* Where encryption is forced, a session has got it, and the flag it goes by is
\* what was negotiated: the password has not gone over the wire in the clear, and
\* no private data connection belongs to a clear session.  USER goes by the name: where
\* there are no anonymous logins, the rule for anonymous ones is the one that the local
\* account "ftp" is held to.
ForcedEncryptionHolds ==
    /\ \A p \in {"pre", "post"} : Running(p) =>
         /\ sess[p].control_use_ssl = encrypted
         /\ sess[p].data_use_ssl => encrypted
    /\ (pc["post"] = "call" /\ conf.ssl_enable /\ ~encrypted) =>
         \/ Anonymous(granted) /\ ~conf.force_anon_logins_ssl
         \/ ~Anonymous(granted) /\ ~conf.force_local_logins_ssl
         \/ granted = "ftp" /\ ~conf.anonymous_enable /\ ~conf.force_anon_logins_ssl

\* What the manual says of force_local_logins_ssl: a login that is not anonymous has
\* sent its password encrypted.
LocalLoginsAreEncrypted ==
    (pc["post"] = "call" /\ conf.ssl_enable /\ conf.force_local_logins_ssl /\ ~Anonymous(granted))
        => encrypted

\* Every answer on a private socket is the answer to the call the session process
\* waits in (handle_sigurg takes answers away from that call), and a request finds
\* its server in the state it needs: a listener to accept from and none to lose, no
\* data connection of an earlier transfer.
AnswersMatchRequests ==
    /\ ~conf.async_abor_enable =>
         /\ pc["post"] = "await" /\ Got(Line2(op)) => inbox[Line2(op)] \in AnswersTo(op)
         /\ pc["post"] \in {"call", "line"} => ~Got("child2") /\ ~Got("consumer")
    /\ pc["parent"] = "requests" /\ Got("parent2") =>
         /\ Request = "ACCEPT" => sess["parent"].pasv_listen
         /\ Request = "LISTEN" => ~sess["parent"].pasv_listen
    /\ pc["post"] = "line" => ~Post.data_fd

\* The PAM session of a login is open as long as its session runs and closed when
\* the parent has ended, however it ended.
PamSessionIsClosed ==
    /\ pc["parent"] = "ended" => pam # "open"
    /\ Running("post") /\ Running("parent") /\ conf.session_support /\ ~Anonymous(granted) => pam = "open"

\* When the client is gone, or the parent or the session process has ended, all
\* processes of the connection end ("to make sure no process lingers").  With
\* async_abor_enable only the client's going counts: a session process that has died of
\* a misread answer may leave the TLS handler, which has no alarm, in the read of a line.
Over == \/ ctl = "shut"
        \/ ~conf.async_abor_enable /\ (pc["parent"] = "ended" \/ pc["post"] = "ended")
NobodyLingers == Over ~> \A p \in Procs : ~Running(p)

\* A session process that has timed out ends.
TimeoutKicksOff == (pc["post"] = "dying") ~> (pc["post"] = "ended")
=============================================================================
