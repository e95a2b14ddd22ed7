------------------------------- MODULE Session -------------------------------
(***************************************************************************)
(* A logged-in session of the FTP server: the command loop and the         *)
(* transfer handlers (postlogin.c), the life of the data connection        *)
(* (ftpdataio.c), the control connection (ftpcmdio.c) and the signals that *)
(* cut across them (sysutil.c).                                            *)
(*                                                                         *)
(* The process is sequential, its signals are not: SIGALRM ends idle       *)
(* sessions and stalled transfers, SIGURG announces an ABOR.  Their        *)
(* asynchronous half only sets a pending flag; the handlers run from       *)
(* vsf_sysutil_check_pending_actions, after every call that may block.     *)
(* A command handler is therefore split at its blocking calls and nowhere  *)
(* else.  Sessions without TLS and in stream mode, as the installer uses   *)
(* them.                                                                   *)
(***************************************************************************)
EXTENDS Integers, Sequences

CONSTANTS
    MaxCommands,         \* bound: lines a client sends in one session
    MaxAhead,            \* bound: lines sent and not yet read
    DeleteFailedUploads, \* tunable_delete_failed_uploads
    UinsDisturbed        \* the data connection of a SITE UINS may fail to come
                         \* about, and its client may abort it

ASSUME BoundsAreNumbers == MaxCommands \in Nat /\ MaxAhead \in Nat
ASSUME SwitchesAreBoolean == DeleteFailedUploads \in BOOLEAN /\ UinsDisturbed \in BOOLEAN

VARIABLES
    pc, ret,        \* where the process is; where check_pending_actions returns to
    cmd,            \* the command being handled
    blocked,        \* the process sleeps in the call it has reached
    bug,            \* the bug() the process died of, "none" if none
    lines, sent,    \* lines sent and unread, number of lines sent
    owed,           \* lines read whose final reply is not written yet
    port, pasv,     \* p_port_sockaddr # 0, a passive listener exists
    is_ascii, restart_pos,
    data_fd,        \* "none" (-1), "open", "shut" after shutdown()
    io_handler, data_progress, abor_received,
    alarm, handler, \* an alarm() is running; what SIGALRM is bound to
    alrm, urg,      \* the pending flags of SIGALRM and SIGURG
    file,           \* the file or directory the handler holds open
    disk,           \* the last uploaded file: "absent", "partial", "whole"
    result,         \* trans_ret.retval
    aborted         \* history: the last upload was aborted by its client

flow == <<pc, ret, cmd, blocked, bug>>
control == <<lines, sent, owed>>
modes == <<port, pasv, is_ascii, restart_pos>>
dataconn == <<data_fd, io_handler, data_progress, abor_received>>
signals == <<alarm, handler, alrm, urg>>
storage == <<file, disk, result, aborted>>
sessionvars == <<flow, control, modes, dataconn, signals, storage>>

Transfers == {"RETR", "STOR", "LIST", "UINS"}
Commands == Transfers \cup {"PORT", "PASV", "REST", "TYPE", "STAT", "ABOR"}
\* Calls that can put the process to sleep.
Blocking == {"getline", "urgline", "connect", "transfer", "close"}
SessionPlaces == Blocking \cup {"loop", "dispatch", "check", "dispose", "closed",
                         "reply", "abor", "cleanup", "ended"}

SessionInit ==
    /\ pc = "loop" /\ ret = "loop" /\ cmd = "none" /\ blocked = FALSE /\ bug = "none"
    /\ lines = << >> /\ sent = 0 /\ owed = 0
    /\ port = FALSE /\ pasv = FALSE /\ is_ascii = FALSE /\ restart_pos = FALSE
    /\ data_fd = "none" /\ io_handler = FALSE /\ data_progress = FALSE
    /\ abor_received = FALSE
    /\ alarm = FALSE /\ handler = "none" /\ alrm = FALSE /\ urg = FALSE
    /\ file = "none" /\ disk = "absent" /\ result = 0 /\ aborted = FALSE

------------------------------------------------------------------------------
(* Moving on: to the next place, or to it by way of the pending signals.    *)
Goto(place) == pc' = place /\ UNCHANGED <<ret, cmd, blocked, bug>>
CheckThen(place) ==
    pc' = "check" /\ ret' = place /\ blocked' = FALSE /\ UNCHANGED <<cmd, bug>>
Exit == pc' = "ended" /\ blocked' = FALSE /\ UNCHANGED <<ret, cmd, bug>>
Bug(what) == pc' = "ended" /\ bug' = what /\ UNCHANGED <<ret, cmd, blocked>>

\* vsf_cmdio_write of a final reply: one line is answered.
Reply == owed' = owed - 1 /\ UNCHANGED <<lines, sent>>

------------------------------------------------------------------------------
(* The client and the kernel.                                               *)

\* Delivery of a signal: a sleeping call returns EINTR, and but for the close()
\* of the data connection is followed by check_pending_actions (the check inside
\* handle_sigurg is HandleAlarm itself).
Wake ==
    CASE blocked /\ pc = "close" ->
           pc' = "closed" /\ blocked' = FALSE /\ UNCHANGED <<ret, cmd, bug>>
      [] blocked /\ pc \notin {"close", "urgline"} -> CheckThen(pc)
      [] OTHER -> UNCHANGED flow

\* The client sends a line; ABOR goes as urgent data and raises SIGURG.  A client
\* waits for the answer to its ABOR before it sends another.
Unread == {lines[i] : i \in 1..Len(lines)}
Send(c) ==
    /\ pc # "ended" /\ sent < MaxCommands /\ Len(lines) < MaxAhead
    /\ c = "ABOR" => "ABOR" \notin Unread /\ ~abor_received
    /\ c = "ABOR" => UinsDisturbed \/ "UINS" \notin {cmd} \cup Unread
    /\ c = "UINS" => UinsDisturbed \/ ~urg
    /\ lines' = Append(lines, c) /\ sent' = sent + 1
    /\ IF c = "ABOR" THEN urg' = TRUE /\ Wake ELSE UNCHANGED <<urg, flow>>
    /\ UNCHANGED <<owed, modes, dataconn, alarm, handler, alrm, storage>>

\* Mutant: the asynchronous handler does not start alarm(1).
AlarmFiresOnce ==
    /\ pc # "ended" /\ alarm
    /\ alrm' = TRUE /\ alarm' = FALSE
    /\ Wake
    /\ UNCHANGED <<control, modes, dataconn, handler, urg, storage>>

\* vsf_sysutil_common_sighandler for SIGALRM.  Its handlers are installed with
\* use_alarm, so alarm(1) runs until the pending flag is looked at.
AlarmFires ==
    /\ pc # "ended" /\ alarm
    /\ alrm' = TRUE /\ alarm' = TRUE
    /\ Wake
    /\ UNCHANGED <<control, modes, dataconn, handler, urg, storage>>

\* A signal can come between the last check and the moment the call sleeps.
Block ==
    /\ pc \in Blocking /\ ~blocked
    /\ blocked' = TRUE
    /\ UNCHANGED <<pc, ret, cmd, bug, control, modes, dataconn, signals, storage>>

\* The control connection is gone: read and write of it end the process.
ControlLost ==
    /\ pc \in {"getline", "urgline", "reply"}
    /\ Exit
    /\ UNCHANGED <<control, modes, dataconn, signals, storage>>

------------------------------------------------------------------------------
(* vsf_sysutil_check_pending_actions: SIGALRM (14) before SIGURG (23).      *)

\* handle_alarm_timeout or handle_sigalrm, whichever is installed now.
HandleAlarm ==
    /\ pc \in {"check", "urgline"} /\ alrm /\ (pc = "urgline" => blocked)
    /\ alrm' = FALSE
    /\ IF handler = "data" /\ data_progress
       THEN data_progress' = FALSE /\ alarm' = TRUE /\ UNCHANGED flow
       ELSE Exit /\ alarm' = FALSE /\ UNCHANGED data_progress
    /\ UNCHANGED <<control, modes, data_fd, io_handler, abor_received, handler, urg, storage>>

\* handle_sigurg, up to the blocking read of the urgent line.
HandleSigurg ==
    /\ pc = "check" /\ ~alrm /\ urg
    /\ urg' = FALSE
    /\ IF data_fd = "none" THEN Goto(ret) ELSE Goto("urgline")
    /\ UNCHANGED <<control, modes, dataconn, alarm, handler, alrm, storage>>

Checked ==
    /\ pc = "check" /\ ~alrm /\ ~urg
    /\ Goto(ret)
    /\ UNCHANGED <<control, modes, dataconn, signals, storage>>

\* The rest of handle_sigurg: any other line is answered 500 on the spot.
ReadUrgentLine ==
    /\ pc = "urgline" /\ blocked /\ lines # << >>
    /\ lines' = Tail(lines) /\ UNCHANGED sent
    /\ IF Head(lines) = "ABOR"
       THEN /\ abor_received' = TRUE /\ data_fd' = "shut" /\ owed' = owed + 1
            /\ aborted' = (aborted \/ cmd = "STOR")
       ELSE UNCHANGED <<abor_received, data_fd, owed, aborted>>
    /\ pc' = ret /\ blocked' = FALSE /\ UNCHANGED <<ret, cmd, bug>>
    /\ UNCHANGED <<modes, io_handler, data_progress, signals, file, disk, result>>

------------------------------------------------------------------------------
(* The command loop.                                                        *)

\* vsf_cmdio_set_alarm before the next command is read.
SetAlarm ==
    /\ pc = "loop"
    /\ handler' = "idle" /\ alarm' = TRUE
    /\ pc' = "getline" /\ cmd' = "none" /\ UNCHANGED <<ret, blocked, bug>>
    /\ UNCHANGED <<control, modes, dataconn, alrm, urg, storage>>

GetCommand ==
    /\ pc = "getline" /\ blocked /\ lines # << >>
    /\ cmd' = Head(lines) /\ lines' = Tail(lines) /\ owed' = owed + 1
    /\ pc' = "check" /\ ret' = "dispatch" /\ blocked' = FALSE /\ UNCHANGED bug
    /\ UNCHANGED <<sent, modes, dataconn, signals, storage>>

\* handle_port: an illegal address leaves neither mode active.
HandlePort ==
    /\ pc = "dispatch" /\ cmd = "PORT"
    /\ pasv' = FALSE /\ port' \in BOOLEAN
    /\ Reply /\ CheckThen("loop")
    /\ UNCHANGED <<is_ascii, restart_pos, dataconn, signals, storage>>

\* Mutant: the address of an earlier PORT stays.
HandlePasvKeepsPort ==
    /\ pc = "dispatch" /\ cmd = "PASV"
    /\ pasv' = TRUE
    /\ Reply /\ CheckThen("loop")
    /\ UNCHANGED <<port, is_ascii, restart_pos, dataconn, signals, storage>>

HandlePasv ==
    /\ pc = "dispatch" /\ cmd = "PASV"
    /\ pasv' = TRUE /\ port' = FALSE
    /\ Reply /\ CheckThen("loop")
    /\ UNCHANGED <<is_ascii, restart_pos, dataconn, signals, storage>>

\* REST of nothing or of a bad number is REST 0.
HandleRest ==
    /\ pc = "dispatch" /\ cmd = "REST"
    /\ restart_pos' \in BOOLEAN
    /\ Reply /\ CheckThen("loop")
    /\ UNCHANGED <<port, pasv, is_ascii, dataconn, signals, storage>>

HandleType ==
    /\ pc = "dispatch" /\ cmd = "TYPE"
    /\ is_ascii' \in BOOLEAN
    /\ Reply /\ CheckThen("loop")
    /\ UNCHANGED <<port, pasv, restart_pos, dataconn, signals, storage>>

\* ABOR with nothing to abort: 225.
HandleAbor ==
    /\ pc = "dispatch" /\ cmd = "ABOR"
    /\ Reply /\ CheckThen("loop")
    /\ UNCHANGED <<modes, dataconn, signals, storage>>

\* STAT <path> is a listing over the control connection; it shares the
\* check_abor and the clean-up of LIST, the port and pasv part excepted.
HandleStat ==
    /\ pc = "dispatch" /\ cmd = "STAT"
    /\ file' \in {"none", "dir"}
    /\ Reply /\ CheckThen("abor")
    /\ UNCHANGED <<modes, dataconn, signals, disk, result, aborted>>

------------------------------------------------------------------------------
(* The transfer commands, up to the call that opens the data connection.    *)

DataTransferChecksOk == port \/ pasv

\* No data mode, resume in ASCII, a name refused or not opened, a pack or a
\* version that does not exist: one reply, the data mode stays as it is.
Refuse ==
    /\ Reply /\ CheckThen("loop")
    /\ UNCHANGED <<abor_received, storage>>

\* get_remote_transfer_fd, up to the call that waits for the connection.
GetRemoteTransferFd ==
    /\ IF port /\ pasv THEN Bug("port_and_pasv_both_active") ELSE Goto("connect")
    /\ abor_received' = FALSE
    /\ result' = 0
    /\ UNCHANGED control

\* RETR and STOR take the offset of REST before anything can go wrong.
HandleRetr ==
    /\ pc = "dispatch" /\ cmd = "RETR"
    /\ restart_pos' = FALSE
    /\ \/ Refuse
       \/ /\ DataTransferChecksOk /\ ~(is_ascii /\ restart_pos)
          /\ file' = "in" /\ UNCHANGED <<disk, aborted>>
          /\ GetRemoteTransferFd
    /\ UNCHANGED <<port, pasv, is_ascii, data_fd, io_handler, data_progress, signals>>

\* The upload exists on disk from here on, whatever becomes of it.
HandleUpload ==
    /\ pc = "dispatch" /\ cmd = "STOR"
    /\ restart_pos' = FALSE
    /\ \/ Refuse
       \/ /\ DataTransferChecksOk
          /\ file' = "out" /\ disk' = "partial" /\ aborted' = FALSE
          /\ GetRemoteTransferFd
    /\ UNCHANGED <<port, pasv, is_ascii, data_fd, io_handler, data_progress, signals>>

\* A directory that cannot be opened is still listed, as empty.
HandleList ==
    /\ pc = "dispatch" /\ cmd = "LIST"
    /\ \/ Refuse
       \/ /\ DataTransferChecksOk
          /\ file' \in {"none", "dir"} /\ UNCHANGED <<disk, aborted>>
          /\ GetRemoteTransferFd
    /\ UNCHANGED <<modes, data_fd, io_handler, data_progress, signals>>

\* The instructions are made before the connection is asked for.
HandleSiteUins ==
    /\ pc = "dispatch" /\ cmd = "UINS"
    /\ \/ Refuse
       \/ /\ DataTransferChecksOk
          /\ UNCHANGED <<file, disk, aborted>>
          /\ GetRemoteTransferFd
    /\ UNCHANGED <<modes, data_fd, io_handler, data_progress, signals>>

\* start_data_alarm
StartDataAlarm == handler' = "data" /\ alarm' = TRUE /\ UNCHANGED <<alrm, urg>>

\* get_pasv_fd or get_port_fd succeeds: init_data_sock_params, then 150.
Connected ==
    /\ pc = "connect" /\ blocked
    /\ IF data_fd # "none" \/ io_handler
       THEN Bug("data_descriptor_still_present") /\ UNCHANGED <<dataconn, signals>>
       ELSE /\ data_fd' = "open" /\ data_progress' = FALSE /\ io_handler' = TRUE
            /\ UNCHANGED abor_received
            /\ StartDataAlarm
            /\ CheckThen("transfer")
    /\ UNCHANGED <<control, modes, storage>>

\* Mutant: the handler returns at once instead of going to its clean-up.
ConnectFailedReturns ==
    /\ pc = "connect" /\ blocked
    /\ cmd = "UINS" => UinsDisturbed
    /\ Reply
    /\ result' = -2
    /\ CheckThen(IF cmd = "UINS" THEN "dispose" ELSE "loop")
    /\ UNCHANGED <<modes, dataconn, signals, file, disk, aborted>>

\* It times out or the peer is not the client: 425.  handle_site_uins does not
\* look at what get_remote_transfer_fd returned.
ConnectFailed ==
    /\ pc = "connect" /\ blocked
    /\ cmd = "UINS" => UinsDisturbed
    /\ Reply
    /\ result' = -2
    /\ CheckThen(IF cmd = "UINS" THEN "dispose" ELSE "cleanup")
    /\ UNCHANGED <<modes, dataconn, signals, file, disk, aborted>>

------------------------------------------------------------------------------
(* The transfer.                                                            *)

\* Bytes move on the data connection: handle_io notes the progress.
TransferMoves ==
    /\ pc = "transfer" /\ blocked /\ data_fd = "open"
    /\ data_progress' = TRUE
    /\ CheckThen("transfer")
    /\ UNCHANGED <<control, modes, data_fd, io_handler, abor_received, signals, storage>>

\* What the read/write loops can return.  An upload whose socket was shut down
\* by ABOR reads end-of-file, which do_file_recv takes for the end of the data;
\* empty instructions leave trans_ret of handle_site_uins unset.
Results == [RETR |-> {0, -1, -2}, STOR |-> {0, -1, -2}, LIST |-> {0, -1}, UINS |-> {0, -1}]
EndOfData ==
    disk' = IF cmd = "STOR" /\ result' = 0 /\ data_fd = "open" THEN "whole" ELSE disk

TransferEnds ==
    /\ pc = "transfer" /\ blocked
    /\ result' \in Results[cmd]
    /\ EndOfData
    /\ data_progress' \in {data_progress, TRUE}
    /\ CheckThen("dispose")
    /\ UNCHANGED <<control, modes, data_fd, io_handler, abor_received, signals, file, aborted>>

\* vsf_ftpdataio_dispose_transfer_fd, up to the lingering close().
Dispose ==
    /\ pc = "dispose"
    /\ IF data_fd = "none" \/ ~io_handler
       THEN Bug("no_data_descriptor") /\ UNCHANGED <<io_handler, signals>>
       ELSE io_handler' = FALSE /\ StartDataAlarm /\ Goto("close")
    /\ UNCHANGED <<control, modes, data_fd, data_progress, abor_received, storage>>

CloseReturns ==
    /\ pc = "close" /\ blocked
    /\ pc' = "closed" /\ blocked' = FALSE /\ UNCHANGED <<ret, cmd, bug>>
    /\ UNCHANGED <<control, modes, dataconn, signals, storage>>

\* close() returned or was interrupted; in both cases the descriptor is gone.
Closed ==
    /\ pc = "closed"
    /\ alarm' = FALSE /\ data_fd' = "none"
    /\ pc' = "reply" /\ blocked' = FALSE /\ UNCHANGED <<ret, cmd, bug>>
    /\ UNCHANGED <<control, modes, io_handler, data_progress, abor_received,
                   handler, alrm, urg, storage>>

\* 226, 426 or 451, after the close so that the client has all of the data.
ReplyTransfer ==
    /\ pc = "reply" /\ cmd # "UINS"
    /\ Reply /\ CheckThen("abor")
    /\ UNCHANGED <<modes, dataconn, signals, storage>>

\* handle_site_uins returns here: no check_abor, no port_cleanup or pasv_cleanup.
ReplyUins ==
    /\ pc = "reply" /\ cmd = "UINS"
    /\ Reply /\ CheckThen("loop")
    /\ UNCHANGED <<modes, dataconn, signals, storage>>

CheckAbor ==
    /\ pc = "abor"
    /\ IF abor_received
       THEN abor_received' = FALSE /\ Reply /\ CheckThen("cleanup")
       ELSE Goto("cleanup") /\ UNCHANGED <<abor_received, control>>
    /\ UNCHANGED <<modes, data_fd, io_handler, data_progress, signals, storage>>

\* Mutant: only a network failure counts as a failed upload.
CleanupNetworkOnly ==
    /\ pc = "cleanup"
    /\ IF cmd = "STAT" THEN UNCHANGED <<port, pasv>> ELSE port' = FALSE /\ pasv' = FALSE
    /\ disk' = IF cmd = "STOR" /\ DeleteFailedUploads /\ result = -2 THEN "absent" ELSE disk
    /\ file' = "none"
    /\ Goto("loop")
    /\ UNCHANGED <<control, is_ascii, restart_pos, dataconn, signals, result, aborted>>

\* port_cleanup, pasv_cleanup, the failed upload, the open file.
Cleanup ==
    /\ pc = "cleanup"
    /\ IF cmd = "STAT" THEN UNCHANGED <<port, pasv>> ELSE port' = FALSE /\ pasv' = FALSE
    /\ disk' = IF cmd = "STOR" /\ DeleteFailedUploads /\ result # 0 THEN "absent" ELSE disk
    /\ file' = "none"
    /\ Goto("loop")
    /\ UNCHANGED <<control, is_ascii, restart_pos, dataconn, signals, result, aborted>>

------------------------------------------------------------------------------
Dispatch ==
    \/ HandlePort \/ HandlePasv \/ HandleRest \/ HandleType \/ HandleAbor
    \/ HandleStat \/ HandleRetr \/ HandleUpload \/ HandleList \/ HandleSiteUins
\* Steps the process takes on its own.  accept and connect have timeouts, a
\* socket that was shut down no longer blocks.
Server ==
    \/ HandleAlarm \/ HandleSigurg \/ Checked \/ ReadUrgentLine \/ Block
    \/ SetAlarm \/ GetCommand \/ Dispatch
    \/ Connected \/ ConnectFailed
    \/ data_fd = "shut" /\ TransferEnds
    \/ Dispose \/ Closed \/ ReplyTransfer \/ ReplyUins \/ CheckAbor \/ Cleanup
\* Steps that need the client or the network.
Peer ==
    \/ \E c \in Commands : Send(c)
    \/ TransferMoves
    \/ data_fd = "open" /\ TransferEnds
    \/ CloseReturns \/ ControlLost
SessionNext == Server \/ Peer \/ AlarmFires

SessionSpec == SessionInit /\ [][SessionNext]_sessionvars /\ WF_sessionvars(Server) /\ WF_sessionvars(AlarmFires)

------------------------------------------------------------------------------
TypeOK ==
    /\ pc \in SessionPlaces /\ ret \in SessionPlaces /\ cmd \in Commands \cup {"none"}
    /\ blocked \in BOOLEAN /\ bug \in STRING
    /\ lines \in Seq(Commands) /\ Len(lines) <= MaxAhead
    /\ sent \in 0..MaxCommands /\ owed \in 0..2
    /\ port \in BOOLEAN /\ pasv \in BOOLEAN
    /\ is_ascii \in BOOLEAN /\ restart_pos \in BOOLEAN
    /\ data_fd \in {"none", "open", "shut"} /\ io_handler \in BOOLEAN
    /\ data_progress \in BOOLEAN /\ abor_received \in BOOLEAN
    /\ alarm \in BOOLEAN /\ handler \in {"none", "idle", "data"}
    /\ alrm \in BOOLEAN /\ urg \in BOOLEAN
    /\ file \in {"none", "in", "out", "dir"} /\ disk \in {"absent", "partial", "whole"}
    /\ result \in -2..0 /\ aborted \in BOOLEAN

\* No bug() of the session is reached: port and pasv are never both active, a
\* data descriptor is there when it is disposed of and not there when one is made,
\* whatever signals arrive between the steps (postlogin.c port_active,
\* ftpdataio.c init_data_sock_params and dispose_transfer_fd).
NeverBug == bug = "none"

\* A session that waits for its next command holds nothing of the last one: no
\* data descriptor, no i/o handler, no open file, no ABOR that STAT or a later
\* transfer would take for its own, and the alarm that runs is the idle alarm.
IdleIsClean ==
    pc = "getline" =>
        /\ data_fd = "none" /\ ~io_handler /\ file = "none" /\ ~abor_received
        /\ handler = "idle" /\ (alarm \/ alrm)

\* Every line the session reads is answered by exactly one final reply before the
\* next command is read, an ABOR that cut a transfer short included ("If the
\* client sent ABOR, respond to it here", check_abor).
EveryLineIsAnswered == pc = "getline" => owed = 0

\* The two together: whatever signals and failures a command met, the session reads
\* the next one with nothing left of it and nothing owed (process_post_login).
SettledBetweenCommands == IdleIsClean /\ EveryLineIsAnswered

\* With delete_failed_uploads a session never goes on with part of an upload left
\* on disk, unless the client aborted it: end-of-file on the socket that ABOR shut
\* down counts as the end of the data (do_file_recv).
FailedUploadsAreDeleted ==
    pc = "getline" /\ DeleteFailedUploads => disk # "partial" \/ aborted

\* A session whose client neither sends commands nor moves data ends: no SIGALRM
\* is lost, not even one that arrives just before a call goes to sleep (the
\* alarm(1) of vsf_sysutil_common_sighandler).
StalledSessionsEnd == <>(pc = "ended") \/ []<><<TransferMoves>>_sessionvars
=============================================================================
