---------------------------- MODULE SessionProofs ----------------------------
(***************************************************************************)
(* What a logged-in session never does, for any number of commands, lines  *)
(* sent ahead, signals and aborts: it reaches no bug(), leaves nothing of   *)
(* a command behind when it reads the next, owes no reply, and keeps no     *)
(* part of a failed upload.                                                *)
(*                                                                         *)
(* The handlers of signals interrupt the command wherever it may block, so  *)
(* the invariant speaks of the place to which the process will return.     *)
(***************************************************************************)
EXTENDS Session, TLAPS

\* Where the command is, also while pending signals are looked at.
Here == IF pc \in {"check", "urgline"} THEN ret ELSE pc

\* Places between two commands, and places with a data connection.
Between == {"loop", "getline", "dispatch"}
During == {"transfer", "dispose", "close", "closed"}

Typed ==
    /\ cmd \in Commands \cup {"none"} /\ lines \in Seq(Commands)
    /\ data_fd \in {"none", "open", "shut"}

\* Only calls that may block are slept in, and signals are handled only where
\* check_pending_actions is called.
InPlace ==
    /\ pc \in SessionPlaces /\ (blocked => pc \in Blocking)
    /\ pc = "check" => ret \in Between \cup {"connect", "transfer", "dispose", "abor", "cleanup"}
    /\ pc = "urgline" => ret \in {"transfer", "dispose"}
    /\ Here \in {"connect"} \cup During \cup {"reply"} => cmd \in Transfers
    /\ Here \in {"abor", "cleanup"} => cmd \in {"RETR", "STOR", "LIST", "STAT"}
    /\ Here = "dispatch" => cmd \in Commands

\* The data connection is there from Connected to Closed and at no other time.
Descriptor ==
    /\ Here \notin During \cup {"ended"} => data_fd = "none"
    /\ Here \in During => data_fd # "none" /\ (data_fd = "shut" <=> abor_received)
    /\ Here \in {"transfer", "dispose"} => io_handler
    /\ Here \notin {"transfer", "dispose", "ended"} => ~io_handler
    /\ Here \in Between \cup {"cleanup", "connect"} => ~abor_received

OpenFile ==
    /\ Here \in Between => file = "none"
    /\ cmd = "UINS" => file = "none"

OneMode == ~(port /\ pasv)

\* Replies owed: one for the command, one for an ABOR that was received.
Debt ==
    LET aborts == IF abor_received THEN 1 ELSE 0 IN
    /\ Here \in {"loop", "getline", "cleanup"} => owed = 0
    /\ Here \in {"dispatch", "connect", "reply"} \cup During => owed = 1 + aborts
    /\ Here = "abor" => owed = aborts

\* At most one ABOR is under way, and none with or behind a SITE UINS.
Aborts ==
    /\ \A i, j \in 1..Len(lines) :
           /\ lines[i] = "ABOR" /\ lines[j] = "ABOR" => i = j
           /\ lines[i] = "UINS" /\ lines[j] = "ABOR" => j < i
    /\ abor_received => "ABOR" \notin Unread
    /\ cmd = "UINS" => "ABOR" \notin Unread /\ pc # "urgline" /\ ~abor_received
    /\ "UINS" \in {cmd} \cup Unread => ~urg

IdleAlarmRuns == Here = "getline" => handler = "idle" /\ (alarm \/ alrm)

\* A part of a file is there only while its upload is under way.
Uploads ==
    DeleteFailedUploads =>
        /\ Here \in Between \/ (Here # "ended" /\ cmd # "STOR") => disk # "partial" \/ aborted
        /\ cmd = "STOR" /\ data_fd = "shut" => aborted
        /\ cmd = "STOR" /\ Here \in {"dispose", "close", "closed", "reply", "abor", "cleanup"} =>
               (result = 0 => disk # "partial" \/ aborted)

SInv == /\ Typed /\ InPlace /\ Descriptor /\ OpenFile /\ OneMode /\ Debt /\ Aborts
        /\ IdleAlarmRuns /\ Uploads /\ NeverBug

-----------------------------------------------------------------------------
LEMMA SInvInit == SessionInit => SInv
  BY SMTT(20) DEF SessionInit, SInv, Typed, InPlace, Descriptor, OpenFile, OneMode, Debt, Aborts,
     IdleAlarmRuns, Uploads, NeverBug, Here, Between, During, SessionPlaces, Blocking, Unread

\* Each step of the process, of its client and of its signals keeps the invariant.
\* A SITE UINS is not disturbed: with that, the run session_uins shows what breaks.
LEMMA SInvNext ==
    ASSUME ~UinsDisturbed, SInv, [SessionNext]_sessionvars
    PROVE  SInv'
<1> USE DEF SInv, Typed, InPlace, Descriptor, OpenFile, OneMode, Debt, Aborts,
            IdleAlarmRuns, Uploads, NeverBug, Here, Between, During, SessionPlaces, Blocking,
            Transfers, Commands, Unread, Goto, CheckThen, Exit, Bug, Reply,
            flow, control, modes, dataconn, signals, storage
<1>1. CASE HandleAlarm
  BY <1>1, SMTT(20) DEF HandleAlarm
<1>2. CASE HandleSigurg
  BY <1>2, SMTT(20) DEF HandleSigurg
<1>3. CASE Checked
  BY <1>3, SMTT(20) DEF Checked
<1>4. CASE ReadUrgentLine
  <2>1. /\ pc = "urgline" /\ pc' = ret /\ ret' = ret /\ cmd' = cmd /\ bug' = bug
        /\ ret \in {"transfer", "dispose"} /\ cmd # "UINS" /\ blocked' = FALSE
        /\ lines # << >> /\ lines' = Tail(lines) /\ UNCHANGED <<modes, io_handler, signals>>
        /\ UNCHANGED <<file, disk, result>>
    BY <1>4 DEF ReadUrgentLine
  <2>2. CASE Head(lines) = "ABOR"
    <3>1. /\ abor_received' = TRUE /\ data_fd' = "shut" /\ owed' = owed + 1
          /\ aborted' = (aborted \/ cmd = "STOR")
      BY <1>4, <2>2 DEF ReadUrgentLine
    <3>2. "ABOR" \in Unread /\ ~abor_received /\ "ABOR" \notin Unread'
      BY <2>1, <2>2
    <3>3. Typed' /\ InPlace' /\ Descriptor' /\ OpenFile' /\ OneMode' /\ Debt'
      BY <2>1, <3>1, <3>2
    <3>4. Aborts'
      BY <2>1, <3>1, <3>2
    <3>5. IdleAlarmRuns' /\ Uploads' /\ NeverBug'
      BY <2>1, <3>1
    <3> QED
      BY <3>3, <3>4, <3>5
  <2>3. CASE Head(lines) # "ABOR"
    <3>1. UNCHANGED <<abor_received, data_fd, owed, aborted>>
      BY <1>4, <2>3 DEF ReadUrgentLine
    <3> QED
      BY <2>1, <3>1, SMTT(20)
  <2> QED
    BY <2>2, <2>3
<1>5. CASE Block
  BY <1>5, SMTT(20) DEF Block
<1>6. CASE SetAlarm
  BY <1>6, SMTT(20) DEF SetAlarm
<1>7. CASE GetCommand
  BY <1>7, SMTT(20) DEF GetCommand
<1>8. CASE HandlePort
  BY <1>8, SMTT(20) DEF HandlePort
<1>9. CASE HandlePasv
  BY <1>9, SMTT(20) DEF HandlePasv
<1>10. CASE HandleRest
  BY <1>10, SMTT(20) DEF HandleRest
<1>11. CASE HandleType
  BY <1>11, SMTT(20) DEF HandleType
<1>12. CASE HandleAbor
  BY <1>12, SMTT(20) DEF HandleAbor
<1>13. CASE HandleStat
  BY <1>13, SMTT(20) DEF HandleStat
<1>14. CASE HandleRetr
  BY <1>14, SMTT(20) DEF HandleRetr, Refuse, GetRemoteTransferFd
<1>15. CASE HandleUpload
  BY <1>15, SMTT(20) DEF HandleUpload, Refuse, GetRemoteTransferFd
<1>16. CASE HandleList
  BY <1>16, SMTT(20) DEF HandleList, Refuse, GetRemoteTransferFd
<1>17. CASE HandleSiteUins
  BY <1>17, SMTT(20) DEF HandleSiteUins, Refuse, GetRemoteTransferFd
<1>18. CASE Connected
  BY <1>18, SMTT(20) DEF Connected, StartDataAlarm
<1>19. CASE ConnectFailed
  BY <1>19, SMTT(20) DEF ConnectFailed
<1>20. CASE TransferEnds
  BY <1>20, SMTT(20) DEF TransferEnds, Results, EndOfData
<1>21. CASE Dispose
  BY <1>21, SMTT(20) DEF Dispose, StartDataAlarm
<1>22. CASE Closed
  BY <1>22, SMTT(20) DEF Closed
<1>23. CASE ReplyTransfer
  BY <1>23, SMTT(20) DEF ReplyTransfer
<1>24. CASE ReplyUins
  BY <1>24, SMTT(20) DEF ReplyUins
<1>25. CASE CheckAbor
  BY <1>25, SMTT(20) DEF CheckAbor
<1>26. CASE Cleanup
  BY <1>26, SMTT(20) DEF Cleanup
<1>27. CASE TransferMoves
  BY <1>27, SMTT(20) DEF TransferMoves
<1>28. CASE CloseReturns
  BY <1>28, SMTT(20) DEF CloseReturns
<1>29. CASE ControlLost
  BY <1>29, SMTT(20) DEF ControlLost
<1>30. CASE AlarmFires
  BY <1>30, SMTT(20) DEF AlarmFires, Wake
<1>31. ASSUME NEW c \in Commands, Send(c) PROVE SInv'
  BY <1>31, SMTT(20) DEF Send, Wake
<1>32. CASE UNCHANGED sessionvars
  BY <1>32 DEF sessionvars
<1> HIDE DEF SInv
<1> QED
  BY <1>1, <1>2, <1>3, <1>4, <1>5, <1>6, <1>7, <1>8, <1>9, <1>10, <1>11,
     <1>12, <1>13, <1>14, <1>15, <1>16, <1>17, <1>18, <1>19, <1>20, <1>21,
     <1>22, <1>23, <1>24, <1>25, <1>26, <1>27, <1>28, <1>29, <1>30, <1>31,
     <1>32 DEF SessionNext, Server, Peer, Dispatch

LEMMA SInvAlways == ASSUME ~UinsDisturbed PROVE SessionSpec => []SInv
<1>1. SInv /\ [SessionNext]_sessionvars => SInv'
  BY SInvNext
<1> QED
  BY SInvInit, <1>1, PTL DEF SessionSpec

\* No bug() of the session is reached (port_active, init_data_sock_params,
\* dispose_transfer_fd), however many commands there are and wherever the signals
\* come, as long as no SITE UINS is disturbed.
THEOREM SessionNeverBug == ASSUME ~UinsDisturbed PROVE SessionSpec => []NeverBug
<1>1. SInv => NeverBug
  BY DEF SInv
<1> QED
  BY SInvAlways, <1>1, PTL

\* Whatever signals, aborts and failures a command met, process_post_login reads the
\* next one with no descriptor, handler or file of it left and no reply owed.
THEOREM SessionSettled == ASSUME ~UinsDisturbed PROVE SessionSpec => []SettledBetweenCommands
<1>1. SInv => SettledBetweenCommands
  BY DEF SInv, SettledBetweenCommands, IdleIsClean, EveryLineIsAnswered, Descriptor,
         OpenFile, Debt, IdleAlarmRuns, Here, Between, During
<1> QED
  BY SInvAlways, <1>1, PTL

\* With delete_failed_uploads handle_upload_common leaves no part of a file behind
\* that its client did not abort.
THEOREM SessionDeletesFailedUploads ==
    ASSUME ~UinsDisturbed PROVE SessionSpec => []FailedUploadsAreDeleted
<1>1. SInv => FailedUploadsAreDeleted
  BY DEF SInv, FailedUploadsAreDeleted, Uploads, Here, Between
<1> QED
  BY SInvAlways, <1>1, PTL
==============================================================================
