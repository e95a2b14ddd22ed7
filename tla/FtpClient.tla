------------------------------ MODULE FtpClient ------------------------------
(***************************************************************************)
(* The threads of the client's FTP connection (FtpClient.java): the        *)
(* command thread, which runs the transfers of InstallPanel one after the  *)
(* other, a FtpDataChannel thread and a WaitForComplete thread for every   *)
(* transfer, and the server at the other end of the control connection.    *)
(*                                                                         *)
(* All readers of replies share one BufferedReader; a thread that waits in *)
(* readLine holds its lock.  Transfer k has the data thread k and the      *)
(* completion thread k.                                                    *)
(***************************************************************************)
EXTENDS Integers, Sequences

CONSTANTS
    MaxCalls,      \* bound: number of calls the command thread makes
    Calls,         \* the kinds of call: "file", "list", "readme", "vers"
    Faults         \* what goes wrong: "refuse", "abort", "noconnect", "timeout"

ASSUME FtpAssumption ==
    /\ MaxCalls \in Nat \ {0}
    /\ Calls \subseteq {"file", "list", "readme", "vers"}
    /\ Faults \subseteq {"refuse", "abort", "noconnect", "timeout"}

Ids == 1..MaxCalls
None == 0
Command == -1      \* the command thread as a holder of the reader's lock

VARIABLES
    passive,       \* the transfer mode
    isActive,      \* that of each data channel
    stray,         \* a channel that was given up has timed out, and has yet to say so
    pc, k,         \* the command thread: where it is, and in which call
    call,          \* the kind of each call
    waitingForResponse, interrupted, success,
    channel,       \* FtpClient.channel: the id of a data channel, or None
    old,           \* the data channel the command thread reads itself
    listener,      \* whose listener a data channel has; None once abandoned
    data,          \* the data threads
    sock,          \* their sockets
    got,           \* what the listener of a call has read: "none", "part", what the
                   \* server sent before it broke off ("cut"), or "all"
    wait,          \* the WaitForComplete threads
    semaphore,     \* the permits of the semaphore of a call
    permits,       \* dataChannelSeamaphore
    lock,          \* who is in readLine
    cmds, replies, \* the control connection, both directions
    port,          \* the server: the data channel it was told of
    sending,       \* the server: the transfer it is in
    result,        \* what each call returned
    mixed          \* some thread took a reply that was meant for another

modes == <<passive, isActive, stray>>
client == <<modes, pc, k, call, waitingForResponse, interrupted, success,
            channel, old, listener, result>>
threads == <<data, got, wait, semaphore, permits>>
server == <<port, sending>>
vars == <<modes, pc, k, call, waitingForResponse, interrupted, success, channel,
          old, listener, data, sock, got, wait, semaphore, permits, lock, cmds, replies,
          port, sending, result, mixed>>

Init ==
    /\ passive \in BOOLEAN /\ isActive = [i \in Ids |-> FALSE] /\ stray = FALSE
    /\ pc = "idle" /\ k = 0 /\ call = [i \in Ids |-> "none"]
    /\ waitingForResponse = FALSE /\ interrupted = FALSE /\ success = FALSE
    /\ channel = None /\ old = None /\ listener = [i \in Ids |-> None]
    /\ data = [i \in Ids |-> "none"] /\ sock = [i \in Ids |-> "none"]
    /\ got = [i \in Ids |-> "none"]
    /\ wait = [i \in Ids |-> "none"] /\ semaphore = [i \in Ids |-> 0]
    /\ permits = 0
    /\ lock = None /\ cmds = <<>> /\ replies = <<>>
    /\ port = None /\ sending = None
    /\ result = [i \in Ids |-> "none"]
    /\ mixed = FALSE

\* A reply, with the call and the thread of the client it is meant for.
Reply(code, i, to) == [code |-> code, id |-> i, to |-> to]
Send(c) == cmds' = Append(cmds, [cmd |-> c, id |-> k'])

-----------------------------------------------------------------------------
(* The command thread.                                                     *)

\* FtpDataChannel.close: in passive mode listenSocket is null and the socket
\* stays open, because the NullPointerException comes first.
CloseSocket(c) ==
    sock' = IF c # None /\ isActive[c] THEN [sock EXCEPT ![c] = "closed"] ELSE sock

\* Mutant: the closed channel stays current.
CloseDataChannelOnly == CloseSocket(channel) /\ UNCHANGED channel

\* closeDataChannel closes whatever channel is current.
CloseDataChannel == CloseSocket(channel) /\ channel' = None

\* setActionListener; a listener that runs already is not replaced.
SetActionListener(c, l) ==
    listener' = IF c # None /\ data[c] \in {"accept", "timeout"}
                THEN [listener EXCEPT ![c] = l] ELSE listener

Return(value) ==
    /\ pc' = "idle"
    /\ result' = [result EXCEPT ![k] = value]

\* openDataChannel: an unused channel of an earlier call is used again.  In passive
\* mode the listener then runs at once, in the command thread.  "PORT" is PASV in
\* passive mode, and the 200 that grants it is 227.
OpenDataChannel(kind) ==
    /\ k < MaxCalls /\ pc = "idle" /\ kind \in Calls
    /\ k' = k + 1 /\ call' = [call EXCEPT ![k'] = kind]
    /\ success' = IF kind = "file" THEN FALSE ELSE success
    /\ CASE kind = "vers" ->
              /\ pc' = "vers" /\ Send("VERS")
              /\ UNCHANGED <<isActive, channel, old, listener, data, sock, waitingForResponse>>
         [] kind # "vers" /\ channel = None ->
              /\ pc' = "port" /\ Send("PORT")
              /\ IF passive
                 THEN UNCHANGED <<isActive, channel, listener, data, sock>>
                 ELSE /\ channel' = k' /\ isActive' = [isActive EXCEPT ![k'] = TRUE]
                      /\ listener' = [listener EXCEPT ![k'] = k']
                      /\ data' = [data EXCEPT ![k'] = "accept"]
                      /\ sock' = [sock EXCEPT ![k'] = "listen"]
              /\ UNCHANGED <<old, waitingForResponse>>
         [] kind # "vers" /\ channel # None /\ passive ->
              /\ pc' = "self" /\ old' = channel
              /\ UNCHANGED <<isActive, channel, listener, data, sock, cmds, waitingForResponse>>
         [] kind # "vers" /\ channel # None /\ ~passive ->
              /\ pc' = "retr" /\ Send("RETR") /\ waitingForResponse' = TRUE
              /\ SetActionListener(channel, k')
              /\ UNCHANGED <<isActive, channel, old, data, sock>>
    /\ UNCHANGED <<passive, stray, interrupted, got, wait, semaphore, permits, lock,
                   replies, server, result, mixed>>

\* The command thread reads the old channel to its end before it sends RETR.
ReadInCommandThread ==
    /\ pc = "self" /\ sock[old] \in {"eof", "cut"}
    /\ got' = [got EXCEPT ![k] = "part"]
    /\ success' = (success \/ call[k] = "file")
    /\ pc' = "retr" /\ k' = k /\ Send("RETR") /\ waitingForResponse' = TRUE
    /\ UNCHANGED <<modes, old, call, interrupted, channel, listener, data, sock,
                   wait, semaphore, permits, lock, replies, server, result, mixed>>

\* chat enters readLine.
ChatEnters ==
    /\ pc \in {"port", "retr", "vers"} /\ lock = None
    /\ lock' = Command
    /\ UNCHANGED <<client, threads, sock, cmds, replies, server, mixed>>

TakeReply(i, to) ==
    /\ replies # <<>>
    /\ replies' = Tail(replies)
    /\ mixed' = (mixed \/ Head(replies).id # i \/ Head(replies).to # to)
    /\ lock' = None

\* The reply to PORT or PASV.
Granted ==
    /\ Head(replies).code = 200
    /\ pc' = "retr" /\ k' = k /\ Send("RETR") /\ waitingForResponse' = TRUE
    /\ IF passive
       THEN /\ channel' = k /\ isActive' = [isActive EXCEPT ![k] = FALSE]
            /\ listener' = [listener EXCEPT ![k] = k]
            /\ data' = [data EXCEPT ![k] = "accept"]
            /\ sock' = [sock EXCEPT ![k] = "listen"]
       ELSE UNCHANGED <<channel, isActive, listener, data, sock>>
    /\ UNCHANGED <<passive, stray, result>>

\* "we are behind a NAT and should try passive": the channel is given up.  Its accept
\* fails on the closed socket and nobody hears of it, unless it has timed out before, or
\* is no longer the current one and so stays open.
FallBack ==
    /\ Head(replies).code = 500 /\ ~passive
    /\ passive' = TRUE
    /\ stray' = \/ stray \/ data[k] = "timeout"
                \/ channel = None /\ data[k] = "accept" /\ sock[k] = "listen"
    /\ pc' = pc /\ k' = k /\ Send("PORT")
    /\ channel' = None /\ listener' = [listener EXCEPT ![k] = None]
    /\ data' = [data EXCEPT ![k] = "none"] /\ sock' = [sock EXCEPT ![k] = "none"]
    /\ UNCHANGED <<isActive, waitingForResponse, result>>

\* The server's session has timed out.  In passive mode reconnect() makes another
\* connection, which is not followed; in active mode close() meets the dataSocket that
\* is still null, and the command thread dies of it.
SessionOver ==
    /\ Head(replies).code = 421
    /\ pc' = IF passive THEN "over" ELSE "died"
    /\ CloseSocket(channel)
    /\ UNCHANGED <<modes, k, cmds, waitingForResponse, channel, listener, data, result>>

\* Any other code: the channel stays, and downloadFile alone abandons it.
Refusal ==
    /\ Head(replies).code \notin {200, 421} /\ (Head(replies).code = 500 => passive)
    /\ Return("false")
    /\ IF call[k] = "file" THEN SetActionListener(channel, None) ELSE UNCHANGED listener
    /\ UNCHANGED <<modes, k, cmds, waitingForResponse, channel, data, sock>>

PortAnswered ==
    /\ pc = "port" /\ lock = Command /\ TakeReply(k, "chat")
    /\ Granted \/ FallBack \/ SessionOver \/ Refusal
    /\ UNCHANGED <<old, call, interrupted, success, got, wait, semaphore, permits, server>>

\* The reply to RETR or SITE UINS: 150 starts WaitForComplete.  After a refusal
\* the channel is abandoned, and downloadFile waits for its semaphore all the same.
RetrAnswered ==
    /\ pc = "retr" /\ lock = Command /\ TakeReply(k, "chat")
    /\ waitingForResponse' = FALSE
    /\ IF Head(replies).code = 150
       THEN /\ wait' = [wait EXCEPT ![k] = "ready"]
            /\ permits' = IF passive THEN permits + 1 ELSE permits
            /\ IF call[k] = "readme" THEN Return("true")
                                  ELSE pc' = "wait" /\ UNCHANGED result
            /\ UNCHANGED listener
       ELSE /\ SetActionListener(channel, None)
            /\ IF call[k] = "file" THEN pc' = "wait" /\ UNCHANGED result
                                ELSE Return("false")
            /\ UNCHANGED <<wait, permits>>
    /\ UNCHANGED <<modes, old, k, call, interrupted, success, channel, data, sock, got,
                   semaphore, cmds, server>>

\* getLatestVersion returns null for every other code.  After 421 there is no session.
VersAnswered ==
    /\ pc = "vers" /\ lock = Command /\ TakeReply(k, "chat")
    /\ IF Head(replies).code = 421
       THEN pc' = "over" /\ UNCHANGED result
       ELSE Return(IF Head(replies).code = 216 THEN "true" ELSE "null")
    /\ UNCHANGED <<modes, old, k, call, waitingForResponse, interrupted, success, channel,
                   listener, threads, sock, cmds, server>>

\* Mutant: downloadFile and fetchUpdateInstructions do not wait.
SemaphoreAcquiredAtOnce ==
    /\ pc = "wait"
    /\ semaphore' = semaphore
    /\ Return(CASE call[k] = "list" -> IF got[k] = "all" THEN "true" ELSE "part"
                [] OTHER -> IF success THEN "true" ELSE "false")
    /\ UNCHANGED <<modes, old, k, call, waitingForResponse, interrupted, success, channel,
                   listener, data, got, wait, permits, sock, lock, cmds, replies,
                   server, mixed>>

\* semaphore.acquire returns: downloadFile answers with the field "success",
\* fetchUpdateInstructions with what was read until now.
SemaphoreAcquired ==
    /\ pc = "wait" /\ semaphore[k] > 0
    /\ semaphore' = [semaphore EXCEPT ![k] = @ - 1]
    /\ Return(CASE call[k] = "list" -> IF got[k] = "all" THEN "true" ELSE "part"
                [] OTHER -> IF success THEN "true" ELSE "false")
    /\ UNCHANGED <<modes, old, k, call, waitingForResponse, interrupted, success, channel,
                   listener, data, got, wait, permits, sock, lock, cmds, replies,
                   server, mixed>>

\* The interrupt of a timed out data channel hits readLine (NetworkException) or
\* the wait for the semaphore (return false).
Interrupted ==
    /\ interrupted /\ interrupted' = FALSE
    /\ \/ /\ pc = "retr" /\ lock = Command
          /\ pc' = "network_error" /\ lock' = None
          /\ UNCHANGED result
       \/ /\ pc = "wait"
          /\ Return("interrupted")
          /\ UNCHANGED lock
    /\ UNCHANGED <<modes, old, k, call, waitingForResponse, success, channel, listener,
                   threads, sock, cmds, replies, server, mixed>>

-----------------------------------------------------------------------------
(* FtpDataChannel.run of thread i.                                         *)

\* accept() returns, or connect() has and the semaphore has a permit.
Connected(i) ==
    /\ data[i] = "accept" /\ sock[i] \in {"open", "eof", "cut"}
    /\ ~isActive[i] => permits > 0
    /\ permits' = IF isActive[i] THEN permits ELSE permits - 1
    /\ data' = [data EXCEPT ![i] = "read"]
    /\ UNCHANGED <<client, sock, got, wait, semaphore, lock, cmds, replies, server,
                   mixed>>

\* The listening socket is closed under accept(): the listener is not called.
AcceptClosed(i) ==
    /\ data[i] = "accept" /\ sock[i] = "closed"
    /\ data' = [data EXCEPT ![i] = "done"]
    /\ UNCHANGED <<client, sock, got, wait, semaphore, permits, lock, cmds, replies,
                   server, mixed>>

\* Ten seconds without a connection.  The listening socket is still open.
AcceptTimesOut(i) ==
    /\ "noconnect" \in Faults
    /\ data[i] = "accept" /\ sock[i] = "listen"
    /\ data' = [data EXCEPT ![i] = "timeout"]
    /\ UNCHANGED <<client, sock, got, wait, semaphore, permits, lock, cmds, replies,
                   server, mixed>>

\* Mutant: "success" is set in any case.
ReportAlwaysOk(l, what, ok) ==
    /\ got' = IF l = None THEN got ELSE [got EXCEPT ![l] = what]
    /\ success' = (success \/ (l # None /\ call[l] = "file"))

\* What the listener l reads is reported through the field "success" if l is the
\* listener of downloadFile.
Report(l, what, ok) ==
    /\ got' = IF l = None THEN got ELSE [got EXCEPT ![l] = what]
    /\ success' = IF l # None /\ call[l] = "file" THEN ok ELSE success

\* The handler of the timeout.  The listener is called again with the socket that
\* never connected (in active mode with null, which ActionEvent refuses).
TimeoutHandled(i) ==
    /\ data[i] = "timeout"
    /\ data' = [data EXCEPT ![i] = "done"]
    /\ CloseSocket(i) /\ channel' = None
    /\ interrupted' = (interrupted \/ waitingForResponse)
    /\ Report(IF isActive[i] THEN None ELSE listener[i], "part", FALSE)
    /\ UNCHANGED <<modes, old, pc, k, call, waitingForResponse, listener, result,
                   wait, semaphore, permits, lock, cmds, replies, server, mixed>>

\* The handler of the timeout of a channel that was given up.
StrayTimeout ==
    /\ stray /\ stray' = FALSE
    /\ channel' = None /\ interrupted' = (interrupted \/ waitingForResponse)
    /\ UNCHANGED <<passive, isActive, old, pc, k, call, waitingForResponse, success, listener,
                   result, threads, sock, lock, cmds, replies, server, mixed>>

\* The listener reads until the server closes; it cannot tell why.  A file that
\* was read to the end of the stream is a success.
ReadEnds(i) ==
    /\ data[i] = "read" /\ sock[i] \in {"eof", "cut"}
    /\ data' = [data EXCEPT ![i] = "done"]
    /\ Report(listener[i], IF sock[i] = "eof" THEN "all" ELSE "cut", TRUE)
    /\ UNCHANGED <<modes, old, pc, k, call, waitingForResponse, interrupted, channel,
                   listener, result, wait, semaphore, permits, sock, lock, cmds,
                   replies, server, mixed>>

\* The socket was closed while the listener read.  The listeners of the other
\* calls close the current channel once more.
ReadBreaks(i) ==
    /\ data[i] = "read" /\ sock[i] = "closed"
    /\ data' = [data EXCEPT ![i] = "done"]
    /\ Report(listener[i], "part", FALSE)
    /\ IF listener[i] # None /\ call[listener[i]] # "file"
       THEN CloseDataChannel ELSE UNCHANGED <<sock, channel>>
    /\ UNCHANGED <<modes, old, pc, k, call, waitingForResponse, interrupted,
                   listener, result, wait, semaphore, permits, lock, cmds,
                   replies, server, mixed>>

-----------------------------------------------------------------------------
(* WaitForComplete of call i.                                              *)

CompleteEnters(i) ==
    /\ wait[i] = "ready" /\ lock = None
    /\ lock' = i
    /\ wait' = [wait EXCEPT ![i] = "reading"]
    /\ UNCHANGED <<client, data, got, semaphore, permits, sock, cmds, replies, server,
                   mixed>>

CompleteAnswered(i) ==
    /\ wait[i] = "reading" /\ lock = i /\ TakeReply(i, "wait")
    /\ wait' = [wait EXCEPT ![i] = IF Head(replies).code = 226 THEN "ok" ELSE "fail"]
    /\ UNCHANGED <<client, data, got, semaphore, permits, sock, cmds, server>>

\* Mutant: only a 226 is reported.
CompletedOnly226(i) ==
    /\ wait[i] = "ok"
    /\ wait' = [wait EXCEPT ![i] = "done"]
    /\ CloseDataChannel
    /\ semaphore' = [semaphore EXCEPT ![i] = @ + 1]
    /\ UNCHANGED <<modes, old, pc, k, call, waitingForResponse, interrupted, success,
                   listener, result, data, got, permits, lock, cmds, replies, server,
                   mixed>>

\* The listener of the call closes the data channel and releases the semaphore,
\* whatever the code was.
Completed(i) ==
    /\ wait[i] \in {"ok", "fail"}
    /\ wait' = [wait EXCEPT ![i] = "done"]
    /\ CloseDataChannel
    /\ semaphore' = [semaphore EXCEPT ![i] = @ + 1]
    /\ UNCHANGED <<modes, old, pc, k, call, waitingForResponse, interrupted, success,
                   listener, result, data, got, permits, lock, cmds, replies, server,
                   mixed>>

-----------------------------------------------------------------------------
(* The server: one command after the other.                                *)

Serve(c) == cmds # <<>> /\ sending = None /\ Head(cmds).cmd = c /\ cmds' = Tail(cmds)
Answer(code, to) == replies' = Append(replies, Reply(code, Head(cmds).id, to))

\* PORT or PASV: granted; refused because the address is not the client's, which
\* ends what was agreed before, or because it is not permitted.
ServePort ==
    /\ Serve("PORT")
    /\ \/ Answer(200, "chat") /\ port' = Head(cmds).id
       \/ "refuse" \in Faults /\ Answer(500, "chat") /\ port' = None
       \/ "refuse" \in Faults /\ Answer(550, "chat") /\ UNCHANGED port
    /\ UNCHANGED <<client, threads, sock, lock, sending, mixed>>

ServeVers ==
    /\ Serve("VERS")
    /\ Answer(216, "chat") \/ ("refuse" \in Faults /\ Answer(550, "chat"))
    /\ UNCHANGED <<client, threads, sock, lock, server, mixed>>

\* handle_alarm_timeout: the 421 is there before the command comes.  RETR and SITE
\* UINS follow a PORT at once.
SessionTimesOut ==
    /\ "timeout" \in Faults /\ (Serve("PORT") \/ Serve("VERS"))
    /\ Answer(421, "chat")
    /\ UNCHANGED <<client, threads, sock, lock, server, mixed>>

Reachable == port # None /\ sock[port] = "listen"

\* RETR or SITE UINS: refused, without data connection, or accepted.
ServeTransfer ==
    /\ Serve("RETR")
    /\ \/ /\ "refuse" \in Faults
          /\ Answer(550, "chat")
          /\ UNCHANGED <<sock, port, sending>>
       \/ /\ ~Reachable \/ "noconnect" \in Faults
          /\ Answer(425, "chat")
          /\ port' = None /\ UNCHANGED <<sock, sending>>
       \/ /\ Reachable
          /\ Answer(150, "chat")
          /\ sock' = [sock EXCEPT ![port] = "open"]
          /\ sending' = Head(cmds).id
          /\ UNCHANGED port
    /\ UNCHANGED <<client, threads, lock, mixed>>

\* The data connection is closed, then the final reply is sent.
FinishTransfer ==
    /\ sending # None /\ sending' = None /\ port' = None
    /\ \/ /\ sock[port] = "open"
          /\ sock' = [sock EXCEPT ![port] = "eof"]
          /\ replies' = Append(replies, Reply(226, sending, "wait"))
       \/ /\ sock[port] = "open" /\ "abort" \in Faults
          /\ sock' = [sock EXCEPT ![port] = "cut"]
          /\ replies' = Append(replies, Reply(426, sending, "wait"))
       \/ /\ sock[port] = "closed"
          /\ replies' = Append(replies, Reply(426, sending, "wait"))
          /\ UNCHANGED sock
    /\ UNCHANGED <<client, threads, lock, cmds, mixed>>

-----------------------------------------------------------------------------
CommandThread ==
    \/ ReadInCommandThread \/ ChatEnters \/ PortAnswered \/ RetrAnswered
    \/ VersAnswered \/ SemaphoreAcquired \/ Interrupted
DataThread(i) ==
    \/ Connected(i) \/ AcceptClosed(i) \/ TimeoutHandled(i) \/ ReadEnds(i) \/ ReadBreaks(i)
    \/ StrayTimeout
WaitThread(i) == CompleteEnters(i) \/ CompleteAnswered(i) \/ Completed(i)
Server == ServePort \/ ServeVers \/ SessionTimesOut \/ ServeTransfer \/ FinishTransfer

Next ==
    \/ \E kind \in Calls : OpenDataChannel(kind)
    \/ CommandThread
    \/ \E i \in Ids : DataThread(i) \/ AcceptTimesOut(i) \/ WaitThread(i)
    \/ Server

\* The JVM schedules every thread, and the server goes on.
Spec ==
    /\ Init /\ [][Next]_vars
    /\ WF_vars(CommandThread) /\ WF_vars(Server)
    /\ \A i \in Ids : WF_vars(DataThread(i)) /\ WF_vars(WaitThread(i))

-----------------------------------------------------------------------------
TypeOK ==
    /\ pc \in {"idle", "port", "retr", "vers", "wait", "self", "network_error", "over", "died"}
    /\ isActive \in [Ids -> BOOLEAN]
    /\ call \in [Ids -> Calls \cup {"none"}]
    /\ result \in [Ids -> {"none", "true", "false", "interrupted", "null", "part"}]
    /\ k \in 0..MaxCalls /\ channel \in Ids \cup {None}
    /\ lock \in Ids \cup {None, Command}
    /\ listener \in [Ids -> Ids \cup {None}]
    /\ data \in [Ids -> {"none", "accept", "timeout", "read", "done"}]
    /\ got \in [Ids -> {"none", "part", "cut", "all"}]
    /\ sock \in [Ids -> {"none", "listen", "open", "eof", "cut", "closed"}]
    /\ wait \in [Ids -> {"none", "ready", "reading", "ok", "fail", "done"}]
    /\ semaphore \in [Ids -> 0..1] /\ permits \in 0..MaxCalls
    /\ port \in Ids \cup {None} /\ sending \in Ids \cup {None}

\* The calls that do not wait for the end of their transfer: showReadMe never
\* does, and an interrupt ends the wait.
NotWaitedFor(i) == call[i] = "readme" \/ result[i] = "interrupted"

\* PORT was refused, or SITE UINS was: the call returned before a transfer began.
NotBegun(i) == result[i] = "false" /\ wait[i] = "none"

OwnReplies == mixed => \E i \in Ids : NotWaitedFor(i)

NothingLeft ==
    pc = "idle" /\ (\A i \in Ids : ~NotWaitedFor(i)) =>
        /\ cmds = <<>> /\ replies = <<>> /\ lock = None
        /\ sending = None
        /\ channel = None \/ \E i \in Ids : NotBegun(i)

\* As long as every call waits for its transfer, a thread only ever takes the reply
\* to its own command, chat the first reply and WaitForComplete the final one; and a
\* call that returns leaves a quiet control connection behind, and a data channel
\* only if PORT or SITE UINS was refused, also when the client has fallen back to
\* passive mode in between: the next call starts from scratch (FtpClient.chat,
\* openDataChannel, WaitForComplete.run, downloadFile, closeDataChannel,
\* abandonDataChannel).
CallsKeepApart == OwnReplies /\ NothingLeft

\* A download that downloadFile calls a success is completely on the disk, unless
\* the server broke it off or a data thread of an earlier call that failed was
\* still at work (the field "success" is shared).
SuccessIsComplete ==
    \A i \in Ids : call[i] = "file" /\ result[i] = "true" =>
        \/ got[i] \in {"all", "cut"}
        \/ \E j \in 1..(i - 1) : result[j] \in {"false", "interrupted"}

\* Every call returns to InstallPanel, ends in a NetworkException, or with the
\* server's session, of which in active mode the command thread dies; except a
\* download whose RETR was not answered with 150, a call that reads an abandoned
\* channel itself, and calls that follow one that nobody waited for (openDataChannel,
\* retr, downloadFile, fetchUpdateInstructions).
CallsReturn ==
    pc # "idle" ~> \/ pc \in {"idle", "network_error", "over", "died", "self"}
                   \/ pc = "wait" /\ wait[k] = "none"
                   \/ \E i \in Ids : NotWaitedFor(i)
=============================================================================
