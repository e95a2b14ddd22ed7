------------------------------- MODULE Reader -------------------------------
(***************************************************************************)
(* The client's end of the control connection, FtpCommandChannelReader: a  *)
(* thread takes characters from the socket into sb, and whoever waits for  *)
(* a reply reads them from there.  Both hold the mutex for a whole step;   *)
(* only wait() gives it up, and closed is written without it.              *)
(***************************************************************************)
EXTENDS Integers, Sequences

CONSTANTS
    Replies,       \* the characters the server may send
    ReadLen        \* how many the caller asks for at a time

VARIABLES
    sent,          \* history: all the server sends
    coming,        \* what of it the thread has not read
    ends,          \* how the connection ends: "eof", "error" or not at all, "open"
    cbuf,          \* what the thread has just read
    thr,           \* where the thread is
    sb,
    closed,
    caller,        \* where the caller of read() is
    heard          \* history: what read() has returned

rvars == <<sent, coming, ends, cbuf, thr, sb, closed, caller, heard>>

RInit ==
    /\ sent \in Replies /\ coming = sent /\ ends \in {"eof", "error", "open"}
    /\ cbuf = <<>> /\ thr = "read" /\ sb = <<>> /\ closed = FALSE
    /\ caller = "calls" /\ heard = <<>>

-----------------------------------------------------------------------------
\* isr.read(cbuf): some characters, -1, or an IOException, which leaves the loop.
ThreadReads ==
    /\ thr = "read"
    /\ \/ \E n \in DOMAIN coming :
            /\ cbuf' = SubSeq(coming, 1, n) /\ coming' = SubSeq(coming, n + 1, Len(coming))
            /\ thr' = "got"
       \/ coming = <<>> /\ ends = "eof" /\ thr' = "last" /\ UNCHANGED <<cbuf, coming>>
       \/ coming = <<>> /\ ends = "error" /\ thr' = "leaving" /\ UNCHANGED <<cbuf, coming>>
    /\ UNCHANGED <<sent, ends, sb, closed, caller, heard>>

Notify == caller' = IF caller = "waits" THEN "woken" ELSE caller

\* Mutant: only characters for a caller who is already waiting are announced.
ThreadAppendsQuietly ==
    /\ thr \in {"got", "last"}
    /\ sb' = sb \o cbuf /\ cbuf' = <<>> /\ thr' = IF thr = "got" THEN "read" ELSE "leaving"
    /\ UNCHANGED <<sent, coming, ends, closed, heard, caller>>

\* The synchronized block of the thread.
ThreadAppends ==
    /\ thr \in {"got", "last"} /\ Notify
    /\ sb' = sb \o cbuf /\ cbuf' = <<>> /\ thr' = IF thr = "got" THEN "read" ELSE "leaving"
    /\ UNCHANGED <<sent, coming, ends, closed, heard>>

ThreadCloses ==
    /\ thr = "leaving" /\ closed' = TRUE /\ thr' = "gone"
    /\ UNCHANGED <<sent, coming, ends, cbuf, sb, caller, heard>>

\* The rest of read(), after the wait or without one.
Returns(to) ==
    LET n == IF Len(sb) > ReadLen THEN ReadLen ELSE Len(sb)
    IN  /\ heard' = heard \o SubSeq(sb, 1, n) /\ sb' = SubSeq(sb, n + 1, Len(sb)) /\ caller' = to
        /\ UNCHANGED <<sent, coming, ends, cbuf, thr, closed>>

\* read() up to the wait.  Nothing orders the thread's write to closed before the
\* caller's look at it, so an old value may be seen.
CallerReads ==
    /\ caller = "calls"
    /\ \/ sb # <<>> /\ Returns("calls")
       \/ \E seen \in {closed, FALSE} :
            /\ sb = <<>> /\ caller' = IF seen THEN "Closed" ELSE "waits"
            /\ UNCHANGED <<sent, coming, ends, cbuf, thr, sb, closed, heard>>

\* Woken, also for nothing: no characters are returned then, and BufferedReader
\* calls again.
CallerWakes ==
    /\ caller = "woken" /\ Returns("calls")
WakesForNothing ==
    /\ caller = "waits" /\ caller' = "woken"
    /\ UNCHANGED <<sent, coming, ends, cbuf, thr, sb, closed, heard>>

ThreadSteps == ThreadReads \/ ThreadAppends \/ ThreadCloses
CallerSteps == CallerReads \/ CallerWakes
RNext == ThreadSteps \/ CallerSteps \/ WakesForNothing

-----------------------------------------------------------------------------
\* Nothing is lost, doubled or reordered between the socket and the caller, no call
\* fails as long as there is something to read, and a caller who keeps calling gets
\* everything the server has sent: no wait() misses its notify().  (Whether the
\* caller learns of the end is another matter: see the hazard at the write to
\* closed.)
RepliesReachTheCaller ==
    /\ [](heard \o sb \o cbuf \o coming = sent /\ (caller = "Closed" => heard = sent))
    /\ <>(heard = sent)
=============================================================================
