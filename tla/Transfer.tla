------------------------------ MODULE Transfer ------------------------------
(***************************************************************************)
(* The bytes of one file on their way through the data connection:         *)
(* ftpdataio.c, ascii.c, the sendfile() of sysdeputil.c and the read and    *)
(* write loops of sysutil.c.  Every system call moves as much as it likes,  *)
(* and the file a download reads may be cut short while it runs.           *)
(***************************************************************************)
EXTENDS Strings

CONSTANTS
    Streams,       \* what a file, or the client, may hold
    Offsets,       \* where a download may start (REST)
    ChunkTunables, \* values of trans_chunk_size
    DataBufsize,   \* VSFTP_DATA_BUFSIZE
    MinChunk,      \* 4096, the least trans_chunk_size that is taken as it is
    PageSize

ASSUME TransferConstants ==
    {DataBufsize, MinChunk, PageSize} \subseteq Nat \ {0} /\ MinChunk <= DataBufsize

VARIABLES
    way,           \* what is moved and how: fixed when the transfer starts
    source,        \* the file or the client's stream, as it is now
    pos,           \* how much of it has been read
    prev_cr,       \* the chunk before ended with "\r"
    buf,           \* what write_loop has still to write
    chunk,         \* the length of what it was given
    target,        \* what has arrived on the other side
    transferred,   \* the count of struct vsf_transfer_ret
    num_send,      \* sendfile: what is left of this call, its size, what is left of all
    sendfile,      \* s_sendfile_checked, s_runtime_sendfile_works
    tpc            \* the next system call, or how the transfer ended

tvars == <<way, source, pos, prev_cr, buf, chunk, target, transferred, num_send, sendfile, tpc>>

CRLF == <<"\r", "\n">>
LF == <<"\n">>
Least(m, n) == IF m < n THEN m ELSE n

-----------------------------------------------------------------------------
\* vsf_secbuf_alloc: the pages are rounded up and the buffer ends where the last,
\* inaccessible, page begins.  The bytes that can be used behind the pointer:
SecbufAlloc(size) ==
    LET page_offset == size % PageSize
        pages == (IF page_offset # 0 THEN (size \div PageSize + 1) * PageSize ELSE size)
        start == PageSize + (IF page_offset # 0 THEN PageSize - page_offset ELSE 0)
    IN  pages + PageSize - start

\* get_chunk_size
GetChunkSize(tunable) ==
    IF tunable \in 1..DataBufsize - 1
    THEN IF tunable < MinChunk THEN MinChunk ELSE tunable
    ELSE DataBufsize

\* calc_num_send, from the size the file has when the transfer starts.
CalcNumSend(size, offset) == IF offset > size THEN 0 ELSE size - offset

\* Mutant: what the last chunk ended with is forgotten.
AsciiToBinForgetful(c, last_cr) ==
    FlattenSeq([i \in DOMAIN c |->
        IF c[i] = "\r" /\ i < Len(c) /\ c[i + 1] = "\n" THEN <<>> ELSE <<c[i]>>])

\* vsf_ascii_ascii_to_bin: what is kept of a chunk.  A "\r" at its end is held back.
AsciiToBin(c, last_cr) ==
    LET held == IF last_cr /\ (c = <<>> \/ c[1] # "\n") THEN <<"\r">> ELSE <<>>
        Kept(i) == IF c[i] # "\r" \/ (i < Len(c) /\ c[i + 1] # "\n") THEN <<c[i]>> ELSE <<>>
    IN  held \o FlattenSeq([i \in DOMAIN c |-> Kept(i)])

\* vsf_ascii_bin_to_ascii: a "\r" before every "\n" that has none.
BinToAscii(c, last_cr) ==
    LET CrBefore(i) == IF i = 1 THEN last_cr ELSE c[i - 1] = "\r"
    IN  FlattenSeq([i \in DOMAIN c |-> IF c[i] = "\n" /\ ~CrBefore(i) THEN CRLF ELSE <<c[i]>>])

\* last_was_cr of both.
LastWasCr(c, last_cr, kept) == IF c = <<>> THEN kept /\ last_cr ELSE c[Len(c)] = "\r"

-----------------------------------------------------------------------------
\* vsf_ftpdataio_transfer_file: who moves the bytes.
Mover(w) ==
    CASE w.is_recv -> "recv"
      [] ~w.is_recv /\ (w.is_ascii \/ w.use_ssl) -> "rwloop"
      [] OTHER -> "sendfile"

\* kernel tells what sendfile() is good for; a session that has tried it knows
\* whether it exists.
TInit ==
    /\ \E s \in Streams, a, e, u, l \in BOOLEAN, o \in Offsets, t \in ChunkTunables,
          k \in {"works", "EINVAL", "ENOSYS"}, checked \in BOOLEAN :
         LET w == [whole |-> s, is_recv |-> FALSE, is_ascii |-> a, use_ssl |-> e, start |-> o,
                   chunk_size |-> GetChunkSize(t), use_sendfile |-> u, limited |-> l, kernel |-> k]
         IN  /\ \/ way = [w EXCEPT !.is_recv = TRUE] /\ ~e /\ ~u /\ ~l /\ o = 0 /\ k = "works"
                \/ way = w /\ Mover(w) = "rwloop" /\ ~u /\ ~l /\ k = "works" /\ ~(a /\ e)
                \/ way = w /\ Mover(w) = "sendfile" /\ (u \/ k = "works")
             /\ sendfile = [checked |-> checked, works |-> checked /\ k # "ENOSYS"]
    /\ source = way.whole
    /\ pos = way.start /\ prev_cr = FALSE /\ buf = <<>> /\ chunk = 0
    /\ target = <<>> /\ transferred = 0
    /\ num_send = LET n == CalcNumSend(Len(way.whole), way.start) IN [call |-> 0, size |-> 0, all |-> n]
    /\ tpc = IF Mover(way) = "sendfile" THEN "sendfile" ELSE "read"

Left == Len(source) - pos
\* What the calls of do_sendfile that have returned have sent.
Shipped == CalcNumSend(Len(way.whole), way.start) - num_send.all
Piece(n) == SubSeq(source, pos + 1, pos + n)

\* The transfer is over with this retval of struct vsf_transfer_ret.
Done(retval, count) ==
    /\ tpc' = retval /\ transferred' = count
    /\ buf' = <<>> /\ chunk' = 0 /\ UNCHANGED <<way, source, sendfile>>

\* do_file_send_rwloop, the read() and the conversion.
ReadToSend ==
    /\ tpc = "read" /\ Mover(way) = "rwloop"
    /\ \/ Done("-1", transferred) /\ UNCHANGED <<pos, prev_cr, target, num_send>>
       \/ Left <= 0 /\ Done("0", transferred) /\ UNCHANGED <<pos, prev_cr, target, num_send>>
       \/ \E n \in 1..Least(way.chunk_size, Left) :
            LET out == IF way.is_ascii THEN BinToAscii(Piece(n), prev_cr) ELSE Piece(n) IN
            /\ pos' = pos + n /\ prev_cr' = (way.is_ascii /\ LastWasCr(Piece(n), prev_cr, TRUE))
            /\ buf' = out /\ chunk' = Len(out) /\ tpc' = "write"
            /\ UNCHANGED <<way, source, target, transferred, num_send, sendfile>>

\* do_file_recv, the read from the data connection and the conversion.  At the end
\* of the stream a "\r" held back is still to be written.
ReadToReceive ==
    /\ tpc = "read" /\ Mover(way) = "recv"
    /\ \/ Done("-2", transferred) /\ UNCHANGED <<pos, prev_cr, target, num_send>>
       \/ Left = 0 /\ ~prev_cr /\ Done("0", transferred) /\ UNCHANGED <<pos, prev_cr, target, num_send>>
       \/ \E n \in 0..Least(way.chunk_size, Left) :
            LET out == IF way.is_ascii THEN AsciiToBin(Piece(n), prev_cr) ELSE Piece(n) IN
            /\ n = 0 <=> Left = 0
            /\ n = 0 => prev_cr
            /\ pos' = pos + n /\ prev_cr' = (way.is_ascii /\ LastWasCr(Piece(n), prev_cr, FALSE))
            /\ buf' = out /\ chunk' = Len(out) /\ transferred' = transferred + n
            /\ tpc' = "write" /\ UNCHANGED <<way, source, target, num_send, sendfile>>

\* What follows a write_loop that has written everything.
Written ==
    CASE Mover(way) = "rwloop" ->
           tpc' = "read" /\ transferred' = transferred + chunk /\ UNCHANGED num_send
      [] Mover(way) = "recv" -> tpc' = "read" /\ UNCHANGED <<transferred, num_send>>
      [] OTHER ->   \* do_sendfile, and back to vsf_sysutil_sendfile when its part is out
           LET left == num_send.call - chunk IN
           /\ tpc' = IF left = 0 THEN "sendfile" ELSE "copy"
           /\ num_send' = IF left > 0 THEN [num_send EXCEPT !.call = left]
                          ELSE [call |-> 0, size |-> 0, all |-> num_send.all - num_send.size]
           /\ UNCHANGED transferred

\* vsf_sysutil_write_loop: one write(), which may take a part.
WriteSome ==
    /\ tpc = "write"
    /\ \/ \E n \in 0..Len(buf) :
            /\ n = 0 => buf = <<>>
            /\ target' = target \o SubSeq(buf, 1, n) /\ buf' = SubSeq(buf, n + 1, Len(buf))
            /\ IF n = Len(buf) THEN Written /\ chunk' = 0
               ELSE UNCHANGED <<tpc, chunk, transferred, num_send>>
            /\ UNCHANGED <<way, source, pos, prev_cr, sendfile>>
       \/ /\ buf # <<>> /\ UNCHANGED <<pos, prev_cr, target, num_send>>
          /\ Done(IF Mover(way) = "recv" THEN "-1" ELSE "-2",
                  IF Mover(way) = "sendfile" THEN Shipped ELSE transferred)

\* The loop of vsf_sysutil_sendfile and, in do_sendfile, the system call.  What
\* EINTR interrupts is called again.
Sendfile ==
    /\ tpc = "sendfile"
    /\ LET size == IF way.limited THEN Least(num_send.all, way.chunk_size) ELSE num_send.all
           call == way.use_sendfile /\ (~sendfile.checked \/ sendfile.works)
           Move(n) == /\ pos' = pos + n /\ target' = target \o Piece(n)
                      /\ num_send' = [num_send EXCEPT !.all = @ - n]
           Tried == sendfile' = [checked |-> TRUE,
                                 works |-> sendfile.works \/ (~sendfile.checked /\ way.kernel # "ENOSYS")]
       IN  IF num_send.all = 0
           THEN Done("0", Shipped) /\ UNCHANGED <<pos, prev_cr, target, num_send>>
           ELSE IF ~call
           THEN /\ tpc' = "copy" /\ num_send' = [num_send EXCEPT !.call = size, !.size = size]
                /\ UNCHANGED <<way, source, pos, prev_cr, buf, chunk, target, transferred, sendfile>>
           ELSE \/ /\ way.kernel = "works" /\ Left > 0
                   /\ \E n \in 1..Least(size, Left) : Move(n)
                   /\ Tried /\ UNCHANGED <<way, source, prev_cr, buf, chunk, transferred, tpc>>
                \/ /\ way.kernel = "works"     \* an error, or the file ends too early
                   /\ Tried /\ tpc' = "-2" /\ transferred' = Shipped
                   /\ UNCHANGED <<way, source, pos, prev_cr, buf, chunk, target, num_send>>
                \/ /\ way.kernel # "works" /\ Tried
                   /\ tpc' = "copy" /\ num_send' = [num_send EXCEPT !.call = size, !.size = size]
                   /\ UNCHANGED <<way, source, pos, prev_cr, buf, chunk, target, transferred>>

\* do_sendfile without sendfile(): read, and write_loop.
CopyRead ==
    /\ tpc = "copy"
    /\ \/ Done("-2", Shipped) /\ UNCHANGED <<pos, prev_cr, target, num_send>>
       \/ \E n \in 1..Least(Least(DataBufsize, num_send.call), Left) :
            /\ pos' = pos + n /\ buf' = Piece(n) /\ chunk' = n /\ tpc' = "write"
            /\ UNCHANGED <<way, source, prev_cr, target, transferred, num_send, sendfile>>

\* Someone cuts the file that is being sent.
Truncate ==
    /\ tpc \in {"read", "write", "sendfile", "copy"} /\ ~way.is_recv /\ source = way.whole
    /\ \E n \in 0..Len(source) - 1 : source' = SubSeq(source, 1, n)
    /\ UNCHANGED <<way, pos, prev_cr, buf, chunk, target, transferred, num_send, sendfile, tpc>>

TNext == ReadToSend \/ ReadToReceive \/ WriteSome \/ Sendfile \/ CopyRead \/ Truncate

-----------------------------------------------------------------------------
\* The two conversions of a whole file, and what a transfer is to deliver.
ToUnix(s) == Replaced(s, CRLF, LF)
ToNet(s) == Replaced(Replaced(s, CRLF, LF), LF, CRLF)
Converted(s) ==
    IF ~way.is_ascii THEN s ELSE IF way.is_recv THEN ToUnix(s) ELSE ToNet(s)

\* Whatever the sizes of the chunks and of the single reads and writes, and in which
\* of the three ways the file goes: what has arrived is always the beginning of the
\* converted file; a transfer that reports success has delivered all of it, or all
\* that a file cut short still had, and counted it right; sendfile never reports
\* success for less than the size it started with; and no conversion outgrows the
\* buffer it is made in (ftpdataio.c, ascii.c, do_sendfile).
TransfersConvertExactly ==
    LET asked == SubSeq(way.whole, way.start + 1, Len(way.whole))
        size == IF way.is_recv THEN DataBufsize + 1
                ELSE IF way.is_ascii THEN DataBufsize * 2 ELSE DataBufsize
    IN  /\ IsPrefix(target, Converted(asked))
        /\ chunk <= SecbufAlloc(size)
        /\ tpc = "0" =>
             /\ source = way.whole \/ Mover(way) = "sendfile" => target = Converted(asked)
             /\ pos >= Len(source) /\ target = Converted(SubSeq(way.whole, way.start + 1, pos))
             /\ transferred = IF way.is_recv THEN Len(way.whole) ELSE Len(target)
=============================================================================
