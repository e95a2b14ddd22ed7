------------------------------ MODULE Buffers ------------------------------
(***************************************************************************)
(* The strings of the server in memory (str.c): a string is a buffer, the  *)
(* number of bytes allocated for it and its length.  A buffer is null or   *)
(* ends its string with a zero byte; the bytes behind it, and the bytes    *)
(* malloc and realloc add, hold anything.  Next calls the operations in    *)
(* any order, and value is what the strings should hold by then.           *)
(***************************************************************************)
EXTENDS Strings

CONSTANTS
    Names,         \* the strings
    Texts,         \* the C texts given to the operations
    MaxLen         \* bound: the length of a string

VARIABLES
    mem,           \* the buffers
    value          \* what they should hold

bvars == <<mem, value>>

Zero == "0"        \* the zero byte
Unwritten == "?"         \* a byte nobody has written

\* INIT_MYSTR
NullStr == [buf |-> <<>>, len |-> 0, alloc |-> 0]

BInit ==
    /\ mem = [n \in Names |-> NullStr]
    /\ value = [n \in Names |-> <<>>]

-----------------------------------------------------------------------------
(* Memory.                                                                 *)

Malloc(n) == [i \in 1..n |-> Unwritten]
Realloc(buf, n) == [i \in 1..n |-> IF i <= Len(buf) THEN buf[i] ELSE Unwritten]

\* memcpy of "what" to buf + at; never past the end of what is allocated.
Memcpy(buf, at, what) ==
    [i \in 1..Len(buf) |-> IF i \in at + 1..at + Len(what) THEN what[i - at] ELSE buf[i]]

\* private_str_alloc_memchunk
AllocMemchunk(s, src) ==
    LET buf == IF Len(src) + 1 > s.alloc THEN Malloc(Len(src) + 1) ELSE s.buf IN
    [buf |-> Memcpy(buf, 0, Append(src, Zero)), len |-> Len(src), alloc |-> Len(buf)]

\* Mutant: the room for the zero byte is forgotten.
AppendMemchunkTight(s, src) ==
    LET need == s.len + Len(src)
        buf == IF need > s.alloc THEN Realloc(s.buf, need) ELSE s.buf
    IN  [buf |-> Memcpy(buf, s.len, Append(src, Zero)), len |-> s.len + Len(src),
         alloc |-> Len(buf)]

\* private_str_append_memchunk
AppendMemchunk(s, src) ==
    LET need == s.len + Len(src) + 1
        buf == IF need > s.alloc THEN Realloc(s.buf, need) ELSE s.buf
    IN  [buf |-> Memcpy(buf, s.len, Append(src, Zero)), len |-> s.len + Len(src),
         alloc |-> Len(buf)]

\* str_getbuf gives a null string its buffer.
GetBuf(s) == IF s.buf = <<>> THEN AllocMemchunk(s, <<>>) ELSE s

\* str_trunc and str_empty
Trunc(s, len) == [s EXCEPT !.len = len, !.buf = Memcpy(@, len, <<Zero>>)]
EmptyStr(s) == Trunc(GetBuf(s), 0)

\* str_reserve
Reserve(s, len) ==
    LET buf == IF len + 1 > s.alloc THEN Realloc(s.buf, len + 1) ELSE s.buf IN
    [s EXCEPT !.buf = Memcpy(buf, len, <<Zero>>), !.alloc = Len(buf)]

\* What the other side of an operation sees of a string: p_buf and len ...
Bytes(s) == UpTo(s.buf, s.len)
\* ... or p_buf alone, up to the zero byte.
Text(s) == UpTo(GetBuf(s).buf, Min({i \in 0..s.len : GetBuf(s).buf[i + 1] = Zero}))

-----------------------------------------------------------------------------
(* Searching.                                                              *)

NotFound == -1

\* str_locate_text and str_locate_text_reverse: the first index in the direction
\* of the search where memcmp finds the text.
LocateText(s, t) ==
    LET hits == {i \in 0..s.len - Len(t) : SubSeq(s.buf, i + 1, i + Len(t)) = t} IN
    IF t = <<>> \/ Len(t) > s.len \/ hits = {} THEN NotFound ELSE Min(hits)
LocateTextReverse(s, t) ==
    LET hits == {i \in 0..s.len - Len(t) : SubSeq(s.buf, i + 1, i + Len(t)) = t} IN
    IF t = <<>> \/ Len(t) > s.len \/ hits = {} THEN NotFound ELSE Max(hits)

\* str_locate_chars: the first character of s that is one of a set.
LocateChars(s, chars) ==
    LET hits == {i \in 0..s.len - 1 : s.buf[i + 1] \in chars} IN
    IF hits = {} THEN NotFound ELSE Min(hits)

\* str_split_text_common: the right half is copied out before the left one is cut.
SplitText(s, r, t, reverse) ==
    LET i == IF reverse THEN LocateTextReverse(s, t) ELSE LocateText(s, t) IN
    IF i = NotFound THEN <<s, EmptyStr(r)>>
    ELSE <<Trunc(s, i), AllocMemchunk(r, SubSeq(s.buf, i + Len(t) + 1, s.len))>>

\* str_replace_text: lhs and rhs are its two static strings.
ReplaceText(s, from, to) ==
    LET Step(acc, i) ==
            LET halves == SplitText(acc.lhs, acc.rhs, from, FALSE)
                left == AppendMemchunk(acc.out, Bytes(halves[1]))
                hit == halves[1].len < acc.lhs.len
            IN  IF acc.over THEN acc
                ELSE [lhs |-> AllocMemchunk(halves[1], Bytes(halves[2])), rhs |-> halves[2],
                      out |-> IF hit THEN AppendMemchunk(left, to) ELSE left,
                      over |-> halves[2].len = 0]
    IN  FoldLeft(Step, [lhs |-> AllocMemchunk(NullStr, Bytes(s)), rhs |-> NullStr,
                        out |-> NullStr, over |-> FALSE],
                 [i \in 1..s.len + 1 |-> i]).out

\* str_rpad appends its spaces one by one; str_lpad makes the spaces first, in a
\* string of its own, and copies the result back.
Rpad(s, w) == IF s.len >= w THEN s ELSE AppendMemchunk(s, Spaces(w - s.len))
Lpad(s, w) ==
    IF s.len >= w THEN s
    ELSE AllocMemchunk(s, Bytes(AppendMemchunk(
             AppendMemchunk(NullStr, Spaces(w - s.len)), Bytes(s))))

\* str_getline: up to the newline, which is skipped.
GetLine(s, line, pos) ==
    LET stop == LET nl == {i \in pos..s.len - 1 : s.buf[i + 1] = "\n"} IN
                IF nl = {} THEN s.len ELSE Min(nl)
    IN  IF pos = s.len THEN EmptyStr(line)
        ELSE AllocMemchunk(EmptyStr(line), SubSeq(s.buf, pos + 1, stop))

\* str_upper, str_replace_char, str_replace_unprintable: in place.
ReplaceChar(s, from, to) ==
    [s EXCEPT !.buf = [i \in DOMAIN @ |-> IF i <= s.len /\ @[i] \in from THEN to ELSE @[i]]]

-----------------------------------------------------------------------------
(* The operations, each with what it should do.                            *)

One(n, s, v) ==
    /\ mem' = [mem EXCEPT ![n] = s] /\ value' = [value EXCEPT ![n] = v]
    /\ Len(v) <= MaxLen

\* str_alloc_text and the other str_alloc operations
AllocText(n, t) == One(n, AllocMemchunk(mem[n], t), t)
AppendText(n, t) == One(n, AppendMemchunk(mem[n], t), value[n] \o t)
Empty(n) == One(n, EmptyStr(mem[n]), <<>>)

\* str_free
Free(n) == One(n, NullStr, <<>>)

\* str_netfd_read: the room is reserved, the length is set and the bytes arrive.
NetfdRead(n, t) ==
    LET s == Trunc(Reserve(mem[n], Len(t)), Len(t)) IN
    One(n, [s EXCEPT !.buf = Memcpy(@, 0, t)], t)

\* The operations with two strings; callers never pass one string twice.
Copy(n, o) == One(n, AllocMemchunk(mem[n], Bytes(mem[o])), value[o])
AppendStr(n, o) == One(n, AppendMemchunk(mem[n], Bytes(mem[o])), value[n] \o value[o])
Left(n, o, i) == One(o, AllocMemchunk(mem[o], UpTo(mem[n].buf, i)), UpTo(value[n], i))
Right(n, o, i) ==
    One(o, AllocMemchunk(mem[o], SubSeq(mem[n].buf, mem[n].len - i + 1, mem[n].len)),
        From(value[n], Len(value[n]) - i))
GetLineOf(n, o, i) ==
    /\ mem' = [mem EXCEPT ![n] = GetBuf(@), ![o] = GetLine(GetBuf(mem[n]), @, i)]
    /\ value' = [value EXCEPT ![o] = LineFrom(value[n], i)]
Split(n, o, t, reverse) ==
    LET split == SplitText(mem[n], mem[o], t, reverse)
        halves == IF reverse THEN HalvesReverse(value[n], t) ELSE Halves(value[n], t)
    IN  /\ mem' = [mem EXCEPT ![n] = split[1], ![o] = split[2]]
        /\ value' = [value EXCEPT ![n] = halves[1], ![o] = halves[2]]
    
BNext ==
    \E n \in Names :
        \/ Empty(n) \/ Free(n)
        \/ \E t \in Texts : AllocText(n, t) \/ AppendText(n, t) \/ NetfdRead(n, t)
        \/ \E t, to \in Texts :
               t # <<>> /\ One(n, ReplaceText(mem[n], t, to), Replaced(value[n], t, to))
        \/ One(n, ReplaceChar(mem[n], {"a"}, "b"), MapChars(value[n], {"a"}, "b"))
        \/ \E w \in 1..MaxLen :
               \/ One(n, Rpad(mem[n], w), PadRight(value[n], w))
               \/ One(n, Lpad(mem[n], w), PadLeft(value[n], w))
        \/ \E o \in Names \ {n} :
               \/ Copy(n, o) \/ AppendStr(n, o)
               \/ \E t \in Texts, r \in BOOLEAN : Split(n, o, t, r)
               \/ \E i \in 0..mem[n].len : Left(n, o, i) \/ Right(n, o, i) \/ GetLineOf(n, o, i)

-----------------------------------------------------------------------------
\* Whatever operations follow each other, a string holds what its operations made
\* of it: no byte of an earlier and longer content shows again, none is read that
\* was never written, and the text that is handed to the system (str_getbuf) ends
\* where the string ends.
BuffersHoldStrings ==
    \A n \in Names :
        /\ Bytes(mem[n]) = value[n]
        /\ mem[n].buf # <<>> => mem[n].len < mem[n].alloc /\ Text(mem[n]) = value[n]
=============================================================================
