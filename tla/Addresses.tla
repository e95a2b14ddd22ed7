----------------------------- MODULE Addresses -----------------------------
(***************************************************************************)
(* Addresses and ports in the arguments of PORT, EPRT and the settings     *)
(* (ipaddrparse.c).  A text is a sequence of characters, an address a      *)
(* sequence of bytes in a static buffer that the next call uses again.     *)
(***************************************************************************)
EXTENDS Strings

CONSTANTS
    AddrLen,       \* bytes of an IPv6 address: 16
    AddrTexts,     \* the texts that are parsed
    ListTexts      \* the comma separated lists that are parsed

VARIABLE parsed    \* the text, what it should be, and what the caller got

No == <<"refused">>
Pending == <<"pending">>
Stale == -1        \* a byte of the buffer that this call did not write

Digit == [c \in {"0", "1", "2", "5", "7", "9", "f", "F", "."} |->
    CASE c = "0" -> 0 [] c = "1" -> 1 [] c = "2" -> 2 [] c = "5" -> 5 [] c = "7" -> 7 [] c = "9" -> 9
      [] c \in {"f", "F"} -> 15 [] OTHER -> 99]
Digits(base) == {c \in DOMAIN Digit : Digit[c] < base}

AInit ==
    parsed \in [text : AddrTexts, kind : {"address"}, result : {Pending}]
        \cup [text : ListTexts, kind : {"list"}, result : {Pending}]

-----------------------------------------------------------------------------
\* Both parsers read a number digit by digit and give up once it is too large.
Number(s, base, max) ==
    FoldLeft(LAMBDA v, c : IF v = -1 \/ c \notin Digits(base) THEN -1
                           ELSE IF v * base + Digit[c] > max THEN -1
                           ELSE v * base + Digit[c], 0, s)

\* ipv6_parse_hex: two bytes.
ParseHex(s) ==
    LET v == Number(s, 16, 65535) IN
    IF v = -1 THEN No ELSE <<v \div 256, v % 256>>

Fields(s, sep) ==
    LET acc == FoldLeft(LAMBDA a, c : IF c = sep THEN <<Append(a[1], a[2]), <<>>>>
                                      ELSE <<a[1], Append(a[2], c)>>, <<<<>>, <<>>>>, s)
    IN  Append(acc[1], acc[2])

\* ipv4_parse_dotquad: three dots, a number of at most 255 around each.
ParseDotquad(s) ==
    LET f == Fields(s, ".") IN
    IF Len(f) # 4 \/ \E i \in DOMAIN f : f[i] = <<>> \/ Number(f[i], 10, 255) = -1 THEN No
    ELSE [i \in 1..4 |-> Number(f[i], 10, 255)]

\* ipv6_parse_main: group by group; a colon at the end is overlooked, one at the
\* beginning is not.
ParseMain(s) ==
    LET f == Fields(s, ":")
        groups == IF f[Len(f)] = <<>> THEN Front(f) ELSE f
        Group(g) == IF Holds(g, <<".">>) THEN ParseDotquad(g) ELSE ParseHex(g)
    IN  IF s = <<>> THEN <<>>
        ELSE IF \E i \in DOMAIN groups : groups[i] = <<>> \/ Group(groups[i]) = No THEN No
        ELSE FoldLeft(LAMBDA out, g : out \o Group(g), <<>>, groups)

\* Mutant: the zeros go behind the address.
FillBehind(lhs, rhs) ==
    IF rhs = <<>> THEN lhs ELSE lhs \o rhs \o [i \in 1..AddrLen - Len(lhs \o rhs) |-> 0]

\* The zeros that "::" stands for, if something follows it.
Fill(lhs, rhs) ==
    IF rhs = <<>> THEN lhs ELSE lhs \o [i \in 1..AddrLen - Len(lhs \o rhs) |-> 0] \o rhs

\* vsf_sysutil_parse_ipv6: the caller takes 16 bytes from the buffer, whatever its
\* length.
ParseIpv6(text) ==
    LET halves == Halves(text, <<":", ":">>)
        lhs == ParseMain(halves[1]) rhs == ParseMain(halves[2])
        out == Fill(lhs, rhs)
    IN  IF lhs = No \/ rhs = No \/ Len(lhs) + Len(rhs) > AddrLen THEN No
        ELSE out \o [i \in 1..AddrLen - Len(out) |-> IF i = 1 THEN 0 ELSE Stale]

\* atoi of a sign and the digits a field begins with.
Atoi(s) ==
    LET minus == s # <<>> /\ s[1] = "-"
        t == IF minus THEN Tail(s) ELSE s
        v == FoldLeft(LAMBDA x, c : x * 10 + Digit[c], 0, Leading(t, Digits(10)))
    IN  IF minus THEN -v ELSE v

\* vsf_sysutil_parse_uchar_string_sep: a list of bytes (PORT, and dotted addresses).
\* A separator too many at the end is overlooked.
ParseUcharList(s, sep, items) ==
    LET f == IF s # <<>> /\ s[Len(s)] = sep THEN Fields(Front(s), sep) ELSE Fields(s, sep)
    IN  IF Len(f) # items \/ \E i \in DOMAIN f : Atoi(f[i]) \notin 0..255 THEN No
        ELSE [i \in DOMAIN f |-> Atoi(f[i])]

Parse ==
    parsed' = [parsed EXCEPT !.result =
        IF parsed.kind = "address" THEN ParseIpv6(parsed.text)
        ELSE ParseUcharList(parsed.text, ",", 2)]

-----------------------------------------------------------------------------
(* What an address means: groups g of two bytes, a dotted quad last, and   *)
(* one "::" for the zeros that are missing.                                *)

GroupsOf(s) == IF s = <<>> THEN <<>> ELSE Fields(s, ":")
Value(g) == IF Holds(g, <<".">>) THEN ParseDotquad(g) ELSE ParseHex(g)
Good(groups) == \A i \in DOMAIN groups : groups[i] # <<>> /\ Value(groups[i]) # No
BytesOf(groups) == FoldLeft(LAMBDA b, g : b \o Value(g), <<>>, groups)

\* <<l, r>>: l stands before a "::" of the text and r after it.
Around(text) ==
    {<<GroupsOf(UpTo(text, i)), GroupsOf(From(text, i + 2))>> :
        i \in Places(text, <<":", ":">>)}

Meanings(text) ==
    {BytesOf(g) : g \in {h \in {GroupsOf(text)} : Good(h) /\ Len(BytesOf(h)) = AddrLen}}
    \cup {BytesOf(p[1]) \o [k \in 1..AddrLen - Len(BytesOf(p[1] \o p[2])) |-> 0] \o BytesOf(p[2]) :
             p \in {q \in Around(text) : Good(q[1] \o q[2]) /\ Len(BytesOf(q[1] \o q[2])) <= AddrLen}}

\* The bytes that the text gives and one zero: what a text that ends in "::" leaves
\* behind them is whatever the static buffer held before.
Written(text) == Len(ParseMain(UpTo(text, Len(text) - 2))) + 1
EndsOpen(text) == Len(text) >= 2 /\ SubSeq(text, Len(text) - 1, Len(text)) = <<":", ":">>

\* An address that a client or the configuration gives is understood: a text with a
\* meaning is parsed to just this address, whatever address the static buffer held
\* before.  The exception is the code's: of the zeros that a "::" at the end stands
\* for only the first is written, and the rest is left from earlier calls
\* (vsf_sysutil_parse_ipv6).  A list of two bytes is parsed to these bytes.
AddressesMeanWhatTheySay ==
    parsed.result # Pending =>
        /\ parsed.kind = "address" =>
               \A b \in Meanings(parsed.text) :
                   /\ Len(parsed.result) = AddrLen
                   /\ \A i \in 1..AddrLen :
                          \/ parsed.result[i] = b[i]
                          \/ /\ EndsOpen(parsed.text) /\ i > Written(parsed.text)
                             /\ b[i] = 0 /\ parsed.result[i] = Stale
        /\ parsed.kind = "list" =>
               \A x, y \in {<<"0">>, <<"9">>, <<"2", "5", "5">>} :
                   parsed.text = x \o <<",">> \o y =>
                       parsed.result = <<Number(x, 10, 999), Number(y, 10, 999)>>
=============================================================================
