------------------------------ MODULE Strings ------------------------------
(***************************************************************************)
(* What the string library of the server promises (str.h): a string is a   *)
(* sequence of characters, and every operation is stated by its result,    *)
(* not by how the code finds it.  Buffers shows that str.c keeps these     *)
(* promises in memory; the other modules use them.                         *)
(***************************************************************************)
EXTENDS Integers, Sequences, SequencesExt, FiniteSetsExt

\* The text t stands in s after the first i characters.
At(s, t, i) == i \in 0..Len(s) - Len(t) /\ SubSeq(s, i + 1, i + Len(t)) = t
Places(s, t) == IF t = <<>> THEN {} ELSE {i \in 0..Len(s) : At(s, t, i)}
Holds(s, t) == Places(s, t) # {}

From(s, i) == SubSeq(s, i + 1, Len(s))
UpTo(s, i) == SubSeq(s, 1, i)

\* What s begins with, of these characters.
Leading(s, chars) == UpTo(s, Min({i \in 0..Len(s) : i = Len(s) \/ s[i + 1] \notin chars}))

\* str_split_text and str_split_text_reverse: the halves around a text.  Without
\* the text the left half is everything.
HalvesAt(s, t, i) == <<UpTo(s, i), From(s, i + Len(t))>>
Halves(s, t) ==
    IF Holds(s, t) THEN HalvesAt(s, t, Min(Places(s, t))) ELSE <<s, <<>>>>
HalvesReverse(s, t) ==
    IF Holds(s, t) THEN HalvesAt(s, t, Max(Places(s, t))) ELSE <<s, <<>>>>

\* str_getline: the line that starts after i characters.
LineFrom(s, i) == Halves(From(s, i), <<"\n">>)[1]

\* str_getline called until it returns 0.
Lines(s) ==
    LET last == FoldLeft(LAMBDA acc, c : IF c = "\n" THEN <<Append(acc[1], acc[2]), <<>>>>
                                         ELSE <<acc[1], Append(acc[2], c)>>,
                         <<<<>>, <<>>>>, s)
    IN  IF last[2] = <<>> THEN last[1] ELSE Append(last[1], last[2])

\* str_contains_line
ContainsLine(s, l) == \E i \in DOMAIN Lines(s) : Lines(s)[i] = l

\* str_replace_text: from left to right, what overlaps an earlier hit is no hit.
Replaced(s, from, to) ==
    FoldLeft(LAMBDA acc, i :
                 IF acc[2] > 0 THEN <<acc[1], acc[2] - 1>>
                 ELSE IF i - 1 \in Places(s, from) THEN <<acc[1] \o to, Len(from) - 1>>
                 ELSE <<Append(acc[1], s[i]), 0>>,
             <<<<>>, 0>>, [i \in 1..Len(s) |-> i])[1]

\* str_upper, str_replace_char and str_replace_unprintable
MapChars(s, from, to) == [i \in DOMAIN s |-> IF s[i] \in from THEN to ELSE s[i]]

Spaces(n) == [i \in 1..n |-> " "]
PadRight(s, w) == s \o Spaces(w - Len(s))
PadLeft(s, w) == Spaces(w - Len(s)) \o s

\* str_strdup_trimmed
Blank == {" ", "\t", "\n", "\r"}
Trimmed(s) ==
    LET ink == {i \in DOMAIN s : s[i] \notin Blank} IN
    IF ink = {} THEN <<>> ELSE SubSeq(s, Min(ink), Max(ink))

\* str_strcmp: the characters decide, then the length.
Less(order, s, t) ==
    \E i \in 0..Len(s) :
        /\ i <= Len(t) /\ UpTo(s, i) = UpTo(t, i)
        /\ \/ i = Len(s) /\ i < Len(t)
           \/ i < Len(s) /\ i < Len(t) /\ order[s[i + 1]] < order[t[i + 1]]
=============================================================================
