------------------------------ MODULE McUpdate ------------------------------
(***************************************************************************)
(* The server's generator of update instructions (mcupdate.c).  It diffs   *)
(* the list of mods of the client's release with the list of the latest    *)
(* release and merges into the diff the lines that the maintainer wrote    *)
(* into the CHANGE file since the client's release.                        *)
(*                                                                         *)
(* An instruction "+fconfig/a" is a record: its sign, the character after  *)
(* the sign (f, d or u) and a path.  A path is a model value; that its     *)
(* name continues the name of another path is the relation Extends, which  *)
(* is all that str_replace_text can tell apart.                            *)
(***************************************************************************)
EXTENDS Integers, Sequences, SequencesExt, FiniteSets

CONSTANTS
    Releases,      \* number of releases of the modpack
    Paths,         \* files and directories of the modpack
    Mods,          \* the paths below mods/, which LISTFILE records
    Dirs,          \* the paths that are directories
    Parent,        \* the directory of a path, or the path itself at the top
    Extends,       \* <<p, q>>: the name of q starts with the name of p
    Order          \* all paths, a directory before what it contains

ASSUME ReleasesAssumption == Releases \in Nat \ {0}
ASSUME PathsAssumption ==
    /\ Mods \subseteq Paths /\ Dirs \subseteq Paths
    /\ Parent \in [Paths -> Paths]
    /\ Extends \subseteq Paths \X Paths
    /\ ToSet(Order) = Paths

Absent == 0        \* what a release holds at a path it does not have

Line == [op : {"+", "-", "*"}, type : {"f", "d", "u"}, path : Paths]
LineOf(op, type, p) == [op |-> op, type |-> type, path |-> p]
Sign(l, op) == [l EXCEPT !.op = op]

-----------------------------------------------------------------------------
(* What the maintainer published.  history[p][r] is what release r holds   *)
(* at path p: Absent, or the release that brought this content.            *)

FileHistories ==
    {h \in [1..Releases -> 0..Releases] :
        \A r \in 1..Releases :
            h[r] \in {Absent, r} \cup (IF r = 1 THEN {} ELSE {h[r - 1]})}
DirHistories == [1..Releases -> {Absent, 1}]

\* No release has a path without the directory it lives in.
Histories ==
    {h \in [Paths -> FileHistories \cup DirHistories] :
        \A p \in Paths :
            /\ h[p] \in (IF p \in Dirs THEN DirHistories ELSE FileHistories)
            /\ \A r \in 1..Releases :
                   h[p][r] # Absent => h[Parent[p]][r] # Absent}

TypeOf(p) == IF p \in Dirs THEN "d" ELSE "f"

\* /DATA/LISTFILE/<pack>/<release>
ListFile(h, r) == SelectSeq(Order, LAMBDA p : p \in Mods /\ h[p][r] # Absent)

\* The lines of /DATA/CHANGE/<pack> between "@<r>" and "@<r + 1>": what was
\* removed (contents before their directory), what was added, what was changed.
ChangeBlock(h, r) ==
    LET was(p) == h[p][r]
        is(p) == h[p][r + 1]
        gone == SelectSeq(Reverse(Order),
                          LAMBDA p : p \notin Mods /\ was(p) # Absent /\ is(p) = Absent)
        new == SelectSeq(Order,
                         LAMBDA p : p \notin Mods /\ was(p) = Absent /\ is(p) # Absent)
        changed == SelectSeq(Order,
                             LAMBDA p : /\ was(p) # Absent /\ is(p) # Absent
                                        /\ was(p) # is(p))
        signed(op, s) == [i \in DOMAIN s |-> LineOf(op, TypeOf(s[i]), s[i])]
    IN  signed("-", gone) \o signed("+", new) \o signed("*", changed)

\* What the search for "@<r>" in the CHANGE file leaves to be read.
ChangesSince(h, r, latest) ==
    FlattenSeq([i \in 1..(latest - r) |-> ChangeBlock(h, r + i - 1)])

-----------------------------------------------------------------------------
(* mcu_create_update_instructions                                          *)

\* str_replace_text(instr, "<sign><type><path>", ...) without a line end: every
\* line whose text starts like l gets the new sign.
ReplaceText(instr, l, op) ==
    [i \in DOMAIN instr |->
        IF /\ instr[i].op = l.op /\ instr[i].type = l.type
           /\ instr[i].path = l.path \/ <<l.path, instr[i].path>> \in Extends
        THEN Sign(instr[i], op) ELSE instr[i]]

\* str_replace_text(instr, "<line>\n", ""): exactly the lines equal to one of ls.
DeleteLines(instr, ls) == SelectSeq(instr, LAMBDA l : l \notin ls)

MergePlus(instr, c) ==
    CASE Contains(instr, Sign(c, "-")) -> ReplaceText(instr, Sign(c, "-"), "*")
      [] Contains(instr, c) \/ Contains(instr, Sign(c, "*")) -> instr
      [] OTHER -> Append(instr, c)

\* Mutant: a removal does not cancel an earlier addition.
MergeMinusAppends(instr, c) ==
    IF Contains(instr, c) THEN instr ELSE Append(instr, c)

MergeMinus(instr, c) ==
    CASE Contains(instr, Sign(c, "+")) \/ Contains(instr, Sign(c, "*"))
             -> DeleteLines(instr, {Sign(c, "+"), Sign(c, "*")})
      [] Contains(instr, c) -> instr
      [] OTHER -> Append(instr, c)

MergeStar(instr, c) ==
    CASE Contains(instr, Sign(c, "-")) -> ReplaceText(instr, Sign(c, "-"), "*")
      [] Contains(instr, Sign(c, "+")) -> ReplaceText(instr, Sign(c, "+"), "*")
      [] Contains(instr, c) -> instr
      [] OTHER -> Append(instr, c)

Merge(instr, c) ==
    CASE c.op = "+" -> MergePlus(instr, c)
      [] c.op = "-" -> MergeMinus(instr, c)
      [] c.op = "*" -> MergeStar(instr, c)

\* Mods of the old list only, in its order: "-u"; a removed mod keeps no type.
Removals(list1, list2) ==
    LET gone == SelectSeq(list1, LAMBDA p : p \notin ToSet(list2))
    IN  [i \in DOMAIN gone |-> LineOf("-", "u", gone[i])]

\* Mods of the new list only: the type comes from stat().
Additions(list1, list2) ==
    LET new == SelectSeq(list2, LAMBDA p : p \notin ToSet(list1))
    IN  [i \in DOMAIN new |-> LineOf("+", TypeOf(new[i]), new[i])]

\* Mutant: the lines since the release after the client's are merged.
UpdateInstructionsSkipBlock(h, r, latest) ==
    LET list1 == ListFile(h, r)
        list2 == ListFile(h, latest)
    IN  FoldLeft(Merge, Removals(list1, list2) \o Additions(list1, list2),
                 ChangesSince(h, r + 1, latest))

UpdateInstructions(h, r, latest) ==
    LET list1 == ListFile(h, r)
        list2 == ListFile(h, latest)
    IN  FoldLeft(Merge, Removals(list1, list2) \o Additions(list1, list2),
                 ChangesSince(h, r, latest))

-----------------------------------------------------------------------------
(* The histories for which merging is right.                               *)

Touched(h, p, i, j) == h[p][i] # Absent /\ h[p][j] # Absent /\ h[p][i] # h[p][j]
Returns(h, p, i, k) ==
    /\ h[p][i] # Absent /\ h[p][k] # Absent
    /\ \E j \in i..k : h[p][j] = Absent

\* No path is changed (or brought back) and later removed, no mod and no
\* directory comes back under its old name, and no path comes back when another
\* one, whose name goes on after its name, was removed for good.
Gentle(h) ==
    \A i, k \in 1..Releases : i < k =>
        \A p \in Paths :
            /\ \A j \in i..k : Touched(h, p, i, j) => h[p][k] # Absent
            /\ Returns(h, p, i, k) =>
                   /\ p \notin Mods \cup Dirs
                   /\ \A q \in Paths : <<p, q>> \in Extends =>
                          h[q][i] = Absent \/ h[q][k] # Absent

\* Nothing is added and then taken away again.
Lasting(h) ==
    \A p \in Paths, i, j, k \in 1..Releases :
        i < j /\ j < k /\ h[p][i] = Absent /\ h[p][k] = Absent => h[p][j] = Absent
=============================================================================
