------------------------------ MODULE Listing ------------------------------
(***************************************************************************)
(* LIST, NLST and STAT of a directory: the filter with its wildcards, the  *)
(* sorted list of a directory and the recursion of "ls -R" (ls.c,          *)
(* strlist.c, transfer_dir_internal), while other sessions remove what is  *)
(* being listed.                                                           *)
(*                                                                         *)
(* A node of the file system is a record: the directory it is in, its name *)
(* as a sequence of characters, its kind and its age.  A line of a listing *)
(* is the node it shows.                                                   *)
(***************************************************************************)
EXTENDS Strings

CONSTANTS
    Nodes,         \* the nodes; "." and ".." of every directory among them
    Root,          \* the directory that is listed
    Asked,         \* the options and filters of the listings
    Order,         \* the order of the characters
    MatchIters,    \* VSFTP_MATCHITERS_MAX
    DirBufsize     \* VSFTP_DIR_BUFSIZE

ASSUME ListingAssumption == MatchIters \in Nat /\ DirBufsize \in Nat

-----------------------------------------------------------------------------
(* vsf_filename_passes_filter.                                             *)

Stars == {"*", "?", "{"}
Tail1(s) == From(s, 1)

\* What must match before the next special character, that character, the rest.
NextToken(filter) ==
    LET at == {i \in DOMAIN filter : filter[i] \in Stars} IN
    IF at = {} THEN [text |-> filter, token |-> "", rest |-> <<>>]
    ELSE [text |-> UpTo(filter, Min(at) - 1), token |-> filter[Min(at)],
          rest |-> From(filter, Min(at))]

\* After a "*" the text may stand anywhere; the scan goes on to its last place
\* that does not overlap an earlier one.
LastHit(name, text) ==
    LET Scan[i \in 0..Len(name)] ==
            LET hits == {j \in Places(name, text) : j >= i + Len(text)} IN
            IF hits = {} THEN i ELSE Scan[Min(hits)]
    IN  Scan[Min(Places(name, text))]

Failed(iters) == [ok |-> FALSE, iters |-> iters]

RECURSIVE Filter(_, _, _, _, _), AnyOf(_, _, _, _)

\* One turn of the loop; "must" is must_match_at_current_pos, "last" last_token.
Filter(name, filter, must, last, iters) ==
    IF filter = <<>> \/ iters >= MatchIters
    THEN [ok |-> (name = <<>> \/ last = "*") /\ iters # MatchIters, iters |-> iters]
    ELSE LET t == NextToken(filter)
             n == iters + 1
             hit == t.text = <<>> \/ Holds(name, t.text)
             at == IF must THEN Min(Places(name, t.text)) ELSE LastHit(name, t.text)
             left == IF t.text = <<>> THEN name ELSE From(name, at + Len(t.text))
             close == Halves(t.rest, <<"}">>)
         IN  IF ~hit \/ (t.text # <<>> /\ must /\ at > 0) THEN Failed(n)
             ELSE CASE t.token = "?" ->
                         IF left = <<>> THEN Failed(n)
                         ELSE Filter(Tail1(left), t.rest, TRUE, "?", n)
                    [] t.token = "{" /\ Holds(t.rest, <<"}">>) ->
                         AnyOf(left, close[1], close[2], n)
                    [] t.token = "{" /\ ~Holds(t.rest, <<"}">>) ->
                         IF left = <<>> \/ left[1] # "{" THEN Failed(n)
                         ELSE Filter(Tail1(left), t.rest, TRUE, "{", n)
                    [] OTHER -> Filter(left, t.rest, FALSE, t.token, n)

\* The alternatives between braces, up to the first empty one, each followed by
\* the rest of the filter.
AnyOf(name, list, rest, iters) ==
    LET comma == Halves(list, <<",">>) IN
    IF list = <<>> \/ comma[1] = <<>> THEN Failed(iters)
    ELSE LET try == Filter(name, comma[1] \o rest, TRUE, "", iters) IN
         IF try.ok THEN try ELSE AnyOf(name, comma[2], rest, try.iters)

\* Mutant: a text after a "*" that is not the end is looked for at the start only.
PassesFilterAnywhere(name, filter) ==
    \E i \in 0..Len(name) : Filter(From(name, i), filter, TRUE, "", 0).ok

PassesFilter(name, filter) == Filter(name, filter, TRUE, "", 0).ok

\* vsf_access_check_file_visible: hide_file is a filter or a part of the name.
FileVisible(name, hide) == hide = <<>> \/ (~PassesFilter(name, hide) /\ ~Holds(name, hide))

-----------------------------------------------------------------------------
(* The listing.                                                            *)

VARIABLES
    ask,           \* options, filter and tunables of this listing
    present,       \* the nodes that exist
    frames,        \* transfer_dir_internal, one frame for each call
    out,           \* what was written
    lpc            \* what the innermost call does

lvars == <<ask, present, frames, out, lpc>>

Dot == <<".">>
DotDot == <<".", ".">>
Entries(d) == {n \in Nodes : n.dir = d}

Frame(d) ==
    [dir |-> d, unread |-> Entries(d) \cap present, found |-> {}, list |-> <<>>, subdirs |-> <<>>]
Top == frames[Len(frames)]
SetTop(f) == frames' = [frames EXCEPT ![Len(frames)] = f]

LInit ==
    /\ ask \in Asked
    /\ present = Nodes
    /\ frames = <<[dir |-> Root, unread |-> Entries(Root), found |-> {},
                    list |-> <<>>, subdirs |-> <<>>]>>
    /\ out = <<>> /\ lpc = "read"

Has(o) == o \in ask.options
Recursive == Has("R") /\ ask.ls_recurse
DoStat == ask.verbose \/ Has("l") \/ Has("t") \/ Has("F") \/ Recursive

\* The filter that starts with a "." implies -a.
ShowAll == Has("a") \/ (ask.filter # <<>> /\ ask.filter[1] = ".")

\* Names with a leading dot; "." and ".." need -a, the others can be forced.
DotsAllowed(name) ==
    name[1] = "." => ShowAll \/ (ask.force_dot_files /\ name \notin {Dot, DotDot})

\* Which directory entries vsf_ls_populate_dir_list keeps, if lstat finds them.
Keeps(name) ==
    /\ DotsAllowed(name)
    /\ FileVisible(name, ask.hide)
    /\ ask.filter = <<>> \/ PassesFilter(name, ask.filter)

\* str_list_add
ListAdd(list, e) == list \cup {e}

\* str_next_dirent, lstat and str_list_add; what is gone is passed over.  The order
\* of the list before it is sorted is left open, as it is by the file system.
ReadEntry ==
    /\ lpc = "read"
    /\ \E e \in Top.unread :
           SetTop([Top EXCEPT
               !.unread = @ \ {e},
               !.found = IF Keeps(e.name) /\ (DoStat => e \in present) THEN ListAdd(@, e) ELSE @])
    /\ UNCHANGED <<ask, present, out, lpc>>

\* sort_compare_common: by name, or by age with -t, where -r means the opposite.
\* The list of the subdirectories has no key of its own without -t.
Before(m, n) ==
    LET reverse == Has("r") # Has("t")
        less(x, y) == IF Has("t") THEN x.mtime < y.mtime ELSE Less(Order, x.name, y.name)
    IN  IF reverse THEN less(n, m) ELSE less(m, n)

\* str_list_sort: nothing comes before something it should follow.
Sorted(s) == \A i, j \in DOMAIN s : i < j => ~Before(s[j], s[i])
SortedLists(nodes) == {s \in SetToSeqs(nodes) : Sorted(s)}

\* The end of the directory: both lists are sorted, the name of the directory is
\* written with -R.
EndOfDir ==
    /\ lpc = "read" /\ Top.unread = {}
    /\ LET dirs == {n \in Top.found : Recursive /\ n.kind = "dir"} IN
       \E l \in SortedLists(Top.found), d \in SortedLists(dirs) :
           SetTop([Top EXCEPT !.found = {}, !.list = l, !.subdirs = d])
    /\ out' = IF Recursive THEN Append(out, [header |-> Top.dir]) ELSE out
    /\ lpc' = "write"
    /\ UNCHANGED <<ask, present>>

\* build_dir_line, or the name alone for NLST: a line that shows the node.
DirLine(n) == [line |-> n, dir |-> n.dir]

\* write_dir_list: as many lines as the buffer holds, at least one.
SumTo(s, k) == FoldLeft(LAMBDA x, n : x + Len(n.name), 0, UpTo(s, k))
ChunkLen(s) ==
    Min({k \in DOMAIN s : k = Len(s) \/ SumTo(s, k + 1) > DirBufsize})

WriteList ==
    /\ lpc = "write" /\ Top.list # <<>>
    /\ LET k == ChunkLen(Top.list) IN
           /\ out' = out \o [i \in 1..k |-> DirLine(Top.list[i])]
           /\ SetTop([Top EXCEPT !.list = From(@, k)])
    /\ UNCHANGED <<ask, present, lpc>>

ListWritten ==
    /\ lpc = "write" /\ Top.list = <<>>
    /\ lpc' = "recurse"
    /\ UNCHANGED <<ask, present, frames, out>>

\* The next subdirectory: "." and ".." and what cannot be opened are passed over.
Recurse ==
    /\ lpc = "recurse" /\ Top.subdirs # <<>>
    /\ LET d == Head(Top.subdirs)
           rest == [Top EXCEPT !.subdirs = Tail(@)]
       IN  IF d.name \in {Dot, DotDot} \/ d \notin present
           THEN SetTop(rest) /\ UNCHANGED lpc
           ELSE /\ frames' = [frames EXCEPT ![Len(frames)] = rest] \o <<Frame(d.id)>>
                /\ lpc' = "read"
    /\ UNCHANGED <<ask, present, out>>

\* transfer_dir_internal returns.
Return ==
    /\ lpc = "recurse" /\ Top.subdirs = <<>>
    /\ frames' = Front(frames)
    /\ lpc' = IF Len(frames) = 1 THEN "done" ELSE lpc
    /\ UNCHANGED <<ask, present, out>>

\* A write fails: every call on the way returns -1.
WriteFails ==
    /\ lpc = "write"
    /\ lpc' = "failed" /\ frames' = <<>>
    /\ UNCHANGED <<ask, present, out>>

\* Another session removes a file or an empty directory.
Vanish ==
    /\ lpc \notin {"done", "failed"}
    /\ \E n \in present :
           /\ n.name \notin {Dot, DotDot}
           /\ n.kind = "dir" => ~\E c \in Entries(n.id) \cap present : c.name \notin {Dot, DotDot}
           /\ present' = present \ {n}
    /\ UNCHANGED <<ask, frames, out, lpc>>

Listed == lpc \in {"done", "failed"} /\ UNCHANGED lvars

LNext ==
    \/ ReadEntry \/ EndOfDir \/ WriteList \/ ListWritten \/ Recurse \/ Return
    \/ WriteFails \/ Vanish \/ Listed

-----------------------------------------------------------------------------
(* What a filter means: "?" is one character, "*" any number of them, and  *)
(* {x,y} either of x and y.                                                *)

RECURSIVE Matches(_, _)
Matches(name, filter) ==
    IF filter = <<>> THEN name = <<>>
    ELSE LET rest == Tail1(filter) close == Halves(rest, <<"}">>) IN
         CASE filter[1] = "*" -> \E i \in 0..Len(name) : Matches(From(name, i), rest)
           [] filter[1] = "?" -> name # <<>> /\ Matches(Tail1(name), rest)
           [] filter[1] = "{" /\ Holds(rest, <<"}">>) ->
                \E i, j \in 0..Len(close[1]) :
                    /\ i <= j
                    /\ i = 0 \/ close[1][i] = ","
                    /\ j = Len(close[1]) \/ close[1][j + 1] = ","
                    /\ Matches(name, SubSeq(close[1], i + 1, j) \o close[2])
           [] OTHER -> name # <<>> /\ name[1] = filter[1] /\ Matches(Tail1(name), rest)

\* Filters that the greedy matching decides exactly: nothing special after a "*",
\* no empty alternative, and short enough for the limit of iterations.
Plain(filter) ==
    /\ \A i, j \in DOMAIN filter : filter[i] = "*" /\ i < j => filter[j] \notin Stars
    /\ ~Holds(filter, <<"{", ",">>) /\ ~Holds(filter, <<",", ",">>)
    /\ ~Holds(filter, <<",", "}">>) /\ ~Holds(filter, <<"{", "}">>)
    /\ Cardinality({i \in DOMAIN filter : filter[i] \in Stars}) < MatchIters - 1

Wanted(name) ==
    /\ DotsAllowed(name)
    /\ ask.filter = <<>> \/ Matches(name, ask.filter)

\* The lines that stand after the header of directory d.
LinesOf(d) == SelectSeq(out, LAMBDA l : "line" \in DOMAIN l /\ l.dir = d)

Headers == {i \in DOMAIN out : "header" \in DOMAIN out[i]}
Shown == {out[i].line : i \in DOMAIN out \ Headers}

\* A listing that ends well shows every directory it names once and in order: only
\* names the filter matches, each of them once, none that hide_file hides, nothing
\* lost where a buffer was full; and of what nobody removed meanwhile everything a
\* plain filter matches.  The recursion visits exactly the directories it showed
\* and could open, and comes to an end.
ListingShowsWhatMatches ==
    lpc = "done" =>
        /\ \A d \in {Root} \cup {n.dir : n \in Shown} :
               LET shown == [i \in DOMAIN LinesOf(d) |-> LinesOf(d)[i].line] IN
               /\ Sorted(shown) /\ IsInjective(shown)
               /\ \A i \in DOMAIN shown :
                      /\ Wanted(shown[i].name)
                      /\ ask.hide # <<>> => ~Holds(shown[i].name, ask.hide)
               /\ Plain(ask.filter) =>
                      \A n \in Entries(d) \cap present :
                          Wanted(n.name) /\ FileVisible(n.name, ask.hide)
                              => \E i \in DOMAIN shown : shown[i] = n
        /\ \A i, j \in Headers : out[i].header = out[j].header => i = j
        /\ \A n \in Shown \cap present :
               Recursive /\ n.kind = "dir" /\ n.name \notin {Dot, DotDot}
                   => \E i \in Headers : out[i].header = n.id
=============================================================================
