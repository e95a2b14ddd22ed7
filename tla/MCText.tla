------------------------------- MODULE MCText -------------------------------
(***************************************************************************)
(* The server's listener, and its libraries of strings, tables, listings,  *)
(* addresses and settings.  They share no state: a behaviour exercises one *)
(* of them.  For the listener, config files with and without limits and    *)
(* more process ids than the limits allow.                                 *)
(***************************************************************************)
EXTENDS Standalone, Buffers, Hash, Listing, Metadata, ParseConf, TLC

VARIABLE job       \* the part this behaviour is about

vars == <<job, listenervars, bvars, hvars, lvars, parsed, cvars, mvars>>

Some(S) == CHOOSE x \in S : TRUE

Init ==
    /\ job \in {"listener", "strings", "hash", "listing", "address", "configuration", "metadata"}
    /\ job # "listener" => tunables = Some(Configs)
    /\ ListenerInit
    /\ BInit /\ HInit
    /\ job # "listing" => ask = Some(Asked)
    /\ LInit
    /\ job # "address" =>
           parsed = [text |-> Some(AddrTexts), kind |-> "address", result |-> Pending]
    /\ AInit
    /\ job # "configuration" =>
           /\ disk = [n \in FileNames |-> Some(Contents)]
           /\ argv = Some(CommandLines)
    /\ CInit
    /\ job # "metadata" =>
           /\ zone = Some(Zones) /\ use_localtime = FALSE
           /\ inode = Some(Inodes)
    /\ MInit

Listening(A) == job = "listener" /\ A /\ UNCHANGED <<job, bvars, hvars, lvars, parsed, cvars, mvars>>

Next ==
    \/ Listening(ListenerNext)
    \/ job = "strings" /\ BNext /\ UNCHANGED <<job, listenervars, hvars, lvars, parsed, cvars, mvars>>
    \/ job = "hash" /\ HNext /\ UNCHANGED <<job, listenervars, bvars, lvars, parsed, cvars, mvars>>
    \/ job = "listing" /\ LNext /\ UNCHANGED <<job, listenervars, bvars, hvars, parsed, cvars, mvars>>
    \/ job = "address" /\ Parse /\ UNCHANGED <<job, listenervars, bvars, hvars, lvars, cvars, mvars>>
    \/ job = "configuration" /\ CNext /\ UNCHANGED <<job, listenervars, bvars, hvars, lvars, parsed, mvars>>
    \/ job = "metadata" /\ MNext /\ UNCHANGED <<job, listenervars, bvars, hvars, lvars, parsed, cvars>>

\* The fairness of the listener.
Spec ==
    /\ Init /\ [][Next]_vars
    /\ WF_vars(Listening(ListenerStep)) /\ WF_vars(Listening(AlarmFires))

-----------------------------------------------------------------------------
MCConfigs == {<<1, 2>>, <<0, 1>>}

MCTexts == {<<>>, <<"a">>, <<"b", "\n">>, <<"a", "b", "a">>}

MCHashFunc == [k \in Keys |-> IF k = "k4" THEN 1 ELSE 0]

MCNode(id, dir, name, kind, mtime) ==
    [id |-> id, dir |-> dir, name |-> name, kind |-> kind, mtime |-> mtime]
MCNodes ==
    {MCNode("r1", "r", <<".">>, "dir", 3), MCNode("r2", "r", <<".", ".">>, "dir", 1),
     MCNode("h", "r", <<".", "a">>, "file", 2),
     MCNode("f", "r", <<"a", "b", "a">>, "file", 2), MCNode("d", "r", <<"b">>, "dir", 1),
     MCNode("d1", "d", <<".">>, "dir", 1), MCNode("g", "d", <<"a", "{">>, "file", 1)}
MCOrder == [c \in {".", "a", "b", "{"} |->
    CASE c = "." -> 1 [] c = "a" -> 2 [] c = "b" -> 3 [] OTHER -> 4]
MCAsk(options, filter, hide, verbose, dots) ==
    [options |-> options, filter |-> filter, hide |-> hide, verbose |-> verbose,
     force_dot_files |-> dots, ls_recurse |-> TRUE]
MCOptions ==
    {{}, {"a"}, {"r"}, {"t"}, {"r", "t"}, {"F"}, {"R"}, {"a", "R", "r"}, {"l", "R", "t"}}
MCFilters ==
    BoundedSeq({"a", "b", "*", "?"}, 3)
    \cup {<<"{", "b", ",", "a", "}", "*">>, <<"a", "{">>, <<".", "*">>, <<"{", ",", "b", "}">>,
          <<"?", "?", "?", "?">>, <<"*", "a", "*", "b", "*">>, <<"a", "{", "b", "a", ",", "{", "}">>}
MCAsked ==
    {MCAsk(o, <<>>, h, FALSE, dots) : o \in MCOptions, h \in {<<>>, <<"b">>}, dots \in BOOLEAN}
    \cup {MCAsk({}, f, <<>>, TRUE, FALSE) : f \in MCFilters}
    \cup {MCAsk({"R"}, f, <<>>, FALSE, FALSE) : f \in {<<"*">>, <<"?", "*">>, <<"b">>}}

Concat(pieces) == FoldLeft(LAMBDA s, p : s \o p, <<>>, pieces)
MCAddrTexts ==
    {Concat(p) : p \in BoundedSeq({<<":">>, <<"1">>, <<"f", "0", "F">>, <<"1", "0", "0", "0", "0">>,
                                   <<"0", ".", "2", "5", "5", ".", "1", ".", "9">>}, 5)}
MCListTexts ==
    {Concat(p) : p \in BoundedSeq({<<",">>, <<"0">>, <<"9">>, <<"2", "5", "5">>, <<"-">>}, 4)}

MCZones == {-4, 2}
MCInode(mode) == [kind |-> "REG", mtime |-> 0, bits |-> Bits(mode)]
MCInodes == {MCInode(((5 * 8 + 7) * 8 + 0) * 8 + 4)}
MCStampTexts ==
    {<<"2">>, <<"2", "1">>, <<"2", "1", "2">>, <<"1", "0", "0", ".", "5">>, <<"1", "2", "5">>,
     <<"1", "0", "1", ".">>, <<"a", "1", "2">>, <<"5", "f", "1">>}
MCModeTexts == {<<"7", "5", "5">>, <<"0", "2">>, <<"5", "7", "2", "7", "0">>, <<"2", "9", "7">>, <<"a">>}
MCSizeTexts ==
    {<<>>, <<"0", "9">>, <<"2", "5", "9">>, <<"-", "5">>, <<"5", "0", "0", "0", "1">>,
     <<"1", "0", "0", "0", "0", "0">>, <<"7", "a">>}

MCFile(text, mine) == [exists |-> TRUE, regular |-> TRUE, mine |-> mine, text |-> text]
MCContents ==
    {MCFile(<<>>, TRUE),
     MCFile(<<"max_clients", "=", "1", "7", "\n", "#", "max_clients", "=", "1", "\n", "\n",
              "listen", "=", "yes", "\n">>, TRUE),
     MCFile(<<" ", "file_open_mode", "=", "0", "7", "1", "\n", "listen", "=", "YES", " ", "\n",
              "banner", "=", " ", "hello", " ">>, TRUE),
     MCFile(<<"banner", "=", "\n", "max_clients", "=", "8", "\n", "max_clients", "=", "\n",
              "unknown", "=", "1", "\n", "listen", "=", "0">>, TRUE),
     MCFile(<<"banner", "=", " ", "\n", "file_open_mode", "=", " ", "1", "\n",
              "max_clients", "=", "1", "8", "8">>, TRUE),
     MCFile(<<"listen", "=", "no">>, FALSE),
     [exists |-> FALSE, regular |-> TRUE, mine |-> TRUE, text |-> <<>>],
     [exists |-> TRUE, regular |-> FALSE, mine |-> TRUE, text |-> <<>>]}
MCArg(n) == [kind |-> "file", name |-> n]
MCOpt(l) == [kind |-> "option", line |-> l]
MCCommandLines ==
    {<<>>, <<MCArg("a")>>, <<MCArg("a"), MCOpt(<<"listen", "=", "true">>), MCArg("b")>>,
     <<MCOpt(<<"max_clients", "=", "7">>)>>}
MCDefaults ==
    [banner |-> NullText, listen |-> 0, max_clients |-> 2000, file_open_mode |-> 438]
=============================================================================
