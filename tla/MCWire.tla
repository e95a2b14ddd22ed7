------------------------------- MODULE MCWire -------------------------------
(***************************************************************************)
(* Model-checking instance of what is on the server's wires: the commands  *)
(* and the replies of a session, and the bytes of a transfer.  The two     *)
(* share no state: a behaviour is about one of them.                       *)
(***************************************************************************)
EXTENDS Commands, Transfer

VARIABLE job

vars == <<job, cmdvars, tvars>>

Some(S) == CHOOSE x \in S : TRUE

Init ==
    /\ job \in {"commands", "transfer"}
    /\ CmdInit /\ TInit
    /\ job # "commands" => me = Some(Sides)
    /\ job # "transfer" => way.whole = <<>> /\ way.is_recv /\ ~way.is_ascii

Next ==
    \/ job = "commands" /\ CmdNext /\ UNCHANGED <<job, tvars>>
    \/ job = "transfer" /\ TNext /\ UNCHANGED <<job, cmdvars>>

Spec == Init /\ [][Next]_vars

-----------------------------------------------------------------------------
MCLf(s) == s \o <<"\n">>
MCConf ==
    [cmds_allowed |-> <<>>, cmds_denied |-> <<>>, write_enable |-> TRUE, anon_upload_enable |-> FALSE,
     anon_mkdir_write_enable |-> FALSE, anon_other_write_enable |-> FALSE, pasv_enable |-> TRUE,
     port_enable |-> TRUE, download_enable |-> TRUE, dirlist_enable |-> TRUE, ssl_enable |-> TRUE,
     chmod_enable |-> TRUE, mdtm_write |-> TRUE, dirmessage_enable |-> TRUE, port_promiscuous |-> FALSE]
MCSide(family, raw, anon, conf) ==
    [family |-> family, remote |-> [family |-> family, raw |-> raw], is_anonymous |-> anon, conf |-> conf]
MCTied == [MCConf EXCEPT !.cmds_denied = <<"TYPE", "PWD">>, !.pasv_enable = FALSE, !.write_enable = FALSE,
                         !.dirlist_enable = FALSE, !.ssl_enable = FALSE, !.dirmessage_enable = FALSE]
MCFew == [MCConf EXCEPT !.cmds_allowed = <<"PORT", "EPRT", "", "NOOP">>, !.port_promiscuous = TRUE]
MCSides ==
    {MCSide("v4", <<"four", "c">>, TRUE, MCConf), MCSide("v6", <<"six", "c">>, FALSE, MCConf),
     MCSide("v6", <<"mapped", "c">>, FALSE, MCTied), MCSide("v4", <<"four", "c">>, FALSE, MCFew)}
MCHome == <<"/">>
MCOdd == <<"/", "\n", "quote", "IAC">>
MCDirs == (<<"..">> :> MCHome) @@ (<<"\n">> :> MCOdd)
MCMessages == (MCHome :> <<"a", "\n", "\n", "226", " ">>) @@ (MCOdd :> <<>>)
MCHostPorts ==
    (<<"c", "2000">> :> [ip |-> "c", port |-> 2000]) @@ (<<"c", "80">> :> [ip |-> "c", port |-> 80])
    @@ (<<"x", "2000">> :> [ip |-> "x", port |-> 2000])
MCEprt(proto, form, host, port) == <<"EPRT", " ", "|", proto, "|", form, host, "|", port, "|">>
MCWords ==
    {<<c>> : c \in {"PWD", "CDUP", "PASV", "P@SW", "EPSV", "RETR", "LIST", "HELP", "FEAT", "STAT",
                    "MKD", "NOOP", "IAC-ABOR", "QUIT", "other"}}
    \cup {<<"CWD", " ", "NUL", "\r">>, <<"CWD", " ", "x">>, <<"EPSV", " ", "all">>,
          <<"EPSV", " ", "2">>, <<"PORT", " ", "c", "2000">>, <<"PORT", " ", "c", "80">>,
          <<"PORT", " ", "x", "2000">>, <<"type", " ", "i", "\r", "\r">>, <<"TYPE", " ", "A">>,
          <<"SITE", " ", "umask", " ", "022">>, <<"SITE", " ", "UMASK">>,
          <<"SITE", " ", "CHMOD">>, <<"SITE", " ", "VERS", " ", "p">>,
          <<"SITE", " ", "UINS">>, <<"SITE", " ", "UINS", " ", "p", " ", "v">>, <<"SITE">>,
          <<"MDTM", " ", "date", " ", "f">>,
          <<"MDTM", " ", "f">>, <<"STRU", " ", "F">>, <<"MODE", " ", "x">>, <<"STAT", " ", "f">>,
          <<"OPTS", " ", "UTF8", " ", "ON">>, <<"USER", " ", "user">>, <<"\r">>, <<>>, <<" ">>, <<" ", "x">>,
          <<"EPRT", " ", "x">>, MCEprt("1", "four", "c", "2000"), MCEprt("1", "four", "x", "2000"),
          MCEprt("1", "four", "c", "70000"), MCEprt("2", "six", "c", "2000"),
          MCEprt("2", "mapped", "c", "2000"), MCEprt("2", "four", "c", "2000"),
          MCEprt("3", "six", "c", "2000"), MCEprt("1", "six", "c", "2000")}
\* Whole lines, two at once, a line without its end, and one that is too long.
MCClientLines ==
    {MCLf(w) : w \in MCWords}
    \cup {<<"NO">>, <<"TYPE", " ", "A", "\n", "PWD", "\n">>,
          MCLf([i \in 1..MaxLine - 1 |-> "a"]), MCLf([i \in 1..MaxLine |-> "a"])}
\* Reading looks at line ends and lengths only.
MCTorn ==
    {MCLf(w) : w \in {<<"PWD">>, <<"\r">>, <<>>, <<"CWD", " ", "NUL", "\r">>, <<"SITE", " ", "UMASK">>}}
    \cup {<<"NO">>, <<"TYPE", " ", "A", "\n", "PWD", "\n">>,
          MCLf([i \in 1..MaxLine - 1 |-> "a"]), MCLf([i \in 1..MaxLine |-> "a"])}

MCStreams == BoundedSeq({"a", "\r", "\n"}, 3) \cup {<<"\r", "\n", "\r", "\n">>, <<"\r", "\r", "\n", "a">>}
=============================================================================
