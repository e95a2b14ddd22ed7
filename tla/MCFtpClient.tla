----------------------------- MODULE MCFtpClient -----------------------------
(***************************************************************************)
(* Model-checking instance of the client's threads: the calls of the FTP   *)
(* client, the reader of its command channel, the bootloader and the       *)
(* installation of a pack.  They share no state: a behaviour is about one. *)
(***************************************************************************)
EXTENDS FtpClient, Reader, Bootloader, Install

VARIABLE job

MCvars == <<job, vars, rvars, bvars, ivars>>

MCInit ==
    /\ job \in {"calls", "reader", "boot", "install"}
    /\ Init /\ RInit /\ BInit /\ IInit
    /\ job # "calls" => passive
    /\ job # "reader" => sent = <<>> /\ ends = "open"

Ftp(A) == job = "calls" /\ A /\ UNCHANGED <<job, rvars, bvars, ivars>>
Chars(A) == job = "reader" /\ A /\ UNCHANGED <<job, vars, bvars, ivars>>
Booting(A) == job = "boot" /\ A /\ UNCHANGED <<job, vars, rvars, ivars>>
Installing(A) == job = "install" /\ A /\ UNCHANGED <<job, vars, rvars, bvars>>

MCNext == Ftp(Next) \/ Chars(RNext) \/ Booting(BNext) \/ Installing(INext)

\* Java threads are scheduled; the reader's thread blocks only when nothing comes,
\* and the HTTP connections of the bootloader have timeouts.
MCSpec ==
    /\ MCInit /\ [][MCNext]_MCvars
    /\ WF_MCvars(Ftp(CommandThread)) /\ WF_MCvars(Ftp(Server))
    /\ \A i \in Ids : WF_MCvars(Ftp(DataThread(i))) /\ WF_MCvars(Ftp(WaitThread(i)))
    /\ WF_MCvars(Chars(ThreadSteps)) /\ WF_MCvars(Chars(CallerSteps))
    /\ WF_MCvars(Booting(BootSteps)) /\ WF_MCvars(Booting(EdtNotifies))

MCPackContent == <<"mods", "config">>
MCAddonEntries == [a |-> <<"a1", "a2">>, b |-> <<"b1">>]

MCReplies == {<<>>, <<1>>, <<1, 2, 3>>}
==============================================================================
