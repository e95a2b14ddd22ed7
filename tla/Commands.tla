------------------------------ MODULE Commands ------------------------------
(***************************************************************************)
(* The control connection of a logged-in session: bytes become lines       *)
(* (netstr.c, ftpcmdio.c), lines become commands, process_post_login        *)
(* decides which handler gets them, and the handlers answer in lines again. *)
(* Here are the handlers that work on the session itself; of those that     *)
(* move files only the replies and the data address count.                 *)
(*                                                                         *)
(* A character is a token; some tokens stand for whole words.  The wording  *)
(* of replies is left out where it carries nothing.                        *)
(***************************************************************************)
EXTENDS Strings

CONSTANTS
    ClientLines,   \* what the client may send at once: a line, or a piece of one
    Torn,          \* bound: which of these may arrive in pieces
    MaxLines,      \* bound: how often it sends
    MaxLine,       \* VSFTP_MAX_COMMAND_LINE
    MaxVisit,      \* VSFTP_MAX_VISIT_REMEMBER
    Sides,         \* local family, remote address, is_anonymous and the tunables
    Home,          \* the directory of the login
    Dirs,          \* the directories CWD finds: argument -> path
    Messages,      \* path -> the text of its message_file
    HostPorts      \* the arguments PORT can parse -> address and port

\* The two ends of a socket have addresses of one family; PORT puts two bytes together.
ASSUME AddressAssumption ==
    /\ \A s \in Sides : s.family \in {"v4", "v6"} /\ s.remote.family = s.family
    /\ \A a \in DOMAIN HostPorts : HostPorts[a].port \in Nat

VARIABLES
    me,            \* the client and the tunables
    given,         \* history: what the client has sent
    wire,          \* bytes on their way
    sock,          \* bytes that have arrived
    line,          \* what str_netfd_alloc has read of the line so far
    set,           \* what the session remembers
    told,          \* bytes of the replies
    done,          \* history: the commands that were carried out
    alive

cmdvars == <<me, given, wire, sock, line, set, told, done, alive>>

NoPort == [family |-> "none", raw |-> <<>>, port |-> 0]
Known ==
    {"QUIT", "PWD", "XPWD", "CWD", "XCWD", "CDUP", "XCUP", "PASV", "P@SW", "EPSV", "RETR", "NOOP",
     "SYST", "HELP", "LIST", "TYPE", "PORT", "STOR", "MKD", "XMKD", "RMD", "XRMD", "DELE", "REST",
     "RNFR", "RNTO", "NLST", "SIZE", "SITE", "ABOR", "APPE", "MDTM", "EPRT", "STRU", "MODE",
     "STOU", "ALLO", "REIN", "ACCT", "SMNT", "FEAT", "OPTS", "STAT", "PBSZ", "PROT", "USER", "PASS",
     "IAC-ABOR"}      \* the last one with the telnet characters in front
UnknownWhenOff == {"P@SW"}
\* The commands whose reply is all there is to see here, as they succeed.
Status == [c \in {"NOOP", "PBSZ", "PROT", "ALLO", "SIZE", "SYST", "QUIT", "ABOR", "IAC-ABOR", "PASS",
                  "RMD", "XRMD", "DELE", "RNTO", "MKD", "XMKD", "REST", "RNFR", "REIN", "ACCT", "SMNT"} |->
    CASE c \in {"NOOP", "PBSZ", "PROT"} -> "200" [] c = "ALLO" -> "202" [] c = "SIZE" -> "213"
      [] c = "SYST" -> "215" [] c = "QUIT" -> "221" [] c \in {"ABOR", "IAC-ABOR"} -> "225"
      [] c = "PASS" -> "230" [] c \in {"RMD", "XRMD", "DELE", "RNTO"} -> "250"
      [] c \in {"MKD", "XMKD"} -> "257" [] c \in {"REST", "RNFR"} -> "350" [] OTHER -> "502"]
MayFail == {"PBSZ", "PROT", "SIZE", "RMD", "XRMD", "DELE", "RNTO", "MKD", "XMKD", "RNFR"}
Upper == [c \in {"type", "i", "all", "site", "umask"} |->
    CASE c = "type" -> "TYPE" [] c = "i" -> "I" [] c = "all" -> "ALL" [] c = "site" -> "SITE"
      [] OTHER -> "UMASK"]
ToUpper(c) == IF c \in DOMAIN Upper THEN Upper[c] ELSE c
StrUpper(s) == [i \in DOMAIN s |-> ToUpper(s[i])]
Number == [c \in {"1", "2", "3", "80", "2000", "70000", "022"} |->
    CASE c = "1" -> 1 [] c = "2" -> 2 [] c = "3" -> 3 [] c = "80" -> 80 [] c = "2000" -> 2000
      [] c = "022" -> 22 [] OTHER -> 70000]
Atoi(s) == IF s # <<>> /\ s[1] \in DOMAIN Number THEN Number[s[1]] ELSE 0

-----------------------------------------------------------------------------
(* Replies.                                                                *)

\* ftp_write_str_common: telnet characters are doubled, "\n" becomes "NUL".
WriteStrCommon(status, sep, text) ==
    <<status, sep>> \o MapChars(Replaced(text, <<"IAC">>, <<"IAC", "IAC">>), {"\n"}, "NUL")
        \o <<"\r", "\n">>

Say(status, text) == WriteStrCommon(status, " ", text)
Hyphen(status, text) == WriteStrCommon(status, "-", text)
\* vsf_cmdio_write_raw, always of whole lines in the end.
Raw(text) == <<" ">> \o text \o <<"\r", "\n">>
\* vsf_banner_write
BannerWrite(text, status) == FlattenSeq([i \in DOMAIN Lines(text) |-> Hyphen(status, Lines(text)[i])])

\* What a handler leaves behind and what it says.
Leaves(s, text) == [set |-> s, told |-> text]
Answer(status) == Leaves(set, Say(status, <<>>))

-----------------------------------------------------------------------------
(* Directories.                                                            *)

\* vsf_banner_dir_changed: the message of a directory, the first time; only so
\* many directories are remembered.
BannerDirChanged(s, status) ==
    IF ~me.conf.dirmessage_enable \/ s.cwd \in s.visited THEN Leaves(s, <<>>)
    ELSE Leaves([s EXCEPT !.visited = IF Cardinality(@) < MaxVisit THEN @ \cup {s.cwd} ELSE @],
                BannerWrite(Messages[s.cwd], status))

\* handle_cwd and handle_cdup
HandleCwd(arg) ==
    IF arg \notin DOMAIN Dirs THEN Answer("550")
    ELSE LET changed == BannerDirChanged([set EXCEPT !.cwd = Dirs[arg]], "250")
         IN  Leaves(changed.set, changed.told \o Say("250", <<>>))

\* handle_pwd: quotes in the path are doubled.
HandlePwd ==
    Leaves(set, Say("257", <<"quote">> \o Replaced(set.cwd, <<"quote">>, <<"quote", "quote">>)
                           \o <<"quote">>))

-----------------------------------------------------------------------------
(* Data addresses: sysutil.c, handle_pasv, handle_port and handle_eprt.    *)

\* vsf_sysutil_sockaddr_ipv6_v4
Ipv6V4(a) == IF a.family = "v6" /\ a.raw[1] = "mapped" THEN a.raw[2] ELSE ""

\* vsf_sysutil_sockaddr_addr_equal
AddrEqual(p1, p2) ==
    CASE p1.family = p2.family -> p1.raw = p2.raw
      [] p1.family = "v4" /\ p2.family = "v6" -> Ipv6V4(p2) = p1.raw[2]
      [] p1.family = "v6" /\ p2.family = "v4" -> Ipv6V4(p1) = p2.raw[2]
      [] OTHER -> FALSE

\* vsf_sysutil_sockaddr_clone of the local address, and set_ipv4addr.
SetIpv4Addr(ip) ==
    [family |-> me.family, raw |-> IF me.family = "v4" THEN <<"four", ip>> ELSE <<"mapped", ip>>]

IsPort(p) == p \in 0..65535
IsPortReserved(p) == p < 1024

\* Mutant: the port alone is looked at.
PortPermittedAnywhere(addr, p) == me.conf.port_promiscuous \/ ~IsPortReserved(p)

\* The checks behind both commands.
PortPermitted(addr, p) ==
    me.conf.port_promiscuous \/ (AddrEqual(me.remote, addr) /\ ~IsPortReserved(p))

Cleaned == [set EXCEPT !.port = NoPort, !.pasv = FALSE]     \* port_cleanup and pasv_cleanup
\* Refused commands have cleaned up all the same.
TakePort(addr, p) ==
    IF PortPermitted(addr, p)
    THEN Leaves([Cleaned EXCEPT !.port = [family |-> addr.family, raw |-> addr.raw, port |-> p]],
                Say("200", <<>>))
    ELSE Leaves(Cleaned, Say("500", <<>>))

HandlePort(arg) ==
    IF arg \notin DOMAIN HostPorts THEN Leaves(Cleaned, Say("500", <<>>))
    ELSE TakePort(SetIpv4Addr(HostPorts[arg].ip), HostPorts[arg].port)

\* handle_eprt: |proto|address|port|.  An address is a form and a host here; a dotted
\* one taken for IPv6 has fewer bytes than are used.
HandleEprt(arg) ==
    LET first == Halves(arg, <<"|">>)
        second == Halves(first[2], <<"|">>)
        third == Halves(second[2], <<"|">>)
        fourth == Halves(third[2], <<"|">>)
        proto == Atoi(second[1])
        port == Atoi(fourth[1])
        text == IF proto = 2 THEN Halves(third[1], <<"%">>)[1] ELSE third[1]
        parsed == Len(text) = 2 /\ text[1] \in IF proto = 2 THEN {"six", "mapped", "four"} ELSE {"four"}
    IN  IF first[1] # <<>> \/ proto \notin 1..2 \/ (proto = 2 /\ me.family = "v4")
           \/ ~parsed \/ fourth[2] # <<>> \/ fourth[1] = <<>> \/ ~IsPort(port)
        THEN Leaves(Cleaned, Say("500", <<>>))
        ELSE TakePort(IF proto = 1 THEN SetIpv4Addr(text[2])
                      ELSE [family |-> "v6", raw |-> IF text[1] = "four" THEN <<"stale", text[2]>> ELSE text],
                      port)

\* handle_pasv
HandlePasv(is_epsv, arg) ==
    LET proto == Atoi(arg)
    IN  CASE is_epsv /\ StrUpper(arg) = <<"ALL">> -> Leaves([set EXCEPT !.epsv_all = TRUE], Say("200", <<>>))
          [] is_epsv /\ arg # <<>> /\ StrUpper(arg) # <<"ALL">>
             /\ (proto \notin 1..2 \/ (me.family = "v4" /\ proto = 2)) -> Answer("522")
          [] OTHER -> Leaves([Cleaned EXCEPT !.pasv = TRUE], Say(IF is_epsv THEN "229" ELSE "227", <<>>))

-----------------------------------------------------------------------------
(* The other handlers.                                                     *)

\* RETR, STOR, STOU, APPE, LIST and NLST (postlogin.c, in full in Session and
\* Files): without a data address one reply, else what happens may fail before the
\* data connection is there, or after.
HandleTransfer(luck) ==
    CASE ~set.pasv /\ set.port = NoPort -> Answer("425")
      [] (set.pasv \/ set.port # NoPort) /\ luck = "fails" -> Answer("550")
      [] (set.pasv \/ set.port # NoPort) /\ luck = "unreachable" -> Leaves(Cleaned, Say("425", <<>>))
      [] OTHER -> Leaves(Cleaned, Say("150", <<>>) \o Say(IF luck = "ok" THEN "226" ELSE "426", <<>>))

HandleType(arg) ==
    CASE StrUpper(arg) \in {<<"I">>, <<"L8">>, <<"L", " ", "8">>} -> Leaves([set EXCEPT !.is_ascii = FALSE], Say("200", <<>>))
      [] StrUpper(arg) \in {<<"A">>, <<"A", " ", "N">>} -> Leaves([set EXCEPT !.is_ascii = TRUE], Say("200", <<>>))
      [] OTHER -> Answer("500")

\* handle_site_uins.  That its data connection comes about is a condition here: the
\* session dies of a bug() otherwise, which Session has.
HandleSiteUins(arg, luck) ==
    IF arg = <<>> \/ Holds(arg, <<"/">>) \/ Halves(arg, <<" ">>)[2] = <<>> THEN Answer("500")
    ELSE HandleTransfer(IF luck = "unreachable" THEN "ok" ELSE luck)

\* handle_site and handle_site_umask
HandleSite(arg, luck) ==
    LET halves == Halves(arg, <<" ">>)
        what == StrUpper(halves[1])
        rest == halves[2]
    IN  CASE what = <<"UMASK">> ->
               LET mask == IF rest = <<>> THEN set.umask ELSE Atoi(rest)
               IN  Leaves([set EXCEPT !.umask = mask], Say("200", <<>>))
          [] what = <<"CHMOD">> /\ me.conf.write_enable /\ me.conf.chmod_enable ->
               Answer(IF luck = "ok" THEN "200" ELSE "550")
          [] what = <<"VERS">> ->      \* handle_site_vers
               Answer(IF rest = <<>> \/ Holds(rest, <<"/">>) THEN "500"
                      ELSE IF luck = "ok" THEN "216" ELSE "550")
          [] what = <<"UINS">> -> HandleSiteUins(rest, luck)
          [] what = <<"HELP">> -> Answer("214")
          [] OTHER -> Answer("500")

\* handle_help, handle_feat and handle_stat: a block of lines.
HandleHelp == Leaves(set, Hyphen("214", <<>>) \o Raw(<<"commands">>) \o Say("214", <<>>))
HandleFeat ==
    LET Offered(f) == CASE f \in {"AUTH", "PBSZ", "PROT"} -> me.conf.ssl_enable
                        [] f = "EPRT" -> me.conf.port_enable
                        [] f \in {"EPSV", "PASV"} -> me.conf.pasv_enable
                        [] OTHER -> TRUE
        lines == SelectSeq(<<"AUTH", "EPRT", "EPSV", "MDTM", "PASV", "PBSZ", "PROT", "REST", "SIZE", "TVFS",
                             "UTF8">>, Offered)
    IN  Leaves(set, Hyphen("211", <<>>) \o FlattenSeq([i \in DOMAIN lines |-> Raw(<<lines[i]>>)])
                    \o Say("211", <<>>))
HandleStat ==
    Leaves(set, Hyphen("211", <<>>) \o Raw(<<"user">>)
                \o Raw(<<IF set.is_ascii THEN "ASCII" ELSE "BINARY">>) \o Say("211", <<>>))
\* handle_stat_file: a listing over the control connection, of names without "\n".
HandleStatFile(luck) ==
    IF luck = "fails" THEN Answer("550")
    ELSE Leaves(set, Hyphen("213", <<>>) \o (IF luck = "ok" THEN Raw(<<"f">>) ELSE <<>>) \o Say("213", <<>>))

MayWrite == me.conf.write_enable /\ (me.conf.anon_other_write_enable \/ ~me.is_anonymous)

\* handle_mdtm: a date before the name sets the time, unless there is a file called
\* like the whole argument (luck "breaks").
HandleMdtm(arg, luck) ==
    LET dated == Len(arg) > 1 /\ arg[1] = "date" /\ arg[2] = " "
        found == luck = "breaks" \/ (luck = "ok" /\ ~dated)
        do_write == me.conf.mdtm_write /\ dated /\ ~found
    IN  CASE do_write /\ MayWrite /\ luck = "ok" -> Leaves([set EXCEPT !.touched = TRUE], Say("213", <<>>))
          [] ~do_write /\ found -> Answer("213")
          [] OTHER -> Answer("550")

\* handle_opts, STRU, MODE and the logged-in USER
HandleOpts(arg) == Answer(IF StrUpper(arg) = <<"UTF8", " ", "ON">> THEN "200" ELSE "501")
HandleStru(arg, only) == Answer(IF StrUpper(arg) = <<only>> THEN "200" ELSE "504")
HandleLoggedInUser(arg) ==
    Answer(IF me.is_anonymous \/ arg # <<"user">> THEN "530" ELSE "331")

-----------------------------------------------------------------------------
(* process_post_login.                                                     *)

\* cmds_allowed and cmds_denied are read up to the first empty item.
InList(list, cmd) ==
    \E i \in DOMAIN list : list[i] = cmd /\ \A j \in 1..i : list[j] # ""
CmdOk(cmd) ==
    /\ me.conf.cmds_allowed # <<>> => InList(me.conf.cmds_allowed, cmd)
    /\ ~InList(me.conf.cmds_denied, cmd)

\* The conditions in front of the handlers.
Enabled(cmd, arg) ==
    LET c == me.conf
        IfAnon(tunable) == c.write_enable /\ (tunable \/ ~me.is_anonymous)
    IN  CASE cmd \in {"PASV", "P@SW"} -> c.pasv_enable /\ ~set.epsv_all
          [] cmd = "EPSV" -> c.pasv_enable
          [] cmd = "PORT" -> c.port_enable /\ ~set.epsv_all
          [] cmd = "EPRT" -> c.port_enable
          [] cmd = "RETR" -> c.download_enable
          [] cmd \in {"LIST", "NLST"} -> c.dirlist_enable
          [] cmd = "STAT" -> arg = <<>> \/ c.dirlist_enable
          [] cmd \in {"STOR", "STOU"} -> IfAnon(c.anon_upload_enable)
          [] cmd \in {"MKD", "XMKD"} -> IfAnon(c.anon_mkdir_write_enable)
          [] cmd \in {"RMD", "XRMD", "DELE", "RNFR", "RNTO", "APPE"} -> MayWrite
          [] cmd = "SITE" -> ~me.is_anonymous
          [] cmd \in {"PBSZ", "PROT"} -> c.ssl_enable
          [] OTHER -> TRUE

Handle(cmd, arg, luck) ==
    CASE cmd \in {"PWD", "XPWD"} -> HandlePwd
      [] cmd \in {"CWD", "XCWD"} -> HandleCwd(arg)
      [] cmd \in {"CDUP", "XCUP"} -> HandleCwd(<<"..">>)
      [] cmd \in {"PASV", "P@SW"} -> HandlePasv(FALSE, arg)
      [] cmd = "EPSV" -> HandlePasv(TRUE, arg)
      [] cmd \in {"RETR", "STOR", "STOU", "APPE", "LIST", "NLST"} -> HandleTransfer(luck)
      [] cmd = "HELP" -> HandleHelp
      [] cmd = "TYPE" -> HandleType(arg)
      [] cmd = "PORT" -> HandlePort(arg)
      [] cmd = "EPRT" -> HandleEprt(arg)
      [] cmd = "SITE" -> HandleSite(arg, luck)
      [] cmd = "MDTM" -> HandleMdtm(arg, luck)
      [] cmd = "STRU" -> HandleStru(arg, "F")
      [] cmd = "MODE" -> HandleStru(arg, "S")
      [] cmd = "FEAT" -> HandleFeat
      [] cmd = "OPTS" -> HandleOpts(arg)
      [] cmd = "STAT" -> IF arg = <<>> THEN HandleStat ELSE HandleStatFile(luck)
      [] cmd = "USER" -> HandleLoggedInUser(arg)
      [] OTHER -> Answer(IF cmd \in MayFail /\ luck = "fails" THEN "550" ELSE Status[cmd])

\* The end of the chain of conditions.
Dispatch(cmd, arg, luck) ==
    CASE ~CmdOk(cmd) -> Answer("550")
      [] CmdOk(cmd) /\ cmd \in Known /\ Enabled(cmd, arg) -> Handle(cmd, arg, luck)
      [] CmdOk(cmd) /\ cmd \in Known \ UnknownWhenOff /\ ~Enabled(cmd, arg) -> Answer("550")
      [] CmdOk(cmd) /\ cmd = "" /\ arg = <<>> -> Leaves(set, <<>>)
      [] OTHER -> Answer("500")

-----------------------------------------------------------------------------
CmdInit ==
    /\ me \in Sides
    /\ given = <<>> /\ wire = <<>> /\ sock = <<>> /\ line = <<>> /\ done = <<>> /\ alive = TRUE
    /\ LET start == BannerDirChanged([is_ascii |-> FALSE, umask |-> 77, epsv_all |-> FALSE,
                                      port |-> NoPort, pasv |-> FALSE, cwd |-> Home,
                                      visited |-> {}, touched |-> FALSE], "230")
       IN  set = start.set /\ told = start.told \o Say("230", <<>>)

\* Before or after earlier commands are answered.
ClientSends ==
    /\ Len(given) < MaxLines /\ wire = <<>>
    /\ \E l \in ClientLines : given' = Append(given, l) /\ wire' = wire \o l
    /\ UNCHANGED <<me, sock, line, set, told, done, alive>>

\* The network delivers what it likes of what is on its way.
Arrive ==
    /\ wire # <<>>
    /\ \E n \in DOMAIN wire : (Last(given) \in Torn \/ n = Len(wire)) /\ sock' = sock \o UpTo(wire, n) /\ wire' = From(wire, n)
    /\ UNCHANGED <<me, given, line, set, told, done, alive>>

\* vsf_cmdio_write_exit
WriteExit(status) ==
    /\ told' = told \o Say(status, <<>>) /\ alive' = FALSE
    /\ UNCHANGED <<me, given, wire, set, done>>

\* control_getline: "NUL" becomes "\n", every "\r" at the end goes.
ControlLine(s) ==
    LET clean == MapChars(s, {"NUL"}, "\n")
        ink == {i \in DOMAIN clean : clean[i] # "\r"}
    IN  IF ink = {} THEN <<>> ELSE UpTo(clean, Max(ink))

\* vsf_cmdio_get_cmd_and_arg.  A command is a word here; what is none of the known
\* ones is kept as it came.
CmdAndArg(s) ==
    LET halves == IF s = <<" ">> THEN <<s, <<>>>> ELSE Halves(s, <<" ">>)
        word == StrUpper(halves[1])
    IN  [cmd |-> IF word = <<>> THEN "" ELSE IF Len(word) = 1 THEN word[1] ELSE "other",
         arg |-> halves[2]]

Execute(l) ==
    LET c == CmdAndArg(ControlLine(l))
    IN  \E luck \in {"ok", "fails", "unreachable", "breaks"} :
            LET r == Dispatch(c.cmd, c.arg, luck)
                quit == c.cmd = "QUIT" /\ CmdOk("QUIT")
            IN  /\ luck # "ok" => r # Dispatch(c.cmd, c.arg, "ok")
                /\ set' = r.set /\ told' = told \o r.told /\ done' = Append(done, c)
                /\ alive' = ~quit

\* Mutant: all that was peeked is read.
TakenAll(peeked, i) == Len(peeked)
\* How much of what was peeked is read: through the terminator, if it is there.
Taken(peeked, i) == IF i = 0 THEN Len(peeked) ELSE i

\* str_netfd_alloc: one turn of its loop, and the command when a line is complete.
ReadLine ==
    /\ alive /\ sock # <<>> /\ Len(line) < MaxLine
    /\ LET peeked == UpTo(sock, Min({Len(sock), MaxLine - Len(line)}))
           ends == {i \in DOMAIN peeked : peeked[i] = "\n"}
           i == IF ends = {} THEN 0 ELSE Min(ends)
       IN  /\ sock' = From(sock, Taken(peeked, i))
           /\ IF i = 0
              THEN line' = line \o peeked /\ UNCHANGED <<set, told, done, alive>>
              ELSE line' = <<>> /\ Execute(line \o UpTo(peeked, i - 1))
    /\ UNCHANGED <<me, given, wire>>

LineTooLong ==
    /\ alive /\ Len(line) = MaxLine /\ WriteExit("500") /\ line' = <<>> /\ UNCHANGED sock

\* handle_alarm_timeout while nothing comes.
IdleTimeout ==
    /\ alive /\ sock = <<>> /\ Len(line) < MaxLine
    /\ WriteExit("421") /\ UNCHANGED <<sock, line>>

CmdNext == ClientSends \/ Arrive \/ ReadLine \/ LineTooLong \/ IdleTimeout

-----------------------------------------------------------------------------
\* The requests in what the client sent, cut at line ends and nothing else.  A line
\* that does not fit the buffer ends the session.
Requests ==
    LET all == IF Len(given) = 0 THEN <<>> ELSE IF Len(given) = 1 THEN given[1] ELSE FlattenSeq(given)
        ends == {i \in DOMAIN all : all[i] = "\n"}
        End(k) == IF k = 0 THEN 0 ELSE CHOOSE i \in ends : Cardinality({j \in ends : j <= i}) = k
        lines == [k \in 1..Cardinality(ends) |-> SubSeq(all, End(k - 1) + 1, End(k) - 1)]
        long == {k \in DOMAIN lines : Len(lines[k]) >= MaxLine}
    IN  IF long = {} THEN lines ELSE UpTo(lines, Min(long) - 1)

\* However the network cuts the bytes up, the commands carried out are the lines the
\* client sent, in order and whole, none twice and none behind one that was too
\* long (str_netfd_alloc and control_getline).
RequestsArriveWhole ==
    LET requests == Requests
    IN  /\ Len(done) <= Len(requests)
        /\ \A i \in DOMAIN done : done[i] = CmdAndArg(ControlLine(requests[i]))

\* A client that reads replies line by line: a status and a space end a reply, a
\* status and a hyphen open one that goes on until the same status and a space.
Heard ==
    LET StartsLine(i) == i = 1 \/ told[i - 1] = "\n"
        Line(h, status, sep) ==
            CASE h.open # "" /\ status = h.open /\ sep = " " ->
                   [h EXCEPT !.open = "", !.replies = Append(@, status)]
              [] h.open = "" /\ sep = "-" -> [h EXCEPT !.open = status]
              [] h.open = "" /\ sep = " " -> [h EXCEPT !.replies = Append(@, status)]
              [] h.open = "" /\ sep \notin {" ", "-"} -> [h EXCEPT !.lost = TRUE]
              [] OTHER -> h
        after[i \in 0..Len(told)] ==
            IF i = 0 THEN [open |-> "", replies |-> <<>>, lost |-> FALSE]
            ELSE IF StartsLine(i) THEN Line(after[i - 1], told[i], told[i + 1]) ELSE after[i - 1]
    IN  after[Len(told)]

Final(h) == SelectSeq(h.replies, LAMBDA s : s # "150")
Silent(c) == c.cmd = "" /\ c.arg = <<>> /\ me.conf.cmds_allowed = <<>>

\* Every command but an empty line gets one final reply, in order, and whatever
\* stands in a path or a message, the client never loses count: after each command
\* it has heard the greeting, one final reply for each, and the farewell if the
\* session has ended by itself (ftp_write_str_common, vsf_banner_write).
RepliesStayInStep ==
    LET quit == done # <<>> /\ Last(done).cmd = "QUIT" /\ CmdOk("QUIT")
        farewell == IF alive \/ quit THEN 0 ELSE 1
        heardAll == Heard
    IN  /\ ~heardAll.lost /\ heardAll.open = ""
        /\ Len(Final(heardAll)) = 1 + farewell + Len(SelectSeq(done, LAMBDA c : ~Silent(c)))

\* Both ends of the control connection stay in step.
ControlConnectionInStep == RequestsArriveWhole /\ RepliesStayInStep

\* Unless port_promiscuous says otherwise, the address the server would connect to
\* is the client's own and its port is no reserved one, in whichever form the client
\* gave it and after any sequence of PORT, EPRT, PASV and EPSV, refused ones too; it
\* never listens and connects at once; and EPSV ALL lasts: no later PORT or PASV
\* changes what is set up (handle_port, handle_eprt, handle_pasv).
DataAddressIsTheClients ==
    [][/\ set'.port # NoPort /\ ~me.conf.port_promiscuous =>
            /\ set'.port.port >= 1024
            /\ \/ set'.port.raw = me.remote.raw
               \/ /\ {set'.port.raw[1], me.remote.raw[1]} = {"four", "mapped"}
                  /\ set'.port.raw[2] = me.remote.raw[2]
       /\ ~(set'.port # NoPort /\ set'.pasv)
       /\ set.epsv_all =>
            /\ set'.epsv_all
            /\ done' # done /\ Last(done').cmd \in {"PORT", "PASV", "P@SW"} =>
                 set'.port = set.port /\ set'.pasv = set.pasv]_cmdvars
=============================================================================
