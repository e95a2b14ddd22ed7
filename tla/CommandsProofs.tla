--------------------------- MODULE CommandsProofs ---------------------------
(***************************************************************************)
(* Where a logged-in session would connect to (module Commands), for any   *)
(* lines a client can send, cut up in any way, and any tunables.           *)
(*                                                                         *)
(* Of what a handler leaves behind only the way of the data matters:       *)
(* Careful says what it may do to it.  Each handler is careful, so         *)
(* whatever process_post_login makes of a line is, and what the session    *)
(* remembers is always none, a listener, or an address of its client       *)
(* (WayInv).                                                               *)
(***************************************************************************)
EXTENDS Commands, SequenceTheorems, TLAPS

\* The client's address in whichever form, and no reserved port.
Own(p) ==
    ~me.conf.port_promiscuous =>
        /\ p.port >= 1024
        /\ \/ p.raw = me.remote.raw
           \/ /\ {p.raw[1], me.remote.raw[1]} = {"four", "mapped"}
              /\ p.raw[2] = me.remote.raw[2]

\* What a handler may make of what is remembered: the way data goes is as it was,
\* none, a listener, or a connection to the client.
SameWay(s) == s.port = set.port /\ s.pasv = set.pasv
Careful(s) ==
    /\ DOMAIN s = DOMAIN set /\ (set.epsv_all => s.epsv_all)
    /\ \/ SameWay(s) \/ s.port = NoPort \/ (s.pasv = FALSE /\ Own(s.port))

WayInv ==
    /\ me \in Sides
    /\ {"port", "pasv", "epsv_all"} \subseteq DOMAIN set
    /\ set.port # NoPort => Own(set.port) /\ ~set.pasv
    /\ \E S : done \in Seq(S)

LEMMA LeavesWhat == \A s, text : Leaves(s, text).set = s
  BY DEF Leaves

LEMMA AnswerIsCareful == ASSUME NEW status PROVE Careful(Answer(status).set) /\ SameWay(Answer(status).set)
  BY LeavesWhat DEF Answer, Careful, SameWay

LEMMA CleanedIsCareful ==
    ASSUME WayInv PROVE Careful(Cleaned) /\ DOMAIN Cleaned = DOMAIN set /\ Cleaned.port = NoPort
                        /\ Cleaned.pasv = FALSE /\ Cleaned.epsv_all = set.epsv_all
  BY DEF WayInv, Careful, Cleaned

\* The checks behind PORT and EPRT; the address is of the family of the socket.
LEMMA TakePortIsCareful ==
    ASSUME WayInv, NEW addr, NEW p \in Int, addr.family = me.family
    PROVE  Careful(TakePort(addr, p).set)
<1>1. CASE PortPermitted(addr, p)
  <2> DEFINE new == [family |-> addr.family, raw |-> addr.raw, port |-> p]
             s == [Cleaned EXCEPT !.port = new]
  <2>1. TakePort(addr, p).set = s
    BY <1>1, LeavesWhat DEF TakePort
  <2>2. DOMAIN s = DOMAIN set /\ s.epsv_all = set.epsv_all /\ s.pasv = FALSE /\ s.port = new
    BY CleanedIsCareful DEF WayInv
  <2>3. new.raw = addr.raw /\ new.port = p
    OBVIOUS
  <2> HIDE DEF new, s
  <2>4. me.remote.family = me.family
    BY AddressAssumption DEF WayInv
  <2>5. ~me.conf.port_promiscuous => me.remote.raw = addr.raw /\ p >= 1024
    BY <1>1, <2>4 DEF PortPermitted, AddrEqual, IsPortReserved
  <2>6. Own(new)
    BY <2>3, <2>5 DEF Own
  <2> QED
    BY <2>1, <2>2, <2>6 DEF Careful
<1>2. CASE ~PortPermitted(addr, p)
  BY <1>2, LeavesWhat, CleanedIsCareful DEF TakePort
<1> QED
  BY <1>1, <1>2

LEMMA PortIsCareful == ASSUME WayInv, NEW arg PROVE Careful(HandlePort(arg).set)
<1>1. CASE arg \notin DOMAIN HostPorts
  BY <1>1, LeavesWhat, CleanedIsCareful DEF HandlePort
<1>2. CASE arg \in DOMAIN HostPorts
  <2>1. HostPorts[arg].port \in Int /\ SetIpv4Addr(HostPorts[arg].ip).family = me.family
    BY <1>2, AddressAssumption DEF SetIpv4Addr
  <2> QED
    BY <1>2, <2>1, TakePortIsCareful DEF HandlePort
<1> QED
  BY <1>1, <1>2

LEMMA PortIsNumber == ASSUME NEW p, IsPort(p) PROVE p \in Int
  BY DEF IsPort

LEMMA EprtIsCareful == ASSUME WayInv, NEW arg PROVE Careful(HandleEprt(arg).set)
<1> DEFINE first == Halves(arg, <<"|">>)
           second == Halves(first[2], <<"|">>)
           third == Halves(second[2], <<"|">>)
           fourth == Halves(third[2], <<"|">>)
           proto == Atoi(second[1])
           p == Atoi(fourth[1])
           text == IF proto = 2 THEN Halves(third[1], <<"%">>)[1] ELSE third[1]
           parsed == Len(text) = 2 /\ text[1] \in IF proto = 2 THEN {"six", "mapped", "four"} ELSE {"four"}
           refused == \/ first[1] # <<>> \/ proto \notin 1..2 \/ (proto = 2 /\ me.family = "v4")
                      \/ ~parsed \/ fourth[2] # <<>> \/ fourth[1] = <<>> \/ ~IsPort(p)
           addr == IF proto = 1 THEN SetIpv4Addr(text[2])
                   ELSE [family |-> "v6", raw |-> IF text[1] = "four" THEN <<"stale", text[2]>> ELSE text]
<1>1. HandleEprt(arg) = IF refused THEN Leaves(Cleaned, Say("500", <<>>)) ELSE TakePort(addr, p)
  BY DEF HandleEprt
<1>2. ~refused => proto \in 1..2 /\ (proto = 2 => me.family # "v4") /\ IsPort(p)
  OBVIOUS
<1>3. ASSUME NEW ip PROVE SetIpv4Addr(ip).family = me.family
  BY DEF SetIpv4Addr
<1>4. proto = 1 => addr.family = me.family
  BY <1>3
<1>5. proto # 1 => addr.family = "v6"
  OBVIOUS
<1> HIDE DEF refused, addr, p, proto
<1>6. me.family \in {"v4", "v6"}
  BY AddressAssumption DEF WayInv
<1>7. CASE refused
  BY <1>1, <1>7, LeavesWhat, CleanedIsCareful
<1>8. CASE ~refused
  <2>1. addr.family = me.family
    BY <1>2, <1>4, <1>5, <1>6, <1>8
  <2>2. p \in Int
    BY <1>2, <1>8, PortIsNumber
  <2> QED
    BY <1>1, <1>8, <2>1, <2>2, TakePortIsCareful
<1> QED
  BY <1>7, <1>8

LEMMA PasvIsCareful == ASSUME WayInv, NEW is_epsv, NEW arg PROVE Careful(HandlePasv(is_epsv, arg).set)
<1> DEFINE all == is_epsv /\ StrUpper(arg) = <<"ALL">>
           wrong == /\ is_epsv /\ arg # <<>> /\ StrUpper(arg) # <<"ALL">>
                    /\ (Atoi(arg) \notin 1..2 \/ (me.family = "v4" /\ Atoi(arg) = 2))
           listen == [Cleaned EXCEPT !.pasv = TRUE]
           lasting == [set EXCEPT !.epsv_all = TRUE]
<1>1. /\ all => HandlePasv(is_epsv, arg) = Leaves(lasting, Say("200", <<>>))
      /\ wrong => HandlePasv(is_epsv, arg) = Answer("522")
      /\ ~all /\ ~wrong => \E text : HandlePasv(is_epsv, arg) = Leaves(listen, text)
  BY DEF HandlePasv
<1>2. Careful(listen)
  BY CleanedIsCareful DEF Careful, WayInv
<1>3. Careful(lasting)
  BY DEF Careful, SameWay, WayInv
<1> HIDE DEF all, wrong, listen, lasting
<1> QED
  BY <1>1, <1>2, <1>3, LeavesWhat, AnswerIsCareful

LEMMA CwdIsCareful == ASSUME WayInv, NEW arg PROVE Careful(HandleCwd(arg).set)
<1>1. CASE arg \notin DOMAIN Dirs
  BY <1>1, AnswerIsCareful DEF HandleCwd
<1>2. CASE arg \in DOMAIN Dirs
  <2> DEFINE moved == [set EXCEPT !.cwd = Dirs[arg]]
             seen == [moved EXCEPT !.visited = IF Cardinality(@) < MaxVisit THEN @ \cup {moved.cwd} ELSE @]
             changed == BannerDirChanged(moved, "250")
  <2>1. Careful(moved) /\ DOMAIN moved = DOMAIN set /\ SameWay(moved) /\ moved.epsv_all = set.epsv_all
    BY DEF WayInv, Careful, SameWay
  <2>2. Careful(seen)
    BY <2>1 DEF WayInv, Careful, SameWay
  <2>3. changed.set = moved \/ changed.set = seen
    BY LeavesWhat DEF BannerDirChanged
  <2>4. HandleCwd(arg).set = changed.set
    BY <1>2, LeavesWhat DEF HandleCwd
  <2> QED
    BY <2>1, <2>2, <2>3, <2>4
<1> QED
  BY <1>1, <1>2

LEMMA TransferIsCareful == ASSUME WayInv, NEW luck PROVE Careful(HandleTransfer(luck).set)
<1>1. \/ \E status : HandleTransfer(luck) = Answer(status)
      \/ \E text : HandleTransfer(luck) = Leaves(Cleaned, text)
  BY DEF HandleTransfer
<1> QED
  BY <1>1, AnswerIsCareful, LeavesWhat, CleanedIsCareful

\* The handlers that touch neither address nor listener.
LEMMA RestIsCareful ==
    ASSUME WayInv, NEW arg, NEW luck
    PROVE  /\ Careful(HandleType(arg).set) /\ Careful(HandleSite(arg, luck).set)
           /\ Careful(HandleMdtm(arg, luck).set)
           /\ Careful(HandlePwd.set) /\ Careful(HandleHelp.set) /\ Careful(HandleFeat.set)
           /\ Careful(HandleStat.set) /\ Careful(HandleStatFile(luck).set)
<1>1. Careful(set)
  BY DEF Careful, SameWay
<1>2. Careful(HandleType(arg).set)
  <2> DEFINE binary == StrUpper(arg) \in {<<"I">>, <<"L8">>, <<"L", " ", "8">>}
             ascii == StrUpper(arg) \in {<<"A">>, <<"A", " ", "N">>}
             new(v) == [set EXCEPT !.is_ascii = v]
  <2>1. HandleType(arg) = CASE binary -> Leaves(new(FALSE), Say("200", <<>>))
                            [] ascii -> Leaves(new(TRUE), Say("200", <<>>))
                            [] OTHER -> Answer("500")
    BY DEF HandleType
  <2>2. Careful(new(FALSE)) /\ Careful(new(TRUE))
    BY DEF WayInv, Careful, SameWay
  <2> HIDE DEF binary, ascii, new
  <2> QED
    BY <2>1, <2>2, LeavesWhat, AnswerIsCareful
<1>3. Careful(HandleSite(arg, luck).set)
  <2> DEFINE rest == Halves(arg, <<" ">>)[2]
             Is(what) == StrUpper(Halves(arg, <<" ">>)[1]) = <<what>>
             mask == IF rest = <<>> THEN set.umask ELSE Atoi(rest)
             new == [set EXCEPT !.umask = mask]
             status == IF rest = <<>> \/ Holds(rest, <<"/">>) THEN "500"
                       ELSE IF luck = "ok" THEN "216" ELSE "550"
  <2>1. HandleSite(arg, luck) =
            CASE Is("UMASK") -> Leaves(new, Say("200", <<>>))
              [] Is("CHMOD") /\ me.conf.write_enable /\ me.conf.chmod_enable ->
                   Answer(IF luck = "ok" THEN "200" ELSE "550")
              [] Is("VERS") -> Answer(status)
              [] Is("UINS") -> HandleSiteUins(rest, luck)
              [] Is("HELP") -> Answer("214")
              [] OTHER -> Answer("500")
    BY DEF HandleSite
  <2>2. Careful(new)
    BY DEF WayInv, Careful, SameWay
  <2>3. \/ HandleSiteUins(rest, luck) = Answer("500")
        \/ \E happens : HandleSiteUins(rest, luck) = HandleTransfer(happens)
    BY DEF HandleSiteUins
  <2>4. Careful(HandleSiteUins(rest, luck).set)
    BY <2>3, AnswerIsCareful, TransferIsCareful
  <2> HIDE DEF Is, new, status, rest
  <2> QED
    BY <2>1, <2>2, <2>4, LeavesWhat, AnswerIsCareful
<1>4. Careful(HandleMdtm(arg, luck).set)
  <2> DEFINE new == [set EXCEPT !.touched = TRUE]
  <2>1. \/ HandleMdtm(arg, luck) = Leaves(new, Say("213", <<>>))
        \/ HandleMdtm(arg, luck) = Answer("213") \/ HandleMdtm(arg, luck) = Answer("550")
    BY DEF HandleMdtm
  <2>2. Careful(new)
    BY DEF WayInv, Careful, SameWay
  <2> HIDE DEF new
  <2> QED
    BY <2>1, <2>2, LeavesWhat, AnswerIsCareful
<1>5. Careful(HandlePwd.set) /\ Careful(HandleHelp.set) /\ Careful(HandleFeat.set) /\ Careful(HandleStat.set)
  BY <1>1, LeavesWhat DEF HandlePwd, HandleHelp, HandleFeat, HandleStat
<1>6. Careful(HandleStatFile(luck).set)
  BY <1>1, LeavesWhat, AnswerIsCareful DEF HandleStatFile
<1> QED
  BY <1>2, <1>3, <1>4, <1>5, <1>6

LEMMA HandleIsCareful ==
    ASSUME WayInv, NEW c, NEW arg, NEW luck PROVE Careful(Handle(c, arg, luck).set)
<1>1. \A a : /\ Careful(HandleCwd(a).set) /\ Careful(HandlePort(a).set) /\ Careful(HandleEprt(a).set)
             /\ \A e : Careful(HandlePasv(e, a).set)
  BY CwdIsCareful, PortIsCareful, EprtIsCareful, PasvIsCareful
<1>2. \A a, only : /\ Careful(HandleOpts(a).set) /\ Careful(HandleStru(a, only).set)
                   /\ Careful(HandleLoggedInUser(a).set)
  BY AnswerIsCareful DEF HandleOpts, HandleStru, HandleLoggedInUser
<1>3. \A status : Careful(Answer(status).set)
  BY AnswerIsCareful
<1> QED
  BY <1>1, <1>2, <1>3, TransferIsCareful, RestIsCareful DEF Handle

\* After EPSV ALL the commands PORT and PASV are not carried out.
LEMMA DispatchIsCareful ==
    ASSUME WayInv, NEW c, NEW arg, NEW luck
    PROVE  /\ Careful(Dispatch(c, arg, luck).set)
           /\ set.epsv_all /\ c \in {"PORT", "PASV", "P@SW"} => SameWay(Dispatch(c, arg, luck).set)
<1>1. \/ Dispatch(c, arg, luck) = Handle(c, arg, luck) /\ Enabled(c, arg)
      \/ Dispatch(c, arg, luck) = Answer("550") \/ Dispatch(c, arg, luck) = Answer("500")
      \/ Dispatch(c, arg, luck) = Leaves(set, <<>>)
  <2> DEFINE known == c \in Known /\ Enabled(c, arg)
             off == c \in Known \ UnknownWhenOff /\ ~Enabled(c, arg)
             empty == c = "" /\ arg = <<>>
  <2>1. CASE ~CmdOk(c)
    BY <2>1 DEF Dispatch
  <2>2. CASE CmdOk(c) /\ known
    BY <2>2 DEF Dispatch
  <2>3. CASE CmdOk(c) /\ off
    BY <2>3 DEF Dispatch
  <2>4. CASE CmdOk(c) /\ ~known /\ ~off /\ empty
    BY <2>4 DEF Dispatch
  <2>5. CASE CmdOk(c) /\ ~known /\ ~off /\ ~empty
    BY <2>5 DEF Dispatch
  <2> QED
    BY <2>1, <2>2, <2>3, <2>4, <2>5
<1>2. Careful(set) /\ SameWay(set)
  BY DEF Careful, SameWay
<1>3. set.epsv_all /\ c \in {"PORT", "PASV", "P@SW"} => ~Enabled(c, arg)
  BY DEF Enabled
<1> QED
  BY <1>1, <1>2, <1>3, HandleIsCareful, AnswerIsCareful, LeavesWhat

LEMMA WayInit == CmdInit => WayInv
<1> SUFFICES ASSUME CmdInit PROVE WayInv
  OBVIOUS
<1> DEFINE start == [is_ascii |-> FALSE, umask |-> 77, epsv_all |-> FALSE, port |-> NoPort, pasv |-> FALSE,
                     cwd |-> Home, visited |-> {}, touched |-> FALSE]
           seen == [start EXCEPT !.visited = IF Cardinality(@) < MaxVisit THEN @ \cup {start.cwd} ELSE @]
<1>1. set = start \/ set = seen
  BY LeavesWhat DEF CmdInit, BannerDirChanged
<1>2. /\ {"port", "pasv", "epsv_all"} \subseteq DOMAIN start /\ start.port = NoPort
      /\ {"port", "pasv", "epsv_all"} \subseteq DOMAIN seen /\ seen.port = NoPort
  OBVIOUS
<1> HIDE DEF start, seen
<1>3. {"port", "pasv", "epsv_all"} \subseteq DOMAIN set /\ set.port = NoPort
  BY <1>1, <1>2
<1>4. me \in Sides /\ done \in Seq({})
  BY EmptySeq DEF CmdInit
<1> QED
  BY <1>3, <1>4 DEF WayInv

\* A step of the session.
WayStep ==
    /\ set'.port # NoPort /\ ~me.conf.port_promiscuous =>
        /\ set'.port.port >= 1024
        /\ \/ set'.port.raw = me.remote.raw
           \/ /\ {set'.port.raw[1], me.remote.raw[1]} = {"four", "mapped"}
              /\ set'.port.raw[2] = me.remote.raw[2]
    /\ ~(set'.port # NoPort /\ set'.pasv)
    /\ set.epsv_all =>
        /\ set'.epsv_all
        /\ done' # done /\ Last(done').cmd \in {"PORT", "PASV", "P@SW"} =>
             set'.port = set.port /\ set'.pasv = set.pasv

LEMMA StillWay ==
    ASSUME WayInv, UNCHANGED <<me, set, done>> PROVE WayInv' /\ WayStep
  BY DEF WayInv, WayStep, Own

LEMMA ExecuteWay == ASSUME WayInv, NEW l, Execute(l), me' = me PROVE WayInv' /\ WayStep
<1> DEFINE c == CmdAndArg(ControlLine(l))
<1>1. PICK luck : set' = Dispatch(c.cmd, c.arg, luck).set /\ done' = Append(done, c)
  BY DEF Execute
<1> HIDE DEF c
<1>2. /\ Careful(set')
      /\ set.epsv_all /\ c.cmd \in {"PORT", "PASV", "P@SW"} => SameWay(set')
  BY <1>1, DispatchIsCareful
<1>3. PICK S : done \in Seq(S)
  BY DEF WayInv
<1>4. done \in Seq(S \cup {c}) /\ c \in S \cup {c}
  BY <1>3, SeqMonotonic
<1>5. done' \in Seq(S \cup {c}) /\ Last(done') = c
  BY <1>1, <1>4, AppendProperties, LenProperties DEF Last
<1>6. set'.port # NoPort => Own(set'.port) /\ ~set'.pasv
  BY <1>2 DEF Careful, SameWay, WayInv
<1>7. WayInv'
  BY <1>2, <1>5, <1>6 DEF WayInv, Careful, Own
<1>8. WayStep
  BY <1>2, <1>5, <1>6 DEF WayStep, Careful, SameWay, Own
<1> QED
  BY <1>7, <1>8

LEMMA WayNext == ASSUME WayInv, [CmdNext]_cmdvars PROVE WayInv' /\ WayStep
<1>1. CASE ClientSends \/ Arrive \/ LineTooLong \/ IdleTimeout
  BY <1>1, StillWay DEF ClientSends, Arrive, LineTooLong, IdleTimeout, WriteExit
<1>2. CASE ReadLine
  <2>1. me' = me /\ (UNCHANGED <<set, done>> \/ \E l : Execute(l))
    BY <1>2 DEF ReadLine
  <2> QED
    BY <2>1, StillWay, ExecuteWay
<1>3. CASE UNCHANGED cmdvars
  BY <1>3, StillWay DEF cmdvars
<1> QED
  BY <1>1, <1>2, <1>3 DEF CmdNext

\* Unless port_promiscuous says otherwise, the data address of a session is its client's
\* own with a port that is not reserved, never together with a listener, and EPSV ALL
\* lasts, after any number of lines, torn and sent ahead in any way (process_post_login,
\* handle_port, handle_eprt, handle_pasv).
THEOREM ConnectsOnlyToItsClient == CmdInit /\ [][CmdNext]_cmdvars => DataAddressIsTheClients
<1>1. WayInv /\ [CmdNext]_cmdvars => WayInv' /\ [WayStep]_cmdvars
  BY WayNext
<1>2. CmdInit /\ [][CmdNext]_cmdvars => [][WayStep]_cmdvars
  BY WayInit, <1>1, PTL
<1> QED
  BY <1>2 DEF DataAddressIsTheClients, WayStep
=============================================================================
