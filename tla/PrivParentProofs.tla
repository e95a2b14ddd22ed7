------------------------- MODULE PrivParentProofs -------------------------
(***************************************************************************)
(* From the connection to the end of a session, for every configuration    *)
(* and any number of commands: who the processes are, that a PAM session   *)
(* is closed, that forced encryption is kept, that answers and requests    *)
(* stay together, and that no bug() is reached.                            *)
(*                                                                         *)
(* The first three rest on one invariant, LoginInv.  It says which         *)
(* processes can be where at the same time (Together), as whom each runs   *)
(* (Identity), what the parent has decided about the login (LetIn), and    *)
(* that the first private socket carries one request and then its answer   *)
(* (Exchange), so that the flags of the pre-login child are still those of *)
(* the request when the parent takes them over (Encryption).               *)
(*                                                                         *)
(* The other two hold without async_abor_enable, whose handler of SIGURG   *)
(* breaks them, and need CallInv as well: one call is under way at a time  *)
(* (OneCall), the TLS handler has a data connection only while the session *)
(* process knows of it (OneConnection), and nothing happens to the         *)
(* parent's listener between two calls (OneListener).                      *)
(***************************************************************************)
EXTENDS PrivParent, SequenceTheorems, TLAPS

\* Which processes there are and where they can be at the same time.
ParentPlaces ==
    IF conf.one_process_model THEN {"main", "start", "connected", "getline", "session", "ended"}
    ELSE {"main", "start", "login", "auth", "commit", "wait", "fork", "minimize", "requests",
    "ended"}
Before == {"none", "drop", "connected", "getline"}
PrePlaces == Before \cup {"pass", "slave", "waiting", "ended"}
PostPlaces == {"none", "adopt", "hello", "call", "await", "line", "dying", "ended"}
\* The parent after the login it has let in.
Decided == {"commit", "wait", "fork", "minimize", "requests"}

Shaped(s) ==
    s = [user |-> s.user, control_use_ssl |-> s.control_use_ssl, data_use_ssl |-> s.data_use_ssl,
         ssl_slave_active |-> s.ssl_slave_active, is_anonymous |-> s.is_anonymous,
         is_guest |-> s.is_guest, login_fails |-> s.login_fails, data_fd |-> s.data_fd,
         pasv_listen |-> s.pasv_listen]

Typed ==
    /\ SanityChecks(conf)
    /\ pc = [p \in Procs |-> pc[p]] /\ cred = [p \in Procs |-> cred[p]]
    /\ sess = [p \in Procs |-> sess[p]] /\ \A p \in Procs : Shaped(sess[p])
    /\ inbox = [e \in Ends |-> inbox[e]]
    /\ pc["parent"] \in ParentPlaces /\ pc["pre"] \in PrePlaces /\ pc["post"] \in PostPlaces

Together ==
    /\ conf.one_process_model \/ pc["parent"] \in {"main", "start"} =>
         pc["pre"] = "none" /\ pc["post"] = "none"
    /\ pc["pre"] \in Before => pc["parent"] \notin {"auth"} \cup Decided /\ pc["post"] = "none"
    /\ pc["post"] # "none" => pc["parent"] \in {"minimize", "requests", "ended"}
    /\ pc["parent"] \in {"auth", "commit"} => pc["pre"] \in {"pass", "ended"}

\* Who each process is.
Identity ==
    /\ pc["parent"] \in {"main", "start", "login", "auth", "commit", "wait", "fork", "minimize"} =>
         cred["parent"].uid = "root"
    /\ pc["parent"] \in {"connected", "getline", "session"} =>
         cred["parent"].uid = "ftp" /\ ~cred["parent"].procs
    /\ pc["pre"] \in {"none", "drop"} => cred["pre"].uid = "root"
    /\ pc["pre"] \in {"connected", "getline", "pass", "slave", "waiting"} =>
         /\ cred["pre"].uid = "nobody" /\ ~cred["pre"].procs
         /\ ~conf.ssl_enable => ~cred["pre"].fds
    /\ pc["post"] = "adopt" => cred["post"].uid = "root"
    /\ pc["post"] \in {"hello", "call", "await", "line", "dying"} =>
         /\ cred["post"].uid = (IF Post.is_guest THEN "guest" ELSE granted)
         /\ ~cred["post"].procs
         /\ Post.is_anonymous => cred["post"].jail # "none"

\* The account that was let in, and its PAM session.
LetIn ==
    /\ pc["parent"] = "auth" => sess["parent"].user \in Names
    /\ pc["parent"] \in Decided => granted = sess["parent"].user /\ granted \in Names
    /\ pc["parent"] \in Decided => sess["parent"].is_anonymous = Anonymous(granted)
    /\ pc["parent"] \in Decided /\ conf.session_support /\ ~Anonymous(granted) => pam = "open"
    /\ pc["post"] # "none" => granted \in Names
    /\ pc["post"] = "adopt" => Post.user = granted /\ Post.is_anonymous = Anonymous(granted)
    /\ pc["parent"] = "ended" => pam # "open"
    /\ pc["parent"] = "requests" /\ conf.capabilities /\ cred["parent"].uid = "root" => pam = "open"

\* The dialogue between the pre-login child and the parent: one request, one answer.
LoginRequest(s) == [cmd |-> "LOGIN", user |-> s.user, control_use_ssl |-> s.control_use_ssl,
                    data_use_ssl |-> s.data_use_ssl]
Exchange ==
    /\ inbox["parent1"] # << >> =>
         /\ inbox["parent1"] = <<LoginRequest(sess["pre"])>> /\ sess["pre"].user \in Names
         /\ pc["pre"] \in {"pass", "ended"} /\ pc["parent"] \in {"login", "ended"}
         /\ inbox["child1"] = << >>
    /\ pc["pre"] \in Before \cup {"slave", "waiting"} => inbox["child1"] = << >>
    /\ pc["pre"] = "pass" /\ inbox["child1"] # << >> =>
         \/ /\ inbox["child1"] = <<"BAD">> /\ pc["post"] = "none"
            /\ pc["parent"] \in {"login", "ended"}
         \/ /\ inbox["child1"] = <<"OK">>
            /\ pc["parent"] \in {"wait", "fork", "minimize", "requests", "ended"}
    /\ pc["pre"] = "pass" /\ (pc["parent"] \in {"wait", "fork", "minimize", "requests"} \/ pc["post"] # "none") =>
         inbox["child1"] = <<"OK">>
    /\ pc["parent"] \in {"auth", "commit"} => inbox["child1"] = << >>

\* Encryption: what was negotiated is what the flags say, in every process.
Free(user) == IF user = "ftp" THEN ~conf.force_anon_logins_ssl ELSE ~conf.force_local_logins_ssl
Encryption ==
    /\ encrypted \in BOOLEAN
    /\ ~conf.one_process_model =>
         /\ sess["pre"].control_use_ssl = encrypted
         /\ sess["pre"].data_use_ssl => encrypted
         /\ encrypted => conf.ssl_enable
         /\ sess["pre"].user \in Names \cup {"none"}
         /\ sess["pre"].user # "none" /\ conf.ssl_enable /\ ~encrypted => Free(sess["pre"].user)
    /\ pc["parent"] \in {"auth"} \cup Decided =>
         /\ sess["parent"].control_use_ssl = encrypted
         /\ sess["parent"].data_use_ssl => encrypted
         /\ conf.ssl_enable /\ ~encrypted => Free(sess["parent"].user)
    /\ pc["post"] # "none" =>
         /\ Post.control_use_ssl = encrypted
         /\ Post.data_use_ssl => encrypted
         /\ conf.ssl_enable /\ ~encrypted => Free(granted)

LoginInv == Typed /\ Together /\ Identity /\ LetIn /\ Exchange /\ Encryption

-----------------------------------------------------------------------------
\* A function that is changed at one place.
LEMMA Put ==
    ASSUME NEW D, NEW f, f = [d \in D |-> f[d]], NEW q \in D, NEW v
    PROVE  /\ [f EXCEPT ![q] = v] = [d \in D |-> [f EXCEPT ![q] = v][d]]
           /\ [f EXCEPT ![q] = v][q] = v
           /\ \A d \in D \ {q} : [f EXCEPT ![q] = v][d] = f[d]
  OBVIOUS

LEMMA LoginInvInit == LoginInit => LoginInv
<1> SUFFICES ASSUME LoginInit PROVE LoginInv
  OBVIOUS
<1> USE DEF LoginInit, Init
<1>1. Typed
  BY DEF Typed, Shaped, NewSession, ParentPlaces, PrePlaces, PostPlaces, Before, Procs
<1>2. Together /\ LetIn /\ Exchange
  BY DEF Together, LetIn, Exchange, Before, Decided, Procs, Ends
<1>3. Identity
  BY DEF Identity, Procs, Root
<1>4. Encryption
  BY DEF Encryption, Procs, NewSession, Decided
<1> QED
  BY <1>1, <1>2, <1>3, <1>4 DEF LoginInv

\* The variables the invariant is about.
LEMMA SameKeeps ==
    ASSUME LoginInv, UNCHANGED <<conf, pc, cred, sess, inbox, encrypted, granted, pam>>
    PROVE  LoginInv'
<1>1. Typed' /\ Together'
  BY DEF LoginInv, Typed, Together, Shaped, ParentPlaces, PrePlaces, PostPlaces, SanityChecks
<1>2. Identity' /\ Exchange'
  BY DEF LoginInv, Identity, Exchange, Post, LoginRequest
<1>3. LetIn' /\ Encryption'
  BY DEF LoginInv, LetIn, Encryption, Post, Anonymous, Free
<1> QED
  BY <1>1, <1>2, <1>3 DEF LoginInv

\* Any process can end anywhere.
LEMMA LeaveKeeps ==
    ASSUME LoginInv, NEW p \in Procs, Running(p), Leave(p, pc), encrypted' = encrypted
    PROVE  LoginInv'
<1>1. /\ UNCHANGED <<conf, cred, sess, inbox, encrypted, granted>>
      /\ pc' = [pc EXCEPT ![p] = "ended"]
      /\ pam' = IF p = "parent" /\ pam = "open" THEN "closed" ELSE pam
  BY DEF Leave, AuthShutdown
<1>2. /\ pc' = [q \in Procs |-> pc'[q]] /\ pc'[p] = "ended"
      /\ \A q \in Procs \ {p} : pc'[q] = pc[q]
  BY <1>1, Put DEF LoginInv, Typed
<1>3. pc[p] \notin {"none", "ended"}
  BY DEF Running
<1>4. Typed'
  BY <1>1, <1>2, <1>3 DEF LoginInv, Typed, Shaped, ParentPlaces, PrePlaces, PostPlaces,
     SanityChecks, Procs
<1>5. Together'
  BY <1>1, <1>2, <1>3 DEF LoginInv, Typed, Together, PostPlaces, PrePlaces, ParentPlaces, Procs,
     Before, Decided
<1>6. Identity'
  BY <1>1, <1>2, <1>3 DEF LoginInv, Identity, Post, Procs
<1>7. LetIn'
  BY <1>1, <1>2, <1>3 DEF LoginInv, Typed, LetIn, Post, Procs, Anonymous, Decided
<1>8. Exchange'
  BY <1>1, <1>2, <1>3 DEF LoginInv, Typed, Exchange, LoginRequest, Procs, Before
<1>9. Encryption'
  BY <1>1, <1>2, <1>3 DEF LoginInv, Encryption, Procs, Decided, Post, Free
<1> QED
  BY <1>4, <1>5, <1>6, <1>7, <1>8, <1>9 DEF LoginInv

\* A step of a session that runs: of what the invariant reads only the places of the
\* session process and of the TLS handler change, and PROT in an encrypted session.
InSession == {"hello", "call", "await", "line", "dying"}
Serving ==
    /\ UNCHANGED <<conf, cred, encrypted, granted, pam>>
    /\ pc' = [q \in Procs |-> pc'[q]] /\ pc'["parent"] = pc["parent"]
    /\ pc'["pre"] = pc["pre"] \/ (pc["pre"] \in {"slave", "waiting"} /\ pc'["pre"] \in {"slave", "waiting"})
    /\ pc'["post"] = pc["post"] \/ (pc["post"] \in InSession /\ pc'["post"] \in InSession)
    /\ sess' = [q \in Procs |-> sess'[q]] /\ \A q \in Procs : Shaped(sess'[q])
    /\ \A q \in Procs :
         /\ sess'[q].user = sess[q].user /\ sess'[q].control_use_ssl = sess[q].control_use_ssl
         /\ sess'[q].is_anonymous = sess[q].is_anonymous /\ sess'[q].is_guest = sess[q].is_guest
         /\ sess'[q].data_use_ssl => sess[q].data_use_ssl \/ sess[q].control_use_ssl
    /\ sess'["pre"].data_use_ssl = sess["pre"].data_use_ssl
    /\ sess'["parent"].data_use_ssl = sess["parent"].data_use_ssl
    /\ inbox' = [e \in Ends |-> inbox'[e]]
    /\ inbox'["parent1"] = inbox["parent1"] /\ inbox'["child1"] = inbox["child1"]

LEMMA ServingKeeps ==
    ASSUME LoginInv, Serving
    PROVE  LoginInv'
<1>1. Typed'
  BY DEF LoginInv, Serving, Typed, ParentPlaces, PrePlaces, PostPlaces, SanityChecks, Procs,
     InSession
<1>2. Together'
  BY DEF LoginInv, Serving, Together, Before, Decided, InSession
<1>3. Identity'
  BY DEF LoginInv, Serving, Identity, Post, Procs, InSession
<1>4. LetIn'
  BY DEF LoginInv, Serving, LetIn, Post, Procs, Anonymous, InSession
<1>5. Exchange'
  <2>1. LoginRequest(sess["pre"])' = LoginRequest(sess["pre"])
    BY DEF Serving, LoginRequest, Procs
  <2> QED
    BY <2>1 DEF LoginInv, Serving, Exchange, Procs, InSession, Before
<1>6. Encryption'
  BY DEF LoginInv, Serving, Encryption, Procs, Post, Free, InSession, Decided
<1> QED
  BY <1>1, <1>2, <1>3, <1>4, <1>5, <1>6 DEF LoginInv

\* The dialogue before the login: the front changes its session and reads on.
LEMMA DialogueKeeps ==
    ASSUME LoginInv, NEW p, p = Front, pc[p] \in {"connected", "getline"}, NEW s, Shaped(s),
           sess' = [sess EXCEPT ![p] = s], pc' = [pc EXCEPT ![p] = "getline"],
           UNCHANGED <<conf, cred, inbox, granted, pam>>, encrypted' \in BOOLEAN,
           \/ conf.one_process_model
           \/ /\ s.control_use_ssl = encrypted'
              /\ s.data_use_ssl => encrypted'
              /\ encrypted' => conf.ssl_enable
              /\ s.user \in Names \cup {"none"}
              /\ s.user # "none" /\ conf.ssl_enable /\ ~encrypted' => Free(s.user)
    PROVE  LoginInv'
<1>0. p \in {"parent", "pre"} /\ p \in Procs /\ (p = "parent" <=> conf.one_process_model)
  BY DEF Front, Procs
<1>1. /\ pc' = [q \in Procs |-> pc'[q]] /\ pc'[p] = "getline"
      /\ \A q \in Procs \ {p} : pc'[q] = pc[q]
  BY <1>0, Put DEF LoginInv, Typed
<1>2. /\ sess' = [q \in Procs |-> sess'[q]] /\ sess'[p] = s
      /\ \A q \in Procs \ {p} : sess'[q] = sess[q]
  BY <1>0, Put DEF LoginInv, Typed
<1>3. pc[p] \in {"connected", "getline"}
  OBVIOUS
<1>4. Typed'
  BY <1>0, <1>1, <1>2 DEF LoginInv, Typed, ParentPlaces, PrePlaces, PostPlaces, SanityChecks,
     Procs, Before
<1>5. Together'
  BY <1>0, <1>1 DEF LoginInv, Typed, Together, ParentPlaces, Procs, Before, Decided
<1>6. Identity'
  BY <1>0, <1>1, <1>2 DEF LoginInv, Identity, Post, Procs
<1>7. LetIn'
  BY <1>0, <1>1, <1>2 DEF LoginInv, Typed, Together, LetIn, Post, Procs, Anonymous, Decided,
     ParentPlaces
<1>8. Exchange'
  BY <1>0, <1>1, <1>2 DEF LoginInv, Typed, Together, Exchange, LoginRequest, Procs, Before,
     ParentPlaces
<1>9. Encryption'
  <2>1. pc'["parent"] \notin {"auth"} \cup Decided /\ pc'["post"] = "none"
    BY <1>0, <1>1 DEF LoginInv, Together, Before, Decided, Procs
  <2>2. CASE conf.one_process_model
    BY <2>1, <2>2 DEF Encryption
  <2>3. CASE ~conf.one_process_model
    <3>1. sess'["pre"] = s
      BY <1>0, <1>2, <2>3
    <3> QED
      BY <2>1, <2>3, <3>1 DEF Encryption, Free
  <2> QED
    BY <2>2, <2>3
<1> QED
  BY <1>4, <1>5, <1>6, <1>7, <1>8, <1>9 DEF LoginInv

-----------------------------------------------------------------------------
(* The dialogue before the login.                                           *)

LEMMA ExitKeeps ==
    ASSUME LoginInv, NEW p \in Procs, Running(p), Exit(p) \/ WriteExit(p) \/ QuitAfterLine(p)
    PROVE  LoginInv'
  BY LeaveKeeps DEF Exit, WriteExit, QuitAfterLine

LEMMA BugKeeps ==
    ASSUME LoginInv, NEW p \in Procs, Running(p), NEW w, Bug(p, w)
    PROVE  LoginInv'
  BY LeaveKeeps DEF Bug

\* What a reply may leave in the session of the front.
Sound(s) ==
    /\ Shaped(s) /\ encrypted \in BOOLEAN
    /\ conf.one_process_model \/
         /\ s.control_use_ssl = encrypted
         /\ s.data_use_ssl => encrypted
         /\ s.user \in Names \cup {"none"}
         /\ s.user # "none" /\ conf.ssl_enable /\ ~encrypted => Free(s.user)

LEMMA FrontIsSound ==
    ASSUME LoginInv, NEW p, p = Front
    PROVE  /\ p \in {"parent", "pre"} /\ p \in Procs /\ Sound(sess[p])
           /\ p = "pre" <=> ~conf.one_process_model
           /\ ~conf.one_process_model => (encrypted => conf.ssl_enable)
  BY DEF Front, LoginInv, Typed, Encryption, Procs, Sound

LEMMA SayKeeps ==
    ASSUME LoginInv, NEW p, p = Front, pc[p] = "getline", NEW s, Sound(s), Say(p, s)
    PROVE  LoginInv'
  BY FrontIsSound, DialogueKeeps
     DEF Say, Change, Move, Count, Dialogue, sockets, accounts, Sound

LEMMA FailedKeeps ==
    ASSUME LoginInv, NEW p, p = Front, pc[p] = "getline", NEW s, Sound(s), Failed(p, s)
    PROVE  LoginInv'
<1>1. CASE Exit(p)
  BY <1>1, FrontIsSound, ExitKeeps DEF Running
<1>2. CASE Say(p, [s EXCEPT !.user = "none", !.login_fails = @ + 1])
  <2>1. Sound([s EXCEPT !.user = "none", !.login_fails = @ + 1])
    <3>1. PICK n : n = s.login_fails + 1
      OBVIOUS
    <3>2. PICK t : t = [s EXCEPT !.user = "none", !.login_fails = n]
      OBVIOUS
    <3>3. Shaped(s)
      BY DEF Sound
    <3>4. /\ Shaped(t) /\ t.user = "none" /\ t.control_use_ssl = s.control_use_ssl
          /\ t.data_use_ssl = s.data_use_ssl
      BY <3>2, <3>3 DEF Shaped
    <3>5. Sound(t)
      BY <3>4 DEF Sound
    <3> QED
      BY <3>1, <3>2, <3>5
  <2> QED
    BY <1>2, <2>1, SayKeeps
<1> QED
  BY <1>1, <1>2 DEF Failed

\* PASS asks the parent, or is answered by handle_login in the one-process model.
LEMMA HandlePassKeeps ==
    ASSUME LoginInv, NEW p, p = Front, pc[p] = "getline", NEW s, Sound(s), HandlePass(p, s)
    PROVE  LoginInv'
<1>f. p \in {"parent", "pre"} /\ p \in Procs /\ (p = "pre" <=> ~conf.one_process_model) /\ Running(p)
  BY FrontIsSound DEF Running
<1>1. CASE Say(p, s) \/ Failed(p, s) \/ Exit(p)
  BY <1>1, <1>f, SayKeeps, FailedKeeps, ExitKeeps
<1>2. CASE /\ s.user # "none" /\ ~conf.one_process_model
           /\ Send("child1", <<LoginRequest(s)>>)
           /\ Change(p, s) /\ Move(p, "pass") /\ Count
           /\ UNCHANGED <<conf, ends, signals, accounts>>
  <2>1. p = "pre" /\ "pre" \in Procs /\ "parent1" \in Ends /\ UNCHANGED <<conf, cred, granted, pam, encrypted>>
    BY <1>2, <1>f DEF Move, Count, accounts, Procs, Ends
  <2>2. /\ pc' = [q \in Procs |-> pc'[q]] /\ pc'["pre"] = "pass"
        /\ pc'["parent"] = pc["parent"] /\ pc'["post"] = pc["post"]
    BY <1>2, <2>1, Put DEF LoginInv, Typed, Move, Procs
  <2>3. /\ sess' = [q \in Procs |-> sess'[q]] /\ sess'["pre"] = s
        /\ sess'["parent"] = sess["parent"] /\ sess'["post"] = sess["post"]
    BY <1>2, <2>1, Put DEF LoginInv, Typed, Change, Procs
  <2>4. inbox["parent1"] = << >> /\ inbox["child1"] = << >>
    BY <2>1 DEF LoginInv, Exchange, Before
  <2>5. inbox' = [inbox EXCEPT !["parent1"] = inbox["parent1"] \o <<LoginRequest(s)>>]
    BY <1>2 DEF Send, Peer
  <2>6. << >> \o <<LoginRequest(s)>> = <<LoginRequest(s)>>
    OBVIOUS
  <2>7. /\ inbox' = [e \in Ends |-> inbox'[e]] /\ inbox'["parent1"] = <<LoginRequest(s)>>
        /\ inbox'["child1"] = << >>
    BY <2>1, <2>4, <2>5, <2>6, Put DEF LoginInv, Typed, Ends
  <2>8. pc["parent"] \in {"login", "ended"} /\ pc["post"] = "none"
    BY <2>1, <1>f DEF LoginInv, Typed, Together, Before, Decided, ParentPlaces
  <2>9. Shaped(s) /\ s.user \in Names
    BY <1>2 DEF Sound
  <2>10. Typed'
    BY <2>1, <2>2, <2>3, <2>7, <2>9 DEF LoginInv, Typed, ParentPlaces, PrePlaces, PostPlaces,
       SanityChecks, Procs, Before
  <2>11. Together'
    BY <2>1, <2>2, <2>8, <1>2 DEF Together, Before, Decided
  <2>12. Identity'
    BY <2>1, <2>2, <2>8 DEF LoginInv, Identity
  <2>13. LetIn'
    BY <2>1, <2>2, <2>8 DEF LoginInv, LetIn, Decided
  <2>14. Exchange'
    BY <2>1, <2>2, <2>3, <2>7, <2>8, <2>9 DEF Exchange, Before
  <2>15. Encryption'
    BY <1>2, <2>1, <2>2, <2>3, <2>8, FrontIsSound DEF Encryption, Decided, Sound, Free
  <2> QED
    BY <2>10, <2>11, <2>12, <2>13, <2>14, <2>15 DEF LoginInv
<1>3. CASE /\ conf.one_process_model /\ Change(p, [s EXCEPT !.user = "ftp", !.is_anonymous = TRUE])
           /\ Move(p, "session") /\ granted' = "ftp" /\ Count
           /\ UNCHANGED <<conf, sockets, signals, pam>>
  <2>1. p = "parent" /\ "parent" \in Procs /\ UNCHANGED <<conf, cred, inbox, pam, encrypted>>
    BY <1>3, <1>f DEF Move, Count, sockets, Procs
  <2>2. /\ pc' = [q \in Procs |-> pc'[q]] /\ pc'["parent"] = "session"
        /\ pc'["pre"] = pc["pre"] /\ pc'["post"] = pc["post"]
    BY <1>3, <2>1, Put DEF LoginInv, Typed, Move, Procs
  <2>3. PICK t : t = [s EXCEPT !.user = "ftp", !.is_anonymous = TRUE]
    OBVIOUS
  <2>4. Shaped(t)
    BY <2>3 DEF Sound, Shaped
  <2>5. /\ sess' = [q \in Procs |-> sess'[q]] /\ sess'["parent"] = t
        /\ sess'["pre"] = sess["pre"] /\ sess'["post"] = sess["post"]
    BY <1>3, <2>1, <2>3, Put DEF LoginInv, Typed, Change, Procs
  <2>6. pc["pre"] = "none" /\ pc["post"] = "none"
    BY <1>3 DEF LoginInv, Together
  <2>7. Typed'
    BY <1>3, <2>1, <2>2, <2>4, <2>5 DEF LoginInv, Typed, ParentPlaces, PrePlaces, PostPlaces,
       SanityChecks, Procs
  <2>8. Together' /\ Identity'
    BY <2>1, <2>2, <2>6 DEF LoginInv, Together, Identity, Before, Decided
  <2>9. LetIn' /\ Encryption'
    BY <1>3, <2>1, <2>2, <2>6 DEF LoginInv, LetIn, Encryption, Decided
  <2>10. Exchange'
    BY <2>1, <2>2, <2>5, <2>6 DEF LoginInv, Exchange, Before
  <2> QED
    BY <2>7, <2>8, <2>9, <2>10 DEF LoginInv
<1> QED
  BY <1>1, <1>2, <1>3 DEF HandlePass, LoginRequest

LEMMA UserCommandKeeps ==
    ASSUME LoginInv, NEW p, NEW name \in Names, UserCommand(p, name)
    PROVE  LoginInv'
<1>1. p = Front /\ pc[p] = "getline"
  BY DEF UserCommand, Line
<1>2. p \in Procs /\ Running(p) /\ Sound(sess[p])
  BY <1>1, FrontIsSound DEF Running
<1>3. PICK s : s = [sess[p] EXCEPT !.user = name]
  OBVIOUS
<1>4. /\ Shaped(s) /\ s.user = name /\ s.control_use_ssl = sess[p].control_use_ssl
      /\ s.data_use_ssl = sess[p].data_use_ssl
  BY <1>2, <1>3 DEF Sound, Shaped
<1>5. PICK t : t = [s EXCEPT !.user = "none"]
  OBVIOUS
<1>6. /\ Shaped(t) /\ t.user = "none" /\ t.control_use_ssl = sess[p].control_use_ssl
      /\ t.data_use_ssl = sess[p].data_use_ssl
  BY <1>4, <1>5 DEF Shaped
<1>7. Sound(t)
  BY <1>2, <1>6 DEF Sound
<1>8. ~MustEncrypt(p, name) => Sound(s)
  BY <1>2, <1>4 DEF Sound, MustEncrypt, Free
<1>9. \/ Say(p, t) \/ Exit(p)
      \/ ~MustEncrypt(p, name) /\ (Failed(p, s) \/ HandlePass(p, s) \/ Say(p, s))
  BY <1>3, <1>5 DEF UserCommand
<1> QED
  BY <1>1, <1>2, <1>7, <1>8, <1>9, SayKeeps, ExitKeeps, FailedKeeps, HandlePassKeeps


LEMMA HandshakeKeeps ==
    ASSUME LoginInv, NEW p, p = Front, pc[p] \in {"connected", "getline"}, conf.ssl_enable,
           NEW private, SslControlHandshake(p, private)
    PROVE  LoginInv'
<1>1. p \in Procs /\ Running(p) /\ Sound(sess[p])
  BY FrontIsSound DEF Running
<1>2. CASE /\ Change(p, [sess[p] EXCEPT !.control_use_ssl = TRUE, !.data_use_ssl = private \/ @])
           /\ Move(p, "getline") /\ encrypted' = TRUE /\ UNCHANGED ctl /\ Dialogue
  <2>1. PICK b : b = (private \/ sess[p].data_use_ssl)
    OBVIOUS
  <2>2. PICK t : t = [sess[p] EXCEPT !.control_use_ssl = TRUE, !.data_use_ssl = b]
    OBVIOUS
  <2>3. Shaped(t) /\ t.control_use_ssl = TRUE /\ t.user = sess[p].user
    BY <1>1, <2>2 DEF Sound, Shaped
  <2>4. /\ sess' = [sess EXCEPT ![p] = t] /\ pc' = [pc EXCEPT ![p] = "getline"]
        /\ UNCHANGED <<conf, cred, inbox, granted, pam>> /\ encrypted' = TRUE
    BY <1>2, <2>1, <2>2 DEF Change, Move, Dialogue, sockets, accounts
  <2> QED
    BY <1>1, <2>3, <2>4, DialogueKeeps DEF Sound
<1>3. CASE Leave(p, pc) /\ UNCHANGED <<bug, ctl, encrypted>>
  BY <1>1, <1>3, LeaveKeeps
<1> QED
  BY <1>2, <1>3 DEF SslControlHandshake

LEMMA InitConnectionKeeps ==
    ASSUME LoginInv, NEW p, InitConnection(p)
    PROVE  LoginInv'
<1>1. p = Front /\ pc[p] = "connected"
  BY DEF InitConnection
<1>2. p \in Procs /\ Running(p) /\ Sound(sess[p])
  BY <1>1, FrontIsSound DEF Running
<1>3. CASE WriteExit(p)
  BY <1>2, <1>3, ExitKeeps
<1>4. CASE conf.ssl_enable /\ SslControlHandshake(p, FALSE)
  BY <1>1, <1>4, HandshakeKeeps
<1>5. CASE Move(p, "getline") /\ UNCHANGED <<sess, client>> /\ Dialogue
  <2>1. /\ pc' = [pc EXCEPT ![p] = "getline"]
        /\ UNCHANGED <<conf, cred, inbox, granted, pam, encrypted, sess>>
    BY <1>5 DEF Move, Dialogue, sockets, accounts, client
  <2>2. sess' = [sess EXCEPT ![p] = sess[p]]
    BY <2>1 DEF LoginInv, Typed
  <2> QED
    BY <1>1, <1>2, <2>1, <2>2, FrontIsSound, DialogueKeeps DEF Sound
<1> QED
  BY <1>3, <1>4, <1>5 DEF InitConnection

LEMMA DialogueStepsKeep ==
    ASSUME LoginInv, NEW p,
           \/ PassCommand(p) \/ QuitCommand(p) \/ OtherCommand(p) \/ IdleTimeout(p) \/ ControlLost(p)
           \/ \E n \in Names : UserCommand(p, n)
           \/ \E b \in BOOLEAN : AuthCommand(p, b) \/ ProtCommand(p, b)
    PROVE  LoginInv'
<1>1. p = Front /\ pc[p] \in {"getline", "pass"}
  BY DEF PassCommand, QuitCommand, OtherCommand, IdleTimeout, ControlLost, UserCommand,
     AuthCommand, ProtCommand, Line
<1>2. p \in Procs /\ Running(p) /\ Sound(sess[p])
  BY <1>1, FrontIsSound DEF Running
<1>3. CASE PassCommand(p)
  BY <1>2, <1>3, HandlePassKeeps DEF PassCommand, Line
<1>4. CASE QuitCommand(p) \/ IdleTimeout(p) \/ ControlLost(p)
  BY <1>2, <1>4, ExitKeeps DEF QuitCommand, IdleTimeout, ControlLost
<1>5. CASE OtherCommand(p)
  BY <1>2, <1>5, SayKeeps DEF OtherCommand, Line
<1>6. CASE \E n \in Names : UserCommand(p, n)
  BY <1>6, UserCommandKeeps
<1>7. ASSUME NEW b \in BOOLEAN, AuthCommand(p, b)
      PROVE  LoginInv'
  <2>1. pc[p] = "getline" /\ conf.ssl_enable
    BY <1>7 DEF AuthCommand, Line
  <2> QED
    BY <1>1, <1>2, <1>7, <2>1, HandshakeKeeps, ExitKeeps, SayKeeps DEF AuthCommand
<1>8. ASSUME NEW b \in BOOLEAN, ProtCommand(p, b)
      PROVE  LoginInv'
  <2>1. PICK t : t = [sess[p] EXCEPT !.data_use_ssl = b]
    OBVIOUS
  <2>2. /\ Shaped(t) /\ t.user = sess[p].user /\ t.control_use_ssl = sess[p].control_use_ssl
        /\ t.data_use_ssl = b
    BY <1>2, <2>1 DEF Sound, Shaped
  <2> QED
    BY <1>1, <1>2, <1>8, <2>1, <2>2, SayKeeps, ExitKeeps DEF ProtCommand, Sound, Line
<1> QED
  BY <1>3, <1>4, <1>5, <1>6, <1>7, <1>8

-----------------------------------------------------------------------------
(* The session and those that serve it.                                     *)

\* Messages on the second private socket and on that of the TLS handler.
LEMMA OtherSockets ==
    ASSUME LoginInv, NEW e \in {"parent2", "child2", "consumer", "slave"}, NEW v,
           NEW d \in {"parent2", "child2", "consumer", "slave"}, NEW w,
           inbox' = [inbox EXCEPT ![e] = v] \/ inbox' = [inbox EXCEPT ![d] = w, ![e] = v]
    PROVE  /\ inbox' = [x \in Ends |-> inbox'[x]]
           /\ inbox'["parent1"] = inbox["parent1"] /\ inbox'["child1"] = inbox["child1"]
<1>1. inbox = [x \in Ends |-> inbox[x]] /\ e \in Ends /\ d \in Ends
      /\ "parent1" \in Ends /\ "child1" \in Ends /\ e \notin {"parent1", "child1"}
      /\ d \notin {"parent1", "child1"}
  BY DEF LoginInv, Typed, Ends
<1>2. PICK g : g = [inbox EXCEPT ![d] = w]
  OBVIOUS
<1>3. g = [x \in Ends |-> g[x]] /\ g["parent1"] = inbox["parent1"] /\ g["child1"] = inbox["child1"]
  BY <1>1, <1>2, Put
<1>4. CASE inbox' = [inbox EXCEPT ![e] = v]
  BY <1>1, <1>4, Put
<1>5. CASE inbox' = [inbox EXCEPT ![d] = w, ![e] = v]
  <2>1. inbox' = [g EXCEPT ![e] = v]
    BY <1>1, <1>2, <1>3, <1>5
  <2> QED
    BY <1>1, <1>3, <2>1, Put
<1> QED
  BY <1>4, <1>5

\* A session whose data connection, listener or protection changes.
LEMMA SessionFields ==
    ASSUME LoginInv, NEW q \in Procs, NEW s, sess' = [sess EXCEPT ![q] = s],
           Shaped(s), s.user = sess[q].user, s.control_use_ssl = sess[q].control_use_ssl,
           s.is_anonymous = sess[q].is_anonymous, s.is_guest = sess[q].is_guest,
           \/ s.data_use_ssl = sess[q].data_use_ssl
           \/ q = "post" /\ s.control_use_ssl
    PROVE  /\ sess' = [r \in Procs |-> sess'[r]] /\ \A r \in Procs : Shaped(sess'[r])
           /\ \A r \in Procs :
                /\ sess'[r].user = sess[r].user /\ sess'[r].control_use_ssl = sess[r].control_use_ssl
                /\ sess'[r].is_anonymous = sess[r].is_anonymous /\ sess'[r].is_guest = sess[r].is_guest
                /\ sess'[r].data_use_ssl => sess[r].data_use_ssl \/ sess[r].control_use_ssl
           /\ sess'["pre"].data_use_ssl = sess["pre"].data_use_ssl
           /\ sess'["parent"].data_use_ssl = sess["parent"].data_use_ssl
<1>1. /\ sess' = [r \in Procs |-> sess'[r]] /\ sess'[q] = s
      /\ \A r \in Procs \ {q} : sess'[r] = sess[r]
  BY Put DEF LoginInv, Typed
<1>2. \A r \in Procs : Shaped(sess[r])
  BY DEF LoginInv, Typed
<1> QED
  BY <1>1, <1>2 DEF Procs

LEMMA SameSession ==
    ASSUME LoginInv, sess' = sess
    PROVE  /\ sess' = [r \in Procs |-> sess'[r]] /\ \A r \in Procs : Shaped(sess'[r])
           /\ \A r \in Procs :
                /\ sess'[r].user = sess[r].user /\ sess'[r].control_use_ssl = sess[r].control_use_ssl
                /\ sess'[r].is_anonymous = sess[r].is_anonymous /\ sess'[r].is_guest = sess[r].is_guest
                /\ sess'[r].data_use_ssl => sess[r].data_use_ssl \/ sess[r].control_use_ssl
           /\ sess'["pre"].data_use_ssl = sess["pre"].data_use_ssl
           /\ sess'["parent"].data_use_ssl = sess["parent"].data_use_ssl
  BY DEF LoginInv, Typed

LEMMA SameSockets ==
    ASSUME LoginInv, inbox' = inbox
    PROVE  /\ inbox' = [x \in Ends |-> inbox'[x]]
           /\ inbox'["parent1"] = inbox["parent1"] /\ inbox'["child1"] = inbox["child1"]
  BY DEF LoginInv, Typed

\* One process of the session goes on.
LEMMA PlaceKeeps ==
    ASSUME LoginInv, NEW p, NEW x,
           \/ p = "pre" /\ pc[p] \in {"slave", "waiting"} /\ x \in {"slave", "waiting"}
           \/ p = "post" /\ pc[p] \in InSession /\ x \in InSession,
           pc' = [pc EXCEPT ![p] = x]
    PROVE  /\ pc' = [q \in Procs |-> pc'[q]] /\ pc'["parent"] = pc["parent"]
           /\ pc'["pre"] = pc["pre"] \/ (pc["pre"] \in {"slave", "waiting"} /\ pc'["pre"] \in {"slave", "waiting"})
           /\ pc'["post"] = pc["post"] \/ (pc["post"] \in InSession /\ pc'["post"] \in InSession)
<1>1. p \in Procs /\ pc = [q \in Procs |-> pc[q]]
  BY DEF LoginInv, Typed, Procs
<1>2. /\ pc' = [q \in Procs |-> pc'[q]] /\ pc'[p] = x
      /\ \A q \in Procs \ {p} : pc'[q] = pc[q]
  BY <1>1, Put
<1> QED
  BY <1>2 DEF Procs

LEMMA DataFdFields ==
    ASSUME LoginInv, NEW c, NEW a, sess' = DataFd(c, a)
    PROVE  \E s : /\ sess' = [sess EXCEPT !["post"] = s]
                  /\ Shaped(s) /\ s.user = Post.user /\ s.control_use_ssl = Post.control_use_ssl
                  /\ s.is_anonymous = Post.is_anonymous /\ s.is_guest = Post.is_guest
                  /\ s.data_use_ssl = Post.data_use_ssl
<1>1. PICK b : sess' = [sess EXCEPT !["post"].data_fd = b]
  BY DEF DataFd
<1>2. PICK s : s = [sess["post"] EXCEPT !.data_fd = b]
  OBVIOUS
<1>3. Shaped(sess["post"])
  BY DEF LoginInv, Typed, Procs
<1>4. /\ Shaped(s) /\ s.user = Post.user /\ s.control_use_ssl = Post.control_use_ssl
      /\ s.is_anonymous = Post.is_anonymous /\ s.is_guest = Post.is_guest
      /\ s.data_use_ssl = Post.data_use_ssl
  BY <1>2, <1>3 DEF Shaped, Post
<1>5. sess' = [sess EXCEPT !["post"] = s]
  BY <1>1, <1>2
<1> QED
  BY <1>4, <1>5

LEMMA HelloKeeps == ASSUME LoginInv, Hello PROVE LoginInv'
<1>1. /\ pc["post"] = "hello" /\ pc' = [pc EXCEPT !["post"] = "call"]
      /\ UNCHANGED <<conf, cred, encrypted, granted, pam, sess, inbox>>
  BY DEF Hello, KeepAll, client, accounts, sockets
<1>2. Serving
  BY <1>1, PlaceKeeps, SameSession, SameSockets DEF Serving, InSession
<1> QED
  BY <1>2, ServingKeeps

LEMMA AskKeeps == ASSUME LoginInv, Ask PROVE LoginInv'
<1>1. pc["post"] = "call" /\ "post" \in Procs /\ Running("post")
  BY DEF Ask, Running, Procs
<1>2. CASE Exit("post")
  BY <1>1, <1>2, ExitKeeps
<1>3. CASE /\ Send(Line2(op), <<op>>) /\ pc' = [pc EXCEPT !["post"] = "await"]
           /\ KeepAll /\ UNCHANGED <<ends, sess>>
  <2>1. UNCHANGED <<conf, cred, encrypted, granted, pam, sess>>
    BY <1>3 DEF KeepAll, client, accounts
  <2>2. PICK e \in {"parent2", "slave"} : inbox' = [inbox EXCEPT ![e] = inbox[e] \o <<op>>]
    BY <1>3 DEF Send, Line2, Peer
  <2>3. /\ inbox' = [x \in Ends |-> inbox'[x]]
        /\ inbox'["parent1"] = inbox["parent1"] /\ inbox'["child1"] = inbox["child1"]
    BY <2>2, OtherSockets
  <2>4. Serving
    BY <1>1, <1>3, <2>1, <2>3, PlaceKeeps, SameSession DEF Serving, InSession
  <2> QED
    BY <2>4, ServingKeeps
<1> QED
  BY <1>2, <1>3 DEF Ask

LEMMA AnsweredKeeps == ASSUME LoginInv, Answered PROVE LoginInv'
<1>1. pc["post"] = "await" /\ "post" \in Procs /\ Running("post")
  BY DEF Answered, Running, Procs
<1>2. CASE Exit("post")
  BY <1>1, <1>2, ExitKeeps
<1>3. CASE /\ inbox' = [inbox EXCEPT ![Line2(op)] = << >>]
           /\ pc' = [pc EXCEPT !["post"] = IF After(op, inbox[Line2(op)]) = "none" THEN "line" ELSE "call"]
           /\ sess' = DataFd(op, inbox[Line2(op)])
           /\ KeepAll
  <2>1. UNCHANGED <<conf, cred, encrypted, granted, pam>>
    BY <1>3 DEF KeepAll, client, accounts
  <2>2. /\ inbox' = [x \in Ends |-> inbox'[x]]
        /\ inbox'["parent1"] = inbox["parent1"] /\ inbox'["child1"] = inbox["child1"]
    BY <1>3, OtherSockets DEF Line2
  <2>3. PICK x \in InSession : pc' = [pc EXCEPT !["post"] = x]
    BY <1>3 DEF InSession
  <2>4. PICK s : /\ sess' = [sess EXCEPT !["post"] = s]
                 /\ Shaped(s) /\ s.user = Post.user /\ s.control_use_ssl = Post.control_use_ssl
                 /\ s.is_anonymous = Post.is_anonymous /\ s.is_guest = Post.is_guest
                 /\ s.data_use_ssl = Post.data_use_ssl
    BY <1>3, DataFdFields
  <2>5. Serving
    BY <1>1, <2>1, <2>2, <2>3, <2>4, PlaceKeeps, SessionFields DEF Serving, InSession, Post
  <2> QED
    BY <2>5, ServingKeeps
<1> QED
  BY <1>2, <1>3 DEF Answered

LEMMA LocalKeeps == ASSUME LoginInv, Local PROVE LoginInv'
<1>1. pc["post"] = "call" /\ "post" \in Procs /\ Running("post")
  BY DEF Local, Running, Procs
<1>2. CASE Exit("post")
  BY <1>1, <1>2, ExitKeeps
<1>3. ASSUME NEW a,
             pc' = [pc EXCEPT !["post"] = IF After(op, a) = "none" THEN "line" ELSE "call"],
             sess' = DataFd(op, a),
             UNCHANGED <<conf, bug, cred, reaped, sockets, ctl, encrypted, signals, accounts>>
      PROVE  LoginInv'
  <2>1. UNCHANGED <<conf, cred, encrypted, granted, pam, inbox>>
    BY <1>3 DEF sockets, accounts
  <2>3. PICK x \in InSession : pc' = [pc EXCEPT !["post"] = x]
    BY <1>3 DEF InSession
  <2>4. PICK s : /\ sess' = [sess EXCEPT !["post"] = s]
                 /\ Shaped(s) /\ s.user = Post.user /\ s.control_use_ssl = Post.control_use_ssl
                 /\ s.is_anonymous = Post.is_anonymous /\ s.is_guest = Post.is_guest
                 /\ s.data_use_ssl = Post.data_use_ssl
    BY <1>3, DataFdFields
  <2>5. Serving
    BY <1>1, <2>1, <2>3, <2>4, SameSockets, PlaceKeeps, SessionFields DEF Serving, InSession, Post
  <2> QED
    BY <2>5, ServingKeeps
<1> QED
  BY <1>2, <1>3 DEF Local

LEMMA DispatchKeeps == ASSUME LoginInv, NEW c, Dispatch(c) PROVE LoginInv'
<1>1. /\ pc["post"] = "line" /\ pc' = [pc EXCEPT !["post"] = "call"]
      /\ UNCHANGED <<conf, cred, encrypted, granted, pam, inbox>>
      /\ sess' = IF c = "PROT" /\ Post.control_use_ssl
                 THEN [sess EXCEPT !["post"].data_use_ssl = ~@] ELSE sess
  BY DEF Dispatch, KeepAll, client, accounts, sockets
<1>2. CASE sess' = sess
  <2>1. Serving
    BY <1>1, <1>2, PlaceKeeps, SameSession, SameSockets DEF Serving, InSession
  <2> QED
    BY <2>1, ServingKeeps
<1>3. CASE Post.control_use_ssl /\ sess' = [sess EXCEPT !["post"].data_use_ssl = ~@]
  <2>1. PICK b : b = ~sess["post"].data_use_ssl
    OBVIOUS
  <2>2. PICK s : s = [sess["post"] EXCEPT !.data_use_ssl = b]
    OBVIOUS
  <2>3. Shaped(sess["post"]) /\ "post" \in Procs
    BY DEF LoginInv, Typed, Procs
  <2>4. /\ Shaped(s) /\ s.user = Post.user /\ s.control_use_ssl = Post.control_use_ssl
        /\ s.is_anonymous = Post.is_anonymous /\ s.is_guest = Post.is_guest
    BY <2>2, <2>3 DEF Shaped, Post
  <2>5. sess' = [sess EXCEPT !["post"] = s]
    BY <1>3, <2>1, <2>2
  <2>6. Serving
    BY <1>1, <1>3, <2>3, <2>4, <2>5, PlaceKeeps, SessionFields, SameSockets
       DEF Serving, InSession, Post
  <2> QED
    BY <2>6, ServingKeeps
<1> QED
  BY <1>1, <1>2, <1>3

LEMMA TimeoutKeeps == ASSUME LoginInv, Timeout PROVE LoginInv'
<1>1. pc["post"] \in {"await", "call"} /\ "post" \in Procs /\ Running("post")
  BY DEF Timeout, Running, Procs
<1>2. CASE WriteExit("post")
  BY <1>1, <1>2, ExitKeeps
<1>3. CASE /\ Send("consumer", <<"RESP">>) /\ pc' = [pc EXCEPT !["post"] = "dying"]
           /\ UNCHANGED <<conf, bug, cred, reaped, ends, sess, encrypted, lines, signals, accounts>>
  <2>1. UNCHANGED <<conf, cred, encrypted, granted, pam, sess>>
    BY <1>3 DEF accounts
  <2>2. inbox' = [inbox EXCEPT !["slave"] = inbox["slave"] \o <<"RESP">>]
    BY <1>3 DEF Send, Peer
  <2>3. /\ inbox' = [x \in Ends |-> inbox'[x]]
        /\ inbox'["parent1"] = inbox["parent1"] /\ inbox'["child1"] = inbox["child1"]
    BY <2>2, OtherSockets
  <2>4. Serving
    BY <1>1, <1>3, <2>1, <2>3, PlaceKeeps, SameSession DEF Serving, InSession
  <2> QED
    BY <2>4, ServingKeeps
<1> QED
  BY <1>2, <1>3 DEF Timeout

\* handle_sigurg: what it takes and sends goes over the socket of the TLS handler.
LEMMA AborKeeps == ASSUME LoginInv, HandleSigurg \/ UrgentAnswered \/ OutOfStep PROVE LoginInv'
<1>1. pc["post"] \in {"await", "call"} /\ "post" \in Procs /\ Running("post")
  BY DEF HandleSigurg, UrgentAnswered, OutOfStep, Running, Procs
<1>2. CASE Exit("post")
  BY <1>1, <1>2, ExitKeeps
<1>3. CASE Bug("post", "recv_len bigger than buffer")
  BY <1>1, <1>3, BugKeeps
<1>4. ASSUME NEW v, NEW w,
             \/ inbox' = [inbox EXCEPT !["consumer"] = v]
             \/ inbox' = [inbox EXCEPT !["slave"] = w, !["consumer"] = v]
             \/ inbox' = [inbox EXCEPT !["consumer"] = v, !["slave"] = w],
             KeepAll, UNCHANGED <<pc, ends, sess, op, cmd, port>>
      PROVE  LoginInv'
  <2>1. /\ inbox' = [x \in Ends |-> inbox'[x]]
        /\ inbox'["parent1"] = inbox["parent1"] /\ inbox'["child1"] = inbox["child1"]
    BY <1>4, OtherSockets
  <2>2. UNCHANGED <<conf, cred, encrypted, granted, pam, sess, pc>>
    BY <1>4 DEF KeepAll, client, accounts
  <2>3. pc' = [q \in Procs |-> pc'[q]]
    BY <2>2 DEF LoginInv, Typed
  <2>4. Serving
    BY <2>1, <2>2, <2>3, SameSession DEF Serving
  <2> QED
    BY <2>4, ServingKeeps
<1>5. CASE HandleSigurg
  <2>1. CASE Held("slave")
    <3>1. PICK begun \in BOOLEAN :
            inbox' = [inbox EXCEPT !["slave"] = Append(@, "GETLINE"),
                                   !["consumer"] = IF begun THEN Tail(@) ELSE @]
      BY <1>5, <2>1 DEF HandleSigurg
    <3>2. inbox' = [inbox EXCEPT !["slave"] = Append(inbox["slave"], "GETLINE"),
                       !["consumer"] = IF begun THEN Tail(inbox["consumer"]) ELSE inbox["consumer"]]
      BY <3>1 DEF LoginInv, Typed, Ends
    <3>3. KeepAll /\ UNCHANGED <<pc, ends, sess, op, cmd, port>>
      BY <1>5, <2>1 DEF HandleSigurg
    <3> QED
      BY <3>2, <3>3, <1>4
  <2>2. CASE ~Held("slave")
    BY <1>2, <1>5, <2>2 DEF HandleSigurg
  <2> QED
    BY <2>1, <2>2
<1>6. CASE UrgentAnswered
  <2>1. ASSUME NEW v, inbox' = [inbox EXCEPT !["consumer"] = v],
               KeepAll, UNCHANGED <<pc, ends, sess, op, cmd, port>>
        PROVE  LoginInv'
    BY <2>1, <1>4
  <2>2. ASSUME NEW v, inbox' = [inbox EXCEPT !["consumer"] = v, !["slave"] = Append(@, "RESP")],
               KeepAll, UNCHANGED <<pc, ends, sess, op, cmd, port>>
        PROVE  LoginInv'
    <3>1. inbox' = [inbox EXCEPT !["consumer"] = v, !["slave"] = Append(inbox["slave"], "RESP")]
      BY <2>2 DEF LoginInv, Typed, Ends
    <3> QED
      BY <2>2, <3>1, <1>4
  <2> QED
    BY <1>2, <1>3, <1>6, <2>1, <2>2 DEF UrgentAnswered
<1>7. CASE OutOfStep
  BY <1>2, <1>7 DEF OutOfStep
<1> QED
  BY <1>5, <1>6, <1>7

LEMMA EndingKeeps ==
    ASSUME LoginInv, Dies \/ SessionOver \/ SlaveEnds \/ HandleSignal
    PROVE  LoginInv'
<1>1. CASE Dies
  BY <1>1, ExitKeeps DEF Dies, Running, Procs
<1>2. CASE SessionOver
  BY <1>2, ExitKeeps DEF SessionOver, Running, Procs
<1>3. CASE SlaveEnds
  BY <1>3, ExitKeeps DEF SlaveEnds, Running, Procs
<1>4. CASE HandleSignal
  BY <1>4, ExitKeeps DEF HandleSignal, ParentChecks, ParentBlocking, Running, Procs
<1> QED
  BY <1>1, <1>2, <1>3, <1>4

LEMMA ProcessRequestKeeps == ASSUME LoginInv, ProcessRequest PROVE LoginInv'
<1>1. pc["parent"] = "requests" /\ "parent" \in Procs /\ Running("parent")
  BY DEF ProcessRequest, Running, Procs
<1>2. CASE Exit("parent")
  BY <1>1, <1>2, ExitKeeps
<1>3. ASSUME NEW a, inbox' = [inbox EXCEPT !["parent2"] = Tail(@), !["child2"] = @ \o a],
             sess' = [sess EXCEPT !["parent"].pasv_listen = PasvListening(Request)],
             UNCHANGED <<conf, processes, ends, client, chld, pending, alarm, accounts>>
      PROVE  LoginInv'
  <2>1. UNCHANGED <<conf, cred, encrypted, granted, pam, pc>>
    BY <1>3 DEF accounts, processes, client
  <2>2. inbox' = [inbox EXCEPT !["parent2"] = Tail(inbox["parent2"]), !["child2"] = inbox["child2"] \o a]
    BY <1>3 DEF LoginInv, Typed, Ends
  <2>3. /\ inbox' = [x \in Ends |-> inbox'[x]]
        /\ inbox'["parent1"] = inbox["parent1"] /\ inbox'["child1"] = inbox["child1"]
    BY <2>2, OtherSockets
  <2>4. PICK b : b = PasvListening(Request)
    OBVIOUS
  <2>5. PICK s : s = [sess["parent"] EXCEPT !.pasv_listen = b]
    OBVIOUS
  <2>6. Shaped(sess["parent"])
    BY <1>1 DEF LoginInv, Typed
  <2>7. /\ Shaped(s) /\ s.user = sess["parent"].user
        /\ s.control_use_ssl = sess["parent"].control_use_ssl
        /\ s.is_anonymous = sess["parent"].is_anonymous /\ s.is_guest = sess["parent"].is_guest
        /\ s.data_use_ssl = sess["parent"].data_use_ssl
    BY <2>5, <2>6 DEF Shaped
  <2>8. sess' = [sess EXCEPT !["parent"] = s]
    BY <1>3, <2>4, <2>5
  <2>9. Serving
    BY <1>1, <2>1, <2>3, <2>7, <2>8, SessionFields DEF Serving, InSession, LoginInv, Typed
  <2> QED
    BY <2>9, ServingKeeps
<1> QED
  BY <1>2, <1>3 DEF ProcessRequest

LEMMA ReplyKeeps ==
    ASSUME LoginInv, pc["pre"] \in {"slave", "waiting"}, NEW a, NEW s, Reply(a, s, "slave"),
           Shaped(s), s.user = sess["pre"].user, s.control_use_ssl = sess["pre"].control_use_ssl,
           s.is_anonymous = sess["pre"].is_anonymous, s.is_guest = sess["pre"].is_guest,
           s.data_use_ssl = sess["pre"].data_use_ssl
    PROVE  LoginInv'
<1>1. "pre" \in Procs /\ Running("pre")
  BY DEF Running, Procs
<1>2. CASE Leave("pre", pc) /\ UNCHANGED <<bug, ctl, encrypted>>
  BY <1>1, <1>2, LeaveKeeps
<1>3. CASE /\ inbox' = [inbox EXCEPT !["slave"] = Tail(@), !["consumer"] = @ \o a]
           /\ sess' = [sess EXCEPT !["pre"] = s] /\ pc' = [pc EXCEPT !["pre"] = "slave"]
           /\ UNCHANGED <<conf, bug, cred, reaped, ends, ctl, encrypted, signals, accounts>>
  <2>1. UNCHANGED <<conf, cred, encrypted, granted, pam>>
    BY <1>3 DEF accounts
  <2>2. inbox' = [inbox EXCEPT !["slave"] = Tail(inbox["slave"]), !["consumer"] = inbox["consumer"] \o a]
    BY <1>3 DEF LoginInv, Typed, Ends
  <2>3. /\ inbox' = [x \in Ends |-> inbox'[x]]
        /\ inbox'["parent1"] = inbox["parent1"] /\ inbox'["child1"] = inbox["child1"]
    BY <2>2, OtherSockets
  <2>4. Serving
    BY <1>1, <1>3, <2>1, <2>3, PlaceKeeps, SessionFields DEF Serving, InSession
  <2> QED
    BY <2>4, ServingKeeps
<1> QED
  BY <1>2, <1>3 DEF Reply

LEMMA SlaveKeeps ==
    ASSUME LoginInv, SlaveAnswers \/ SlaveReadsLine \/ SlaveMovesData
    PROVE  LoginInv'
<1>1. pc["pre"] \in {"slave", "waiting"} /\ "pre" \in Procs /\ Running("pre")
  BY DEF SlaveAnswers, SlaveReadsLine, SlaveMovesData, Running, Procs
<1>2. Shaped(sess["pre"])
  BY <1>1 DEF LoginInv, Typed
<1>3. ASSUME NEW a, NEW b, Reply(a, [sess["pre"] EXCEPT !.data_fd = b], "slave")
      PROVE  LoginInv'
  <2>1. PICK s : s = [sess["pre"] EXCEPT !.data_fd = b]
    OBVIOUS
  <2>2. /\ Shaped(s) /\ s.user = sess["pre"].user /\ s.control_use_ssl = sess["pre"].control_use_ssl
        /\ s.is_anonymous = sess["pre"].is_anonymous /\ s.is_guest = sess["pre"].is_guest
        /\ s.data_use_ssl = sess["pre"].data_use_ssl
    BY <1>2, <2>1 DEF Shaped
  <2> QED
    BY <1>1, <1>3, <2>1, <2>2, ReplyKeeps
<1>4. ASSUME NEW a, Reply(a, sess["pre"], "slave")
      PROVE  LoginInv'
  BY <1>1, <1>2, <1>4, ReplyKeeps
<1>5. CASE Exit("pre")
  BY <1>1, <1>5, ExitKeeps
<1>6. ASSUME NEW w, Bug("pre", w) PROVE LoginInv'
  BY <1>1, <1>6, BugKeeps
<1>7. CASE Move("pre", "waiting") /\ UNCHANGED <<conf, sockets, sess, client, signals, accounts>>
  <2>1. /\ pc' = [pc EXCEPT !["pre"] = "waiting"]
        /\ UNCHANGED <<conf, cred, encrypted, granted, pam, sess, inbox>>
    BY <1>7 DEF Move, sockets, client, accounts
  <2>2. Serving
    BY <1>1, <2>1, PlaceKeeps, SameSession, SameSockets DEF Serving, InSession
  <2> QED
    BY <2>2, ServingKeeps
<1>8. CASE SlaveAnswers
  BY <1>3, <1>4, <1>6, <1>7, <1>8 DEF SlaveAnswers
<1>9. CASE SlaveReadsLine
  BY <1>4, <1>5, <1>9 DEF SlaveReadsLine
<1>10. CASE SlaveMovesData
  BY <1>3, <1>4, <1>5, <1>10 DEF SlaveMovesData, SslAccept
<1> QED
  BY <1>8, <1>9, <1>10

-----------------------------------------------------------------------------
(* Starting.                                                                *)

LEMMA AdoptKeeps ==
    ASSUME LoginInv, NEW new, NEW x,
           \/ /\ pc["parent"] = "start" /\ conf.one_process_model /\ x = "connected"
              /\ new.uid = "ftp" /\ ~new.procs
           \/ /\ pc["parent"] = "minimize" /\ x = "requests"
              /\ conf.capabilities /\ new.uid = "root" => pam = "open",
           AdoptOrDie("parent", new, x)
    PROVE  LoginInv'
<1>1. "parent" \in Procs /\ Running("parent")
  BY DEF Running, Procs
<1>2. CASE Exit("parent")
  BY <1>1, <1>2, ExitKeeps
<1>3. CASE Bug("parent", "not_running_as_root")
  BY <1>1, <1>3, BugKeeps
<1>4. CASE /\ cred' = [cred EXCEPT !["parent"] = new] /\ pc' = [pc EXCEPT !["parent"] = x]
           /\ UNCHANGED <<bug, reaped, conf, sockets, sess, client, signals, accounts>>
  <2>1. UNCHANGED <<conf, inbox, sess, encrypted, granted, pam>>
    BY <1>4 DEF sockets, client, accounts
  <2>2. /\ pc' = [q \in Procs |-> pc'[q]] /\ pc'["parent"] = x
        /\ pc'["pre"] = pc["pre"] /\ pc'["post"] = pc["post"]
    BY <1>1, <1>4, Put DEF LoginInv, Typed, Procs
  <2>3. /\ cred' = [q \in Procs |-> cred'[q]] /\ cred'["parent"] = new
        /\ cred'["pre"] = cred["pre"] /\ cred'["post"] = cred["post"]
    BY <1>1, <1>4, Put DEF LoginInv, Typed, Procs
  <2>4. Typed'
    BY <2>1, <2>2, <2>3 DEF LoginInv, Typed, ParentPlaces, PrePlaces, PostPlaces, SanityChecks,
       Shaped
  <2>5. Together'
    BY <2>1, <2>2 DEF LoginInv, Typed, ParentPlaces, Together, Before, Decided
  <2>6. Identity'
    BY <2>1, <2>2, <2>3 DEF LoginInv, Identity, Post
  <2>7. LetIn'
    BY <2>1, <2>2, <2>3 DEF LoginInv, LetIn, Post, Anonymous, Decided
  <2>8. Exchange'
    BY <2>1, <2>2 DEF LoginInv, Exchange, LoginRequest, Before, Together
  <2>9. Encryption'
    BY <2>1, <2>2 DEF LoginInv, Encryption, Decided, Post, Free
  <2> QED
    BY <2>4, <2>5, <2>6, <2>7, <2>8, <2>9 DEF LoginInv
<1> QED
  BY <1>2, <1>3, <1>4 DEF AdoptOrDie

\* The parent goes on to a place where no more is known of it.
LEMMA ParentMoves ==
    ASSUME LoginInv, NEW x, pc' = [pc EXCEPT !["parent"] = x],
           UNCHANGED <<conf, cred, inbox, sess, encrypted, granted, pam>>,
           \/ pc["parent"] = "main" /\ x = "start"
           \/ pc["parent"] = "wait" /\ x = "fork" /\ pc["pre"] = "ended"
           \/ pc["parent"] = "minimize" /\ x = "requests" /\ ~sess["parent"].is_anonymous
              /\ conf.session_support
    PROVE  LoginInv'
<1>1. /\ pc' = [q \in Procs |-> pc'[q]] /\ pc'["parent"] = x
      /\ pc'["pre"] = pc["pre"] /\ pc'["post"] = pc["post"]
  BY Put DEF LoginInv, Typed, Procs
<1>2. Typed'
  BY <1>1 DEF LoginInv, Typed, ParentPlaces, PrePlaces, PostPlaces, SanityChecks, Shaped
<1>3. Together' /\ Identity'
  BY <1>1 DEF LoginInv, Typed, ParentPlaces, Together, Before, Decided, Identity, Post
<1>4. LetIn'
  BY <1>1 DEF LoginInv, LetIn, Post, Anonymous, Decided
<1>5. Exchange'
  BY <1>1 DEF LoginInv, Exchange, LoginRequest, Before, Together
<1>6. Encryption'
  BY <1>1 DEF LoginInv, Encryption, Decided, Post, Free
<1> QED
  BY <1>2, <1>3, <1>4, <1>5, <1>6 DEF LoginInv

LEMMA MainKeeps == ASSUME LoginInv, Main PROVE LoginInv'
<1>1. CASE Exit("parent")
  BY <1>1, ExitKeeps DEF Main, Running, Procs
<1>2. CASE Move("parent", "start") /\ UNCHANGED <<conf, sockets, sess, client, signals, accounts>>
  BY <1>2, ParentMoves DEF Main, Move, sockets, client, accounts
<1> QED
  BY <1>1, <1>2 DEF Main

LEMMA OneProcessStartKeeps == ASSUME LoginInv, OneProcessStart PROVE LoginInv'
<1>1. PICK new : new = ChangeCredentials("ftp", "anon_root", HelperCaps, {"chroot", "no_procs"})
  OBVIOUS
<1>2. conf.capabilities
  BY DEF OneProcessStart, LoginInv, Typed, SanityChecks
<1>3. new.uid = "ftp" /\ ~new.procs
  BY <1>1, <1>2 DEF ChangeCredentials
<1> QED
  BY <1>1, <1>3, AdoptKeeps DEF OneProcessStart

LEMMA TwoProcessStartKeeps == ASSUME LoginInv, TwoProcessStart PROVE LoginInv'
<1>1. "parent" \in Procs /\ Running("parent") /\ pc["parent"] = "start" /\ ~conf.one_process_model
  BY DEF TwoProcessStart, Running, Procs
<1>2. CASE Bug("parent", "parent_fd_active")
  BY <1>1, <1>2, BugKeeps
<1>3. CASE /\ pc' = [pc EXCEPT !["parent"] = "login", !["pre"] = "drop"]
           /\ UNCHANGED <<bug, cred, reaped, conf, inbox, sess, client, pending, alarm,
                          asleep, accounts>>
  <2>1. UNCHANGED <<conf, cred, inbox, sess, encrypted, granted, pam>>
    BY <1>3 DEF client, accounts
  <2>2. /\ pc' = [q \in Procs |-> pc'[q]] /\ pc'["parent"] = "login"
        /\ pc'["pre"] = "drop" /\ pc'["post"] = pc["post"]
    BY <1>1, <1>3 DEF LoginInv, Typed, Procs
  <2>3. pc["pre"] = "none" /\ pc["post"] = "none"
    BY <1>1 DEF LoginInv, Together
  <2>4. Typed'
    BY <1>1, <2>1, <2>2, <2>3 DEF LoginInv, Typed, ParentPlaces, PrePlaces, PostPlaces,
       SanityChecks, Shaped, Before
  <2>5. Together' /\ Identity'
    BY <1>1, <2>1, <2>2, <2>3 DEF LoginInv, Together, Before, Decided, Identity
  <2>6. LetIn' /\ Encryption'
    BY <1>1, <2>1, <2>2, <2>3 DEF LoginInv, LetIn, Encryption, Decided, Free
  <2>7. Exchange'
    BY <1>1, <2>1, <2>2, <2>3 DEF LoginInv, Exchange, LoginRequest, Before
  <2> QED
    BY <2>4, <2>5, <2>6, <2>7 DEF LoginInv
<1> QED
  BY <1>2, <1>3 DEF TwoProcessStart

LEMMA DropAllPrivsKeeps == ASSUME LoginInv, DropAllPrivs PROVE LoginInv'
<1>1. "pre" \in Procs /\ Running("pre") /\ pc["pre"] = "drop"
  BY DEF DropAllPrivs, Running, Procs
<1>2. CASE Exit("pre")
  BY <1>1, <1>2, ExitKeeps
<1>3. CASE Bug("pre", "not_running_as_root")
  BY <1>1, <1>3, BugKeeps
<1>4. ASSUME NEW options,
             options = {"chroot", "no_procs"} \cup (IF conf.ssl_enable THEN {} ELSE {"no_fds"}),
             cred' = [cred EXCEPT !["pre"] = ChangeCredentials("nobody", "secure_chroot_dir",
             {}, options)],
             pc' = [pc EXCEPT !["pre"] = "connected"],
             UNCHANGED <<bug, reaped, conf, inbox, sess, client, signals, accounts>>
      PROVE  LoginInv'
  <2>1. UNCHANGED <<conf, inbox, sess, encrypted, granted, pam>>
    BY <1>4 DEF client, accounts
  <2>2. /\ pc' = [q \in Procs |-> pc'[q]] /\ pc'["pre"] = "connected"
        /\ pc'["parent"] = pc["parent"] /\ pc'["post"] = pc["post"]
    BY <1>1, <1>4, Put DEF LoginInv, Typed, Procs
  <2>3. PICK new : new = ChangeCredentials("nobody", "secure_chroot_dir", {}, options)
    OBVIOUS
  <2>4. new.uid = "nobody" /\ ~new.procs /\ (~conf.ssl_enable => ~new.fds)
    BY <1>4, <2>3 DEF ChangeCredentials
  <2>5. /\ cred' = [q \in Procs |-> cred'[q]] /\ cred'["pre"] = new
        /\ cred'["parent"] = cred["parent"] /\ cred'["post"] = cred["post"]
    BY <1>1, <1>4, <2>3, Put DEF LoginInv, Typed, Procs
  <2>6. Typed'
    BY <2>1, <2>2, <2>5 DEF LoginInv, Typed, ParentPlaces, PrePlaces, PostPlaces, SanityChecks,
       Shaped, Before
  <2>7. Together'
    BY <1>1, <2>1, <2>2 DEF LoginInv, Together, Before, Decided
  <2>8. Identity'
    BY <2>1, <2>2, <2>4, <2>5 DEF LoginInv, Identity, Post
  <2>9. LetIn'
    BY <2>1, <2>2, <2>5 DEF LoginInv, LetIn, Post, Anonymous, Decided
  <2>10. Exchange'
    BY <1>1, <2>1, <2>2 DEF LoginInv, Exchange, LoginRequest, Before
  <2>11. Encryption'
    BY <2>1, <2>2 DEF LoginInv, Encryption, Decided, Post, Free
  <2> QED
    BY <2>6, <2>7, <2>8, <2>9, <2>10, <2>11 DEF LoginInv
<1> QED
  BY <1>2, <1>3, <1>4 DEF DropAllPrivs

-----------------------------------------------------------------------------
(* The login.                                                               *)

LEMMA LoginResultKeeps == ASSUME LoginInv, LoginResult PROVE LoginInv'
<1>1. "pre" \in Procs /\ Running("pre") /\ pc["pre"] = "pass" /\ "child1" \in Ends /\ ~conf.one_process_model
  BY DEF LoginResult, Running, Procs, Ends, LoginInv, Together
<1>2. CASE Exit("pre")
  BY <1>1, <1>2, ExitKeeps
<1>3. CASE /\ Got("child1") /\ Head(inbox["child1"]) = "OK" /\ sess["pre"].control_use_ssl
           /\ Take("child1") /\ Move("pre", "slave")
           /\ UNCHANGED <<conf, sess, client, signals, accounts>>
  <2>1. UNCHANGED <<conf, cred, sess, encrypted, granted, pam>>
    BY <1>3 DEF Move, client, accounts
  <2>2. /\ pc' = [q \in Procs |-> pc'[q]] /\ pc'["pre"] = "slave"
        /\ pc'["parent"] = pc["parent"] /\ pc'["post"] = pc["post"]
    BY <1>1, <1>3, Put DEF LoginInv, Typed, Procs, Move
  <2>3. /\ inbox["child1"] = <<"OK">> /\ inbox["parent1"] = << >>
        /\ pc["parent"] \in {"wait", "fork", "minimize", "requests", "ended"}
    BY <1>1, <1>3 DEF LoginInv, Exchange, Got
  <2>4. Tail(<<"OK">>) = << >>
    OBVIOUS
  <2>5. /\ inbox' = [e \in Ends |-> inbox'[e]] /\ inbox'["child1"] = << >>
        /\ inbox'["parent1"] = << >>
    BY <1>1, <1>3, <2>3, <2>4, Put DEF LoginInv, Typed, Take, Ends
  <2>6. Typed'
    BY <2>1, <2>2, <2>5 DEF LoginInv, Typed, ParentPlaces, PrePlaces, PostPlaces, SanityChecks,
       Shaped
  <2>7. Together'
    BY <1>1, <2>1, <2>2, <2>3 DEF LoginInv, Together, Before, Decided
  <2>8. Identity'
    BY <1>1, <2>1, <2>2 DEF LoginInv, Identity, Post
  <2>9. LetIn' /\ Encryption'
    BY <1>1, <2>1, <2>2 DEF LoginInv, LetIn, Post, Anonymous, Decided, Encryption, Free
  <2>10. Exchange'
    BY <2>2, <2>3, <2>5 DEF Exchange, Before
  <2> QED
    BY <2>6, <2>7, <2>8, <2>9, <2>10 DEF LoginInv
<1>4. CASE /\ Got("child1") /\ Head(inbox["child1"]) = "BAD"
           /\ Take("child1")
           /\ Change("pre", [sess["pre"] EXCEPT !.user = "none", !.login_fails = @ + 1])
           /\ Move("pre", "getline")
           /\ UNCHANGED <<conf, ends, client, signals, accounts>>
  <2>1. UNCHANGED <<conf, cred, encrypted, granted, pam>>
    BY <1>4 DEF Move, client, accounts
  <2>2. /\ pc' = [q \in Procs |-> pc'[q]] /\ pc'["pre"] = "getline"
        /\ pc'["parent"] = pc["parent"] /\ pc'["post"] = pc["post"]
    BY <1>1, <1>4, Put DEF LoginInv, Typed, Procs, Move
  <2>3. /\ inbox["child1"] = <<"BAD">> /\ inbox["parent1"] = << >>
        /\ pc["parent"] \in {"login", "ended"} /\ pc["post"] = "none"
    BY <1>1, <1>4 DEF LoginInv, Exchange, Got
  <2>4. Tail(<<"BAD">>) = << >>
    OBVIOUS
  <2>5. /\ inbox' = [e \in Ends |-> inbox'[e]] /\ inbox'["child1"] = << >>
        /\ inbox'["parent1"] = << >>
    BY <1>1, <1>4, <2>3, <2>4, Put DEF LoginInv, Typed, Take, Ends
  <2>6. PICK n : n = sess["pre"].login_fails + 1
    OBVIOUS
  <2>7. PICK t : t = [sess["pre"] EXCEPT !.user = "none", !.login_fails = n]
    OBVIOUS
  <2>8. /\ Shaped(t) /\ t.user = "none" /\ t.control_use_ssl = sess["pre"].control_use_ssl
        /\ t.data_use_ssl = sess["pre"].data_use_ssl
    <3>1. Shaped(sess["pre"])
      BY <1>1 DEF LoginInv, Typed
    <3> QED
      BY <2>7, <3>1 DEF Shaped
  <2>9. /\ sess' = [q \in Procs |-> sess'[q]] /\ sess'["pre"] = t
        /\ sess'["parent"] = sess["parent"] /\ sess'["post"] = sess["post"]
    BY <1>1, <1>4, <2>6, <2>7, Put DEF LoginInv, Typed, Change, Procs
  <2>10. Typed'
    BY <2>1, <2>2, <2>5, <2>8, <2>9 DEF LoginInv, Typed, ParentPlaces, PrePlaces, PostPlaces,
       SanityChecks, Procs, Before
  <2>11. Together'
    BY <1>1, <2>1, <2>2, <2>3 DEF LoginInv, Together, Before, Decided
  <2>12. Identity'
    BY <1>1, <2>1, <2>2, <2>3 DEF LoginInv, Identity
  <2>13. LetIn'
    BY <1>1, <2>1, <2>2, <2>3 DEF LoginInv, LetIn, Decided
  <2>14. Exchange'
    BY <2>2, <2>3, <2>5 DEF Exchange, Before
  <2>15. Encryption'
    BY <1>1, <2>1, <2>2, <2>3, <2>8, <2>9 DEF LoginInv, Encryption, Decided
  <2> QED
    BY <2>10, <2>11, <2>12, <2>13, <2>14, <2>15 DEF LoginInv
<1> QED
  BY <1>2, <1>3, <1>4 DEF LoginResult

LEMMA ReadLoginKeeps == ASSUME LoginInv, ReadLogin PROVE LoginInv'
<1>1. "parent" \in Procs /\ Running("parent") /\ pc["parent"] = "login" /\ "parent1" \in Ends
  BY DEF ReadLogin, Running, Procs, Ends
<1>2. CASE Exit("parent")
  BY <1>1, <1>2, ExitKeeps
<1>3. CASE ~Exit("parent")
  <2> DEFINE req == Head(inbox["parent1"])
             new == [sess["parent"] EXCEPT
                        !.user = req.user,
                        !.control_use_ssl = req.control_use_ssl /\ conf.ssl_enable,
                        !.data_use_ssl = req.data_use_ssl /\ conf.ssl_enable]
  <2>1. /\ Got("parent1") /\ Take("parent1") /\ sess' = [sess EXCEPT !["parent"] = new]
        /\ Move("parent", "auth") /\ Quiet /\ UNCHANGED <<ends, accounts>>
    BY <1>3 DEF ReadLogin, Change
  <2>2. UNCHANGED <<conf, cred, encrypted, granted, pam>>
    BY <2>1 DEF Move, Quiet, client, accounts
  <2>3. /\ pc' = [q \in Procs |-> pc'[q]] /\ pc'["parent"] = "auth"
        /\ pc'["pre"] = pc["pre"] /\ pc'["post"] = pc["post"]
    BY <1>1, <2>1, Put DEF LoginInv, Typed, Procs, Move
  <2>4. /\ inbox["parent1"] = <<LoginRequest(sess["pre"])>> /\ sess["pre"].user \in Names
        /\ pc["pre"] \in {"pass", "ended"} /\ inbox["child1"] = << >>
    BY <2>1 DEF LoginInv, Exchange, Got
  <2>5. req = LoginRequest(sess["pre"]) /\ Tail(inbox["parent1"]) = << >>
    BY <2>4
  <2>6. /\ req.user = sess["pre"].user /\ req.control_use_ssl = sess["pre"].control_use_ssl
        /\ req.data_use_ssl = sess["pre"].data_use_ssl
    BY <2>5 DEF LoginRequest
  <2>7. /\ inbox' = [e \in Ends |-> inbox'[e]] /\ inbox'["child1"] = << >>
        /\ inbox'["parent1"] = << >>
    BY <1>1, <2>1, <2>4, <2>5, Put DEF LoginInv, Typed, Take, Ends
  <2>8. PICK u, c, d : /\ u = req.user /\ c = (req.control_use_ssl /\ conf.ssl_enable)
                       /\ d = (req.data_use_ssl /\ conf.ssl_enable)
    OBVIOUS
  <2>9. PICK t : t = new
    OBVIOUS
  <2>10. Shaped(t) /\ t.user = u /\ t.control_use_ssl = c /\ t.data_use_ssl = d
    <3>1. Shaped(sess["parent"])
      BY <1>1 DEF LoginInv, Typed
    <3>2. t = [sess["parent"] EXCEPT !.user = u, !.control_use_ssl = c, !.data_use_ssl = d]
      BY <2>8, <2>9
    <3> QED
      BY <3>1, <3>2 DEF Shaped
  <2>11. /\ sess' = [q \in Procs |-> sess'[q]] /\ sess'["parent"] = t
         /\ sess'["pre"] = sess["pre"] /\ sess'["post"] = sess["post"]
    BY <1>1, <2>1, <2>9, Put DEF LoginInv, Typed, Procs
  <2>12. ~conf.one_process_model
    BY <1>1 DEF LoginInv, Typed, ParentPlaces
  <2> HIDE DEF req, new
  <2>13. pc["post"] = "none"
    BY <1>1 DEF LoginInv, Together
  <2>14. Typed'
    BY <2>2, <2>3, <2>7, <2>10, <2>11, <2>12
       DEF LoginInv, Typed, ParentPlaces, PrePlaces, PostPlaces,
       SanityChecks, Procs
  <2>15. Together'
    BY <2>2, <2>3, <2>4, <2>12, <2>13 DEF Together, Before, Decided
  <2>16. Identity'
    BY <1>1, <2>2, <2>3, <2>4, <2>13 DEF LoginInv, Identity
  <2>17. LetIn'
    BY <2>2, <2>3, <2>4, <2>6, <2>8, <2>10, <2>11, <2>13 DEF LetIn, Decided
  <2>18. Exchange'
    BY <2>3, <2>4, <2>7, <2>13 DEF Exchange, Before
  <2>19. Encryption'
    <3>0. encrypted \in BOOLEAN
      BY DEF LoginInv, Encryption
    <3>1. /\ sess["pre"].control_use_ssl = encrypted /\ (sess["pre"].data_use_ssl => encrypted)
          /\ encrypted => conf.ssl_enable
          /\ conf.ssl_enable /\ ~encrypted => Free(sess["pre"].user)
          /\ sess["pre"].user \in Names \cup {"none"}
          /\ (sess["pre"].user # "none" /\ conf.ssl_enable /\ ~encrypted => Free(sess["pre"].user))
      BY <2>4, <2>12 DEF LoginInv, Encryption, Names
    <3>2. t.control_use_ssl = encrypted /\ (t.data_use_ssl => encrypted) /\ t.user = sess["pre"].user
      <4>1. CASE encrypted = TRUE
        BY <3>1, <4>1, <2>6, <2>8, <2>10
      <4>2. CASE encrypted = FALSE
        BY <3>1, <4>2, <2>6, <2>8, <2>10
      <4> QED
        BY <3>0, <4>1, <4>2
    <3> QED
      BY <2>2, <2>3, <2>11, <2>12, <2>13, <3>0, <3>1, <3>2 DEF Encryption, Free
  <2> QED
    BY <2>14, <2>15, <2>16, <2>17, <2>18, <2>19 DEF LoginInv
<1> QED
  BY <1>2, <1>3

LEMMA LoginFailsKeeps == ASSUME LoginInv, LoginFails PROVE LoginInv'
<1>1. /\ "parent" \in Procs /\ Running("parent") /\ pc["parent"] = "auth" /\ "child1" \in Ends
      /\ ~conf.one_process_model
  BY DEF LoginFails, Running, Procs, Ends, LoginInv, Typed, ParentPlaces
<1>2. CASE Exit("parent")
  BY <1>1, <1>2, ExitKeeps
<1>3. CASE /\ Held("child1") /\ Answer("BAD") /\ Move("parent", "login")
           /\ Quiet /\ UNCHANGED <<ends, sess, asleep, accounts>>
  <2>1. UNCHANGED <<conf, cred, sess, encrypted, granted, pam>>
    BY <1>3 DEF Move, Quiet, client, accounts
  <2>2. /\ pc' = [q \in Procs |-> pc'[q]] /\ pc'["parent"] = "login"
        /\ pc'["pre"] = pc["pre"] /\ pc'["post"] = pc["post"]
    BY <1>1, <1>3, Put DEF LoginInv, Typed, Procs, Move
  <2>3. /\ inbox["child1"] = << >> /\ inbox["parent1"] = << >> /\ pc["post"] = "none"
        /\ pc["pre"] \in {"pass", "ended"}
    BY <1>1 DEF LoginInv, Exchange, Together
  <2>4. << >> \o <<"BAD">> = <<"BAD">>
    OBVIOUS
  <2>5. inbox' = [inbox EXCEPT !["child1"] = inbox["child1"] \o <<"BAD">>]
    BY <1>3 DEF Answer, Send, Peer
  <2>6. /\ inbox' = [e \in Ends |-> inbox'[e]] /\ inbox'["child1"] = <<"BAD">>
        /\ inbox'["parent1"] = << >>
    BY <1>1, <2>3, <2>4, <2>5, Put DEF LoginInv, Typed, Ends
  <2>7. Typed'
    BY <1>1, <2>1, <2>2, <2>6 DEF LoginInv, Typed, ParentPlaces, PrePlaces, PostPlaces,
       SanityChecks, Shaped
  <2>8. Together' /\ Identity'
    BY <1>1, <2>1, <2>2, <2>3 DEF LoginInv, Together, Identity, Before, Decided
  <2>9. LetIn' /\ Encryption'
    BY <1>1, <2>1, <2>2, <2>3 DEF LoginInv, LetIn, Encryption, Decided, Free
  <2>10. Exchange'
    BY <2>2, <2>3, <2>6 DEF Exchange, Before
  <2> QED
    BY <2>7, <2>8, <2>9, <2>10 DEF LoginInv
<1> QED
  BY <1>2, <1>3 DEF LoginFails

LEMMA LoginSucceedsKeeps == ASSUME LoginInv, LoginSucceeds PROVE LoginInv'
<1>1. /\ "parent" \in Procs /\ Running("parent") /\ pc["parent"] = "auth" /\ ~conf.one_process_model
  BY DEF LoginSucceeds, Running, Procs, LoginInv, Typed, ParentPlaces
<1>2. CASE Exit("parent")
  BY <1>1, <1>2, ExitKeeps
<1>3. ASSUME NEW anon, anon = Anonymous(sess["parent"].user),
             granted' = sess["parent"].user,
             pam' = IF anon \/ ~conf.session_support THEN pam ELSE "open",
             Change("parent", [sess["parent"] EXCEPT !.is_anonymous = anon]),
             Move("parent", "commit"), Quiet, UNCHANGED <<sockets, asleep>>
      PROVE  LoginInv'
  <2>1. UNCHANGED <<conf, cred, inbox, encrypted>>
    BY <1>3 DEF Move, Quiet, client, sockets
  <2>2. /\ pc' = [q \in Procs |-> pc'[q]] /\ pc'["parent"] = "commit"
        /\ pc'["pre"] = pc["pre"] /\ pc'["post"] = pc["post"]
    BY <1>1, <1>3, Put DEF LoginInv, Typed, Procs, Move
  <2>3. /\ inbox["child1"] = << >> /\ inbox["parent1"] = << >> /\ pc["post"] = "none"
        /\ pc["pre"] \in {"pass", "ended"}
    BY <1>1 DEF LoginInv, Exchange, Together
  <2>4. PICK t : t = [sess["parent"] EXCEPT !.is_anonymous = anon]
    OBVIOUS
  <2>5. /\ Shaped(t) /\ t.user = sess["parent"].user /\ t.control_use_ssl = sess["parent"].control_use_ssl
        /\ t.data_use_ssl = sess["parent"].data_use_ssl /\ t.is_anonymous = anon
    <3>1. Shaped(sess["parent"])
      BY <1>1 DEF LoginInv, Typed
    <3> QED
      BY <2>4, <3>1 DEF Shaped
  <2>6. /\ sess' = [q \in Procs |-> sess'[q]] /\ sess'["parent"] = t
        /\ sess'["pre"] = sess["pre"] /\ sess'["post"] = sess["post"]
    BY <1>1, <1>3, <2>4, Put DEF LoginInv, Typed, Procs, Change
  <2>7. Typed'
    BY <1>1, <2>1, <2>2, <2>5, <2>6 DEF LoginInv, Typed, ParentPlaces, PrePlaces, PostPlaces,
       SanityChecks, Procs
  <2>8. Together' /\ Identity'
    BY <1>1, <2>1, <2>2, <2>3 DEF LoginInv, Together, Identity, Before, Decided
  <2>9. LetIn'
    BY <1>1, <1>3, <2>1, <2>2, <2>3, <2>5, <2>6 DEF LoginInv, LetIn, Decided, Anonymous
  <2>10. Encryption'
    BY <1>1, <2>1, <2>2, <2>3, <2>5, <2>6 DEF LoginInv, Encryption, Decided, Free
  <2>11. Exchange'
    BY <2>1, <2>2, <2>3, <2>6 DEF Exchange, Before
  <2> QED
    BY <2>7, <2>8, <2>9, <2>10, <2>11 DEF LoginInv
<1> QED
  BY <1>2, <1>3 DEF LoginSucceeds

LEMMA CommitKeeps == ASSUME LoginInv, Commit PROVE LoginInv'
<1>1. /\ "parent" \in Procs /\ Running("parent") /\ pc["parent"] = "commit" /\ "child1" \in Ends
      /\ ~conf.one_process_model
  BY DEF Commit, Running, Procs, Ends, LoginInv, Typed, ParentPlaces
<1>2. CASE Exit("parent")
  BY <1>1, <1>2, ExitKeeps
<1>3. CASE /\ Held("child1") /\ Answer("OK")
           /\ Move("parent", IF sess["parent"].control_use_ssl THEN "fork" ELSE "wait")
           /\ Change("parent", [sess["parent"] EXCEPT !.ssl_slave_active = @ \/ sess["parent"].control_use_ssl])
           /\ UNCHANGED <<conf, ends, client, pending, alarm, asleep, accounts>>
  <2>1. UNCHANGED <<conf, cred, encrypted, granted, pam>>
    BY <1>3 DEF Move, client, accounts
  <2>2. PICK x \in {"fork", "wait"} : pc' = [pc EXCEPT !["parent"] = x]
    BY <1>3 DEF Move
  <2>3. /\ pc' = [q \in Procs |-> pc'[q]] /\ pc'["parent"] = x
        /\ pc'["pre"] = pc["pre"] /\ pc'["post"] = pc["post"]
    BY <1>1, <2>2, Put DEF LoginInv, Typed, Procs
  <2>4. /\ inbox["child1"] = << >> /\ inbox["parent1"] = << >> /\ pc["post"] = "none"
        /\ pc["pre"] \in {"pass", "ended"}
    BY <1>1 DEF LoginInv, Exchange, Together
  <2>5. << >> \o <<"OK">> = <<"OK">>
    OBVIOUS
  <2>6. inbox' = [inbox EXCEPT !["child1"] = inbox["child1"] \o <<"OK">>]
    BY <1>3 DEF Answer, Send, Peer
  <2>7. /\ inbox' = [e \in Ends |-> inbox'[e]] /\ inbox'["child1"] = <<"OK">>
        /\ inbox'["parent1"] = << >>
    BY <1>1, <2>4, <2>5, <2>6, Put DEF LoginInv, Typed, Ends
  <2>8. PICK b : b = (sess["parent"].ssl_slave_active \/ sess["parent"].control_use_ssl)
    OBVIOUS
  <2>9. PICK t : t = [sess["parent"] EXCEPT !.ssl_slave_active = b]
    OBVIOUS
  <2>10. /\ Shaped(t) /\ t.user = sess["parent"].user /\ t.control_use_ssl = sess["parent"].control_use_ssl
         /\ t.data_use_ssl = sess["parent"].data_use_ssl /\ t.is_anonymous = sess["parent"].is_anonymous
    <3>1. Shaped(sess["parent"])
      BY <1>1 DEF LoginInv, Typed
    <3> QED
      BY <2>9, <3>1 DEF Shaped
  <2>11. /\ sess' = [q \in Procs |-> sess'[q]] /\ sess'["parent"] = t
         /\ sess'["pre"] = sess["pre"] /\ sess'["post"] = sess["post"]
    BY <1>1, <1>3, <2>8, <2>9, Put DEF LoginInv, Typed, Procs, Change
  <2>12. Typed'
    BY <1>1, <2>1, <2>2, <2>3, <2>7, <2>10, <2>11 DEF LoginInv, Typed, ParentPlaces, PrePlaces,
       PostPlaces, SanityChecks, Procs
  <2>13. Together' /\ Identity'
    BY <1>1, <2>1, <2>2, <2>3, <2>4 DEF LoginInv, Together, Identity, Before, Decided
  <2>14. LetIn'
    BY <1>1, <2>1, <2>2, <2>3, <2>4, <2>10, <2>11 DEF LoginInv, LetIn, Decided, Anonymous
  <2>15. Encryption'
    BY <1>1, <2>1, <2>2, <2>3, <2>4, <2>10, <2>11 DEF LoginInv, Encryption, Decided, Free
  <2>16. Exchange'
    BY <2>2, <2>3, <2>4, <2>7 DEF Exchange, Before
  <2> QED
    BY <2>12, <2>13, <2>14, <2>15, <2>16 DEF LoginInv
<1> QED
  BY <1>2, <1>3 DEF Commit

LEMMA ForkKeeps == ASSUME LoginInv, Fork PROVE LoginInv'
<1>1. /\ "parent" \in Procs /\ "post" \in Procs /\ Running("parent") /\ pc["parent"] = "fork"
      /\ ~conf.one_process_model
  BY DEF Fork, Running, Procs, LoginInv, Typed, ParentPlaces
<1>2. CASE Exit("parent")
  BY <1>1, <1>2, ExitKeeps
<1>3. CASE Bug("parent", "parent_fd_active")
  BY <1>1, <1>3, BugKeeps
<1>4. CASE /\ sess' = [sess EXCEPT !["post"] = sess["parent"]]
           /\ cred' = [cred EXCEPT !["post"] = cred["parent"]]
           /\ pc' = [pc EXCEPT !["parent"] = "minimize", !["post"] = "adopt"]
           /\ UNCHANGED <<bug, reaped, conf, inbox, client, pending, alarm, asleep, accounts>>
  <2>1. UNCHANGED <<conf, inbox, encrypted, granted, pam>>
    BY <1>4 DEF client, accounts
  <2>2. /\ pc' = [q \in Procs |-> pc'[q]] /\ pc'["parent"] = "minimize"
        /\ pc'["pre"] = pc["pre"] /\ pc'["post"] = "adopt"
    BY <1>1, <1>4 DEF LoginInv, Typed, Procs
  <2>3. /\ sess' = [q \in Procs |-> sess'[q]] /\ sess'["post"] = sess["parent"]
        /\ sess'["pre"] = sess["pre"] /\ sess'["parent"] = sess["parent"]
    BY <1>1, <1>4, Put DEF LoginInv, Typed, Procs
  <2>4. /\ cred' = [q \in Procs |-> cred'[q]] /\ cred'["post"] = cred["parent"]
        /\ cred'["pre"] = cred["pre"] /\ cred'["parent"] = cred["parent"]
    BY <1>1, <1>4, Put DEF LoginInv, Typed, Procs
  <2>5. \A q \in Procs : Shaped(sess'[q])
    BY <2>3 DEF LoginInv, Typed, Procs
  <2>6. pc["pre"] \notin Before
    BY <1>1 DEF LoginInv, Together, Decided
  <2>7. Typed'
    BY <1>1, <2>1, <2>2, <2>3, <2>4, <2>5
       DEF LoginInv, Typed, ParentPlaces, PrePlaces, PostPlaces,
       SanityChecks
  <2>8. Together'
    BY <1>1, <2>1, <2>2, <2>6 DEF Together
  <2>9. Identity'
    BY <1>1, <2>1, <2>2, <2>4 DEF LoginInv, Identity
  <2>10. LetIn'
    BY <1>1, <2>1, <2>2, <2>3 DEF LoginInv, LetIn, Decided, Anonymous, Post
  <2>11. Encryption'
    BY <1>1, <2>1, <2>2, <2>3 DEF LoginInv, LetIn, Encryption, Decided, Free, Post
  <2>12. Exchange'
    BY <1>1, <2>1, <2>2, <2>3, <2>6 DEF LoginInv, Exchange, Before
  <2> QED
    BY <2>7, <2>8, <2>9, <2>10, <2>11, <2>12 DEF LoginInv
<1> QED
  BY <1>2, <1>3, <1>4 DEF Fork

LEMMA WaitForPreKeeps == ASSUME LoginInv, WaitForPre PROVE LoginInv'
  BY ParentMoves DEF WaitForPre, sockets, client, accounts

LEMMA MinimizePrivilegeKeeps == ASSUME LoginInv, MinimizePrivilege PROVE LoginInv'
<1>1. CASE ~sess["parent"].is_anonymous /\ conf.session_support
  BY <1>1, ParentMoves DEF MinimizePrivilege, Move, sockets, client, accounts
<1>2. CASE ~(~sess["parent"].is_anonymous /\ conf.session_support)
  <2>1. PICK new : new = ChangeCredentials("nobody", "secure_chroot_dir", HelperCaps, {"chroot"})
    OBVIOUS
  <2>2. conf.capabilities => new.uid # "root"
    BY <2>1 DEF ChangeCredentials
  <2> QED
    BY <1>2, <2>1, <2>2, AdoptKeeps DEF MinimizePrivilege
<1> QED
  BY <1>1, <1>2

LEMMA BecomeUserKeeps == ASSUME LoginInv, BecomeUser PROVE LoginInv'
<1> DEFINE was_anon == sess["post"].is_anonymous
           guest == conf.guest_enable /\ ~was_anon
           anon == was_anon \/ (guest /\ ~conf.virtual_use_local_privs)
           do_chroot == anon \/ DoChroot(sess["post"].user)
           uid == CASE guest -> "guest" [] was_anon -> "ftp" [] OTHER -> sess["post"].user
           options == {"no_procs"} \cup (IF do_chroot THEN {"chroot"} ELSE {})
           new == ChangeCredentials(uid, CalculateChdirDir(was_anon), {}, options)
<1>1. "post" \in Procs /\ Running("post") /\ pc["post"] = "adopt"
  BY DEF BecomeUser, Running, Procs
<1>2. CASE Exit("post")
  BY <1>1, <1>2, ExitKeeps
<1>3. CASE Bug("post", "not_running_as_root")
  BY <1>1, <1>3, BugKeeps
<1>4. CASE /\ cred' = [cred EXCEPT !["post"] = new]
           /\ Change("post", [sess["post"] EXCEPT !.is_anonymous = anon, !.is_guest = guest])
           /\ pc' = [pc EXCEPT !["post"] = "hello"]
           /\ UNCHANGED <<bug, reaped, conf, inbox, client, signals, accounts>>
  <2>1. UNCHANGED <<conf, inbox, encrypted, granted, pam>>
    BY <1>4 DEF client, accounts
  <2>2. /\ pc' = [q \in Procs |-> pc'[q]] /\ pc'["post"] = "hello"
        /\ pc'["pre"] = pc["pre"] /\ pc'["parent"] = pc["parent"]
    BY <1>1, <1>4, Put DEF LoginInv, Typed, Procs
  <2>3. PICK a, g, n : a = anon /\ g = guest /\ n = new
    OBVIOUS
  <2>4. PICK t : t = [sess["post"] EXCEPT !.is_anonymous = a, !.is_guest = g]
    OBVIOUS
  <2>5. /\ Shaped(t) /\ t.user = sess["post"].user /\ t.control_use_ssl = sess["post"].control_use_ssl
        /\ t.data_use_ssl = sess["post"].data_use_ssl /\ t.is_anonymous = a /\ t.is_guest = g
    <3>1. Shaped(sess["post"])
      BY <1>1 DEF LoginInv, Typed
    <3> QED
      BY <2>4, <3>1 DEF Shaped
  <2>6. /\ sess' = [q \in Procs |-> sess'[q]] /\ sess'["post"] = t
        /\ sess'["pre"] = sess["pre"] /\ sess'["parent"] = sess["parent"]
    BY <1>1, <1>4, <2>3, <2>4, Put DEF LoginInv, Typed, Procs, Change
  <2>7. /\ cred' = [q \in Procs |-> cred'[q]] /\ cred'["post"] = n
        /\ cred'["pre"] = cred["pre"] /\ cred'["parent"] = cred["parent"]
    BY <1>1, <1>4, <2>3, Put DEF LoginInv, Typed, Procs
  <2>8. Post.user = granted /\ Post.is_anonymous = Anonymous(granted)
    BY <1>1 DEF LoginInv, LetIn
  <2>9. /\ n.uid = (IF g THEN "guest" ELSE granted)
        /\ ~n.procs /\ (a => n.jail # "none")
    <3>1. n.uid = uid
      BY <2>3 DEF ChangeCredentials
    <3>2. uid = (IF guest THEN "guest" ELSE granted)
      BY <2>8 DEF Post, Anonymous
    <3>3. ~n.procs
      BY <2>3 DEF ChangeCredentials
    <3>4. anon => n.jail = CalculateChdirDir(was_anon)
      BY <2>3 DEF ChangeCredentials
    <3>5. CalculateChdirDir(was_anon) # "none"
      BY DEF CalculateChdirDir
    <3> QED
      BY <2>3, <3>1, <3>2, <3>3, <3>4, <3>5
  <2> HIDE DEF was_anon, guest, anon, do_chroot, uid, options, new
  <2>10. \A q \in Procs : Shaped(sess'[q])
    BY <2>5, <2>6 DEF LoginInv, Typed, Procs
  <2>11. Typed'
    BY <1>1, <2>1, <2>2, <2>6, <2>7, <2>10
       DEF LoginInv, Typed, ParentPlaces, PrePlaces, PostPlaces,
       SanityChecks
  <2>12. Together'
    BY <1>1, <2>1, <2>2 DEF LoginInv, Together, Decided, Before
  <2>13. Identity'
    BY <1>1, <2>1, <2>2, <2>5, <2>6, <2>7, <2>9 DEF LoginInv, Identity, Post
  <2>14. LetIn'
    BY <1>1, <2>1, <2>2, <2>6, <2>7 DEF LoginInv, LetIn, Decided, Anonymous
  <2>15. Encryption'
    BY <1>1, <2>1, <2>2, <2>5, <2>6 DEF LoginInv, Encryption, Decided, Free, Post
  <2>16. Exchange'
    BY <1>1, <2>1, <2>2, <2>6 DEF LoginInv, Exchange, Before
  <2> QED
    BY <2>11, <2>12, <2>13, <2>14, <2>15, <2>16 DEF LoginInv
<1> QED
  BY <1>2, <1>3, <1>4 DEF BecomeUser

-----------------------------------------------------------------------------
\* One step per action of the connection.
LEMMA LoginInvNext ==
    ASSUME LoginInv, [Next]_allvars
    PROVE  LoginInv'
<1>1. CASE UNCHANGED allvars
  BY <1>1, SameKeeps DEF allvars, vars, processes, sockets, client, accounts
<1>2. CASE Environment
  <2>1. CASE ClientCloses
    BY <2>1, SameKeeps DEF ClientCloses, processes, sockets, accounts
  <2>2. CASE Terminate
    BY <2>2, SameKeeps DEF Terminate, processes, sockets, client, accounts
  <2> QED
    BY <1>2, <2>1, <2>2, DialogueStepsKeep DEF Environment
<1>3. CASE Starting
  BY <1>3, MainKeeps, OneProcessStartKeeps, TwoProcessStartKeeps, DropAllPrivsKeeps,
     InitConnectionKeeps DEF Starting
<1>4. CASE LoggingIn
  BY <1>4, LoginResultKeeps, ReadLoginKeeps, LoginFailsKeeps, LoginSucceedsKeeps, CommitKeeps,
     WaitForPreKeeps, ForkKeeps, MinimizePrivilegeKeeps, BecomeUserKeeps, DialogueStepsKeep
     DEF LoggingIn
<1>5. CASE ParentSignals
  <2>1. CASE AlarmWakes
    BY <2>1, SameKeeps DEF AlarmWakes, processes, sockets, client, accounts
  <2> QED
    BY <1>5, <2>1, EndingKeeps DEF ParentSignals
<1>6. CASE PostSteps
  BY <1>6, HelloKeeps, AskKeeps, AnsweredKeeps, EndingKeeps, DispatchKeeps DEF PostSteps
<1>7. CASE Local \/ ProcessRequest \/ Timeout
  BY <1>7, LocalKeeps, ProcessRequestKeeps, TimeoutKeeps
<1>8. CASE SlaveAnswers \/ SlaveReadsLine \/ SlaveMovesData \/ SlaveEnds \/ SessionOver
  BY <1>8, SlaveKeeps, EndingKeeps
<1>9. CASE ParentSleeps
  BY <1>9, SameKeeps DEF ParentSleeps, processes, sockets, client, accounts
<1>10. CASE AsyncAbor \/ AbortSteps
  BY <1>10, AborKeeps DEF AsyncAbor, AbortSteps
<1> QED
  BY <1>1, <1>2, <1>3, <1>4, <1>5, <1>6, <1>7, <1>8, <1>9, <1>10 DEF Next, Steps

LEMMA LoginInvHolds == Spec => []LoginInv
<1>1. LoginInit => LoginInv
  BY LoginInvInit
<1>2. LoginInv /\ [Next]_allvars => LoginInv'
  BY LoginInvNext
<1> QED
  BY <1>1, <1>2, PTL DEF Spec

\* No process that reads what a client sends is root (drop_all_privs,
\* one_process_start, process_login_req), the session process runs as the account
\* common_do_login let in or the guest account that stands for it, in a jail when its
\* privileges are anonymous ones, and with capabilities the parent stays root only
\* for a PAM session (minimize_privilege): in every configuration, for any number of
\* commands, and wherever a process ends.
THEOREM LoginsRunAsTheirUser == Spec => []SessionsRunAsTheirUser
<1>1. LoginInv => SessionsRunAsTheirUser
  <2> SUFFICES ASSUME LoginInv PROVE SessionsRunAsTheirUser
    OBVIOUS
  <2>1. "ftp" # "root" /\ "nobody" # "root" /\ "guest" # "root" /\ \A n \in Names : n # "root" /\ n # "none"
    BY DEF Names
  <2>2. ASSUME NEW p \in Procs,
               pc[p] \in {"getline", "pass", "slave", "waiting", "session", "call", "await",
               "line", "dying"}
        PROVE  /\ cred[p].uid # "root" /\ ~cred[p].procs
               /\ pc[p] = "getline" /\ ~conf.ssl_enable /\ ~conf.one_process_model => ~cred[p].fds
    <3>1. CASE p = "parent"
      BY <2>1, <2>2, <3>1 DEF LoginInv, Typed, ParentPlaces, Identity
    <3>2. CASE p = "pre"
      BY <2>1, <2>2, <3>2 DEF LoginInv, Typed, PrePlaces, Before, Identity
    <3>3. CASE p = "post"
      BY <2>1, <2>2, <3>3 DEF LoginInv, Typed, PostPlaces, Identity, LetIn
    <3> QED
      BY <3>1, <3>2, <3>3 DEF Procs
  <2>3. ASSUME Running("post"), pc["post"] # "adopt"
        PROVE  /\ granted # "none"
               /\ cred["post"].uid = IF Post.is_guest THEN "guest" ELSE granted
               /\ Post.is_anonymous => cred["post"].jail # "none"
    BY <2>1, <2>3 DEF LoginInv, Typed, PostPlaces, Identity, LetIn, Running
  <2>4. pc["parent"] = "requests" /\ conf.capabilities /\ cred["parent"].uid = "root" => pam = "open"
    BY DEF LoginInv, LetIn
  <2> QED
    BY <2>2, <2>3, <2>4 DEF SessionsRunAsTheirUser
<1> QED
  BY <1>1, LoginInvHolds, PTL

\* The PAM session of a login is open as long as its session and the parent run, and
\* closed by the parent's exit function (vsf_auth_shutdown) at whatever point it ends.
THEOREM PamSessionsAreClosed == Spec => []PamSessionIsClosed
<1>1. LoginInv => PamSessionIsClosed
  <2> SUFFICES ASSUME LoginInv PROVE PamSessionIsClosed
    OBVIOUS
  <2>1. pc["parent"] = "ended" => pam # "open"
    BY DEF LoginInv, LetIn
  <2>2. Running("post") /\ Running("parent") => pc["parent"] \in Decided
    BY DEF LoginInv, Together, Running, Decided
  <2> QED
    BY <2>1, <2>2 DEF LoginInv, LetIn, PamSessionIsClosed
<1> QED
  BY <1>1, LoginInvHolds, PTL

\* A login that must be encrypted is (handle_user_command), and what the handshake
\* negotiated is what the flags of the pre-login child and of the session process say,
\* after the request of vsf_two_process_login has carried them to the parent.
THEOREM ForcedEncryptionIsKept == Spec => []ForcedEncryptionHolds
<1>1. LoginInv => ForcedEncryptionHolds
  <2> SUFFICES ASSUME LoginInv PROVE ForcedEncryptionHolds
    OBVIOUS
  <2>1. ASSUME NEW p \in {"pre", "post"}, Running(p)
        PROVE  sess[p].control_use_ssl = encrypted /\ (sess[p].data_use_ssl => encrypted)
    <3>1. CASE p = "pre"
      BY <2>1, <3>1 DEF LoginInv, Together, Encryption, Running
    <3>2. CASE p = "post"
      BY <2>1, <3>2 DEF LoginInv, Encryption, Running, Post
    <3> QED
      BY <3>1, <3>2
  <2>2. ASSUME pc["post"] = "call", conf.ssl_enable, ~encrypted
        PROVE  \/ Anonymous(granted) /\ ~conf.force_anon_logins_ssl
               \/ ~Anonymous(granted) /\ ~conf.force_local_logins_ssl
               \/ granted = "ftp" /\ ~conf.anonymous_enable /\ ~conf.force_anon_logins_ssl
    <3>1. Free(granted)
      BY <2>2 DEF LoginInv, Encryption
    <3>2. CASE granted = "ftp"
      BY <3>1, <3>2 DEF Free, Anonymous
    <3>3. CASE granted # "ftp"
      BY <3>1, <3>3 DEF Free, Anonymous
    <3> QED
      BY <3>2, <3>3
  <2> QED
    BY <2>1, <2>2 DEF ForcedEncryptionHolds
<1> QED
  BY <1>1, LoginInvHolds, PTL

-----------------------------------------------------------------------------
(* The private sockets of the session.                                       *)

\* The ends that carry the calls of the session and their answers.
CallEnds == {"parent2", "child2", "slave", "consumer"}
Silent == \A e \in CallEnds : inbox[e] = << >>
\* The request is under way, or the whole of one of its answers.
InTurn(server, caller) ==
    \/ inbox[server] = <<op>> /\ inbox[caller] = << >>
    \/ inbox[server] = << >> /\ inbox[caller] \in AnswersTo(op)
\* Until a timeout makes the session process break off what it waits for.
Unbroken == {"none", "adopt", "hello", "call", "await", "line"}

\* One call at a time, on one of the sockets, while the other one is silent.
OneCall ==
    /\ pc["post"] \in Unbroken \ {"await"} => Silent
    /\ pc["post"] \in {"call", "await"} => op \in Calls
    /\ pc["post"] = "line" => op = "none"
    /\ pc["post"] = "await" /\ op \in ParentCalls =>
         InTurn("parent2", "child2") /\ inbox["slave"] = << >> /\ inbox["consumer"] = << >>
    /\ pc["post"] = "await" /\ op \notin ParentCalls =>
         /\ InTurn("slave", "consumer") /\ inbox["parent2"] = << >> /\ inbox["child2"] = << >>
         /\ Remote(op)
    /\ pc["pre"] = "waiting" => inbox["slave"] # << >>
    /\ inbox["parent2"] = << >> \/ inbox["parent2"] = <<Request>>

\* The TLS handler has a data connection from an accepted handshake to its closing,
\* and the session process knows.
OneConnection ==
    /\ inbox["slave"] = << >> \/ inbox["slave"] = <<inbox["slave"][1]>>
         \/ inbox["slave"] = <<inbox["slave"][1], "RESP">>
    /\ inbox["slave"] # << >> /\ inbox["slave"][1] = "HANDSHAKE" => ~sess["pre"].data_fd
    /\ pc["post"] \in Unbroken /\ sess["pre"].data_fd =>
         /\ Post.ssl_slave_active /\ Post.data_use_ssl
         /\ \/ pc["post"] \in {"call", "await"} /\ op \in {"READ", "WRITE", "CLOSE"}
            \/ pc["post"] = "await" /\ op = "HANDSHAKE" /\ inbox["consumer"] = <<"OK">>
    /\ pc["post"] = "await" /\ op = "CLOSE" /\ inbox["slave"] = << >> => ~sess["pre"].data_fd
    /\ pc["post"] \in Unbroken /\ Post.data_fd =>
         pc["post"] \in {"call", "await"} /\ op \in {"HANDSHAKE", "READ", "WRITE", "CLOSE"}
    /\ ~sess["parent"].data_fd

\* The parent has a listener when it is asked to accept, and none when it is asked
\* for one, because nothing happens to it between two calls.
OneListener ==
    /\ inbox["parent2"] # << >> =>
         /\ Request = "ACCEPT" => sess["parent"].pasv_listen
         /\ Request = "LISTEN" => ~sess["parent"].pasv_listen
    /\ pc["post"] = "call" =>
         /\ op = "ACCEPT" => sess["parent"].pasv_listen
         /\ op = "LISTEN" => ~sess["parent"].pasv_listen
    /\ pc["post"] = "await" =>
         /\ op = "ACTIVE" /\ inbox["child2"] = <<"1">> => sess["parent"].pasv_listen
         /\ op = "CLEANUP" /\ inbox["parent2"] = << >> => ~sess["parent"].pasv_listen

\* Nothing is open before vsf_two_process_start.
NoSockets == pc["parent"] \in {"main", "start"} => ends = [p \in Procs |-> {}]

CallInv == OneCall /\ OneConnection /\ OneListener

-----------------------------------------------------------------------------
\* What comes after a call.
LEMMA Following ==
    ASSUME NEW c \in Calls, NEW a \in AnswersTo(c)
    PROVE  /\ After(c, a) \in Calls \cup {"none", "EXIT"}
           /\ After(c, a) = "none" => c = "GETLINE"
           /\ After(c, a) = "ACCEPT" => c = "ACTIVE" /\ a = <<"1">>
           /\ After(c, a) = "LISTEN" => c = "CLEANUP"
           /\ After(c, a) = "HANDSHAKE" => c \in {"ACCEPT", "DATASOCK"}
           /\ c \in {"ACCEPT", "DATASOCK"} /\ Head(a) = "OK" => After(c, a) = "HANDSHAKE"
           /\ c = "HANDSHAKE" => After(c, a) \in {"READ", "WRITE", "CLOSE"}
           /\ c \in {"READ", "WRITE"} => After(c, a) \in {"READ", "WRITE", "CLOSE"}
<1>1. CASE c \in {"CLEANUP", "CHOWN"}
  BY <1>1 DEF After, Calls, ParentCalls, SlaveCalls
<1>2. CASE c = "ACTIVE"
  BY <1>2 DEF After, AnswersTo, Calls, ParentCalls, SlaveCalls
<1>3. CASE c = "LISTEN"
  BY <1>3 DEF After, Calls, ParentCalls, SlaveCalls
<1>4. CASE c \in {"ACCEPT", "DATASOCK"}
  BY <1>4 DEF After, Calls, ParentCalls, SlaveCalls
<1>5. CASE c = "GETLINE"
  BY <1>5 DEF After, Calls, ParentCalls, SlaveCalls
<1>6. CASE c = "HANDSHAKE"
  BY <1>6 DEF After, Calls, ParentCalls, SlaveCalls
<1>7. CASE c \in {"READ", "WRITE"}
  BY <1>7 DEF After, Calls, ParentCalls, SlaveCalls
<1>8. CASE c \in {"CLOSE", "RESP"}
  BY <1>8 DEF After, Calls, ParentCalls, SlaveCalls
<1> QED
  BY <1>1, <1>2, <1>3, <1>4, <1>5, <1>6, <1>7, <1>8 DEF Calls, ParentCalls, SlaveCalls

\* What the invariant reads, except where the session process is.
Aside ==
    /\ \A e \in CallEnds : inbox'[e] = inbox[e]
    /\ op' = op /\ (pc'["pre"] = "waiting" => pc["pre"] = "waiting")
    /\ sess'["pre"].data_fd = sess["pre"].data_fd
    /\ sess'["parent"].data_fd = sess["parent"].data_fd
    /\ sess'["parent"].pasv_listen = sess["parent"].pasv_listen

\* A step that the calls of the session do not notice.
LEMMA AsideKeeps ==
    ASSUME CallInv, Aside, pc'["post"] = pc["post"], sess'["post"] = sess["post"]
    PROVE  CallInv'
<1>1. OneCall'
  BY DEF CallInv, Aside, OneCall, Silent, InTurn, CallEnds, Remote, Request, Post, AnswersTo
<1>2. OneConnection'
  BY DEF CallInv, Aside, OneConnection, CallEnds, Post
<1>3. OneListener'
  BY DEF CallInv, Aside, OneListener, CallEnds, Request
<1> QED
  BY <1>1, <1>2, <1>3 DEF CallInv

\* The session process ends, or has yet to begin.
LEMMA EdgesKeep ==
    ASSUME CallInv, Aside,
           \/ pc'["post"] = "ended"
           \/ /\ pc["post"] \in {"none", "adopt"} /\ pc'["post"] \in {"adopt", "hello"}
              /\ sess'["post"].data_fd = sess["post"].data_fd \/ ~sess'["post"].data_fd
    PROVE  CallInv'
<1>1. OneCall'
  BY DEF CallInv, Aside, OneCall, Silent, CallEnds, Request, Unbroken
<1>2. OneConnection'
  BY DEF CallInv, Aside, OneConnection, CallEnds, Post, Unbroken
<1>3. OneListener'
  BY DEF CallInv, Aside, OneListener, CallEnds, Request
<1> QED
  BY <1>1, <1>2, <1>3 DEF CallInv

NoBug == bug = "none"

LEMMA CallInvInit == LoginInit => CallInv /\ NoSockets /\ NoBug
  BY DEF LoginInit, Init, CallInv, OneCall, OneConnection, OneListener, Silent, CallEnds, Ends,
     Procs, NewSession, Post, NoSockets, NoBug, Unbroken, Request

\* Any process can end anywhere, but for a bug().
Whole == LoginInv /\ CallInv /\ NoSockets /\ NoBug

LEMMA LeaveCalls ==
    ASSUME Whole, NEW p \in Procs, Running(p), Leave(p, pc), bug' = bug, op' = op
    PROVE  CallInv' /\ NoSockets' /\ NoBug'
<1>1. /\ UNCHANGED <<sess, inbox>> /\ pc' = [pc EXCEPT ![p] = "ended"]
  BY DEF Leave
<1>2. pc'[p] = "ended" /\ \A q \in Procs \ {p} : pc'[q] = pc[q]
  BY <1>1, Put DEF Whole, LoginInv, Typed
<1>3. Aside
  BY <1>1, <1>2 DEF Aside, Procs
<1>4. CallInv'
  <2>1. CASE p = "post"
    BY <1>2, <1>3, <2>1, EdgesKeep DEF Whole
  <2>2. CASE p # "post"
    BY <1>1, <1>2, <1>3, <2>2, AsideKeeps DEF Whole, Procs
  <2> QED
    BY <2>1, <2>2
<1>5. pc'["parent"] \notin {"main", "start"}
  BY <1>2 DEF Whole, LoginInv, Together, Running, Procs
<1> QED
  BY <1>4, <1>5 DEF NoSockets, Whole, NoBug

LEMMA ExitCalls ==
    ASSUME Whole, NEW p \in Procs, Running(p), Exit(p) \/ WriteExit(p) \/ QuitAfterLine(p), op' = op
    PROVE  CallInv' /\ NoSockets' /\ NoBug'
  BY LeaveCalls DEF Exit, WriteExit, QuitAfterLine

-----------------------------------------------------------------------------
(* The session process.                                                      *)

\* Where the processes are when the session process or the TLS handler moves.
LEMMA MoveCalls ==
    ASSUME Whole, NEW p \in {"pre", "post"}, pc[p] # "none", NEW x, pc' = [pc EXCEPT ![p] = x]
    PROVE  /\ pc'[p] = x /\ \A q \in Procs \ {p} : pc'[q] = pc[q]
           /\ NoSockets'
<1>1. pc'[p] = x /\ \A q \in Procs \ {p} : pc'[q] = pc[q]
  BY Put DEF Whole, LoginInv, Typed, Procs
<1>2. pc["parent"] \notin {"main", "start"}
  BY DEF Whole, LoginInv, Together
<1> QED
  BY <1>1, <1>2 DEF NoSockets, Procs

LEMMA Message ==
    ASSUME Whole, NEW e \in CallEnds, NEW v, inbox' = [inbox EXCEPT ![e] = v]
    PROVE  inbox'[e] = v /\ \A d \in CallEnds \ {e} : inbox'[d] = inbox[d]
<1>1. inbox = [d \in Ends |-> inbox[d]] /\ CallEnds \subseteq Ends
  BY DEF Whole, LoginInv, Typed, CallEnds, Ends
<1> QED
  BY <1>1, Put

LEMMA HelloCalls == ASSUME Whole, Hello PROVE CallInv' /\ NoSockets' /\ NoBug'
<1>1. /\ pc["post"] = "hello" /\ pc' = [pc EXCEPT !["post"] = "call"] /\ op' = "RESP"
      /\ UNCHANGED <<sess, inbox, bug>>
  BY DEF Hello, KeepAll, sockets
<1>2. pc'["post"] = "call" /\ pc'["pre"] = pc["pre"] /\ NoSockets'
  BY <1>1, MoveCalls DEF Procs
<1>3. Silent /\ ~sess["pre"].data_fd /\ ~Post.data_fd
  BY <1>1 DEF Whole, CallInv, OneCall, OneConnection, Unbroken
<1>4. OneCall'
  BY <1>1, <1>2, <1>3 DEF Whole, CallInv, OneCall, Silent, CallEnds, Request, Calls, SlaveCalls
<1>5. OneConnection'
  BY <1>1, <1>2, <1>3 DEF Whole, CallInv, OneConnection, Post
<1>6. OneListener'
  BY <1>1, <1>2, <1>3 DEF Whole, CallInv, OneListener, Request
<1> QED
  BY <1>1, <1>2, <1>4, <1>5, <1>6 DEF CallInv, Whole, NoBug

LEMMA AskCalls == ASSUME Whole, Ask PROVE CallInv' /\ NoSockets' /\ NoBug'
<1>1. pc["post"] = "call" /\ op \in Calls /\ Remote(op) /\ op' = op
  BY DEF Ask, session
<1>2. CASE Exit("post")
  BY <1>1, <1>2, ExitCalls DEF Running, Procs
<1>3. CASE /\ Send(Line2(op), <<op>>) /\ pc' = [pc EXCEPT !["post"] = "await"]
           /\ KeepAll /\ UNCHANGED <<ends, sess>>
  <2>1. UNCHANGED <<bug, sess>> /\ pc'["post"] = "await" /\ pc'["pre"] = pc["pre"] /\ NoSockets'
    BY <1>1, <1>3, MoveCalls DEF KeepAll, Procs
  <2>2. \A e \in CallEnds : inbox[e] = << >>
    BY <1>1 DEF Whole, CallInv, OneCall, Silent, Unbroken
  <2>3. << >> \o <<op>> = <<op>>
    OBVIOUS
  <2>4. CASE op \in ParentCalls
    <3>1. inbox' = [inbox EXCEPT !["parent2"] = inbox["parent2"] \o <<op>>]
      BY <1>3, <2>4 DEF Send, Line2, Peer
    <3>2. /\ inbox'["parent2"] = <<op>> /\ inbox'["child2"] = << >>
          /\ inbox'["slave"] = << >> /\ inbox'["consumer"] = << >>
      BY <2>2, <2>3, <3>1, Message DEF CallEnds
    <3>3. Request' = op
      BY <3>2 DEF Request
    <3>4. OneCall'
      BY <1>1, <2>1, <2>2, <2>4, <3>2, <3>3 DEF Whole, CallInv, OneCall, InTurn, CallEnds, Unbroken
    <3>5. OneConnection'
      BY <1>1, <2>1, <2>2, <2>4, <3>2
         DEF Whole, CallInv, OneConnection, CallEnds, Unbroken, Post, ParentCalls
    <3>6. OneListener'
      BY <1>1, <2>1, <2>2, <2>4, <3>2, <3>3 DEF Whole, CallInv, OneListener
    <3> QED
      BY <2>1, <3>4, <3>5, <3>6 DEF CallInv, Whole, NoBug
  <2>5. CASE op \notin ParentCalls
    <3>1. inbox' = [inbox EXCEPT !["slave"] = inbox["slave"] \o <<op>>]
      BY <1>3, <2>5 DEF Send, Line2, Peer
    <3>2. /\ inbox'["parent2"] = << >> /\ inbox'["child2"] = << >>
          /\ inbox'["slave"] = <<op>> /\ inbox'["consumer"] = << >>
      BY <2>2, <2>3, <3>1, Message DEF CallEnds
    <3>3. Remote(op)'
      BY <1>1, <2>1 DEF Remote, Post
    <3>4. OneCall'
      BY <1>1, <2>1, <2>2, <2>5, <3>2, <3>3
         DEF Whole, CallInv, OneCall, InTurn, CallEnds, Unbroken
    <3>5. OneConnection'
      BY <1>1, <2>1, <2>2, <2>5, <3>2 DEF Whole, CallInv, OneConnection, CallEnds, Unbroken, Post
    <3>6. OneListener'
      BY <1>1, <2>1, <2>2, <2>5, <3>2 DEF Whole, CallInv, OneListener, ParentCalls
    <3> QED
      BY <2>1, <3>4, <3>5, <3>6 DEF CallInv, Whole, NoBug
  <2> QED
    BY <2>4, <2>5
<1> QED
  BY <1>2, <1>3 DEF Ask

LEMMA DataFdValue ==
    ASSUME Whole, NEW c, NEW a, sess' = DataFd(c, a)
    PROVE  /\ sess'["pre"] = sess["pre"] /\ sess'["parent"] = sess["parent"]
           /\ Post'.ssl_slave_active = Post.ssl_slave_active
           /\ Post'.data_use_ssl = Post.data_use_ssl
           /\ c \in {"ACCEPT", "DATASOCK"} => (Post'.data_fd => Head(a) = "OK")
           /\ c = "CLOSE" => ~Post'.data_fd
           /\ c \notin {"ACCEPT", "DATASOCK", "CLOSE"} => Post'.data_fd = Post.data_fd
<1>1. PICK b : b = CASE c \in {"ACCEPT", "DATASOCK"} -> Head(a) = "OK"
                     [] c = "CLOSE" -> FALSE
                     [] OTHER -> sess["post"].data_fd
  OBVIOUS
<1>2. PICK s : s = [sess["post"] EXCEPT !.data_fd = b]
  OBVIOUS
<1>3. Shaped(sess["post"]) /\ "post" \in Procs /\ sess = [p \in Procs |-> sess[p]]
  BY DEF Whole, LoginInv, Typed, Procs
<1>4. /\ s.ssl_slave_active = Post.ssl_slave_active /\ s.data_use_ssl = Post.data_use_ssl
      /\ s.data_fd = b
  BY <1>2, <1>3 DEF Shaped, Post
<1>5. sess' = [sess EXCEPT !["post"] = s]
  BY <1>1, <1>2, <1>3 DEF DataFd
<1>6. sess'["post"] = s /\ \A p \in Procs \ {"post"} : sess'[p] = sess[p]
  BY <1>3, <1>5, Put
<1>7. /\ c \in {"ACCEPT", "DATASOCK"} => b = (Head(a) = "OK")
      /\ c = "CLOSE" => b = FALSE
      /\ c \notin {"ACCEPT", "DATASOCK", "CLOSE"} => b = sess["post"].data_fd
  BY <1>1
<1> QED
  BY <1>4, <1>6, <1>7 DEF Post, Procs

\* A call is over, with an answer that does not end the session process.
LEMMA GoesOn ==
    ASSUME Whole, pc["post"] \in {"call", "await"}, NEW a \in AnswersTo(op),
           After(op, a) # "EXIT", op' = After(op, a), bug' = bug,
           pc' = [pc EXCEPT !["post"] = IF After(op, a) = "none" THEN "line" ELSE "call"],
           sess' = DataFd(op, a), Silent',
           sess["pre"].data_fd => /\ op \in {"READ", "WRITE", "HANDSHAKE"}
                                  /\ Post.ssl_slave_active /\ Post.data_use_ssl,
           op = "ACTIVE" /\ a = <<"1">> => sess["parent"].pasv_listen,
           op = "CLEANUP" => ~sess["parent"].pasv_listen,
           pc["pre"] # "waiting"
    PROVE  CallInv' /\ NoSockets' /\ NoBug'
<1> DEFINE n == After(op, a)
<1>1. op \in Calls
  BY DEF Whole, CallInv, OneCall
<1>2. /\ n \in Calls \cup {"none"} /\ (n = "none" => op = "GETLINE")
      /\ n = "ACCEPT" => op = "ACTIVE" /\ a = <<"1">>
      /\ n = "LISTEN" => op = "CLEANUP"
      /\ op \in {"ACCEPT", "DATASOCK"} /\ Head(a) = "OK" => n = "HANDSHAKE"
      /\ op \in {"HANDSHAKE", "READ", "WRITE"} => n \in {"READ", "WRITE", "CLOSE"}
  BY <1>1, Following
<1> HIDE DEF n
<1>3. /\ pc'["post"] = (IF n = "none" THEN "line" ELSE "call") /\ pc'["pre"] = pc["pre"]
      /\ NoSockets' /\ op' = n
  BY MoveCalls DEF Procs, n
<1>4. /\ sess'["pre"] = sess["pre"] /\ sess'["parent"] = sess["parent"]
      /\ Post'.ssl_slave_active = Post.ssl_slave_active
      /\ Post'.data_use_ssl = Post.data_use_ssl
      /\ op \in {"ACCEPT", "DATASOCK"} => (Post'.data_fd => Head(a) = "OK")
      /\ op = "CLOSE" => ~Post'.data_fd
      /\ op \notin {"ACCEPT", "DATASOCK", "CLOSE"} => Post'.data_fd = Post.data_fd
  BY DataFdValue
<1>5. \A e \in CallEnds : inbox'[e] = << >>
  BY DEF Silent
<1>6. OneCall'
  BY <1>2, <1>3, <1>5 DEF OneCall, Silent, CallEnds, Calls, ParentCalls, SlaveCalls
<1>7. OneConnection'
  <2>1. Post'.data_fd => n \in {"HANDSHAKE", "READ", "WRITE", "CLOSE"}
    BY <1>2, <1>4 DEF Whole, CallInv, OneConnection, Unbroken
  <2>2. sess'["pre"].data_fd => /\ n \in {"READ", "WRITE", "CLOSE"}
                                /\ Post'.ssl_slave_active /\ Post'.data_use_ssl
    BY <1>2, <1>4
  <2>3. ~sess'["parent"].data_fd /\ inbox'["slave"] = << >>
    BY <1>4, <1>5 DEF Whole, CallInv, OneConnection, CallEnds
  <2> QED
    BY <1>3, <2>1, <2>2, <2>3 DEF OneConnection
<1>8. OneListener'
  BY <1>2, <1>3, <1>4, <1>5 DEF OneListener, CallEnds
<1> QED
  BY <1>3, <1>6, <1>7, <1>8 DEF CallInv, Whole, NoBug

LEMMA AnsweredCalls == ASSUME Whole, Answered PROVE CallInv' /\ NoSockets' /\ NoBug'
<1> DEFINE e == Line2(op)
           a == inbox[e]
<1>1. pc["post"] = "await" /\ op \in Calls
  BY DEF Answered, Whole, CallInv, OneCall
<1>2. CASE Exit("post") /\ UNCHANGED session
  BY <1>1, <1>2, ExitCalls DEF Running, Procs, session
<1>3. CASE /\ Got(e) /\ a \in AnswersTo(op) /\ After(op, a) # "EXIT"
           /\ inbox' = [inbox EXCEPT ![e] = << >>]
           /\ pc' = [pc EXCEPT !["post"] = IF After(op, a) = "none" THEN "line" ELSE "call"]
           /\ Set(After(op, a), cmd, PortAfter(op)) /\ sess' = DataFd(op, a)
           /\ KeepAll
  <2>1. /\ op \in ParentCalls => e = "child2" /\ inbox["parent2"] = << >>
                                 /\ inbox["slave"] = << >> /\ inbox["consumer"] = << >>
        /\ op \notin ParentCalls => e = "consumer" /\ inbox["slave"] = << >>
                                    /\ inbox["parent2"] = << >> /\ inbox["child2"] = << >>
    BY <1>1, <1>3 DEF Whole, CallInv, OneCall, InTurn, Line2, Got
  <2> HIDE DEF e
  <2>2. Silent'
    <3>1. e \in CallEnds /\ \A d \in CallEnds \ {e} : inbox[d] = << >>
      BY <2>1 DEF CallEnds
    <3>2. inbox'[e] = << >> /\ \A d \in CallEnds \ {e} : inbox'[d] = inbox[d]
      BY <1>3, <3>1, Message
    <3> QED
      BY <3>1, <3>2 DEF Silent
  <2>3. sess["pre"].data_fd => /\ op \in {"READ", "WRITE", "HANDSHAKE"}
                               /\ Post.ssl_slave_active /\ Post.data_use_ssl
    BY <1>1, <2>1 DEF Whole, CallInv, OneConnection, Unbroken, ParentCalls
  <2>4. op = "ACTIVE" /\ a = <<"1">> => sess["parent"].pasv_listen
    BY <1>1, <2>1 DEF Whole, CallInv, OneListener, ParentCalls
  <2>5. op = "CLEANUP" => ~sess["parent"].pasv_listen
    BY <1>1, <2>1 DEF Whole, CallInv, OneListener, ParentCalls
  <2>6. pc["pre"] # "waiting"
    BY <2>1 DEF Whole, CallInv, OneCall
  <2> QED
    BY <1>1, <1>3, <2>2, <2>3, <2>4, <2>5, <2>6, GoesOn DEF Set, KeepAll
<1> QED
  BY <1>2, <1>3 DEF Answered

LEMMA LocalCalls == ASSUME Whole, Local PROVE CallInv' /\ NoSockets' /\ NoBug'
<1>1. pc["post"] = "call" /\ op \in Calls /\ ~Remote(op) /\ op \notin ParentCalls
  BY DEF Local, Remote
<1>2. CASE Exit("post") /\ UNCHANGED session
  BY <1>1, <1>2, ExitCalls DEF Running, Procs, session
<1>3. ASSUME NEW a \in AnswersTo(op), After(op, a) # "EXIT",
             pc' = [pc EXCEPT !["post"] = IF After(op, a) = "none" THEN "line" ELSE "call"],
             Set(After(op, a), cmd, port), sess' = DataFd(op, a),
             UNCHANGED <<bug, sockets>>
      PROVE  CallInv' /\ NoSockets' /\ NoBug'
  <2>1. Silent
    BY <1>1 DEF Whole, CallInv, OneCall, Unbroken
  <2>2. Silent'
    BY <1>3, <2>1 DEF Silent, sockets
  <2>3. ~sess["pre"].data_fd
    BY <1>1 DEF Whole, CallInv, OneConnection, Unbroken, Remote
  <2>4. op # "ACTIVE" /\ op # "CLEANUP"
    BY <1>1 DEF ParentCalls
  <2>5. pc["pre"] # "waiting"
    BY <2>1 DEF Whole, CallInv, OneCall, Silent, CallEnds
  <2> QED
    BY <1>1, <1>3, <2>2, <2>3, <2>4, <2>5, GoesOn DEF Set
<1> QED
  BY <1>2, <1>3 DEF Local

LEMMA DispatchCalls ==
    ASSUME Whole, NEW c \in {"PASV", "PORT", "RETR", "STOR", "PROT"}, Dispatch(c)
    PROVE  CallInv' /\ NoSockets' /\ NoBug'
<1>1. /\ pc["post"] = "line" /\ pc' = [pc EXCEPT !["post"] = "call"]
      /\ UNCHANGED <<inbox, bug>>
      /\ sess' = IF c = "PROT" /\ Post.control_use_ssl
                 THEN [sess EXCEPT !["post"].data_use_ssl = ~@] ELSE sess
  BY DEF Dispatch, KeepAll, sockets
<1>2. op' \in {"CLEANUP", "ACTIVE", "CHOWN", "RESP"}
  BY DEF Dispatch, Set
<1>3. pc'["post"] = "call" /\ pc'["pre"] = pc["pre"] /\ NoSockets'
  BY <1>1, MoveCalls DEF Procs
<1>4. Silent /\ ~sess["pre"].data_fd /\ ~Post.data_fd /\ ~sess["parent"].data_fd
  BY <1>1 DEF Whole, CallInv, OneCall, OneConnection, Unbroken
<1>5. /\ sess'["pre"] = sess["pre"] /\ sess'["parent"] = sess["parent"]
      /\ Post'.data_fd = Post.data_fd
  <2>1. CASE sess' = sess
    BY <2>1 DEF Post
  <2>2. CASE sess' = [sess EXCEPT !["post"].data_use_ssl = ~@]
    <3>1. PICK s : s = [sess["post"] EXCEPT !.data_use_ssl = ~sess["post"].data_use_ssl]
      OBVIOUS
    <3>2. Shaped(sess["post"]) /\ "post" \in Procs /\ sess = [p \in Procs |-> sess[p]]
      BY DEF Whole, LoginInv, Typed, Procs
    <3>3. s.data_fd = Post.data_fd
      BY <3>1, <3>2 DEF Shaped, Post
    <3>4. sess' = [sess EXCEPT !["post"] = s]
      BY <2>2, <3>1, <3>2
    <3>5. sess'["post"] = s /\ \A p \in Procs \ {"post"} : sess'[p] = sess[p]
      BY <3>2, <3>4, Put
    <3> QED
      BY <3>3, <3>5 DEF Post, Procs
  <2> QED
    BY <1>1, <2>1, <2>2
<1>6. OneCall'
  BY <1>1, <1>2, <1>3, <1>4
     DEF Whole, CallInv, OneCall, Silent, CallEnds, Request, Calls, ParentCalls, SlaveCalls
<1>7. OneConnection'
  BY <1>1, <1>2, <1>3, <1>4, <1>5 DEF OneConnection, Silent, CallEnds
<1>8. OneListener'
  BY <1>1, <1>2, <1>3, <1>4 DEF OneListener, Silent, CallEnds
<1> QED
  BY <1>1, <1>3, <1>6, <1>7, <1>8 DEF CallInv, Whole, NoBug

LEMMA PairOf == ASSUME NEW x, NEW y PROVE <<x>> \o <<y>> = <<x, y>>
<1>1. /\ <<x>> \o <<y>> \in Seq({x, y}) /\ <<x, y>> \in Seq({x, y})
      /\ Len(<<x>> \o <<y>>) = 2 /\ Len(<<x, y>>) = 2
  OBVIOUS
<1>2. (<<x>> \o <<y>>)[1] = x /\ (<<x>> \o <<y>>)[2] = y
  OBVIOUS
<1>3. \A i \in 1..Len(<<x>> \o <<y>>) : (<<x>> \o <<y>>)[i] = <<x, y>>[i]
  BY <1>1, <1>2
<1> QED
  BY <1>1, <1>3, SeqEqual

LEMMA TimeoutCalls == ASSUME Whole, Timeout PROVE CallInv' /\ NoSockets' /\ NoBug'
<1>1. pc["post"] \in {"await", "call"} /\ op' = op
  BY DEF Timeout, session
<1>2. CASE WriteExit("post")
  BY <1>1, <1>2, ExitCalls DEF Running, Procs
<1>3. CASE /\ Send("consumer", <<"RESP">>) /\ pc' = [pc EXCEPT !["post"] = "dying"]
           /\ UNCHANGED <<conf, bug, cred, reaped, ends, sess, encrypted, lines, signals, accounts>>
  <2>1. pc'["post"] = "dying" /\ pc'["pre"] = pc["pre"] /\ NoSockets'
    BY <1>1, <1>3, MoveCalls DEF Procs
  <2>2. inbox' = [inbox EXCEPT !["slave"] = inbox["slave"] \o <<"RESP">>]
    BY <1>3 DEF Send, Peer
  <2>3. inbox'["slave"] = inbox["slave"] \o <<"RESP">> /\ inbox'["parent2"] = inbox["parent2"]
    BY <2>2, Message DEF CallEnds
  <2>4. inbox["slave"] = << >> \/ inbox["slave"] = <<op>>
    BY <1>1 DEF Whole, CallInv, OneCall, InTurn, Silent, CallEnds, Unbroken
  <2>5. inbox'["slave"] = <<"RESP">> \/ (inbox["slave"] = <<op>> /\ inbox'["slave"] = <<op, "RESP">>)
    <3>1. << >> \o <<"RESP">> = <<"RESP">>
      OBVIOUS
    <3> QED
      BY <2>3, <2>4, <3>1, PairOf
  <2>6. OneCall'
    BY <1>3, <2>1, <2>3, <2>5 DEF Whole, CallInv, OneCall, Request, Unbroken
  <2>7. OneConnection'
    BY <1>3, <2>1, <2>5 DEF Whole, CallInv, OneConnection, Unbroken
  <2>8. OneListener'
    BY <1>3, <2>1, <2>3 DEF Whole, CallInv, OneListener, Request
  <2> QED
    BY <1>3, <2>1, <2>6, <2>7, <2>8 DEF CallInv, Whole, NoBug
<1> QED
  BY <1>2, <1>3 DEF Timeout

LEMMA DiesCalls == ASSUME Whole, Dies PROVE CallInv' /\ NoSockets' /\ NoBug'
  BY ExitCalls DEF Dies, Running, Procs, session

-----------------------------------------------------------------------------
(* Those that serve the session.                                             *)

LEMMA ProcessRequestCalls ==
    ASSUME Whole, ProcessRequest PROVE CallInv' /\ NoSockets' /\ NoBug'
<1>1. pc["parent"] = "requests" /\ op' = op
  BY DEF ProcessRequest, session
<1>2. CASE Exit("parent")
  BY <1>1, <1>2, ExitCalls DEF Running, Procs
<1>3. ASSUME Got("parent2"), Request \in ParentCalls, NEW a \in ParentAnswers(Request),
             inbox' = [inbox EXCEPT !["parent2"] = Tail(@), !["child2"] = @ \o a],
             sess' = [sess EXCEPT !["parent"].pasv_listen = PasvListening(Request)],
             UNCHANGED processes
      PROVE  CallInv' /\ NoSockets' /\ NoBug'
  <2>1. UNCHANGED <<pc, bug>>
    BY <1>3 DEF processes
  <2>2. inbox["parent2"] = <<Request>> /\ Tail(<<Request>>) = << >>
    BY <1>3 DEF Whole, CallInv, OneCall, Got
  <2>3. PICK w : w = inbox["child2"] \o a /\ inbox' = [inbox EXCEPT !["parent2"] = << >>, !["child2"] = w]
    BY <1>3, <2>2 DEF Whole, LoginInv, Typed, Ends
  <2>4. /\ inbox'["parent2"] = << >> /\ inbox'["child2"] = inbox["child2"] \o a
        /\ inbox'["slave"] = inbox["slave"] /\ inbox'["consumer"] = inbox["consumer"]
    <3>1. inbox = [f \in Ends |-> inbox[f]]
      BY DEF Whole, LoginInv, Typed
    <3>2. /\ inbox'["parent2"] = << >> /\ inbox'["child2"] = w
          /\ inbox'["slave"] = inbox["slave"] /\ inbox'["consumer"] = inbox["consumer"]
      BY <2>3, <3>1 DEF Ends
    <3> QED
      BY <2>3, <3>2
  <2>5. PICK b : b = PasvListening(Request)
    OBVIOUS
  <2>6. /\ sess'["pre"] = sess["pre"] /\ sess'["post"] = sess["post"]
        /\ sess'["parent"].data_fd = sess["parent"].data_fd /\ sess'["parent"].pasv_listen = b
    <3>1. PICK s : s = [sess["parent"] EXCEPT !.pasv_listen = b]
      OBVIOUS
    <3>2. Shaped(sess["parent"]) /\ "parent" \in Procs /\ sess = [p \in Procs |-> sess[p]]
      BY DEF Whole, LoginInv, Typed, Procs
    <3>3. s.data_fd = sess["parent"].data_fd /\ s.pasv_listen = b
      BY <3>1, <3>2 DEF Shaped
    <3>4. sess' = [sess EXCEPT !["parent"] = s]
      BY <1>3, <2>5, <3>1, <3>2
    <3>5. sess'["parent"] = s /\ \A p \in Procs \ {"parent"} : sess'[p] = sess[p]
      BY <3>2, <3>4, Put
    <3> QED
      BY <3>3, <3>5 DEF Procs
  <2>7. pc["post"] \in {"await", "dying", "ended"}
    BY <1>3 DEF Whole, CallInv, OneCall, Silent, CallEnds, Unbroken, LoginInv, Typed, PostPlaces, Got
  <2>8. pc["post"] = "await" =>
          /\ op \in ParentCalls /\ Request = op /\ inbox'["child2"] = a
          /\ inbox["slave"] = << >> /\ inbox["consumer"] = << >>
    <3>1. ASSUME pc["post"] = "await"
          PROVE  /\ op \in ParentCalls /\ inbox["parent2"] = <<op>> /\ inbox["child2"] = << >>
                 /\ inbox["slave"] = << >> /\ inbox["consumer"] = << >>
      BY <1>3, <3>1 DEF Whole, CallInv, OneCall, InTurn, Got
    <3>2. <<op>>[1] = op
      OBVIOUS
    <3>3. a \in AnswersTo(Request)
      BY <1>3 DEF ParentAnswers, AnswersTo, ParentCalls, AcceptAnswers, GetFtpPortSock
    <3>4. pc["post"] = "await" => Request = op
      BY <3>1, <3>2 DEF Request
    <3>5. pc["post"] = "await" => << >> \o a = a
      BY <3>3, <3>4 DEF AnswersTo, ParentCalls, Calls, SlaveCalls
    <3> QED
      BY <2>4, <3>1, <3>4, <3>5
  <2>9. a \in AnswersTo(Request)
    BY <1>3 DEF ParentAnswers, AnswersTo, ParentCalls, AcceptAnswers, GetFtpPortSock
  <2>10. OneCall'
    BY <1>1, <2>1, <2>4, <2>7, <2>8, <2>9
       DEF Whole, CallInv, OneCall, InTurn, Unbroken, AnswersTo
  <2>11. OneConnection'
    BY <1>1, <2>1, <2>4, <2>6, <2>7, <2>8 DEF Whole, CallInv, OneConnection, Unbroken, Post
  <2>12. OneListener'
    <3>1. Request = "ACTIVE" /\ a = <<"1">> => b
      BY <1>3, <2>5 DEF ParentAnswers, PasvListening
    <3>2. Request = "CLEANUP" => ~b
      BY <2>5 DEF PasvListening
    <3> QED
      BY <1>1, <2>1, <2>4, <2>6, <2>7, <2>8, <3>1, <3>2 DEF OneListener
  <2>13. NoSockets'
    BY <1>1, <2>1 DEF NoSockets
  <2> QED
    BY <2>1, <2>10, <2>11, <2>12, <2>13 DEF CallInv, Whole, NoBug
<1> QED
  BY <1>2, <1>3 DEF ProcessRequest

\* The TLS handler answers what it was asked first.
LEMMA ReplyCalls ==
    ASSUME Whole, pc["pre"] \in {"slave", "waiting"}, inbox["slave"] # << >>, op' = op,
           NEW a \in AnswersTo(Head(inbox["slave"])), Head(inbox["slave"]) \in SlaveCalls,
           NEW s, Reply(a, s, "slave"), bug' = bug,
           Head(inbox["slave"]) = "HANDSHAKE" => (s.data_fd => a = <<"OK">>),
           Head(inbox["slave"]) = "CLOSE" => ~s.data_fd,
           Head(inbox["slave"]) \notin {"HANDSHAKE", "CLOSE"} => s.data_fd = sess["pre"].data_fd
    PROVE  CallInv' /\ NoSockets' /\ NoBug'
<1> DEFINE r == Head(inbox["slave"])
<1>1. CASE Leave("pre", pc)
  BY <1>1, LeaveCalls DEF Running, Procs
<1>2. CASE /\ inbox' = [inbox EXCEPT !["slave"] = Tail(@), !["consumer"] = @ \o a]
           /\ sess' = [sess EXCEPT !["pre"] = s] /\ pc' = [pc EXCEPT !["pre"] = "slave"]
  <2>1. pc'["pre"] = "slave" /\ pc'["post"] = pc["post"] /\ NoSockets'
    BY <1>2, MoveCalls DEF Procs
  <2>2. sess'["pre"] = s /\ sess'["post"] = sess["post"] /\ sess'["parent"] = sess["parent"]
    <3>1. "pre" \in Procs /\ sess = [p \in Procs |-> sess[p]]
      BY DEF Whole, LoginInv, Typed, Procs
    <3> QED
      BY <1>2, <3>1, Put DEF Procs
  <2>3. /\ inbox'["slave"] = Tail(inbox["slave"]) /\ inbox'["consumer"] = inbox["consumer"] \o a
        /\ inbox'["parent2"] = inbox["parent2"] /\ inbox'["child2"] = inbox["child2"]
    <3>1. inbox = [f \in Ends |-> inbox[f]]
      BY DEF Whole, LoginInv, Typed
    <3> QED
      BY <1>2, <3>1 DEF Ends
  <2>4. \/ inbox["slave"] = <<r>> /\ inbox'["slave"] = << >>
        \/ inbox["slave"] = <<r, "RESP">> /\ inbox'["slave"] = <<"RESP">>
    <3>1. PICK x : inbox["slave"] = <<x>> \/ inbox["slave"] = <<x, "RESP">>
      BY DEF Whole, CallInv, OneConnection
    <3>2. /\ Head(<<x>>) = x /\ Tail(<<x>>) = << >>
          /\ Head(<<x, "RESP">>) = x /\ Tail(<<x, "RESP">>) = <<"RESP">>
      OBVIOUS
    <3> QED
      BY <2>3, <3>1, <3>2
  <2>5. pc["post"] \in {"await", "dying", "ended"}
    BY DEF Whole, CallInv, OneCall, Silent, CallEnds, Unbroken, LoginInv, Typed, PostPlaces
  <2>6. ASSUME pc["post"] = "await"
        PROVE  /\ op \notin ParentCalls /\ r = op /\ inbox["slave"] = <<op>>
               /\ inbox["consumer"] = << >> /\ Remote(op)
               /\ inbox["parent2"] = << >> /\ inbox["child2"] = << >>
    <3>1. /\ op \notin ParentCalls /\ inbox["slave"] = <<op>> /\ inbox["consumer"] = << >>
          /\ Remote(op) /\ inbox["parent2"] = << >> /\ inbox["child2"] = << >>
      BY <2>6 DEF Whole, CallInv, OneCall, InTurn
    <3>2. Head(<<op>>) = op
      OBVIOUS
    <3> QED
      BY <3>1, <3>2
  <2>7. pc["post"] = "await" => inbox'["consumer"] = a /\ inbox'["slave"] = << >>
    <3>1. << >> \o a = a
      BY DEF AnswersTo, SlaveCalls
    <3>2. r = "RESP" \/ r # "RESP"
      OBVIOUS
    <3>3. ASSUME NEW x PROVE <<x>> # <<x, "RESP">>
      <4>1. Len(<<x>>) = 1 /\ Len(<<x, "RESP">>) = 2
        OBVIOUS
      <4> QED
        BY <4>1
    <3> QED
      BY <2>3, <2>4, <2>6, <3>1, <3>3
  <2>8. OneCall'
    <3>1. pc["post"] = "await" => InTurn("slave", "consumer")'
      BY <2>6, <2>7 DEF InTurn, AnswersTo
    <3>2. pc["post"] = "await" => Remote(op)'
      BY <2>2, <2>6 DEF Remote, Post
    <3>3. Request' = Request /\ (pc["post"] = "await" => op \in Calls)
      BY <2>3 DEF Request, Whole, CallInv, OneCall
    <3> QED
      BY <2>1, <2>3, <2>5, <2>6, <3>1, <3>2, <3>3 DEF Whole, CallInv, OneCall, Unbroken
  <2>9. OneConnection'
    <3>1. \/ inbox'["slave"] = << >>
          \/ inbox'["slave"] = <<inbox'["slave"][1]>> /\ inbox'["slave"][1] = "RESP"
      BY <2>4
    <3>2. ASSUME pc["post"] = "await", s.data_fd
          PROVE  /\ Post.ssl_slave_active /\ Post.data_use_ssl
                 /\ \/ op \in {"READ", "WRITE"}
                    \/ op = "HANDSHAKE" /\ a = <<"OK">>
      <4>1. CASE op = "HANDSHAKE"
        BY <2>6, <3>2, <4>1 DEF Remote, ParentCalls
      <4>2. CASE op = "CLOSE"
        BY <2>6, <3>2, <4>2
      <4>3. CASE op \notin {"HANDSHAKE", "CLOSE"}
        <5>1. sess["pre"].data_fd
          BY <2>6, <3>2, <4>3
        <5> QED
          BY <3>2, <4>3, <5>1 DEF Whole, CallInv, OneConnection, Unbroken
      <4> QED
        BY <4>1, <4>2, <4>3
    <3>3. pc["post"] = "await" /\ Post.data_fd => op \in {"HANDSHAKE", "READ", "WRITE", "CLOSE"}
      BY DEF Whole, CallInv, OneConnection, Unbroken
    <3>4. ~sess["parent"].data_fd
      BY DEF Whole, CallInv, OneConnection
    <3> QED
      BY <2>1, <2>2, <2>5, <2>6, <2>7, <3>1, <3>2, <3>3, <3>4 DEF OneConnection, Unbroken, Post
  <2>10. OneListener'
    BY <2>1, <2>2, <2>3, <2>5, <2>6 DEF Whole, CallInv, OneListener, Request, ParentCalls
  <2> QED
    BY <2>1, <2>8, <2>9, <2>10 DEF CallInv, Whole, NoBug
<1> QED
  BY <1>1, <1>2 DEF Reply

LEMMA SlaveCallsKeep ==
    ASSUME Whole, SlaveAnswers \/ SlaveReadsLine \/ SlaveMovesData \/ SlaveEnds
    PROVE  CallInv' /\ NoSockets' /\ NoBug'
<1> DEFINE r == Head(inbox["slave"])
<1>1. pc["pre"] \in {"slave", "waiting"} /\ "pre" \in Procs /\ Running("pre") /\ op' = op
  BY DEF SlaveAnswers, SlaveReadsLine, SlaveMovesData, SlaveEnds, Running, Procs, session
<1>2. Shaped(sess["pre"])
  BY <1>1 DEF Whole, LoginInv, Typed
<1>3. pc["pre"] = "waiting" => inbox["slave"] # << >>
  BY DEF Whole, CallInv, OneCall
<1>4. ASSUME NEW b PROVE [sess["pre"] EXCEPT !.data_fd = b].data_fd = b
  BY <1>2 DEF Shaped
<1>5. ASSUME NEW a, NEW s, Reply(a, s, "slave") PROVE bug' = bug
  BY <1>5 DEF Reply
<1>6. CASE Exit("pre")
  BY <1>1, <1>6, ExitCalls
<1>7. CASE SlaveAnswers
  <2>0. inbox["slave"] # << >>
    BY <1>7 DEF SlaveAnswers, Got
  <2>1. CASE r = "RESP"
    <3>1. PICK a \in AnswersTo("RESP") : Reply(a, sess["pre"], "slave")
      BY <1>7, <2>1 DEF SlaveAnswers, AnswersTo
    <3> QED
      BY <1>1, <1>5, <2>0, <2>1, <3>1, ReplyCalls DEF SlaveCalls
  <2>2. CASE r = "CLOSE"
    <3>1. PICK a \in AnswersTo("CLOSE") : Reply(a, [sess["pre"] EXCEPT !.data_fd = FALSE], "slave")
      BY <1>7, <2>2 DEF SlaveAnswers, SslDataClose, AnswersTo
    <3>2. PICK s : s = [sess["pre"] EXCEPT !.data_fd = FALSE]
      OBVIOUS
    <3>3. ~s.data_fd /\ Reply(a, s, "slave")
      BY <1>4, <3>1, <3>2
    <3> QED
      BY <1>1, <1>5, <2>0, <2>2, <3>3, ReplyCalls DEF SlaveCalls
  <2>3. CASE r \notin {"RESP", "CLOSE"}
    <3>1. r = "HANDSHAKE" => ~sess["pre"].data_fd
      <4>1. r = inbox["slave"][1]
        BY <2>0 DEF Whole, CallInv, OneConnection
      <4> QED
        BY <2>0, <4>1 DEF Whole, CallInv, OneConnection
    <3>2. Move("pre", "waiting") /\ UNCHANGED <<conf, sockets, sess, client, signals, accounts>>
      BY <1>7, <2>3, <3>1 DEF SlaveAnswers
    <3>3. /\ pc' = [pc EXCEPT !["pre"] = "waiting"] /\ UNCHANGED <<bug, sess, inbox>>
      BY <3>2 DEF Move, sockets
    <3>4. pc'["pre"] = "waiting" /\ pc'["post"] = pc["post"] /\ NoSockets'
      BY <1>1, <3>3, MoveCalls DEF Procs
    <3>5. OneCall'
      BY <1>1, <2>0, <3>3, <3>4
         DEF Whole, CallInv, OneCall, Silent, InTurn, Request, Remote, Post, AnswersTo
    <3>6. OneConnection' /\ OneListener'
      BY <1>1, <3>3, <3>4 DEF Whole, CallInv, OneConnection, OneListener, Request, Post
    <3> QED
      BY <3>3, <3>4, <3>5, <3>6 DEF CallInv, Whole, NoBug
  <2> QED
    BY <2>1, <2>2, <2>3
<1>8. CASE SlaveReadsLine
  <2>1. CASE \E a \in AnswersTo("GETLINE") : Reply(a, sess["pre"], "slave")
    BY <1>1, <1>3, <1>5, <1>8, <2>1, ReplyCalls DEF SlaveCalls, SlaveReadsLine
  <2> QED
    BY <1>6, <1>8, <2>1 DEF SlaveReadsLine
<1>9. CASE SlaveMovesData
  <2>1. r \in {"HANDSHAKE", "READ", "WRITE"} /\ inbox["slave"] # << >>
    BY <1>3, <1>9 DEF SlaveMovesData
  <2>2. ASSUME NEW a \in AnswersTo(r),
               Reply(a, IF r = "HANDSHAKE" THEN SslAccept(a) ELSE sess["pre"], "slave")
        PROVE  CallInv' /\ NoSockets' /\ NoBug'
    <3>1. CASE r = "HANDSHAKE"
      <4>1. PICK s : s = [sess["pre"] EXCEPT !.data_fd = (a = <<"OK">>)]
        OBVIOUS
      <4>2. s.data_fd = (a = <<"OK">>) /\ Reply(a, s, "slave")
        BY <1>4, <2>2, <3>1, <4>1 DEF SslAccept
      <4> QED
        BY <1>1, <1>5, <2>1, <3>1, <4>2, ReplyCalls DEF SlaveCalls
    <3>2. CASE r \in {"READ", "WRITE"}
      BY <1>1, <1>5, <2>1, <2>2, <3>2, ReplyCalls DEF SlaveCalls
    <3> QED
      BY <2>1, <3>1, <3>2
  <2> QED
    BY <1>6, <1>9, <2>2 DEF SlaveMovesData
<1>10. CASE SlaveEnds
  BY <1>6, <1>10 DEF SlaveEnds
<1> QED
  BY <1>7, <1>8, <1>9, <1>10

-----------------------------------------------------------------------------
(* Logging in: of what the calls read nothing changes.                       *)

Elsewhere == \A e \in CallEnds : inbox'[e] = inbox[e]
Alike(s, t) == s.data_fd = t.data_fd /\ s.pasv_listen = t.pasv_listen

\* A process of the login moves, and may change its session.
LEMMA LoginStep ==
    ASSUME Whole, op' = op, bug' = bug, Elsewhere,
           NEW p \in {"parent", "pre"}, pc[p] # "none",
           NEW x, x \notin {"main", "start", "waiting"}, pc' = [pc EXCEPT ![p] = x],
           NEW s, Alike(s, sess[p]), sess' = sess \/ sess' = [sess EXCEPT ![p] = s]
    PROVE  CallInv' /\ NoSockets' /\ NoBug'
<1>1. p \in Procs /\ pc'[p] = x /\ \A q \in Procs \ {p} : pc'[q] = pc[q]
  BY Put DEF Whole, LoginInv, Typed, Procs
<1>2. \A q \in Procs : Alike(sess'[q], sess[q])
  <2>1. CASE sess' = sess
    BY <2>1 DEF Alike
  <2>2. CASE sess' = [sess EXCEPT ![p] = s]
    <3>1. sess'[p] = s /\ \A q \in Procs \ {p} : sess'[q] = sess[q]
      BY <1>1, <2>2, Put DEF Whole, LoginInv, Typed
    <3> QED
      BY <3>1 DEF Alike
  <2> QED
    BY <2>1, <2>2
<1>3. sess'["post"] = sess["post"]
  BY <1>1, Put DEF Whole, LoginInv, Typed, Procs
<1>4. Aside
  BY <1>1, <1>2 DEF Aside, Elsewhere, Alike, Procs
<1>5. CallInv'
  BY <1>1, <1>3, <1>4, AsideKeeps DEF Whole, Procs
<1>6. pc'["parent"] \notin {"main", "start"}
  BY <1>1 DEF Whole, LoginInv, Together, Procs
<1> QED
  BY <1>5, <1>6 DEF NoSockets, Whole, NoBug

\* A step that moves nobody and leaves sockets and sessions alone.
LEMMA NobodyMoves ==
    ASSUME Whole, UNCHANGED <<pc, ends, inbox, sess, bug, op>>
    PROVE  CallInv' /\ NoSockets' /\ NoBug'
  BY AsideKeeps DEF Aside, Whole, NoSockets, NoBug

\* Changes of a session that are not about sockets.
LEMMA AlikeFields ==
    ASSUME NEW s, Shaped(s), NEW u, NEW b, NEW c, NEW n
    PROVE  /\ Alike(s, s)
           /\ Alike([s EXCEPT !.user = u], s)
           /\ Alike([s EXCEPT !.user = u, !.login_fails = n], s)
           /\ Alike([s EXCEPT !.user = u, !.is_anonymous = b], s)
           /\ Alike([s EXCEPT !.control_use_ssl = b, !.data_use_ssl = c], s)
           /\ Alike([s EXCEPT !.data_use_ssl = b], s)
           /\ Alike([s EXCEPT !.is_anonymous = b], s)
           /\ Alike([s EXCEPT !.ssl_slave_active = b], s)
           /\ Alike([s EXCEPT !.user = u, !.control_use_ssl = b, !.data_use_ssl = c], s)
           /\ Alike([s EXCEPT !.is_anonymous = b, !.is_guest = c], s)
  BY DEF Shaped, Alike

LEMMA SayCalls ==
    ASSUME Whole, op' = op, NEW p \in {"parent", "pre"}, pc[p] # "none",
           NEW s, Alike(s, sess[p]), Say(p, s)
    PROVE  CallInv' /\ NoSockets' /\ NoBug'
  BY LoginStep DEF Say, Change, Move, Dialogue, sockets, Elsewhere

LEMMA FailedCalls ==
    ASSUME Whole, op' = op, NEW p \in {"parent", "pre"}, Running(p),
           NEW s, Shaped(s), Alike(s, sess[p]), Failed(p, s)
    PROVE  CallInv' /\ NoSockets' /\ NoBug'
<1>1. CASE Exit(p)
  BY <1>1, ExitCalls DEF Procs
<1>2. CASE Say(p, [s EXCEPT !.user = "none", !.login_fails = @ + 1])
  <2>1. PICK n : n = s.login_fails + 1
    OBVIOUS
  <2>2. PICK t : t = [s EXCEPT !.user = "none", !.login_fails = n]
    OBVIOUS
  <2>3. Alike(t, s)
    BY <2>2, AlikeFields
  <2>4. Alike(t, sess[p])
    BY <2>3 DEF Alike
  <2>5. Say(p, t)
    BY <1>2, <2>1, <2>2
  <2> QED
    BY <2>4, <2>5, SayCalls DEF Running
<1> QED
  BY <1>1, <1>2 DEF Failed

LEMMA HandlePassCalls ==
    ASSUME Whole, op' = op, NEW p \in {"parent", "pre"}, Running(p),
           NEW s, Shaped(s), Alike(s, sess[p]), HandlePass(p, s)
    PROVE  CallInv' /\ NoSockets' /\ NoBug'
<1>0. inbox = [e \in Ends |-> inbox[e]] /\ pc[p] # "none"
  BY DEF Whole, LoginInv, Typed, Running
<1>1. CASE Say(p, s)
  BY <1>0, <1>1, SayCalls
<1>2. CASE Exit(p)
  BY <1>2, ExitCalls DEF Procs
<1>3. CASE /\ Send("child1", <<LoginRequest(s)>>)
           /\ Change(p, s) /\ Move(p, "pass")
  <2>1. Elsewhere
    BY <1>0, <1>3 DEF Send, Peer, Elsewhere, CallEnds, Ends
  <2> QED
    BY <1>0, <1>3, <2>1, LoginStep DEF Change, Move
<1>4. CASE Failed(p, s)
  BY <1>4, FailedCalls
<1>5. CASE /\ Change(p, [s EXCEPT !.user = "ftp", !.is_anonymous = TRUE])
           /\ Move(p, "session") /\ UNCHANGED sockets
  <2>1. PICK t : t = [s EXCEPT !.user = "ftp", !.is_anonymous = TRUE]
    OBVIOUS
  <2>2. Alike(t, s)
    BY <2>1, AlikeFields
  <2>3. Alike(t, sess[p]) /\ Elsewhere
    BY <1>5, <2>2 DEF Alike, Elsewhere, sockets
  <2> QED
    BY <1>0, <1>5, <2>1, <2>3, LoginStep DEF Change, Move
<1> QED
  BY <1>1, <1>2, <1>3, <1>4, <1>5 DEF HandlePass, LoginRequest

LEMMA HandshakeCalls ==
    ASSUME Whole, op' = op, NEW p \in {"parent", "pre"}, Running(p), NEW b, SslControlHandshake(p, b)
    PROVE  CallInv' /\ NoSockets' /\ NoBug'
<1>1. CASE Leave(p, pc) /\ UNCHANGED <<bug, ctl, encrypted>>
  BY <1>1, LeaveCalls DEF Procs
<1>2. CASE /\ Change(p, [sess[p] EXCEPT !.control_use_ssl = TRUE, !.data_use_ssl = b \/ @])
           /\ Move(p, "getline") /\ Dialogue
  <2>1. PICK c : c = (b \/ sess[p].data_use_ssl)
    OBVIOUS
  <2>2. PICK t : t = [sess[p] EXCEPT !.control_use_ssl = TRUE, !.data_use_ssl = c]
    OBVIOUS
  <2>3. Alike(t, sess[p])
    BY <2>2, AlikeFields DEF Whole, LoginInv, Typed, Procs
  <2>4. sess' = [sess EXCEPT ![p] = t] /\ pc' = [pc EXCEPT ![p] = "getline"]
        /\ bug' = bug /\ Elsewhere
    BY <1>2, <2>1, <2>2 DEF Change, Move, Dialogue, sockets, Elsewhere
  <2> QED
    BY <2>3, <2>4, LoginStep DEF Running
<1> QED
  BY <1>1, <1>2 DEF SslControlHandshake

LEMMA DialogueCalls ==
    ASSUME Whole, op' = op, NEW p \in {"parent", "pre"},
           \/ PassCommand(p) \/ QuitCommand(p) \/ OtherCommand(p) \/ IdleTimeout(p) \/ ControlLost(p)
           \/ \E n \in Names : UserCommand(p, n)
           \/ \E b \in BOOLEAN : AuthCommand(p, b) \/ ProtCommand(p, b)
           \/ InitConnection(p)
    PROVE  CallInv' /\ NoSockets' /\ NoBug'
<1>1. pc[p] \in {"connected", "getline", "pass"}
  BY DEF PassCommand, QuitCommand, OtherCommand, IdleTimeout, ControlLost, UserCommand,
     AuthCommand, ProtCommand, InitConnection, Line
<1>2. /\ p \in Procs /\ Running(p) /\ pc[p] # "none" /\ Shaped(sess[p])
      /\ Alike(sess[p], sess[p])
  BY <1>1 DEF Running, Procs, Whole, LoginInv, Typed, Alike
<1>3. CASE PassCommand(p)
  BY <1>2, <1>3, HandlePassCalls DEF PassCommand
<1>4. CASE QuitCommand(p) \/ IdleTimeout(p) \/ ControlLost(p) \/ WriteExit(p)
  BY <1>2, <1>4, ExitCalls DEF QuitCommand, IdleTimeout, ControlLost
<1>5. CASE OtherCommand(p)
  BY <1>2, <1>5, SayCalls DEF OtherCommand
<1>6. ASSUME NEW n \in Names, UserCommand(p, n)
      PROVE  CallInv' /\ NoSockets' /\ NoBug'
  <2>1. PICK s : s = [sess[p] EXCEPT !.user = n]
    OBVIOUS
  <2>2. Shaped(s) /\ Alike(s, sess[p])
    BY <1>2, <2>1 DEF Shaped, Alike
  <2>3. PICK t : t = [s EXCEPT !.user = "none"]
    OBVIOUS
  <2>4. Alike(t, sess[p])
    BY <2>2, <2>3 DEF Shaped, Alike
  <2>5. Say(p, t) \/ Exit(p) \/ Failed(p, s) \/ HandlePass(p, s) \/ Say(p, s)
    BY <1>6, <2>1, <2>3 DEF UserCommand
  <2> QED
    BY <1>2, <2>2, <2>4, <2>5, SayCalls, ExitCalls, FailedCalls, HandlePassCalls
<1>7. CASE \E b \in BOOLEAN : AuthCommand(p, b)
  BY <1>2, <1>7, HandshakeCalls DEF AuthCommand
<1>8. ASSUME NEW b \in BOOLEAN, ProtCommand(p, b)
      PROVE  CallInv' /\ NoSockets' /\ NoBug'
  <2>1. PICK t : t = [sess[p] EXCEPT !.data_use_ssl = b]
    OBVIOUS
  <2>2. Alike(t, sess[p])
    BY <1>2, <2>1, AlikeFields
  <2>3. Say(p, t) \/ Say(p, sess[p])
    BY <1>8, <2>1 DEF ProtCommand
  <2> QED
    BY <1>2, <2>2, <2>3, SayCalls
<1>9. CASE InitConnection(p)
  <2>1. CASE SslControlHandshake(p, FALSE)
    BY <1>2, <2>1, HandshakeCalls
  <2>2. CASE Move(p, "getline") /\ UNCHANGED <<sess, client>> /\ Dialogue
    BY <1>2, <2>2, LoginStep DEF Move, Dialogue, sockets, Elsewhere
  <2> QED
    BY <1>4, <1>9, <2>1, <2>2 DEF InitConnection
<1> QED
  BY <1>3, <1>4, <1>5, <1>6, <1>7, <1>8, <1>9

LEMMA MainCalls == ASSUME Whole, op' = op, Main PROVE CallInv' /\ NoSockets' /\ NoBug'
<1>1. pc["parent"] = "main" /\ "parent" \in Procs /\ Running("parent")
  BY DEF Main, Running, Procs
<1>2. CASE Exit("parent")
  BY <1>1, <1>2, ExitCalls
<1>3. CASE Move("parent", "start") /\ UNCHANGED <<conf, sockets, sess, client, signals, accounts>>
  <2>1. /\ pc' = [pc EXCEPT !["parent"] = "start"] /\ UNCHANGED <<ends, inbox, sess, bug>>
    BY <1>3 DEF Move, sockets
  <2>2. pc'["pre"] = pc["pre"] /\ pc'["post"] = pc["post"]
    BY <1>1, <2>1, Put DEF Whole, LoginInv, Typed, Procs
  <2>3. Aside
    BY <2>1, <2>2 DEF Aside
  <2>4. CallInv'
    BY <2>1, <2>2, <2>3, AsideKeeps DEF Whole
  <2> QED
    BY <1>1, <2>1, <2>4 DEF Whole, NoSockets, NoBug
<1> QED
  BY <1>2, <1>3 DEF Main

\* A parent that is root adopts other credentials.
LEMMA AdoptCalls ==
    ASSUME Whole, op' = op, pc["parent"] \in {"start", "minimize"},
           NEW new, NEW x \in {"connected", "requests"}, AdoptOrDie("parent", new, x)
    PROVE  CallInv' /\ NoSockets' /\ NoBug'
<1>1. cred["parent"].uid = "root" /\ "parent" \in Procs /\ Running("parent")
  BY DEF Whole, LoginInv, Identity, Running, Procs
<1>2. CASE Exit("parent")
  BY <1>1, <1>2, ExitCalls
<1>3. CASE /\ pc' = [pc EXCEPT !["parent"] = x]
           /\ UNCHANGED <<bug, reaped, conf, sockets, sess, client, signals, accounts>>
  <2>1. Alike(sess["parent"], sess["parent"])
    BY DEF Alike
  <2> QED
    BY <1>3, <2>1, LoginStep DEF sockets, Elsewhere
<1> QED
  BY <1>1, <1>2, <1>3 DEF AdoptOrDie

\* The sockets are free when vsf_two_process_start makes them.
LEMMA TwoProcessStartCalls ==
    ASSUME Whole, op' = op, TwoProcessStart PROVE CallInv' /\ NoSockets' /\ NoBug'
<1>1. pc["parent"] = "start"
  BY DEF TwoProcessStart
<1>2. SocketsFree("parent")
  BY <1>1 DEF Whole, NoSockets, SocketsFree, Procs
<1>3. /\ pc' = [pc EXCEPT !["parent"] = "login", !["pre"] = "drop"]
      /\ UNCHANGED <<bug, inbox, sess>>
  BY <1>2 DEF TwoProcessStart
<1>4. pc'["parent"] = "login" /\ pc'["pre"] = "drop" /\ pc'["post"] = pc["post"]
  BY <1>3 DEF Whole, LoginInv, Typed, Procs
<1>5. Aside
  BY <1>3, <1>4 DEF Aside
<1>6. CallInv'
  BY <1>3, <1>4, <1>5, AsideKeeps DEF Whole
<1> QED
  BY <1>3, <1>4, <1>6 DEF Whole, NoSockets, NoBug

LEMMA DropAllPrivsCalls ==
    ASSUME Whole, op' = op, DropAllPrivs PROVE CallInv' /\ NoSockets' /\ NoBug'
<1>1. /\ "pre" \in Procs /\ Running("pre") /\ pc["pre"] = "drop" /\ cred["pre"].uid = "root"
      /\ Alike(sess["pre"], sess["pre"])
  BY DEF DropAllPrivs, Running, Procs, Whole, LoginInv, Identity, Alike
<1>2. CASE Exit("pre")
  BY <1>1, <1>2, ExitCalls
<1>3. CASE pc' = [pc EXCEPT !["pre"] = "connected"] /\ UNCHANGED <<bug, inbox, sess>>
  BY <1>1, <1>3, LoginStep DEF Elsewhere
<1> QED
  BY <1>1, <1>2, <1>3 DEF DropAllPrivs

\* The first private socket is not one of the session.
LEMMA FirstSocket ==
    ASSUME Whole, NEW v,
           \/ inbox' = inbox
           \/ inbox' = [inbox EXCEPT !["parent1"] = v]
           \/ inbox' = [inbox EXCEPT !["child1"] = v]
    PROVE  Elsewhere
  BY Put DEF Whole, LoginInv, Typed, Elsewhere, CallEnds, Ends

LEMMA LoginResultCalls ==
    ASSUME Whole, op' = op, LoginResult PROVE CallInv' /\ NoSockets' /\ NoBug'
<1>1. /\ "pre" \in Procs /\ Running("pre") /\ pc["pre"] = "pass" /\ Shaped(sess["pre"])
      /\ Alike(sess["pre"], sess["pre"])
  BY DEF LoginResult, Running, Procs, Whole, LoginInv, Typed, Alike
<1>2. CASE Exit("pre")
  BY <1>1, <1>2, ExitCalls
<1>3. ASSUME Take("child1") PROVE Elsewhere
  BY <1>3, FirstSocket DEF Take
<1>4. CASE Take("child1") /\ Move("pre", "slave") /\ UNCHANGED sess
  BY <1>1, <1>3, <1>4, LoginStep DEF Move
<1>5. CASE /\ Take("child1") /\ Move("pre", "getline")
           /\ Change("pre", [sess["pre"] EXCEPT !.user = "none", !.login_fails = @ + 1])
  <2>1. PICK n : n = sess["pre"].login_fails + 1
    OBVIOUS
  <2>2. PICK t : t = [sess["pre"] EXCEPT !.user = "none", !.login_fails = n]
    OBVIOUS
  <2>3. Alike(t, sess["pre"])
    BY <1>1, <2>2, AlikeFields
  <2>4. sess' = [sess EXCEPT !["pre"] = t]
    BY <1>5, <2>1, <2>2 DEF Change
  <2> QED
    BY <1>1, <1>3, <1>5, <2>3, <2>4, LoginStep DEF Move
<1> QED
  BY <1>2, <1>4, <1>5 DEF LoginResult

LEMMA ParentLoginCalls ==
    ASSUME Whole, op' = op, ReadLogin \/ LoginFails \/ LoginSucceeds \/ Commit \/ WaitForPre
    PROVE  CallInv' /\ NoSockets' /\ NoBug'
<1>1. /\ "parent" \in Procs /\ Running("parent") /\ pc["parent"] # "none"
      /\ Shaped(sess["parent"]) /\ Alike(sess["parent"], sess["parent"])
  BY DEF ReadLogin, LoginFails, LoginSucceeds, Commit, WaitForPre, Running, Procs, Whole,
     LoginInv, Typed, Alike
<1>2. CASE Exit("parent")
  BY <1>1, <1>2, ExitCalls
<1>3. ASSUME NEW m, Answer(m) PROVE Elsewhere
  BY <1>3, FirstSocket DEF Answer, Send, Peer
<1>4. CASE ReadLogin
  <2> DEFINE req == Head(inbox["parent1"])
  <2>1. CASE ~Eof("parent1")
    <3>1. PICK b, c : b = (req.control_use_ssl /\ conf.ssl_enable)
                      /\ c = (req.data_use_ssl /\ conf.ssl_enable)
      OBVIOUS
    <3>2. PICK t : t = [sess["parent"] EXCEPT !.user = req.user, !.control_use_ssl = b,
                                              !.data_use_ssl = c]
      OBVIOUS
    <3>3. Alike(t, sess["parent"])
      BY <1>1, <3>2, AlikeFields
    <3>4. /\ Take("parent1") /\ Move("parent", "auth") /\ sess' = [sess EXCEPT !["parent"] = t]
      BY <1>4, <2>1, <3>1, <3>2 DEF ReadLogin, Change
    <3>5. Elsewhere
      BY <3>4, FirstSocket DEF Take
    <3> QED
      BY <1>1, <3>3, <3>4, <3>5, LoginStep DEF Move
  <2> QED
    BY <1>2, <1>4, <2>1 DEF ReadLogin
<1>5. CASE LoginFails
  <2>1. CASE Answer("BAD") /\ Move("parent", "login") /\ UNCHANGED sess
    BY <1>1, <1>3, <2>1, LoginStep DEF Move
  <2> QED
    BY <1>2, <1>5, <2>1 DEF LoginFails
<1>6. CASE LoginSucceeds
  <2> DEFINE anon == Anonymous(sess["parent"].user)
  <2>1. CASE /\ Change("parent", [sess["parent"] EXCEPT !.is_anonymous = anon])
             /\ Move("parent", "commit") /\ UNCHANGED sockets
    <3>1. PICK b : b = anon
      OBVIOUS
    <3>2. PICK t : t = [sess["parent"] EXCEPT !.is_anonymous = b]
      OBVIOUS
    <3>3. Alike(t, sess["parent"])
      BY <1>1, <3>2, AlikeFields
    <3>4. sess' = [sess EXCEPT !["parent"] = t] /\ Elsewhere
      BY <2>1, <3>1, <3>2, FirstSocket DEF Change, sockets
    <3> QED
      BY <1>1, <2>1, <3>3, <3>4, LoginStep DEF Move
  <2> QED
    BY <1>2, <1>6, <2>1 DEF LoginSucceeds
<1>7. CASE Commit
  <2>1. CASE Held("child1")
    <3>1. PICK b : b = (sess["parent"].ssl_slave_active \/ sess["parent"].control_use_ssl)
      OBVIOUS
    <3>2. PICK t : t = [sess["parent"] EXCEPT !.ssl_slave_active = b]
      OBVIOUS
    <3>3. Alike(t, sess["parent"])
      BY <1>1, <3>2, AlikeFields
    <3>4. PICK x \in {"fork", "wait"} : Move("parent", x)
      BY <1>7, <2>1 DEF Commit
    <3>5. sess' = [sess EXCEPT !["parent"] = t] /\ Elsewhere
      BY <1>3, <1>7, <2>1, <3>1, <3>2 DEF Commit, Change
    <3> QED
      BY <1>1, <3>3, <3>4, <3>5, LoginStep DEF Move
  <2> QED
    BY <1>2, <1>7, <2>1 DEF Commit
<1>8. CASE WaitForPre
  <2>1. Elsewhere
    BY <1>8, FirstSocket DEF WaitForPre, sockets
  <2> QED
    BY <1>1, <1>8, <2>1, LoginStep DEF WaitForPre
<1> QED
  BY <1>4, <1>5, <1>6, <1>7, <1>8

\* priv_sock_close has closed both descriptors when the second socket is made.
LEMMA ForkCalls == ASSUME Whole, op' = op, Fork PROVE CallInv' /\ NoSockets' /\ NoBug'
<1>1. pc["parent"] = "fork" /\ pc["post"] = "none" /\ Running("parent") /\ "parent" \in Procs
  BY DEF Fork, Whole, LoginInv, Together, Running, Procs
<1>2. CASE Exit("parent")
  BY <1>1, <1>2, ExitCalls
<1>3. CASE /\ sess' = [sess EXCEPT !["post"] = sess["parent"]]
           /\ pc' = [pc EXCEPT !["parent"] = "minimize", !["post"] = "adopt"]
           /\ UNCHANGED <<bug, inbox>>
  <2>1. pc'["parent"] = "minimize" /\ pc'["post"] = "adopt" /\ pc'["pre"] = pc["pre"]
    BY <1>3 DEF Whole, LoginInv, Typed, Procs
  <2>2. /\ sess'["post"] = sess["parent"] /\ sess'["pre"] = sess["pre"]
        /\ sess'["parent"] = sess["parent"]
    BY <1>3 DEF Whole, LoginInv, Typed, Procs
  <2>3. ~sess["parent"].data_fd
    BY DEF Whole, CallInv, OneConnection
  <2>4. Aside
    BY <1>3, <2>1, <2>2 DEF Aside
  <2>5. CallInv'
    BY <1>1, <2>1, <2>2, <2>3, <2>4, EdgesKeep DEF Whole
  <2> QED
    BY <1>3, <2>1, <2>5 DEF Whole, NoSockets, NoBug
<1>4. PrivSockClose(ends["parent"]) \cap {"parent1", "child1"} = {}
  BY DEF PrivSockClose
<1> QED
  BY <1>2, <1>3, <1>4 DEF Fork

LEMMA MinimizePrivilegeCalls ==
    ASSUME Whole, op' = op, MinimizePrivilege PROVE CallInv' /\ NoSockets' /\ NoBug'
<1>1. CASE Move("parent", "requests") /\ UNCHANGED <<conf, sockets, sess, client, signals, accounts>>
  <2>1. Alike(sess["parent"], sess["parent"]) /\ Elsewhere
    BY <1>1 DEF Alike, Elsewhere, sockets
  <2> QED
    BY <1>1, <2>1, LoginStep DEF MinimizePrivilege, Move
<1> QED
  BY <1>1, AdoptCalls DEF MinimizePrivilege

LEMMA BecomeUserCalls ==
    ASSUME Whole, op' = op, BecomeUser PROVE CallInv' /\ NoSockets' /\ NoBug'
<1>1. /\ pc["post"] = "adopt" /\ cred["post"].uid = "root" /\ Shaped(sess["post"])
      /\ "post" \in Procs /\ Running("post")
  BY DEF BecomeUser, Whole, LoginInv, Identity, Typed, Procs, Running
<1>2. CASE Exit("post")
  BY <1>1, <1>2, ExitCalls
<1>3. ASSUME NEW b, NEW c, Change("post", [sess["post"] EXCEPT !.is_anonymous = b, !.is_guest = c]),
             pc' = [pc EXCEPT !["post"] = "hello"], UNCHANGED <<bug, inbox>>
      PROVE  CallInv' /\ NoSockets' /\ NoBug'
  <2>1. pc'["post"] = "hello" /\ pc'["pre"] = pc["pre"] /\ NoSockets'
    BY <1>1, <1>3, MoveCalls DEF Procs
  <2>2. PICK t : t = [sess["post"] EXCEPT !.is_anonymous = b, !.is_guest = c]
    OBVIOUS
  <2>3. t.data_fd = sess["post"].data_fd
    BY <1>1, <2>2, AlikeFields DEF Alike
  <2>4. sess'["post"] = t /\ sess'["pre"] = sess["pre"] /\ sess'["parent"] = sess["parent"]
    BY <1>1, <1>3, <2>2, Put DEF Change, Whole, LoginInv, Typed, Procs
  <2>5. Aside
    BY <1>3, <2>1, <2>4 DEF Aside
  <2>6. CallInv'
    BY <1>1, <2>1, <2>3, <2>4, <2>5, EdgesKeep DEF Whole
  <2> QED
    BY <1>3, <2>1, <2>6 DEF Whole, NoBug
<1> QED
  BY <1>1, <1>2, <1>3 DEF BecomeUser

-----------------------------------------------------------------------------
\* One step per action of the connection.
LEMMA WholeNext == ASSUME Whole, ~conf.async_abor_enable, [Next]_allvars PROVE Whole'
<1>0. SUFFICES CallInv' /\ NoSockets' /\ NoBug'
  BY LoginInvNext DEF Whole
<1>1. CASE UNCHANGED allvars
  BY <1>1, NobodyMoves DEF allvars, vars, processes, sockets, session
<1>2. CASE Environment
  <2>0. op' = op
    BY <1>2 DEF Environment, session
  <2>1. CASE ClientCloses \/ Terminate
    BY <2>0, <2>1, NobodyMoves DEF ClientCloses, Terminate, processes, sockets
  <2> QED
    BY <1>2, <2>0, <2>1, DialogueCalls DEF Environment
<1>3. CASE Starting
  <2>0. op' = op
    BY <1>3 DEF Starting, session
  <2>1. CASE OneProcessStart
    BY <2>0, <2>1, AdoptCalls DEF OneProcessStart
  <2> QED
    BY <1>3, <2>0, <2>1, MainCalls, TwoProcessStartCalls, DropAllPrivsCalls, DialogueCalls
       DEF Starting
<1>4. CASE LoggingIn
  <2>0. op' = op
    BY <1>4 DEF LoggingIn, session
  <2> QED
    BY <1>4, <2>0, LoginResultCalls, ParentLoginCalls, ForkCalls, MinimizePrivilegeCalls,
       BecomeUserCalls, DialogueCalls DEF LoggingIn
<1>5. CASE ParentSignals
  <2>0. op' = op
    BY <1>5 DEF ParentSignals, session
  <2>1. CASE AlarmWakes
    BY <2>0, <2>1, NobodyMoves DEF AlarmWakes, processes, sockets
  <2>2. CASE HandleSignal
    BY <2>0, <2>2, ExitCalls DEF HandleSignal, ParentChecks, ParentBlocking, Running, Procs
  <2> QED
    BY <1>5, <2>1, <2>2 DEF ParentSignals
<1>6. CASE PostSteps
  BY <1>6, HelloCalls, AskCalls, AnsweredCalls, DiesCalls, DispatchCalls DEF PostSteps
<1>7. CASE Local \/ ProcessRequest \/ Timeout
  BY <1>7, LocalCalls, ProcessRequestCalls, TimeoutCalls
<1>8. CASE SlaveAnswers \/ SlaveReadsLine \/ SlaveMovesData \/ SlaveEnds
  BY <1>8, SlaveCallsKeep
<1>9. CASE SessionOver
  BY <1>9, ExitCalls DEF SessionOver, Running, Procs, session
<1>10. CASE ParentSleeps /\ UNCHANGED session
  BY <1>10, NobodyMoves DEF ParentSleeps, processes, sockets, session
<1>11. ~AsyncAbor /\ ~AbortSteps
  BY DEF AsyncAbor, AbortSteps
<1> QED
  BY <1>1, <1>2, <1>3, <1>4, <1>5, <1>6, <1>7, <1>8, <1>9, <1>10, <1>11 DEF Next, Steps

\* The tunables stay what they are while a connection lasts.
LEMMA LeaveConf ==
    ASSUME NEW p, Exit(p) \/ WriteExit(p) \/ QuitAfterLine(p) \/ Leave(p, pc) \/ \E w : Bug(p, w)
    PROVE  conf' = conf
  BY DEF Exit, WriteExit, QuitAfterLine, Bug, Leave

LEMMA DialogueConf ==
    ASSUME NEW p,
           \/ PassCommand(p) \/ QuitCommand(p) \/ OtherCommand(p) \/ IdleTimeout(p)
           \/ ControlLost(p) \/ InitConnection(p)
           \/ \E n \in Names : UserCommand(p, n)
           \/ \E b \in BOOLEAN : AuthCommand(p, b) \/ ProtCommand(p, b)
    PROVE  conf' = conf
<1>1. ASSUME NEW s, Say(p, s) PROVE conf' = conf
  BY <1>1 DEF Say, Dialogue
<1>2. ASSUME NEW s, Failed(p, s) PROVE conf' = conf
  BY <1>1, <1>2, LeaveConf DEF Failed
<1>3. ASSUME NEW s, HandlePass(p, s) PROVE conf' = conf
  <2>1. CASE s.user = "none"
    BY <1>1, <1>3, <2>1 DEF HandlePass
  <2>2. CASE s.user # "none" /\ ~conf.one_process_model
    BY <1>3, <2>2, LeaveConf DEF HandlePass
  <2>3. CASE s.user # "none" /\ conf.one_process_model
    BY <1>2, <1>3, <2>3, LeaveConf DEF HandlePass
  <2> QED
    BY <2>1, <2>2, <2>3
<1>4. ASSUME NEW b, SslControlHandshake(p, b) PROVE conf' = conf
  BY <1>4, LeaveConf DEF SslControlHandshake, Dialogue
<1>5. ASSUME NEW n, UserCommand(p, n) PROVE conf' = conf
  BY <1>1, <1>2, <1>3, <1>5, LeaveConf DEF UserCommand
<1>6. CASE InitConnection(p)
  BY <1>4, <1>6, LeaveConf DEF InitConnection, Dialogue
<1> QED
  BY <1>1, <1>3, <1>4, <1>5, <1>6, LeaveConf DEF PassCommand, QuitCommand, OtherCommand,
     IdleTimeout, ControlLost, AuthCommand, ProtCommand

LEMMA LoginConf ==
    ASSUME \/ Main \/ OneProcessStart \/ TwoProcessStart \/ DropAllPrivs
           \/ LoginResult \/ ReadLogin \/ LoginFails \/ LoginSucceeds \/ Commit \/ WaitForPre
           \/ Fork \/ MinimizePrivilege \/ BecomeUser
    PROVE  conf' = conf
<1>1. ASSUME NEW p, NEW new, NEW x, AdoptOrDie(p, new, x) PROVE conf' = conf
  BY <1>1, LeaveConf DEF AdoptOrDie
<1>2. CASE Main
  BY <1>2, LeaveConf DEF Main
<1>3. CASE OneProcessStart \/ MinimizePrivilege
  BY <1>1, <1>3 DEF OneProcessStart, MinimizePrivilege
<1>4. CASE TwoProcessStart
  BY <1>4, LeaveConf DEF TwoProcessStart
<1>5. CASE DropAllPrivs
  BY <1>5, LeaveConf DEF DropAllPrivs
<1>6. CASE LoginResult
  BY <1>6, LeaveConf DEF LoginResult
<1>7. CASE ReadLogin
  BY <1>7, LeaveConf DEF ReadLogin, Quiet
<1>8. CASE LoginFails \/ LoginSucceeds
  BY <1>8, LeaveConf DEF LoginFails, LoginSucceeds, Quiet
<1>9. CASE Commit \/ WaitForPre
  BY <1>9, LeaveConf DEF Commit, WaitForPre
<1>10. CASE Fork
  BY <1>10, LeaveConf DEF Fork
<1>11. CASE BecomeUser
  BY <1>11, LeaveConf DEF BecomeUser
<1> QED
  BY <1>2, <1>3, <1>4, <1>5, <1>6, <1>7, <1>8, <1>9, <1>10, <1>11

LEMMA SessionConf ==
    ASSUME PostSteps \/ Local \/ Timeout \/ SessionOver \/ AsyncAbor \/ AbortSteps
    PROVE  conf' = conf
<1>1. CASE Hello \/ Ask \/ Dies \/ SessionOver
  BY <1>1, LeaveConf DEF Hello, Ask, Dies, SessionOver, KeepAll
<1>2. CASE Answered
  BY <1>2, LeaveConf DEF Answered, KeepAll
<1>3. CASE Local
  BY <1>3, LeaveConf DEF Local
<1>4. CASE \E c \in {"PASV", "PORT", "RETR", "STOR", "PROT"} : Dispatch(c)
  BY <1>4 DEF Dispatch, KeepAll
<1>5. CASE Timeout
  BY <1>5, LeaveConf DEF Timeout
<1>6. CASE HandleSigurg \/ OutOfStep
  BY <1>6, LeaveConf DEF HandleSigurg, OutOfStep, KeepAll
<1>7. CASE UrgentAnswered
  BY <1>7, LeaveConf DEF UrgentAnswered, KeepAll
<1> QED
  BY <1>1, <1>2, <1>3, <1>4, <1>5, <1>6, <1>7 DEF PostSteps, AsyncAbor, AbortSteps

LEMMA ServerConf ==
    ASSUME ProcessRequest \/ SlaveAnswers \/ SlaveReadsLine \/ SlaveMovesData \/ SlaveEnds
    PROVE  conf' = conf
<1>1. ASSUME NEW a, NEW s, Reply(a, s, "slave") PROVE conf' = conf
  BY <1>1, LeaveConf DEF Reply
<1>2. CASE ProcessRequest
  BY <1>2, LeaveConf DEF ProcessRequest
<1>3. CASE SlaveAnswers
  BY <1>1, <1>3, LeaveConf DEF SlaveAnswers
<1>4. CASE SlaveReadsLine \/ SlaveEnds
  BY <1>1, <1>4, LeaveConf DEF SlaveReadsLine, SlaveEnds
<1>5. CASE SlaveMovesData
  BY <1>1, <1>5, LeaveConf DEF SlaveMovesData
<1> QED
  BY <1>2, <1>3, <1>4, <1>5

LEMMA ConfStays == ASSUME [Next]_allvars PROVE conf' = conf
<1>1. CASE UNCHANGED allvars
  BY <1>1 DEF allvars, vars
<1>2. CASE Environment
  BY <1>2, DialogueConf DEF Environment, ClientCloses, Terminate
<1>3. CASE Starting \/ LoggingIn
  BY <1>3, DialogueConf, LoginConf DEF Starting, LoggingIn
<1>4. CASE ParentSignals \/ ParentSleeps
  BY <1>4, LeaveConf DEF ParentSignals, HandleSignal, AlarmWakes, ParentSleeps
<1> QED
  BY <1>1, <1>2, <1>3, <1>4, SessionConf, ServerConf DEF Next, Steps

\* Without the handler of SIGURG nothing comes between a request and its answer.
LEMMA WholeHolds == Spec => [](~conf.async_abor_enable => Whole)
<1>1. LoginInit => (~conf.async_abor_enable => Whole)
  BY LoginInvInit, CallInvInit DEF Whole
<1>2. (~conf.async_abor_enable => Whole) /\ [Next]_allvars => (~conf.async_abor_enable => Whole)'
  BY WholeNext, ConfStays
<1> QED
  BY <1>1, <1>2, PTL DEF Spec

\* No bug() of privsock.c, secutil.c and sslslave.c is reached: priv_sock_init finds no
\* descriptor in use at either of its calls, credentials are changed by root only, and
\* the TLS handler is never asked for a handshake while it has a data connection, in
\* whatever order logins, requests, timeouts and exits come: in every configuration
\* without async_abor_enable, whose handler of SIGURG does bring one about.
THEOREM NoBugIsReached == Spec => [](~conf.async_abor_enable => NeverBug)
<1>1. Whole => NeverBug
  BY DEF Whole, NoBug, NeverBug
<1> QED
  BY <1>1, WholeHolds, PTL

\* What the session process reads from a private socket is the whole answer to the
\* call it is in (vsf_two_process_*, ftp_read_data and their kin), no answer is left
\* over when it starts the next one, the parent has a listener whenever it is asked to
\* accept and none when it is asked for one (process_post_login_req), and no data
\* connection outlives its command: without async_abor_enable, under which
\* handle_sigurg starts an exchange in the middle of another.
THEOREM AnswersBelongToRequests == Spec => [](~conf.async_abor_enable => AnswersMatchRequests)
<1>1. Whole => AnswersMatchRequests
  <2> SUFFICES ASSUME Whole PROVE AnswersMatchRequests
    OBVIOUS
  <2>1. ASSUME pc["post"] = "await", Got(Line2(op)) PROVE inbox[Line2(op)] \in AnswersTo(op)
    <3>1. CASE op \in ParentCalls
      BY <2>1, <3>1 DEF Whole, CallInv, OneCall, InTurn, Got, Line2
    <3>2. CASE op \notin ParentCalls
      BY <2>1, <3>2 DEF Whole, CallInv, OneCall, InTurn, Got, Line2
    <3> QED
      BY <3>1, <3>2
  <2>2. pc["post"] \in {"call", "line"} => ~Got("child2") /\ ~Got("consumer")
    BY DEF Whole, CallInv, OneCall, Silent, CallEnds, Got, Unbroken
  <2>3. pc["parent"] = "requests" /\ Got("parent2") =>
          /\ Request = "ACCEPT" => sess["parent"].pasv_listen
          /\ Request = "LISTEN" => ~sess["parent"].pasv_listen
    BY DEF Whole, CallInv, OneListener, Got
  <2>4. pc["post"] = "line" => ~Post.data_fd
    BY DEF Whole, CallInv, OneConnection, Unbroken
  <2> QED
    BY <2>1, <2>2, <2>3, <2>4 DEF AnswersMatchRequests
<1> QED
  BY <1>1, WholeHolds, PTL
=============================================================================
