----------------------------- MODULE FilesProofs -----------------------------
(***************************************************************************)
(* Any number of sessions on one tree and one log, with any tunables        *)
(* (Files.tla): with lock_upload_files a transfer that succeeds has the     *)
(* file to itself from the lock to the close; an anonymous session writes   *)
(* only to what it has made; the log has one whole line for each command    *)
(* that started an entry.                                                  *)
(*                                                                         *)
(* One invariant serves all three.  A step is a session's own; what it may  *)
(* do to the others is stated once, in OthersUndisturbed.                  *)
(***************************************************************************)
EXTENDS Files, FiniteSetTheorems, SequenceTheorems, TLAPS

\* What a file and the log are made of.
Chunk == [by : Sessions \cup {"old", "hole"}, no : Nat]
Places == {"idle", "create", "lock", "ready", "connect", "move", "finish", "log", "logging", "gone"}
Words == {"none", "STOR", "APPE", "STOU", "RETR", "MKDIR", "RMDIR", "DELETE", "CHMOD", "RNFR", "RNTO",
          "REST", "CWD", "SIZE", "UPLOAD", "DOWNLOAD", "RENAME"}
SessionType ==
    [at : Places, cmd : Words, path : Paths, ino : Inodes \cup {None}, pos : Nat,
     sent : Seq(Chunk), base : Seq(Chunk), size : Nat, ok : BOOLEAN, no : Nat, log_type : Words,
     rnfr : Args \cup {NoName}, cwd : Dirs, restart_pos : Nat, bug : BOOLEAN]

DiskTyped ==
    /\ dir \in [Paths -> Inodes \cup {None}]
    /\ data \in [Inodes -> Seq(Chunk)]
    /\ kind \in [Inodes -> {"free", "file", "dir"}]
    /\ creator = [i \in Inodes |-> creator[i]] /\ readable = [i \in Inodes |-> readable[i]]
    /\ \A p \in Paths : dir[p] # None => kind[dir[p]] # "free"
SessTyped == sess \in [Sessions -> SessionType]

\* The places where a session has got the lock of the file it has open.
Holding == {"ready", "connect", "move", "finish", "log", "logging"}

\* What the place of a session says of it.
InPlace(s) ==
    LET r == sess[s] IN
    /\ r.at \in {"lock", "ready", "connect", "move", "finish"} => r.ino # None
    /\ r.at \in {"idle", "create", "gone"} => r.ino = None
    /\ r.ino # None => kind[r.ino] # "free"
    /\ r.at \in {"idle", "create", "lock", "ready", "connect", "move", "gone"} => ~r.ok
    /\ r.at \in {"create", "lock", "ready", "connect", "move", "log", "logging"} => r.log_type # "none"
    /\ r.at \in {"idle", "gone"} => r.log_type = "none"
    /\ ~r.bug

\* A lock is held by the session whose transfer needs it, and by no two for different ends.
Locked ==
    /\ writer = [i \in Inodes |-> writer[i]] /\ readers = [i \in Inodes |-> readers[i]]
    /\ \A i \in Inodes, s \in Sessions :
         /\ writer[i] = s => sess[s].ino = i /\ sess[s].at \in Holding /\ sess[s].cmd # "RETR"
         /\ s \in readers[i] => sess[s].ino = i /\ sess[s].at \in Holding /\ sess[s].cmd = "RETR"
    /\ \A i \in Inodes :
         writer[i] \in Sessions \cup {"none"} /\ readers[i] \subseteq Sessions
         /\ (writer[i] # "none" => readers[i] = {})
    /\ conf.lock_upload_files => \A s \in Sessions : sess[s].at \in Holding /\ sess[s].ino # None =>
         /\ sess[s].cmd = "RETR" => s \in readers[sess[s].ino]
         /\ sess[s].cmd # "RETR" => writer[sess[s].ino] = s

\* d is base with sent written into it up to position pos.
Written(d, base, sent, pos) ==
    /\ Len(sent) <= pos
    /\ sent = << >> => d = base
    /\ sent # << >> =>
         /\ pos <= Len(d) /\ Len(base) <= Len(d)
         /\ \A j \in 1..Len(sent) : d[pos - Len(sent) + j] = sent[j]
         /\ \A j \in 1..Len(d) : j \notin (pos - Len(sent) + 1)..pos =>
              d[j] = IF j <= Len(base) THEN base[j] ELSE Hole
\* sent is what d has up to position pos.
Read(d, sent, pos) ==
    /\ Len(sent) <= pos
    /\ sent # << >> => pos <= Len(d)
    /\ \A j \in 1..Len(sent) : sent[j] = d[pos - Len(sent) + j]

\* How far a transfer has come, while nobody else can touch its file.
Upload(s) ==
    LET r == sess[s] IN
    r.at \in {"connect", "move", "finish", "log", "logging"} /\ r.ino # None /\ r.cmd # "RETR" =>
        Written(data[r.ino], r.base, r.sent, r.pos)
Download(s) ==
    LET r == sess[s] IN
    /\ r.at \in {"connect", "move", "log", "logging"} \/ (r.at = "finish" /\ r.ok) =>
         (r.ino # None /\ r.cmd = "RETR" =>
            Len(data[r.ino]) = r.size /\ Read(data[r.ino], r.sent, r.pos))
    /\ r.at \in {"log", "logging"} \/ (r.at = "finish" /\ r.ok) =>
         (r.ino # None /\ r.cmd = "RETR" => r.pos >= Len(data[r.ino]))
Undisturbed == conf.lock_upload_files => \A s \in Sessions : Upload(s) /\ Download(s)

\* An anonymous session writes to files of its own.
Own(s) ==
    s \in AnonSessions /\ ~conf.anon_other_write_enable =>
        (sess[s].ino # None /\ sess[s].cmd # "RETR" => creator[sess[s].ino] = Mine(s))

\* Lines in the log: none for commands to come or with an open entry, a half while it
\* is being written, whole ones or none for the others.
Lines(s, n) == Cardinality(Halves(s, n))
Tally(r, n, k) ==
    /\ n > r.no => k = 0
    /\ n = r.no /\ r.at = "logging" => k = 1
    /\ n = r.no /\ r.at # "logging" /\ r.log_type # "none" => k = 0
    /\ n < r.no \/ (n = r.no /\ r.at # "logging") => k = 0 \/ k = 2
Logs ==
    /\ log \in Seq(Chunk)
    /\ \A s \in Sessions : \A n \in Nat : Tally(sess[s], n, Lines(s, n))
    /\ ~conf.no_log_lock =>
         /\ logLock \in Sessions \cup {"none"}
         /\ \A s \in Sessions : logLock = s <=> sess[s].at = "logging"
         /\ logLock = "none" => Len(log) % 2 = 0
         /\ logLock # "none" => Len(log) % 2 = 1 /\ log[Len(log)] = Mine(logLock)
         /\ \A j \in 1..(Len(log) \div 2) : log[2 * j - 1] = log[2 * j]

FInv ==
    /\ DiskTyped /\ SessTyped /\ Locked /\ Undisturbed /\ Logs
    /\ \A s \in Sessions : InPlace(s) /\ Own(s)

-----------------------------------------------------------------------------
\* What the proofs need of the constants.
LEMMA InodesAreNumbers == MaxInodes \in Nat /\ None \notin Inodes /\ 1 \in Inodes /\ 2 \in Inodes
<1>1. MaxInodes \in Nat /\ MaxInodes >= 2
  BY FilesConstants
<1> QED
  BY <1>1 DEF Inodes, None

LEMMA SessionsAreNamed == "none" \notin Sessions
  BY FilesConstants

-----------------------------------------------------------------------------
(* What a step of one session leaves alone.                                 *)

\* Two states of a session that differ at most in the names it knows.
Alike(q, r) ==
    /\ q.at = r.at /\ q.cmd = r.cmd /\ q.ino = r.ino /\ q.pos = r.pos /\ q.sent = r.sent
    /\ q.base = r.base /\ q.size = r.size /\ q.ok = r.ok /\ q.no = r.no
    /\ q.log_type = r.log_type /\ q.bug = r.bug

OthersAlike(s) == \A t \in Sessions \ {s} : Alike(sess'[t], sess[t])

\* Files stay what they are, and only a writer changes what one holds.
FilesStay(s) ==
    \A i \in Inodes : kind[i] # "free" =>
        /\ kind'[i] = kind[i] /\ creator'[i] = creator[i]
        /\ data'[i] # data[i] => sess[s].at \in Holding /\ sess[s].ino = i /\ sess[s].cmd # "RETR"

\* A file with a lock of the one session has none that counts of another.
LEMMA LocksExclude ==
    ASSUME FInv, conf.lock_upload_files, NEW s \in Sessions, NEW t \in Sessions \ {s},
           sess[s].at \in Holding, sess[t].at \in Holding, sess[s].ino # None,
           sess[s].cmd # "RETR"
    PROVE  sess[t].ino # sess[s].ino
<1> SUFFICES ASSUME sess[t].ino = sess[s].ino PROVE FALSE
  OBVIOUS
<1>1. sess[s].ino \in Inodes
  BY DEF FInv, SessTyped, SessionType
<1>2. Locked
  BY DEF FInv
<1>5. writer[sess[s].ino] = s /\ s # "none"
  BY <1>2, SessionsAreNamed DEF Locked
<1>6. readers[sess[s].ino] = {}
  BY <1>1, <1>2, <1>5 DEF Locked
<1>3. CASE sess[t].cmd = "RETR"
  BY <1>2, <1>3, <1>6 DEF Locked
<1>4. CASE sess[t].cmd # "RETR"
  BY <1>2, <1>4, <1>5 DEF Locked
<1> QED
  BY <1>3, <1>4

LEMMA OthersUndisturbed ==
    ASSUME FInv, NEW s \in Sessions, conf' = conf, OthersAlike(s), FilesStay(s),
           NEW t \in Sessions \ {s}
    PROVE  /\ InPlace(t)' /\ Own(t)'
           /\ conf.lock_upload_files => Upload(t)' /\ Download(t)'
<1>1. /\ Alike(sess'[t], sess[t]) /\ sess[t].ino \in Inodes \cup {None}
      /\ InPlace(t) /\ Own(t) /\ (conf.lock_upload_files => Upload(t) /\ Download(t))
  BY DEF FInv, OthersAlike, SessTyped, SessionType, Undisturbed
<1>2. sess[t].ino # None => /\ kind[sess[t].ino] # "free" /\ kind'[sess[t].ino] # "free"
                            /\ creator'[sess[t].ino] = creator[sess[t].ino]
  BY <1>1 DEF InPlace, FilesStay
<1>3. InPlace(t)'
  BY <1>1, <1>2 DEF InPlace, Alike
<1>4. Own(t)'
  BY <1>1, <1>2 DEF Own, Alike, Mine
<1>5. ASSUME conf.lock_upload_files PROVE Upload(t)' /\ Download(t)'
  <2>1. CASE sess[t].at \in Holding /\ sess[t].ino # None
    <3>1. data'[sess[t].ino] = data[sess[t].ino]
      BY <1>1, <1>2, <1>5, <2>1, LocksExclude DEF FilesStay
    <3> QED
      BY <1>1, <1>5, <3>1 DEF Upload, Download, Alike
  <2>2. CASE ~(sess[t].at \in Holding /\ sess[t].ino # None)
    BY <1>1, <2>2 DEF Upload, Download, Alike, Holding
  <2> QED
    BY <2>1, <2>2
<1> QED
  BY <1>3, <1>4, <1>5

\* A session that holds locks before a step and after it, or neither.
HoldsOn(q, r) ==
    \/ r.at \in Holding /\ q.at \in Holding /\ q.ino = r.ino /\ q.cmd = r.cmd
    \/ (r.at \notin Holding \/ r.ino = None) /\ (q.at \notin Holding \/ q.ino = None)

LEMMA LocksStay ==
    ASSUME FInv, UNCHANGED <<conf, locks>>, \A t \in Sessions : HoldsOn(sess'[t], sess[t])
    PROVE  Locked'
<1>1. None \notin Inodes
  BY InodesAreNumbers
<1>2. Locked
  BY DEF FInv
<1>3. ASSUME NEW i \in Inodes, NEW t \in Sessions
      PROVE  /\ writer[i] = t => sess'[t].ino = i /\ sess'[t].at \in Holding /\ sess'[t].cmd # "RETR"
             /\ t \in readers[i] => sess'[t].ino = i /\ sess'[t].at \in Holding /\ sess'[t].cmd = "RETR"
  <2>1. /\ writer[i] = t => sess[t].ino = i /\ sess[t].at \in Holding /\ sess[t].cmd # "RETR"
        /\ t \in readers[i] => sess[t].ino = i /\ sess[t].at \in Holding /\ sess[t].cmd = "RETR"
    BY <1>2 DEF Locked
  <2> QED
    BY <1>1, <2>1 DEF HoldsOn
<1>4. ASSUME conf.lock_upload_files, NEW t \in Sessions, sess'[t].at \in Holding, sess'[t].ino # None
      PROVE  /\ sess'[t].cmd = "RETR" => t \in readers[sess'[t].ino]
             /\ sess'[t].cmd # "RETR" => writer[sess'[t].ino] = t
  BY <1>2, <1>4 DEF Locked, HoldsOn
<1>5. writer' = writer /\ readers' = readers /\ conf' = conf
  BY DEF locks
<1> QED
  <2>1. (\A i \in Inodes, t \in Sessions :
           /\ writer[i] = t => sess[t].ino = i /\ sess[t].at \in Holding /\ sess[t].cmd # "RETR"
           /\ t \in readers[i] => sess[t].ino = i /\ sess[t].at \in Holding /\ sess[t].cmd = "RETR")'
    BY <1>3, <1>5
  <2>2. (conf.lock_upload_files => \A t \in Sessions : sess[t].at \in Holding /\ sess[t].ino # None =>
           /\ sess[t].cmd = "RETR" => t \in readers[sess[t].ino]
           /\ sess[t].cmd # "RETR" => writer[sess[t].ino] = t)'
    BY <1>4, <1>5
  <2>3. (/\ writer = [i \in Inodes |-> writer[i]] /\ readers = [i \in Inodes |-> readers[i]]
         /\ \A i \in Inodes : writer[i] \in Sessions \cup {"none"} /\ readers[i] \subseteq Sessions
                              /\ (writer[i] # "none" => readers[i] = {}))'
    BY <1>2, <1>5, Zenon DEF Locked
  <2> QED
    BY <2>1, <2>2, <2>3, Zenon DEF Locked

\* A session that writes nothing to the log: it goes on with its command, or
\* starts the next after one without an entry.
Quiet(q, r) ==
    /\ q.at = "logging" <=> r.at = "logging"
    /\ \/ q.no = r.no /\ (q.log_type # "none" => r.log_type # "none")
       \/ q.no = r.no + 1 /\ r.log_type = "none" /\ r.at # "logging"

LEMMA TallyStays ==
    ASSUME NEW q, NEW r, NEW n \in Nat, NEW k, r.no \in Nat, Tally(r, n, k), Quiet(q, r)
    PROVE  Tally(q, n, k)
<1>1. CASE q.no = r.no
  <2>1. q.log_type # "none" => r.log_type # "none"
    BY <1>1 DEF Quiet
  <2> QED
    BY <1>1, <2>1 DEF Tally, Quiet
<1>2. CASE q.no = r.no + 1 /\ r.log_type = "none" /\ r.at # "logging"
  <2>1. CASE n > r.no
    BY <1>2, <2>1 DEF Tally, Quiet
  <2>2. CASE ~(n > r.no)
    <3>1. n < q.no /\ ~(n > q.no) /\ n # q.no /\ (n < r.no \/ n = r.no)
      BY <1>2, <2>2
    <3> QED
      BY <1>2, <3>1 DEF Tally
  <2> QED
    BY <2>1, <2>2
<1> QED
  BY <1>1, <1>2 DEF Quiet

LEMMA LogsStay ==
    ASSUME FInv, UNCHANGED <<conf, logs>>, \A t \in Sessions : Quiet(sess'[t], sess[t])
    PROVE  Logs'
<1>1. Logs /\ log' = log /\ logLock' = logLock
  BY DEF FInv, logs
<1>2. ASSUME NEW t \in Sessions, NEW n \in Nat PROVE Tally(sess[t], n, Lines(t, n))'
  <2>1. Tally(sess[t], n, Lines(t, n)) /\ Lines(t, n)' = Lines(t, n) /\ sess[t].no \in Nat
    BY <1>1 DEF Logs, Lines, Halves, FInv, SessTyped, SessionType
  <2>2. Tally(sess'[t], n, Lines(t, n))
    BY <2>1, TallyStays
  <2> QED
    BY <2>1, <2>2
<1>3. ASSUME NEW t \in Sessions PROVE sess'[t].at = "logging" <=> sess[t].at = "logging"
  BY DEF Quiet
<1>4. ASSUME NEW t \in Sessions, sess[t].at = "logging" PROVE Mine(t)' = Mine(t)
  BY <1>4 DEF Quiet, Mine
<1> QED
  BY <1>1, <1>2, <1>3, <1>4 DEF Logs

-----------------------------------------------------------------------------
(* Commands up to the lock.                                                 *)

\* What a command makes of its session until it waits for the lock of a file.
Opened(q, r) ==
    /\ \/ r.at = "idle" /\ q.no = r.no + 1
       \/ r.at = "create" /\ q.no = r.no
    /\ q.at \in {"idle", "create", "lock", "log"}
    /\ q.at = "lock" <=> q.ino # None
    /\ q.log_type = "none" <=> q.at = "idle"
    /\ q.at # "log" => ~q.ok
    /\ ~q.bug

\* Whatever is there stays, and what is new is marked with the command.
TreeGrows(s) ==
    /\ \A i \in Inodes : kind[i] # "free" =>
         kind'[i] = kind[i] /\ creator'[i] = creator[i] /\ data'[i] = data[i]
    /\ \A i \in Inodes : data'[i] # data[i] => creator'[i] = Mine(s)'

Opening(s) ==
    /\ UNCHANGED <<conf, locks, logs>> /\ OthersAlike(s) /\ Opened(sess'[s], sess[s])
    /\ TreeGrows(s) /\ DiskTyped' /\ SessTyped' /\ Own(s)'
    /\ sess'[s].ino # None => kind'[sess'[s].ino] # "free"

LEMMA OpeningKeeps ==
    ASSUME FInv, NEW s \in Sessions, Opening(s)
    PROVE  FInv'
<1>1. /\ Opened(sess'[s], sess[s]) /\ OthersAlike(s) /\ FilesStay(s) /\ conf' = conf
      /\ \A t \in Sessions \ {s} : Alike(sess'[t], sess[t])
  BY DEF Opening, TreeGrows, FilesStay, OthersAlike
<1>2. InPlace(s) /\ sess[s].no \in Nat
  BY DEF FInv, SessTyped, SessionType
<1>3. sess[s].at \notin Holding /\ (sess'[s].at \in Holding => sess'[s].ino = None)
  BY <1>1 DEF Opened, Holding
<1>4. Locked'
  <2>1. \A t \in Sessions : HoldsOn(sess'[t], sess[t])
    BY <1>1, <1>3 DEF HoldsOn, Alike
  <2> QED
    BY <2>1, LocksStay DEF Opening
<1>5. Logs'
  <2>1. Quiet(sess'[s], sess[s])
    BY <1>1, <1>2 DEF Opened, Quiet, InPlace
  <2>2. \A t \in Sessions : Quiet(sess'[t], sess[t])
    BY <1>1, <2>1 DEF Quiet, Alike
  <2> QED
    BY <2>2, LogsStay DEF Opening
<1>6. InPlace(s)'
  BY <1>1 DEF Opened, InPlace, Opening
<1>7. Upload(s)' /\ Download(s)'
  BY <1>1 DEF Opened, Upload, Download
<1>8. \A t \in Sessions : InPlace(t)' /\ Own(t)'
  BY <1>1, <1>6, OthersUndisturbed DEF Opening
<1>9. Undisturbed'
  BY <1>1, <1>7, OthersUndisturbed DEF Undisturbed
<1> QED
  BY <1>4, <1>5, <1>8, <1>9 DEF FInv, Opening

\* The records a command works with.
LEMMA Becomes ==
    ASSUME SessTyped, NEW s \in Sessions, NEW r \in SessionType, Become(s, r)
    PROVE  SessTyped' /\ OthersAlike(s) /\ sess'[s] = r
  BY DEF SessTyped, Become, OthersAlike, Alike

LEMMA FirstSession == NewSession \in SessionType
  BY DEF NewSession, SessionType, Places, Words, Paths, Dirs, Names, None, NoName

LEMMA Rests ==
    ASSUME NEW r \in SessionType
    PROVE  /\ Rest(r) \in SessionType
           /\ Rest(r).at = "idle" /\ Rest(r).ino = None /\ ~Rest(r).ok /\ Rest(r).no = r.no
           /\ Rest(r).log_type = r.log_type /\ Rest(r).bug = r.bug
  BY FirstSession DEF Rest, NewSession, SessionType

LEMMA Overs ==
    ASSUME SessTyped, NEW s \in Sessions, NEW r \in SessionType, Over(s, r)
    PROVE  /\ SessTyped' /\ OthersAlike(s)
           /\ sess'[s].at = IF r.log_type = "none" THEN "idle" ELSE "log"
           /\ sess'[s].ino = None /\ ~sess'[s].ok /\ sess'[s].no = r.no
           /\ sess'[s].log_type = r.log_type /\ sess'[s].bug = r.bug
<1>1. PICK t : t = [Rest(r) EXCEPT !.at = IF r.log_type = "none" THEN "idle" ELSE "log"]
  OBVIOUS
<1>2. /\ t \in SessionType /\ t.at = IF r.log_type = "none" THEN "idle" ELSE "log"
      /\ t.ino = None /\ ~t.ok /\ t.no = r.no /\ t.log_type = r.log_type /\ t.bug = r.bug
  BY <1>1, Rests DEF SessionType, Places
<1>3. Become(s, t)
  BY <1>1 DEF Over
<1> QED
  BY <1>2, <1>3, Becomes

LEMMA Begins ==
    ASSUME FInv, NEW s \in Sessions, NEW c \in Words, NEW p \in Paths, Idle(s)
    PROVE  /\ Begin(s, c, p) \in SessionType
           /\ Begin(s, c, p).at = "idle" /\ Begin(s, c, p).ino = None /\ ~Begin(s, c, p).ok
           /\ Begin(s, c, p).no = sess[s].no + 1 /\ Begin(s, c, p).log_type = "none"
           /\ ~Begin(s, c, p).bug /\ Begin(s, c, p).cmd = c /\ Begin(s, c, p).path = p
<1>1. /\ sess[s] \in SessionType /\ sess[s].at = "idle" /\ sess[s].ino = None /\ ~sess[s].ok
      /\ sess[s].log_type = "none" /\ ~sess[s].bug
  BY DEF FInv, SessTyped, InPlace, Idle
<1>2. PICK n : n = sess[s].no + 1
  OBVIOUS
<1>3. n \in Nat
  BY <1>1, <1>2 DEF SessionType
<1>4. Begin(s, c, p) = [sess[s] EXCEPT !.cmd = c, !.path = p, !.no = n]
  BY <1>2 DEF Begin
<1> QED
  BY <1>1, <1>2, <1>3, <1>4 DEF SessionType

\* The record with a log entry.
LEMMA Starts ==
    ASSUME FInv, NEW s \in Sessions, NEW c \in Words, NEW p \in Paths, NEW w \in Words \ {"none"},
           Idle(s), NEW r, r = LogStartEntry(s, Begin(s, c, p), w)
    PROVE  /\ r \in SessionType /\ r.at = "idle" /\ r.ino = None /\ ~r.ok /\ r.no = sess[s].no + 1
           /\ r.log_type = w /\ ~r.bug /\ r.cmd = c /\ r.path = p
<1>1. PICK b : b = Begin(s, c, p)
  OBVIOUS
<1>2. /\ b \in SessionType /\ b.at = "idle" /\ b.ino = None /\ ~b.ok /\ b.no = sess[s].no + 1
      /\ b.log_type = "none" /\ ~b.bug /\ b.cmd = c /\ b.path = p
  BY <1>1, Begins
<1>3. r = [b EXCEPT !.bug = b.bug \/ b.log_type # "none", !.log_type = w]
  BY <1>1 DEF LogStartEntry
<1>4. r = [b EXCEPT !.bug = FALSE, !.log_type = w]
  BY <1>2, <1>3
<1> QED
  BY <1>2, <1>4 DEF SessionType

LEMMA NamesResolve ==
    ASSUME FInv, NEW s \in Sessions, NEW a \in Args
    PROVE  Resolve(s, a) \in Paths
<1>1. sess[s].cwd \in Dirs /\ a.name \in Names
  BY FilesConstants DEF FInv, SessTyped, SessionType, Names
<1> QED
  BY <1>1 DEF Resolve, Paths, Dirs

LEMMA FreshIsFree ==
    ASSUME RoomLeft
    PROVE  Fresh \in Inodes /\ kind[Fresh] = "free"
  BY DEF RoomLeft, Fresh

\* What MakeNode leaves alone.
LEMMA NodesAreNew ==
    ASSUME FInv, RoomLeft, NEW mark, NEW p \in Paths, NEW k \in {"file", "dir"}, NEW others,
           MakeNode(mark, p, k, others)
    PROVE  /\ DiskTyped' /\ kind'[Fresh] = k /\ creator'[Fresh] = mark
           /\ \A i \in Inodes : kind[i] # "free" =>
                kind'[i] = kind[i] /\ creator'[i] = creator[i] /\ data'[i] = data[i]
           /\ \A i \in Inodes : data'[i] # data[i] => creator'[i] = mark
<1>1. PICK f : f = Fresh
  OBVIOUS
<1>2. f \in Inodes /\ kind[f] = "free" /\ DiskTyped
  BY <1>1, FreshIsFree DEF FInv
<1>3. /\ dir' = [dir EXCEPT ![p] = f] /\ kind' = [kind EXCEPT ![f] = k]
      /\ readable' = [readable EXCEPT ![f] = others]
      /\ creator' = [creator EXCEPT ![f] = mark]
      /\ data' = [data EXCEPT ![f] = << >>]
  BY <1>1 DEF MakeNode
<1>4. /\ dir' \in [Paths -> Inodes \cup {None}] /\ kind' \in [Inodes -> {"free", "file", "dir"}]
      /\ data' \in [Inodes -> Seq(Chunk)]
  BY <1>2, <1>3 DEF DiskTyped
<1>5. creator' = [i \in Inodes |-> creator'[i]] /\ readable' = [i \in Inodes |-> readable'[i]]
  BY <1>2, <1>3 DEF DiskTyped
<1>6. /\ kind'[f] = k /\ creator'[f] = mark
      /\ \A i \in Inodes \ {f} : kind'[i] = kind[i] /\ creator'[i] = creator[i] /\ data'[i] = data[i]
  BY <1>2, <1>3 DEF DiskTyped
<1>7. \A q \in Paths : dir'[q] # None => kind'[dir'[q]] # "free"
  <2> SUFFICES ASSUME NEW q \in Paths, dir'[q] # None PROVE kind'[dir'[q]] # "free"
    OBVIOUS
  <2>1. dir'[q] = f \/ (dir'[q] = dir[q] /\ dir[q] \in Inodes /\ kind[dir[q]] # "free")
    BY <1>2, <1>3 DEF DiskTyped
  <2> QED
    BY <1>2, <1>6, <2>1
<1>8. DiskTyped'
  BY <1>4, <1>5, <1>7 DEF DiskTyped, None, Inodes, Paths, Dirs, Names, Chunk
<1> QED
  BY <1>1, <1>2, <1>6, <1>8

\* A step that leaves the tree as it is, or only changes names.
LEMMA TreeStays ==
    ASSUME FInv, NEW s, UNCHANGED <<data, kind, creator>>,
           readable' = [i \in Inodes |-> readable'[i]], dir' \in [Paths -> Inodes \cup {None}],
           \A p \in Paths : dir'[p] # None => kind[dir'[p]] # "free"
    PROVE  DiskTyped' /\ TreeGrows(s)
  BY DEF FInv, DiskTyped, TreeGrows

LEMMA DiskStays ==
    ASSUME FInv, NEW s, UNCHANGED disk
    PROVE  DiskTyped' /\ TreeGrows(s)
  BY DEF FInv, DiskTyped, TreeGrows, disk

\* A command that ends without having opened a file.
LEMMA EndsUnopened ==
    ASSUME FInv, NEW s \in Sessions, NEW r \in SessionType, Over(s, r), UNCHANGED <<conf, disk, locks, logs>>,
           \/ sess[s].at = "idle" /\ r.no = sess[s].no + 1
           \/ sess[s].at = "create" /\ r.no = sess[s].no,
           ~r.bug
    PROVE  Opening(s)
<1>1. /\ SessTyped' /\ OthersAlike(s)
      /\ sess'[s].at = IF r.log_type = "none" THEN "idle" ELSE "log"
      /\ sess'[s].ino = None /\ ~sess'[s].ok /\ sess'[s].no = r.no
      /\ sess'[s].log_type = r.log_type /\ sess'[s].bug = r.bug
  BY Overs DEF FInv
<1>2. Opened(sess'[s], sess[s])
  BY <1>1 DEF Opened
<1>3. Own(s)'
  BY <1>1 DEF Own
<1>4. DiskTyped' /\ TreeGrows(s)
  BY DiskStays
<1> QED
  BY <1>1, <1>2, <1>3, <1>4 DEF Opening

\* A command that takes its place between commands, in the same way.
LEMMA EndsAtRest ==
    ASSUME FInv, NEW s \in Sessions, Idle(s), NEW r \in SessionType, Become(s, r),
           r.at = "idle", r.ino = None, ~r.ok, r.no = sess[s].no + 1, r.log_type = "none", ~r.bug,
           UNCHANGED <<conf, disk, locks, logs>>
    PROVE  Opening(s)
<1>1. SessTyped' /\ OthersAlike(s) /\ sess'[s] = r
  BY Becomes DEF FInv
<1>2. Opened(sess'[s], sess[s])
  BY <1>1 DEF Opened, Idle
<1>3. Own(s)'
  BY <1>1 DEF Own
<1>4. DiskTyped' /\ TreeGrows(s)
  BY DiskStays
<1> QED
  BY <1>1, <1>2, <1>3, <1>4 DEF Opening

\* A command that has done its one system call and is to be logged as a success.
LEMMA EndsLogged ==
    ASSUME FInv, NEW s \in Sessions, Idle(s), NEW r \in SessionType, Logged(s, r),
           r.ino = None, r.no = sess[s].no + 1, r.log_type # "none", ~r.bug,
           UNCHANGED <<conf, locks, logs>>, DiskTyped',
           sess'[s].no = sess[s].no + 1 => TreeGrows(s)
    PROVE  Opening(s)
<1>1. PICK t : t = [r EXCEPT !.at = "log", !.ok = TRUE]
  OBVIOUS
<1>2. /\ t \in SessionType /\ t.at = "log" /\ t.ino = None /\ t.no = sess[s].no + 1
      /\ t.log_type # "none" /\ ~t.bug
  BY <1>1 DEF SessionType, Places
<1>3. Become(s, t)
  BY <1>1 DEF Logged
<1>4. SessTyped' /\ OthersAlike(s) /\ sess'[s] = t
  BY <1>2, <1>3, Becomes DEF FInv
<1>5. Opened(sess'[s], sess[s])
  BY <1>2, <1>4 DEF Opened, Idle
<1>6. Own(s)'
  BY <1>2, <1>4 DEF Own
<1> QED
  BY <1>2, <1>4, <1>5, <1>6 DEF Opening

-----------------------------------------------------------------------------
LEMMA OpenUploadOpens ==
    ASSUME FInv, NEW s \in Sessions, NEW r \in SessionType, NEW p \in Paths, OpenUpload(s, r, p),
           \/ sess[s].at = "idle" /\ r.no = sess[s].no + 1
           \/ sess[s].at = "create" /\ r.no = sess[s].no,
           r.ino = None, ~r.ok, r.log_type # "none", ~r.bug,
           UNCHANGED <<conf, locks, logs>>
    PROVE  Opening(s)
<1> DEFINE i == At(p)
<1>0. i \in Inodes \cup {None} /\ (i # None => kind[i] # "free")
  BY DEF At, FInv, DiskTyped
<1>1. CASE Over(s, [r EXCEPT !.restart_pos = 0]) /\ UNCHANGED disk
  <2>1. PICK t : t = [r EXCEPT !.restart_pos = 0]
    OBVIOUS
  <2>2. t \in SessionType /\ t.no = r.no /\ ~t.bug
    BY <2>1 DEF SessionType
  <2> QED
    BY <1>1, <2>1, <2>2, EndsUnopened
<1>2. CASE /\ IsFile(i) /\ ~Exclusive(s, r.cmd)
           /\ Become(s, [[r EXCEPT !.at = "lock"] EXCEPT !.path = p, !.ino = i]) /\ UNCHANGED disk
  <2>1. PICK t : t = [[r EXCEPT !.at = "lock"] EXCEPT !.path = p, !.ino = i]
    OBVIOUS
  <2>2. i \in Inodes /\ i # None /\ kind[i] # "free"
    BY <1>0, <1>2 DEF IsFile
  <2>3. /\ t \in SessionType /\ t.at = "lock" /\ t.ino = i /\ t.no = r.no /\ ~t.ok
        /\ t.log_type # "none" /\ ~t.bug
    BY <2>1, <2>2 DEF SessionType, Places
  <2>4. SessTyped' /\ OthersAlike(s) /\ sess'[s] = t
    BY <1>2, <2>1, <2>3, Becomes DEF FInv
  <2>5. Opened(sess'[s], sess[s])
    BY <2>2, <2>3, <2>4 DEF Opened
  <2>6. Own(s)'
    BY <1>2 DEF Own, Exclusive
  <2>7. DiskTyped' /\ TreeGrows(s) /\ kind' = kind
    BY <1>2, DiskStays DEF disk
  <2> QED
    BY <2>2, <2>3, <2>4, <2>5, <2>6, <2>7 DEF Opening
<1>3. CASE /\ i = None /\ ParentThere(p) /\ RoomLeft
           /\ Become(s, [[r EXCEPT !.at = "lock"] EXCEPT !.path = p, !.ino = Fresh])
           /\ MakeNode([by |-> s, no |-> r.no], p, "file", ~(s \in AnonSessions /\ conf.chown_uploads))
  <2>1. PICK f : f = Fresh
    OBVIOUS
  <2>2. f \in Inodes /\ f # None
    BY <1>3, <2>1, FreshIsFree, InodesAreNumbers
  <2>3. PICK t : t = [[r EXCEPT !.at = "lock"] EXCEPT !.path = p, !.ino = f]
    OBVIOUS
  <2>4. /\ t \in SessionType /\ t.at = "lock" /\ t.ino = f /\ t.no = r.no /\ ~t.ok
        /\ t.log_type # "none" /\ ~t.bug
    BY <2>2, <2>3 DEF SessionType, Places
  <2>5. SessTyped' /\ OthersAlike(s) /\ sess'[s] = t
    BY <1>3, <2>1, <2>3, <2>4, Becomes DEF FInv
  <2>6. Opened(sess'[s], sess[s])
    BY <2>2, <2>4, <2>5 DEF Opened
  <2>7. Mine(s)' = [by |-> s, no |-> r.no]
    BY <2>4, <2>5 DEF Mine
  <2>8. /\ DiskTyped' /\ kind'[f] = "file" /\ creator'[f] = [by |-> s, no |-> r.no]
        /\ \A j \in Inodes : kind[j] # "free" =>
             kind'[j] = kind[j] /\ creator'[j] = creator[j] /\ data'[j] = data[j]
        /\ \A j \in Inodes : data'[j] # data[j] => creator'[j] = [by |-> s, no |-> r.no]
    BY <1>3, <2>1, NodesAreNew
  <2>9. TreeGrows(s)
    BY <2>7, <2>8 DEF TreeGrows
  <2>10. Own(s)'
    BY <2>4, <2>5, <2>7, <2>8 DEF Own
  <2> QED
    BY <2>4, <2>5, <2>6, <2>8, <2>9, <2>10 DEF Opening
<1> QED
  BY <1>1, <1>2, <1>3 DEF OpenUpload

LEMMA HandleUploadOpens ==
    ASSUME FInv, NEW s \in Sessions, NEW a \in Args, NEW c \in {"STOR", "APPE", "STOU"},
           HandleUpload(s, c, a)
    PROVE  Opening(s)
<1>1. PICK r : r = LogStartEntry(s, Begin(s, c, Resolve(s, a)), "UPLOAD")
  OBVIOUS
<1>2. Idle(s) /\ Resolve(s, a) \in Paths /\ c \in Words /\ "UPLOAD" \in Words \ {"none"}
  BY NamesResolve DEF HandleUpload, Words
<1>3. /\ r \in SessionType /\ r.at = "idle" /\ r.ino = None /\ ~r.ok /\ r.no = sess[s].no + 1
      /\ r.log_type = "UPLOAD" /\ ~r.bug /\ r.cmd = c /\ r.path \in Paths /\ sess[s].at = "idle"
  BY <1>1, <1>2, Starts DEF Idle
<1>4. /\ UNCHANGED <<conf, locks, logs>>
      /\ \/ Over(s, [r EXCEPT !.restart_pos = 0]) /\ UNCHANGED disk
         \/ Become(s, [r EXCEPT !.at = "create", !.path = UniqueFilename(r.path)]) /\ UNCHANGED disk
         \/ OpenUpload(s, r, r.path)
  BY <1>1 DEF HandleUpload
<1>5. CASE Over(s, [r EXCEPT !.restart_pos = 0]) /\ UNCHANGED disk
  <2>1. PICK t : t = [r EXCEPT !.restart_pos = 0]
    OBVIOUS
  <2>2. t \in SessionType /\ t.no = r.no /\ ~t.bug
    BY <1>3, <2>1 DEF SessionType
  <2> QED
    BY <1>3, <1>4, <1>5, <2>1, <2>2, EndsUnopened
<1>6. CASE Become(s, [r EXCEPT !.at = "create", !.path = UniqueFilename(r.path)]) /\ UNCHANGED disk
  <2>1. PICK p : p = UniqueFilename(r.path)
    OBVIOUS
  <2>2. p \in Paths
    BY <1>3, <2>1 DEF UniqueFilename, Paths, Names
  <2>3. PICK t : t = [r EXCEPT !.at = "create", !.path = p]
    OBVIOUS
  <2>4. /\ t \in SessionType /\ t.at = "create" /\ t.ino = None /\ t.no = r.no /\ ~t.ok
        /\ t.log_type # "none" /\ ~t.bug
    BY <1>3, <2>2, <2>3 DEF SessionType, Places
  <2>5. SessTyped' /\ OthersAlike(s) /\ sess'[s] = t
    BY <1>6, <2>1, <2>3, <2>4, Becomes DEF FInv
  <2>6. Opened(sess'[s], sess[s]) /\ Own(s)'
    BY <1>3, <2>4, <2>5 DEF Opened, Own
  <2> QED
    BY <1>4, <1>6, <2>4, <2>5, <2>6, DiskStays DEF Opening
<1>7. CASE OpenUpload(s, r, r.path)
  BY <1>3, <1>4, <1>7, OpenUploadOpens
<1> QED
  BY <1>4, <1>5, <1>6, <1>7

LEMMA CreateUniqueOpens ==
    ASSUME FInv, NEW s \in Sessions, CreateUnique(s)
    PROVE  Opening(s)
<1>1. /\ sess[s] \in SessionType /\ sess[s].at = "create" /\ InPlace(s)
      /\ OpenUpload(s, sess[s], sess[s].path) /\ UNCHANGED <<conf, locks, logs>>
  BY DEF FInv, SessTyped, CreateUnique
<1>2. /\ sess[s].path \in Paths /\ sess[s].ino = None /\ ~sess[s].ok /\ sess[s].log_type # "none"
      /\ ~sess[s].bug
  BY <1>1 DEF InPlace, SessionType
<1> QED
  BY <1>1, <1>2, OpenUploadOpens

LEMMA HandleRetrOpens ==
    ASSUME FInv, NEW s \in Sessions, NEW a \in Args, HandleRetr(s, a)
    PROVE  Opening(s)
<1>1. PICK r : r = LogStartEntry(s, Begin(s, "RETR", Resolve(s, a)), "DOWNLOAD")
  OBVIOUS
<1>2. Idle(s) /\ Resolve(s, a) \in Paths /\ "RETR" \in Words /\ "DOWNLOAD" \in Words \ {"none"}
  BY NamesResolve DEF HandleRetr, Words
<1>3. /\ r \in SessionType /\ r.at = "idle" /\ r.ino = None /\ ~r.ok /\ r.no = sess[s].no + 1
      /\ r.log_type = "DOWNLOAD" /\ ~r.bug /\ r.cmd = "RETR" /\ r.path \in Paths /\ sess[s].at = "idle"
  BY <1>1, <1>2, Starts DEF Idle
<1>4. PICK i : i = At(r.path)
  OBVIOUS
<1>5. i \in Inodes \cup {None} /\ (i # None => kind[i] # "free")
  BY <1>3, <1>4 DEF At, FInv, DiskTyped
<1>6. /\ UNCHANGED <<conf, disk, locks, logs>>
      /\ \/ Over(s, [r EXCEPT !.restart_pos = 0])
         \/ i # None /\ Become(s, [r EXCEPT !.at = "lock", !.ino = i])
  BY <1>1, <1>4 DEF HandleRetr
<1>7. CASE Over(s, [r EXCEPT !.restart_pos = 0])
  <2>1. PICK t : t = [r EXCEPT !.restart_pos = 0]
    OBVIOUS
  <2>2. t \in SessionType /\ t.no = r.no /\ ~t.bug
    BY <1>3, <2>1 DEF SessionType
  <2> QED
    BY <1>3, <1>6, <1>7, <2>1, <2>2, EndsUnopened
<1>8. CASE i # None /\ Become(s, [r EXCEPT !.at = "lock", !.ino = i])
  <2>1. PICK t : t = [r EXCEPT !.at = "lock", !.ino = i]
    OBVIOUS
  <2>2. /\ t \in SessionType /\ t.at = "lock" /\ t.ino = i /\ t.no = r.no /\ ~t.ok
        /\ t.log_type # "none" /\ ~t.bug /\ t.cmd = "RETR"
    BY <1>3, <1>5, <2>1 DEF SessionType, Places
  <2>3. SessTyped' /\ OthersAlike(s) /\ sess'[s] = t
    BY <1>8, <2>1, <2>2, Becomes DEF FInv
  <2>4. Opened(sess'[s], sess[s]) /\ Own(s)'
    BY <1>3, <1>8, <2>2, <2>3 DEF Opened, Own
  <2>5. DiskTyped' /\ TreeGrows(s) /\ kind' = kind
    BY <1>6, DiskStays DEF disk
  <2> QED
    BY <1>5, <1>6, <1>8, <2>2, <2>3, <2>4, <2>5 DEF Opening
<1> QED
  BY <1>6, <1>7, <1>8

-----------------------------------------------------------------------------
(* Commands without a transfer.                                             *)

\* What MKD, RMD, DELE, CHMOD and RNTO do when they may not go ahead.
LEMMA RefusalOpens ==
    ASSUME FInv, NEW s \in Sessions, Idle(s), NEW a \in Args, NEW c \in Words, NEW w \in Words \ {"none"},
           Over(s, LogStartEntry(s, Begin(s, c, Resolve(s, a)), w)),
           UNCHANGED <<conf, disk, locks, logs>>
    PROVE  Opening(s)
<1>1. PICK r : r = LogStartEntry(s, Begin(s, c, Resolve(s, a)), w)
  OBVIOUS
<1>2. Resolve(s, a) \in Paths /\ sess[s].at = "idle"
  BY NamesResolve DEF Idle
<1>3. r \in SessionType /\ r.no = sess[s].no + 1 /\ ~r.bug
  BY <1>1, <1>2, Starts
<1> QED
  BY <1>1, <1>2, <1>3, EndsUnopened

LEMMA SuccessOpens ==
    ASSUME FInv, NEW s \in Sessions, Idle(s), NEW a \in Args, NEW c \in Words, NEW w \in Words \ {"none"},
           Logged(s, LogStartEntry(s, Begin(s, c, Resolve(s, a)), w)),
           UNCHANGED <<conf, locks, logs>>, DiskTyped',
           sess'[s].no = sess[s].no + 1 => TreeGrows(s)
    PROVE  Opening(s)
<1>1. PICK r : r = LogStartEntry(s, Begin(s, c, Resolve(s, a)), w)
  OBVIOUS
<1>2. Resolve(s, a) \in Paths
  BY NamesResolve
<1>3. r \in SessionType /\ r.no = sess[s].no + 1 /\ ~r.bug /\ r.ino = None /\ r.log_type # "none"
  BY <1>1, <1>2, Starts
<1> QED
  BY <1>1, <1>3, EndsLogged

LEMMA HandleMkdOpens ==
    ASSUME FInv, NEW s \in Sessions, NEW a \in Args, HandleMkd(s, a)
    PROVE  Opening(s)
<1> DEFINE p == Resolve(s, a)
           mark == [by |-> s, no |-> sess[s].no + 1]
           r == LogStartEntry(s, Begin(s, "MKDIR", p), "MKDIR")
<1>1. /\ Idle(s) /\ UNCHANGED <<conf, locks, logs>>
      /\ \/ RoomLeft /\ MakeNode(mark, p, "dir", TRUE) /\ Logged(s, r)
         \/ UNCHANGED disk /\ Over(s, r)
  BY DEF HandleMkd, Simple, Plain
<1>2. p \in Paths /\ "MKDIR" \in Words \ {"none"}
  BY NamesResolve DEF Words
<1>3. CASE UNCHANGED disk /\ Over(s, r)
  BY <1>1, <1>2, <1>3, RefusalOpens
<1>4. CASE RoomLeft /\ MakeNode(mark, p, "dir", TRUE) /\ Logged(s, r)
  <2>1. /\ DiskTyped'
        /\ \A j \in Inodes : kind[j] # "free" =>
             kind'[j] = kind[j] /\ creator'[j] = creator[j] /\ data'[j] = data[j]
        /\ \A j \in Inodes : data'[j] # data[j] => creator'[j] = mark
    BY <1>2, <1>4, NodesAreNew
  <2>2. sess'[s].no = sess[s].no + 1 => TreeGrows(s)
    BY <2>1 DEF TreeGrows, Mine
  <2> QED
    BY <1>1, <1>2, <1>4, <2>1, <2>2, SuccessOpens
<1> QED
  BY <1>1, <1>3, <1>4

\* A name goes.
LEMMA NamesGo ==
    ASSUME FInv, NEW s, NEW p \in Paths, dir' = [dir EXCEPT ![p] = None],
           UNCHANGED <<data, kind, readable, creator>>
    PROVE  DiskTyped' /\ TreeGrows(s)
<1>1. /\ dir' \in [Paths -> Inodes \cup {None}]
      /\ \A q \in Paths : dir'[q] # None => dir'[q] = dir[q]
  BY DEF FInv, DiskTyped
<1> QED
  BY <1>1, TreeStays DEF FInv, DiskTyped

LEMMA HandleDeleOpens ==
    ASSUME FInv, NEW s \in Sessions, NEW a \in Args, HandleDele(s, a)
    PROVE  Opening(s)
<1> DEFINE p == Resolve(s, a)
           r == LogStartEntry(s, Begin(s, "DELETE", p), "DELETE")
<1>1. /\ Idle(s) /\ UNCHANGED <<conf, locks, logs>>
      /\ \/ /\ dir' = [dir EXCEPT ![p] = None] /\ UNCHANGED <<data, kind, readable, creator>>
            /\ Logged(s, r)
         \/ UNCHANGED disk /\ Over(s, r)
  BY DEF HandleDele, Simple, Plain
<1>2. p \in Paths /\ "DELETE" \in Words \ {"none"}
  BY NamesResolve DEF Words
<1>3. CASE UNCHANGED disk /\ Over(s, r)
  BY <1>1, <1>2, <1>3, RefusalOpens
<1>4. CASE /\ dir' = [dir EXCEPT ![p] = None] /\ UNCHANGED <<data, kind, readable, creator>>
           /\ Logged(s, r)
  <2>1. DiskTyped' /\ TreeGrows(s)
    BY <1>2, <1>4, NamesGo
  <2> QED
    BY <1>1, <1>2, <1>4, <2>1, SuccessOpens
<1> QED
  BY <1>1, <1>3, <1>4

LEMMA HandleChmodOpens ==
    ASSUME FInv, NEW s \in Sessions, NEW a \in Args, NEW others \in BOOLEAN, HandleChmod(s, a, others)
    PROVE  Opening(s)
<1> DEFINE p == Resolve(s, a)
           r == LogStartEntry(s, Begin(s, "CHMOD", p), "CHMOD")
<1>1. /\ Idle(s) /\ UNCHANGED <<conf, locks, logs>>
      /\ \/ /\ readable' = [readable EXCEPT ![At(p)] = others] /\ UNCHANGED <<dir, data, kind, creator>>
            /\ Logged(s, r)
         \/ UNCHANGED disk /\ Over(s, r)
  BY DEF HandleChmod, Simple, Plain
<1>2. p \in Paths /\ "CHMOD" \in Words \ {"none"}
  BY NamesResolve DEF Words
<1>3. CASE UNCHANGED disk /\ Over(s, r)
  BY <1>1, <1>2, <1>3, RefusalOpens
<1>4. CASE /\ readable' = [readable EXCEPT ![At(p)] = others] /\ UNCHANGED <<dir, data, kind, creator>>
           /\ Logged(s, r)
  <2>1. PICK i : i = At(p)
    OBVIOUS
  <2>2. readable' = [readable EXCEPT ![i] = others]
    BY <1>4, <2>1
  <2>3. readable' = [j \in Inodes |-> readable'[j]]
    BY <2>2 DEF FInv, DiskTyped
  <2>4. DiskTyped' /\ TreeGrows(s)
    BY <1>4, <2>3, TreeStays DEF FInv, DiskTyped
  <2> QED
    BY <1>1, <1>2, <1>4, <2>4, SuccessOpens
<1> QED
  BY <1>1, <1>3, <1>4

LEMMA HandleRnfrOpens ==
    ASSUME FInv, NEW s \in Sessions, NEW a \in Args, HandleRnfr(s, a)
    PROVE  Opening(s)
<1>1. PICK b : b = Begin(s, "RNFR", Resolve(s, a))
  OBVIOUS
<1>2. Idle(s) /\ Resolve(s, a) \in Paths /\ "RNFR" \in Words /\ sess[s].at = "idle"
  BY NamesResolve DEF HandleRnfr, Idle, Words
<1>3. /\ b \in SessionType /\ b.at = "idle" /\ b.ino = None /\ ~b.ok /\ b.no = sess[s].no + 1
      /\ b.log_type = "none" /\ ~b.bug
  BY <1>1, <1>2, Begins
<1>4. PICK r : r = [b EXCEPT !.rnfr = NoName]
  OBVIOUS
<1>5. /\ r \in SessionType /\ r.at = "idle" /\ r.ino = None /\ ~r.ok /\ r.no = sess[s].no + 1
      /\ r.log_type = "none" /\ ~r.bug
  BY <1>3, <1>4 DEF SessionType
<1>6. /\ UNCHANGED <<conf, disk, locks, logs>>
      /\ \/ Become(s, [Rest(r) EXCEPT !.rnfr = a])
         \/ Over(s, LogStartEntry(s, r, "RENAME"))
  BY <1>1, <1>4 DEF HandleRnfr, Plain
<1>7. CASE Become(s, [Rest(r) EXCEPT !.rnfr = a])
  <2>0. PICK u : u = Rest(r)
    OBVIOUS
  <2>1. PICK t : t = [u EXCEPT !.rnfr = a]
    OBVIOUS
  <2>3. /\ u \in SessionType /\ u.at = "idle" /\ u.ino = None /\ ~u.ok /\ u.no = sess[s].no + 1
        /\ u.log_type = "none" /\ ~u.bug
    BY <1>5, <2>0, Rests
  <2>2. /\ t \in SessionType /\ t.at = "idle" /\ t.ino = None /\ ~t.ok /\ t.no = sess[s].no + 1
        /\ t.log_type = "none" /\ ~t.bug
    BY <2>1, <2>3 DEF SessionType
  <2> QED
    BY <1>2, <1>6, <1>7, <2>0, <2>1, <2>2, EndsAtRest
<1>8. CASE Over(s, LogStartEntry(s, r, "RENAME"))
  <2>1. PICK t : t = [r EXCEPT !.bug = FALSE, !.log_type = "RENAME"]
    OBVIOUS
  <2>2. t = LogStartEntry(s, r, "RENAME")
    BY <1>5, <2>1 DEF LogStartEntry
  <2>3. t \in SessionType /\ t.no = sess[s].no + 1 /\ ~t.bug
    BY <1>5, <2>1 DEF SessionType, Words
  <2> QED
    BY <1>2, <1>6, <1>8, <2>2, <2>3, EndsUnopened
<1> QED
  BY <1>6, <1>7, <1>8

LEMMA HandleRntoOpens ==
    ASSUME FInv, NEW s \in Sessions, NEW a \in Args, HandleRnto(s, a)
    PROVE  Opening(s)
<1> DEFINE kept == sess[s].rnfr
           from == Resolve(s, kept)
<1>1. PICK r : r = Begin(s, "RNTO", Resolve(s, a))
  OBVIOUS
<1>2. Idle(s) /\ Resolve(s, a) \in Paths /\ "RNTO" \in Words /\ sess[s].at = "idle"
      /\ UNCHANGED <<conf, locks, logs>>
  BY NamesResolve DEF HandleRnto, Idle, Words, Plain
<1>3. /\ r \in SessionType /\ r.at = "idle" /\ r.ino = None /\ ~r.ok /\ r.no = sess[s].no + 1
      /\ r.log_type = "none" /\ ~r.bug /\ r.path \in Paths
  BY <1>1, <1>2, Begins
<1>4. PICK q : q = LogStartEntry(s, r, "RENAME")
  OBVIOUS
<1>5. /\ q \in SessionType /\ q.ino = None /\ q.no = sess[s].no + 1 /\ q.log_type = "RENAME" /\ ~q.bug
  <2>1. q = [r EXCEPT !.bug = FALSE, !.log_type = "RENAME"]
    BY <1>3, <1>4 DEF LogStartEntry
  <2> QED
    BY <1>3, <2>1 DEF SessionType, Words
<1>6. PICK t : t = [q EXCEPT !.rnfr = NoName]
  OBVIOUS
<1>7. /\ t \in SessionType /\ t.ino = None /\ t.no = sess[s].no + 1 /\ t.log_type = "RENAME" /\ ~t.bug
  BY <1>5, <1>6 DEF SessionType
<1>8. \/ Become(s, Rest(r)) /\ UNCHANGED disk
      \/ Over(s, q) /\ UNCHANGED disk
      \/ Over(s, t) /\ UNCHANGED disk
      \/ /\ kept # NoName /\ IsFile(At(from))
         /\ dir' = [dir EXCEPT ![from] = None, ![r.path] = dir[from]]
         /\ UNCHANGED <<data, kind, readable, creator>> /\ Logged(s, t)
  BY <1>1, <1>4, <1>6 DEF HandleRnto
<1>9. CASE Become(s, Rest(r)) /\ UNCHANGED disk
  <2>1. PICK u : u = Rest(r)
    OBVIOUS
  <2>2. /\ u \in SessionType /\ u.at = "idle" /\ u.ino = None /\ ~u.ok /\ u.no = sess[s].no + 1
        /\ u.log_type = "none" /\ ~u.bug
    BY <1>3, <2>1, Rests
  <2> QED
    BY <1>2, <1>9, <2>1, <2>2, EndsAtRest
<1>10. CASE Over(s, q) /\ UNCHANGED disk
  BY <1>2, <1>5, <1>10, EndsUnopened
<1>11. CASE Over(s, t) /\ UNCHANGED disk
  BY <1>2, <1>7, <1>11, EndsUnopened
<1>12. CASE /\ kept # NoName /\ IsFile(At(from))
            /\ dir' = [dir EXCEPT ![from] = None, ![r.path] = dir[from]]
            /\ UNCHANGED <<data, kind, readable, creator>> /\ Logged(s, t)
  <2>1. kept \in Args
    BY <1>12 DEF FInv, SessTyped, SessionType
  <2>2. PICK p : p = from
    OBVIOUS
  <2>3. PICK z : z = r.path
    OBVIOUS
  <2>4. p \in Paths /\ z \in Paths /\ dir' = [dir EXCEPT ![p] = None, ![z] = dir[p]]
    BY <1>3, <1>12, <2>1, <2>2, <2>3, NamesResolve
  <2>5. /\ dir' \in [Paths -> Inodes \cup {None}]
        /\ \A n \in Paths : dir'[n] \in {None, dir[n], dir[p]}
    BY <2>4 DEF FInv, DiskTyped
  <2>6. \A n \in Paths : dir'[n] # None => kind[dir'[n]] # "free"
    BY <2>4, <2>5 DEF FInv, DiskTyped
  <2>7. DiskTyped' /\ TreeGrows(s)
    BY <1>12, <2>5, <2>6, TreeStays DEF FInv, DiskTyped
  <2> QED
    BY <1>2, <1>7, <1>12, <2>7, EndsLogged
<1> QED
  BY <1>8, <1>9, <1>10, <1>11, <1>12

\* A removed directory changes what the sessions inside it know, and nothing else.
LEMMA HandleRmdOpens ==
    ASSUME FInv, NEW s \in Sessions, NEW a \in Args, HandleRmd(s, a)
    PROVE  Opening(s)
<1>1. PICK r : r = LogStartEntry(s, Begin(s, "RMDIR", Resolve(s, a)), "RMDIR")
  OBVIOUS
<1>2. /\ Idle(s) /\ Resolve(s, a) \in Paths /\ "RMDIR" \in Words \ {"none"} /\ sess[s].at = "idle"
      /\ UNCHANGED <<conf, locks, logs>>
  BY NamesResolve DEF HandleRmd, Idle, Words, Plain
<1>3. /\ r \in SessionType /\ r.at = "idle" /\ r.ino = None /\ ~r.ok /\ r.no = sess[s].no + 1
      /\ r.log_type = "RMDIR" /\ ~r.bug /\ r.path \in Paths
  BY <1>1, <1>2, Starts
<1> DEFINE p == r.path
           Evict(t) == [t EXCEPT !.cwd = IF t.cwd = p[2] THEN "gone" ELSE t.cwd,
                                 !.path = IF t.path[1] = p[2] THEN <<"gone", t.path[2]>> ELSE t.path]
           removed == [t \in Sessions |-> IF p[1] = "/" THEN Evict(sess[t]) ELSE sess[t]]
<1>4. \/ UNCHANGED disk /\ Over(s, r)
      \/ /\ dir' = [dir EXCEPT ![p] = None] /\ UNCHANGED <<data, kind, readable, creator>>
         /\ sess' = [removed EXCEPT ![s] = [r EXCEPT !.at = "log", !.ok = TRUE, !.cwd = removed[s].cwd]]
  BY <1>1 DEF HandleRmd
<1>5. CASE UNCHANGED disk /\ Over(s, r)
  BY <1>2, <1>3, <1>5, EndsUnopened
<1>6. CASE /\ dir' = [dir EXCEPT ![p] = None] /\ UNCHANGED <<data, kind, readable, creator>>
           /\ sess' = [removed EXCEPT ![s] = [r EXCEPT !.at = "log", !.ok = TRUE, !.cwd = removed[s].cwd]]
  <2>1. DiskTyped' /\ TreeGrows(s)
    BY <1>3, <1>6, NamesGo
  <2>2. ASSUME NEW t \in Sessions PROVE removed[t] \in SessionType /\ Alike(removed[t], sess[t])
    <3>1. sess[t] \in SessionType
      BY DEF FInv, SessTyped
    <3>2. PICK c : c = IF sess[t].cwd = p[2] THEN "gone" ELSE sess[t].cwd
      OBVIOUS
    <3>3. PICK n : n = IF sess[t].path[1] = p[2] THEN <<"gone", sess[t].path[2]>> ELSE sess[t].path
      OBVIOUS
    <3>4. c \in Dirs /\ n \in Paths
      BY <3>1, <3>2, <3>3 DEF SessionType, Dirs, Paths
    <3>5. PICK u : u = [sess[t] EXCEPT !.cwd = c, !.path = n]
      OBVIOUS
    <3>6. u \in SessionType /\ Alike(u, sess[t])
      BY <3>1, <3>4, <3>5 DEF SessionType, Alike
    <3>7. removed[t] = u \/ removed[t] = sess[t]
      BY <3>2, <3>3, <3>5
    <3> QED
      BY <3>1, <3>6, <3>7 DEF Alike
  <2>3. PICK c : c = removed[s].cwd
    OBVIOUS
  <2>4. PICK u : u = [r EXCEPT !.at = "log", !.ok = TRUE, !.cwd = c]
    OBVIOUS
  <2>5. c \in Dirs
    BY <2>2, <2>3 DEF SessionType
  <2>6. /\ u \in SessionType /\ u.at = "log" /\ u.ino = None /\ u.no = sess[s].no + 1
        /\ u.log_type # "none" /\ ~u.bug
    BY <1>3, <2>4, <2>5 DEF SessionType, Places
  <2>7. sess' = [removed EXCEPT ![s] = u]
    BY <1>6, <2>3, <2>4
  <2>8. removed = [t \in Sessions |-> removed[t]]
    OBVIOUS
  <2> HIDE DEF removed
  <2>9. SessTyped' /\ OthersAlike(s) /\ sess'[s] = u
    BY <2>2, <2>6, <2>7, <2>8 DEF SessTyped, OthersAlike
  <2>10. Opened(sess'[s], sess[s]) /\ Own(s)'
    BY <1>2, <2>6, <2>9 DEF Opened, Own
  <2> QED
    BY <1>2, <2>1, <2>6, <2>9, <2>10 DEF Opening
<1> QED
  BY <1>4, <1>5, <1>6

\* REST, CWD and SIZE.
LEMMA HandleSizeOpens ==
    ASSUME FInv, NEW s \in Sessions, NEW a \in Args, HandleSize(s, a)
    PROVE  Opening(s)
<1>1. PICK u : u = Rest(Begin(s, "SIZE", Resolve(s, a)))
  OBVIOUS
<1>2. Idle(s) /\ Resolve(s, a) \in Paths /\ "SIZE" \in Words
  BY NamesResolve DEF HandleSize, Words
<1>3. /\ u \in SessionType /\ u.at = "idle" /\ u.ino = None /\ ~u.ok /\ u.no = sess[s].no + 1
      /\ u.log_type = "none" /\ ~u.bug
  BY <1>1, <1>2, Begins, Rests
<1> QED
  BY <1>1, <1>2, <1>3, EndsAtRest DEF HandleSize, Plain

LEMMA HandleRestOpens ==
    ASSUME FInv, NEW s \in Sessions, NEW n \in Nat, HandleRest(s, n)
    PROVE  Opening(s)
<1>1. PICK u : u = Rest(Begin(s, "REST", sess[s].path))
  OBVIOUS
<1>2. Idle(s) /\ sess[s].path \in Paths /\ "REST" \in Words
  BY DEF HandleRest, FInv, SessTyped, SessionType, Words
<1>3. /\ u \in SessionType /\ u.at = "idle" /\ u.ino = None /\ ~u.ok /\ u.no = sess[s].no + 1
      /\ u.log_type = "none" /\ ~u.bug
  BY <1>1, <1>2, Begins, Rests
<1>4. PICK t : t = [u EXCEPT !.restart_pos = n]
  OBVIOUS
<1>5. /\ t \in SessionType /\ t.at = "idle" /\ t.ino = None /\ ~t.ok /\ t.no = sess[s].no + 1
      /\ t.log_type = "none" /\ ~t.bug
  BY <1>3, <1>4 DEF SessionType
<1> QED
  BY <1>1, <1>2, <1>4, <1>5, EndsAtRest DEF HandleRest, Plain

LEMMA HandleCwdOpens ==
    ASSUME FInv, NEW s \in Sessions, NEW target \in {"/", "d"}, HandleCwd(s, target)
    PROVE  Opening(s)
<1>1. PICK u : u = Rest(Begin(s, "CWD", sess[s].path))
  OBVIOUS
<1>2. Idle(s) /\ sess[s].path \in Paths /\ "CWD" \in Words
  BY DEF HandleCwd, FInv, SessTyped, SessionType, Words
<1>3. /\ u \in SessionType /\ u.at = "idle" /\ u.ino = None /\ ~u.ok /\ u.no = sess[s].no + 1
      /\ u.log_type = "none" /\ ~u.bug
  BY <1>1, <1>2, Begins, Rests
<1>4. PICK c : c = IF ParentThere(<<target, "f">>) THEN target ELSE u.cwd
  OBVIOUS
<1>5. PICK t : t = [u EXCEPT !.cwd = c]
  OBVIOUS
<1>6. c \in Dirs
  BY <1>3, <1>4 DEF SessionType, Dirs
<1>7. /\ t \in SessionType /\ t.at = "idle" /\ t.ino = None /\ ~t.ok /\ t.no = sess[s].no + 1
      /\ t.log_type = "none" /\ ~t.bug
  BY <1>3, <1>5, <1>6 DEF SessionType
<1>8. Become(s, t) /\ UNCHANGED <<conf, disk, locks, logs>>
  BY <1>1, <1>4, <1>5 DEF HandleCwd, Plain
<1> QED
  BY <1>2, <1>7, <1>8, EndsAtRest

\* Every command.
LEMMA CommandsOpen ==
    ASSUME FInv, NEW s \in Sessions, Commands(s) \/ CreateUnique(s)
    PROVE  Opening(s)
<1>1. CASE \E a \in Args :
         \/ \E c \in {"STOR", "APPE", "STOU"} : HandleUpload(s, c, a)
         \/ HandleRetr(s, a) \/ HandleMkd(s, a) \/ HandleRmd(s, a) \/ HandleDele(s, a)
         \/ HandleRnfr(s, a) \/ HandleRnto(s, a) \/ HandleSize(s, a)
         \/ \E o \in BOOLEAN : HandleChmod(s, a, o)
  BY <1>1, HandleUploadOpens, HandleRetrOpens, HandleMkdOpens, HandleRmdOpens, HandleDeleOpens,
     HandleRnfrOpens, HandleRntoOpens, HandleSizeOpens, HandleChmodOpens
<1>2. CASE HandleRest(s, 1) \/ HandleRest(s, 3)
  BY <1>2, HandleRestOpens
<1>3. CASE \E t \in {"/", "d"} : HandleCwd(s, t)
  BY <1>3, HandleCwdOpens
<1>4. CASE CreateUnique(s)
  BY <1>4, CreateUniqueOpens
<1> QED
  BY <1>1, <1>2, <1>3, <1>4 DEF Commands

-----------------------------------------------------------------------------
(* What one turn of a transfer does to a file and to what was sent.         *)

LEMMA WriteAtIsFile ==
    ASSUME NEW d \in Seq(Chunk), NEW pos \in Nat, NEW c \in Chunk
    PROVE  /\ WriteAt(d, pos, c) \in Seq(Chunk)
           /\ Len(WriteAt(d, pos, c)) = IF pos + 1 > Len(d) THEN pos + 1 ELSE Len(d)
           /\ WriteAt(d, pos, c)[pos + 1] = c
           /\ \A j \in 1..Len(WriteAt(d, pos, c)) : j # pos + 1 =>
                WriteAt(d, pos, c)[j] = IF j <= Len(d) THEN d[j] ELSE Hole
<1>1. PICK n : n = IF pos + 1 > Len(d) THEN pos + 1 ELSE Len(d)
  OBVIOUS
<1>2. n \in Nat /\ n >= pos + 1 /\ n >= Len(d) /\ (n = pos + 1 \/ n = Len(d))
  BY <1>1
<1>3. PICK e : e = WriteAt(d, pos, c)
  OBVIOUS
<1>4. e = [j \in 1..n |-> IF j = pos + 1 THEN c ELSE IF j <= Len(d) THEN d[j] ELSE Hole]
  BY <1>1, <1>3 DEF WriteAt
<1>5. Hole \in Chunk
  BY DEF Hole, Chunk
<1>6. \A j \in 1..n : (IF j = pos + 1 THEN c ELSE IF j <= Len(d) THEN d[j] ELSE Hole) \in Chunk
  BY <1>5, ElementOfSeq
<1>7. e \in [1..n -> Chunk]
  BY <1>4, <1>6
<1>8. e \in Seq(Chunk) /\ Len(e) = n
  BY <1>2, <1>7
<1>9. /\ e[pos + 1] = c
      /\ \A j \in 1..n : j # pos + 1 => e[j] = IF j <= Len(d) THEN d[j] ELSE Hole
  BY <1>2, <1>4
<1> QED
  BY <1>1, <1>3, <1>8, <1>9

LEMMA Writes ==
    ASSUME NEW d \in Seq(Chunk), NEW base \in Seq(Chunk), NEW sent \in Seq(Chunk), NEW pos \in Nat,
           NEW c \in Chunk, Written(d, base, sent, pos)
    PROVE  /\ WriteAt(d, pos, c) \in Seq(Chunk)
           /\ Written(WriteAt(d, pos, c), base, Append(sent, c), pos + 1)
<1>1. PICK n : n = IF pos + 1 > Len(d) THEN pos + 1 ELSE Len(d)
  OBVIOUS
<1>2. n \in Nat /\ n >= pos + 1 /\ n >= Len(d) /\ (n = pos + 1 \/ n = Len(d))
  BY <1>1
<1>3. PICK e : e = WriteAt(d, pos, c)
  OBVIOUS
<1>8. e \in Seq(Chunk) /\ Len(e) = n
  BY <1>1, <1>3, WriteAtIsFile
<1>9. /\ e[pos + 1] = c
      /\ \A j \in 1..n : j # pos + 1 => e[j] = IF j <= Len(d) THEN d[j] ELSE Hole
  BY <1>3, <1>8, WriteAtIsFile
<1>10. PICK m : m = Append(sent, c)
  OBVIOUS
<1>11. /\ m \in Seq(Chunk) /\ Len(m) = Len(sent) + 1 /\ m[Len(sent) + 1] = c
       /\ \A j \in 1..Len(sent) : m[j] = sent[j]
  BY <1>10
<1>12. /\ Len(sent) <= pos /\ Len(sent) \in Nat /\ Len(d) \in Nat /\ Len(base) \in Nat
       /\ Len(base) <= Len(d)
       /\ Len(sent) # 0 => pos <= Len(d)
  BY DEF Written
<1> DEFINE k == pos - Len(sent)
<1>13. /\ \A j \in 1..Len(sent) : d[k + j] = sent[j]
       /\ \A j \in 1..Len(d) : j \notin (k + 1)..pos => d[j] = IF j <= Len(base) THEN base[j] ELSE Hole
  <2>1. CASE sent = << >>
    BY <2>1 DEF Written
  <2>2. CASE sent # << >>
    BY <2>2 DEF Written
  <2> QED
    BY <2>1, <2>2
<1>14. \A j \in 1..Len(m) : e[(pos + 1) - Len(m) + j] = m[j]
  <2> SUFFICES ASSUME NEW j \in 1..Len(m) PROVE e[(pos + 1) - Len(m) + j] = m[j]
    OBVIOUS
  <2>1. (pos + 1) - Len(m) + j = k + j
    BY <1>11, <1>12
  <2>2. CASE j = Len(sent) + 1
    BY <1>9, <1>11, <1>12, <2>1, <2>2
  <2>3. CASE j # Len(sent) + 1
    <3>1. j \in 1..Len(sent) /\ k + j \in 1..n /\ k + j # pos + 1 /\ k + j <= Len(d)
      BY <1>2, <1>11, <1>12, <2>3
    <3>2. e[k + j] = d[k + j]
      BY <1>9, <3>1
    <3> QED
      BY <1>11, <1>13, <2>1, <3>1, <3>2
  <2> QED
    BY <2>2, <2>3
<1>15. \A j \in 1..Len(e) : j \notin ((pos + 1) - Len(m) + 1)..(pos + 1) =>
         e[j] = IF j <= Len(base) THEN base[j] ELSE Hole
  <2> SUFFICES ASSUME NEW j \in 1..n, j \notin (k + 1)..(pos + 1)
               PROVE  e[j] = IF j <= Len(base) THEN base[j] ELSE Hole
    BY <1>8, <1>11, <1>12
  <2>1. j # pos + 1 /\ j \notin (k + 1)..pos
    BY <1>12
  <2>2. CASE j <= Len(d)
    BY <1>9, <1>12, <1>13, <2>1, <2>2
  <2>3. CASE ~(j <= Len(d))
    BY <1>9, <1>12, <2>1, <2>3
  <2> QED
    BY <2>2, <2>3
<1>16. Written(e, base, m, pos + 1)
  BY <1>2, <1>8, <1>11, <1>12, <1>14, <1>15 DEF Written
<1> QED
  BY <1>3, <1>8, <1>10, <1>16

LEMMA Reads ==
    ASSUME NEW d \in Seq(Chunk), NEW sent \in Seq(Chunk), NEW pos \in Nat, Read(d, sent, pos),
           pos < Len(d)
    PROVE  Append(sent, d[pos + 1]) \in Seq(Chunk) /\ Read(d, Append(sent, d[pos + 1]), pos + 1)
<1>1. PICK c : c = d[pos + 1]
  OBVIOUS
<1>2. c \in Chunk /\ Len(d) \in Nat /\ Len(sent) \in Nat /\ Len(sent) <= pos
  BY <1>1, ElementOfSeq DEF Read
<1>3. PICK m : m = Append(sent, c)
  OBVIOUS
<1>4. /\ m \in Seq(Chunk) /\ Len(m) = Len(sent) + 1 /\ m[Len(sent) + 1] = c
      /\ \A j \in 1..Len(sent) : m[j] = sent[j]
  BY <1>2, <1>3
<1>5. \A j \in 1..Len(m) : m[j] = d[(pos + 1) - Len(m) + j]
  <2> SUFFICES ASSUME NEW j \in 1..Len(m) PROVE m[j] = d[(pos + 1) - Len(m) + j]
    OBVIOUS
  <2>1. (pos + 1) - Len(m) + j = pos - Len(sent) + j
    BY <1>2, <1>4
  <2>2. CASE j = Len(sent) + 1
    <3>1. pos - Len(sent) + j = pos + 1
      BY <1>2, <2>2
    <3> QED
      BY <1>1, <1>4, <2>1, <2>2, <3>1
  <2>3. CASE j # Len(sent) + 1
    <3>1. j \in 1..Len(sent)
      BY <1>2, <1>4, <2>3
    <3> QED
      BY <1>4, <2>1, <3>1 DEF Read
  <2> QED
    BY <2>2, <2>3
<1>6. Read(d, m, pos + 1)
  BY <1>2, <1>4, <1>5 DEF Read
<1> QED
  BY <1>1, <1>3, <1>4, <1>6

-----------------------------------------------------------------------------
(* The steps of a transfer.                                                 *)

\* What is left to show of a step once the others are seen to.
LEMMA StepKeeps ==
    ASSUME FInv, NEW s \in Sessions, conf' = conf, OthersAlike(s), FilesStay(s), DiskTyped',
           SessTyped', Locked', Logs', InPlace(s)', Own(s)',
           conf.lock_upload_files => Upload(s)' /\ Download(s)'
    PROVE  FInv'
<1>1. \A t \in Sessions : InPlace(t)' /\ Own(t)'
  BY OthersUndisturbed
<1>2. Undisturbed'
  BY OthersUndisturbed DEF Undisturbed
<1> QED
  BY <1>1, <1>2 DEF FInv

\* A session that holds on to its file, or to nothing, while nothing is logged.
LEMMA HoldersKeep ==
    ASSUME FInv, NEW s \in Sessions, NEW q \in SessionType, Become(s, q), UNCHANGED <<conf, locks, logs>>,
           HoldsOn(q, sess[s]), Quiet(q, sess[s])
    PROVE  /\ SessTyped' /\ OthersAlike(s) /\ sess'[s] = q /\ Locked' /\ Logs' /\ conf' = conf
<1>1. SessTyped' /\ OthersAlike(s) /\ sess'[s] = q
  BY Becomes DEF FInv
<1>2. \A t \in Sessions \ {s} : Alike(sess'[t], sess[t])
  BY <1>1 DEF OthersAlike
<1>3. \A t \in Sessions : HoldsOn(sess'[t], sess[t])
  BY <1>1, <1>2 DEF HoldsOn, Alike
<1>4. \A t \in Sessions : Quiet(sess'[t], sess[t])
  BY <1>1, <1>2 DEF Quiet, Alike
<1> QED
  BY <1>1, <1>3, <1>4, LocksStay, LogsStay

LEMMA FilesStayOnDisk ==
    ASSUME FInv, NEW s, UNCHANGED disk
    PROVE  DiskTyped' /\ FilesStay(s)
  BY DEF FInv, DiskTyped, FilesStay, disk

LEMMA ConnectKeeps ==
    ASSUME FInv, NEW s \in Sessions, Connect(s)
    PROVE  FInv'
<1>1. PICK place \in {"move", "finish"} : Become(s, [sess[s] EXCEPT !.at = place])
  BY DEF Connect
<1>2. PICK q : q = [sess[s] EXCEPT !.at = place]
  OBVIOUS
<1>3. /\ sess[s] \in SessionType /\ sess[s].at = "connect" /\ InPlace(s) /\ Own(s)
      /\ UNCHANGED <<conf, disk, locks, logs>>
      /\ conf.lock_upload_files => Upload(s) /\ Download(s)
  BY DEF FInv, SessTyped, Undisturbed, Connect
<1>4. /\ q \in SessionType /\ q.at = place /\ q.cmd = sess[s].cmd /\ q.ino = sess[s].ino
      /\ q.pos = sess[s].pos /\ q.sent = sess[s].sent /\ q.base = sess[s].base
      /\ q.size = sess[s].size /\ q.ok = sess[s].ok /\ q.no = sess[s].no
      /\ q.log_type = sess[s].log_type /\ q.bug = sess[s].bug
  BY <1>2, <1>3 DEF SessionType, Places
<1>5. HoldsOn(q, sess[s]) /\ Quiet(q, sess[s])
  BY <1>3, <1>4 DEF HoldsOn, Quiet, Holding
<1>6. SessTyped' /\ OthersAlike(s) /\ sess'[s] = q /\ Locked' /\ Logs' /\ conf' = conf
  BY <1>1, <1>2, <1>3, <1>4, <1>5, HoldersKeep
<1>7. kind' = kind /\ data' = data /\ creator' = creator /\ DiskTyped' /\ FilesStay(s)
  BY <1>3, FilesStayOnDisk DEF disk
<1>8. InPlace(s)'
  BY <1>3, <1>4, <1>6, <1>7 DEF InPlace
<1>9. Own(s)'
  BY <1>3, <1>4, <1>6, <1>7 DEF Own, Mine
<1>10. conf.lock_upload_files => Upload(s)' /\ Download(s)'
  BY <1>3, <1>4, <1>6, <1>7 DEF Upload, Download, InPlace
<1> QED
  BY <1>6, <1>7, <1>8, <1>9, <1>10, StepKeeps

LEMMA TransferEndsKeeps ==
    ASSUME FInv, NEW s \in Sessions, TransferEnds(s)
    PROVE  FInv'
<1>1. /\ sess[s] \in SessionType /\ sess[s].at = "move" /\ InPlace(s) /\ Own(s)
      /\ UNCHANGED <<conf, disk, locks, logs>>
      /\ conf.lock_upload_files => Upload(s) /\ Download(s)
  BY DEF FInv, SessTyped, Undisturbed, TransferEnds
<1>2. PICK q : /\ Become(s, q)
               /\ \/ /\ sess[s].cmd = "RETR" => sess[s].pos >= Len(data[sess[s].ino])
                     /\ q = [sess[s] EXCEPT !.at = "log", !.ok = TRUE]
                  \/ q = [sess[s] EXCEPT !.at = "finish"]
  BY DEF TransferEnds, Logged
<1>3. /\ q \in SessionType /\ q.cmd = sess[s].cmd /\ q.ino = sess[s].ino
      /\ q.pos = sess[s].pos /\ q.sent = sess[s].sent /\ q.base = sess[s].base
      /\ q.size = sess[s].size /\ q.no = sess[s].no
      /\ q.log_type = sess[s].log_type /\ q.bug = sess[s].bug
      /\ \/ /\ q.at = "log" /\ q.ok /\ (sess[s].cmd = "RETR" => sess[s].pos >= Len(data[sess[s].ino]))
         \/ q.at = "finish" /\ q.ok = sess[s].ok
  <2>1. CASE q = [sess[s] EXCEPT !.at = "finish"]
    BY <1>1, <2>1 DEF SessionType, Places
  <2>2. CASE /\ sess[s].cmd = "RETR" => sess[s].pos >= Len(data[sess[s].ino])
             /\ q = [sess[s] EXCEPT !.at = "log", !.ok = TRUE]
    <3>1. q.at = "log" /\ q.ok
      BY <1>1, <2>2 DEF SessionType
    <3>2. /\ q \in SessionType /\ q.cmd = sess[s].cmd /\ q.ino = sess[s].ino
          /\ q.pos = sess[s].pos /\ q.sent = sess[s].sent /\ q.base = sess[s].base
          /\ q.size = sess[s].size /\ q.no = sess[s].no
          /\ q.log_type = sess[s].log_type /\ q.bug = sess[s].bug
      BY <1>1, <2>2 DEF SessionType, Places
    <3> QED
      BY <2>2, <3>1, <3>2
  <2> QED
    BY <1>2, <2>1, <2>2
<1>4. HoldsOn(q, sess[s]) /\ Quiet(q, sess[s])
  BY <1>1, <1>3 DEF HoldsOn, Quiet, Holding
<1>5. SessTyped' /\ OthersAlike(s) /\ sess'[s] = q /\ Locked' /\ Logs' /\ conf' = conf
  BY <1>1, <1>2, <1>3, <1>4, HoldersKeep
<1>6. kind' = kind /\ data' = data /\ creator' = creator /\ DiskTyped' /\ FilesStay(s)
  BY <1>1, FilesStayOnDisk DEF disk
<1>7. InPlace(s)'
  BY <1>1, <1>3, <1>5, <1>6 DEF InPlace
<1>8. Own(s)'
  BY <1>1, <1>3, <1>5, <1>6 DEF Own, Mine
<1>9. conf.lock_upload_files => Upload(s)' /\ Download(s)'
  BY <1>1, <1>3, <1>5, <1>6 DEF Upload, Download, InPlace
<1> QED
  BY <1>5, <1>6, <1>7, <1>8, <1>9, StepKeeps

LEMMA PositionUploadKeeps ==
    ASSUME FInv, NEW s \in Sessions, PositionUpload(s)
    PROVE  FInv'
<1>1. /\ sess[s] \in SessionType /\ sess[s].at = "ready" /\ sess[s].cmd # "RETR"
      /\ InPlace(s) /\ Own(s) /\ DiskTyped
      /\ UNCHANGED <<conf, dir, kind, readable, creator, locks, logs>>
  BY DEF FInv, SessTyped, PositionUpload
<1>2. PICK i : i = sess[s].ino
  OBVIOUS
<1>3. i \in Inodes /\ i # None
  BY <1>1, <1>2 DEF InPlace, SessionType
<1>4. PICK left : /\ left \in {<< >>, data[i]}
                  /\ data' = [data EXCEPT ![i] = left]
                  /\ Become(s, [sess[s] EXCEPT !.at = "connect", !.sent = << >>, !.base = left,
                                 !.pos = IF sess[s].cmd = "APPE" THEN Len(left) ELSE sess[s].restart_pos])
  BY <1>2 DEF PositionUpload
<1>5. left \in Seq(Chunk) /\ Len(left) \in Nat
  <2>1. data[i] \in Seq(Chunk) /\ << >> \in Seq(Chunk)
    BY <1>1, <1>3, EmptySeq DEF DiskTyped
  <2> QED
    BY <1>4, <2>1, LenProperties
<1>6. PICK p : p = IF sess[s].cmd = "APPE" THEN Len(left) ELSE sess[s].restart_pos
  OBVIOUS
<1>7. p \in Nat
  BY <1>1, <1>5, <1>6 DEF SessionType
<1>18. PICK nothing \in Seq(Chunk) : nothing = << >>
  BY EmptySeq
<1>8. PICK q : q = [sess[s] EXCEPT !.at = "connect", !.sent = nothing, !.base = left, !.pos = p]
  OBVIOUS
<1>9. /\ q \in SessionType /\ q.at = "connect" /\ q.cmd = sess[s].cmd /\ q.ino = i
      /\ q.pos = p /\ q.sent = nothing /\ q.base = left /\ q.ok = sess[s].ok /\ q.no = sess[s].no
      /\ q.log_type = sess[s].log_type /\ q.bug = sess[s].bug
  BY <1>1, <1>2, <1>5, <1>7, <1>8 DEF SessionType, Places
<1>10. HoldsOn(q, sess[s]) /\ Quiet(q, sess[s])
  BY <1>1, <1>2, <1>9 DEF HoldsOn, Quiet, Holding
<1>11. SessTyped' /\ OthersAlike(s) /\ sess'[s] = q /\ Locked' /\ Logs' /\ conf' = conf
  BY <1>1, <1>4, <1>6, <1>18, <1>8, <1>9, <1>10, HoldersKeep
<1>12. /\ kind' = kind /\ creator' = creator /\ data' \in [Inodes -> Seq(Chunk)]
       /\ data'[i] = left /\ \A j \in Inodes \ {i} : data'[j] = data[j]
  BY <1>1, <1>3, <1>4, <1>5 DEF DiskTyped
<1>13. DiskTyped'
  BY <1>1, <1>12 DEF DiskTyped
<1>14. FilesStay(s)
  BY <1>1, <1>2, <1>12 DEF FilesStay, Holding
<1>15. InPlace(s)'
  BY <1>1, <1>2, <1>9, <1>11, <1>12 DEF InPlace
<1>16. Own(s)'
  BY <1>1, <1>2, <1>9, <1>11, <1>12 DEF Own, Mine
<1>17. Upload(s)' /\ Download(s)'
  <2>1. Written(left, left, << >>, p)
    BY <1>7 DEF Written
  <2> QED
    BY <1>1, <1>18, <1>9, <1>11, <1>12, <2>1 DEF Upload, Download
<1> QED
  BY <1>11, <1>13, <1>14, <1>15, <1>16, <1>17, StepKeeps

LEMMA PositionDownloadKeeps ==
    ASSUME FInv, NEW s \in Sessions, PositionDownload(s)
    PROVE  FInv'
<1>1. /\ sess[s] \in SessionType /\ sess[s].at = "ready" /\ sess[s].cmd = "RETR"
      /\ InPlace(s) /\ Own(s) /\ DiskTyped /\ UNCHANGED <<conf, disk, locks, logs>>
  BY DEF FInv, SessTyped, PositionDownload
<1>2. PICK i : i = sess[s].ino
  OBVIOUS
<1>3. i \in Inodes /\ i # None /\ data[i] \in Seq(Chunk)
  BY <1>1, <1>2 DEF InPlace, SessionType, DiskTyped
<1>4. PICK q : /\ Become(s, q)
               /\ \/ q = [sess[s] EXCEPT !.at = "finish", !.log_type = "none"]
                  \/ q = [sess[s] EXCEPT !.at = "finish"]
                  \/ q = [sess[s] EXCEPT !.at = "connect", !.sent = << >>, !.pos = sess[s].restart_pos,
                                         !.size = Len(data[i])]
  BY <1>2 DEF PositionDownload
<1>5. /\ q \in SessionType /\ q.cmd = "RETR" /\ q.ino = i
      /\ q.ok = sess[s].ok /\ q.no = sess[s].no /\ q.bug = sess[s].bug
      /\ q.log_type # "none" => sess[s].log_type # "none"
      /\ \/ q.at = "finish"
         \/ /\ q.at = "connect" /\ q.sent = << >> /\ q.pos \in Nat /\ q.size = Len(data[i])
            /\ q.log_type = sess[s].log_type
  <2>1. CASE q = [sess[s] EXCEPT !.at = "finish", !.log_type = "none"]
    BY <1>1, <1>2, <2>1 DEF SessionType, Places, Words
  <2>2. CASE q = [sess[s] EXCEPT !.at = "finish"]
    BY <1>1, <1>2, <2>2 DEF SessionType, Places
  <2>3. CASE q = [sess[s] EXCEPT !.at = "connect", !.sent = << >>, !.pos = sess[s].restart_pos,
                                 !.size = Len(data[i])]
    <3>1. PICK n : n = Len(data[i])
      OBVIOUS
    <3>2. n \in Nat
      BY <1>3, <3>1
    <3>5. PICK nothing \in Seq(Chunk) : nothing = << >>
      BY EmptySeq
    <3>3. q = [sess[s] EXCEPT !.at = "connect", !.sent = nothing, !.pos = sess[s].restart_pos, !.size = n]
      BY <2>3, <3>1, <3>5
    <3>4. /\ q \in SessionType /\ q.cmd = "RETR" /\ q.ino = i
          /\ q.ok = sess[s].ok /\ q.no = sess[s].no /\ q.bug = sess[s].bug
          /\ q.log_type = sess[s].log_type
          /\ q.at = "connect" /\ q.sent = nothing /\ q.pos \in Nat /\ q.size = n
      BY <1>1, <1>2, <3>2, <3>3 DEF SessionType, Places
    <3> QED
      BY <3>1, <3>5, <3>4
  <2> QED
    BY <1>4, <2>1, <2>2, <2>3
<1>6. HoldsOn(q, sess[s]) /\ Quiet(q, sess[s])
  BY <1>1, <1>2, <1>5 DEF HoldsOn, Quiet, Holding
<1>7. SessTyped' /\ OthersAlike(s) /\ sess'[s] = q /\ Locked' /\ Logs' /\ conf' = conf
  BY <1>1, <1>4, <1>5, <1>6, HoldersKeep
<1>8. kind' = kind /\ data' = data /\ creator' = creator /\ DiskTyped' /\ FilesStay(s)
  BY <1>1, FilesStayOnDisk DEF disk
<1>9. InPlace(s)'
  BY <1>1, <1>2, <1>5, <1>7, <1>8 DEF InPlace
<1>10. Own(s)'
  BY <1>5, <1>7 DEF Own
<1>11. Upload(s)' /\ Download(s)'
  <2>1. ~q.ok
    BY <1>1, <1>5 DEF InPlace
  <2>2. CASE q.at = "finish"
    BY <1>5, <1>7, <2>1, <2>2 DEF Upload, Download
  <2>3. CASE q.at # "finish"
    <3>1. Read(data[i], q.sent, q.pos)
      BY <1>5, <2>3 DEF Read
    <3> QED
      BY <1>5, <1>7, <1>8, <2>3, <3>1 DEF Upload, Download
  <2> QED
    BY <2>2, <2>3
<1> QED
  BY <1>7, <1>8, <1>9, <1>10, <1>11, StepKeeps

LEMMA MoveUpKeeps ==
    ASSUME FInv, NEW s \in Sessions, MoveUp(s)
    PROVE  FInv'
<1>1. /\ sess[s] \in SessionType /\ sess[s].at = "move" /\ sess[s].cmd # "RETR"
      /\ InPlace(s) /\ Own(s) /\ DiskTyped
      /\ conf.lock_upload_files => Upload(s)
      /\ UNCHANGED <<conf, dir, kind, readable, creator, locks, logs>>
  BY DEF FInv, SessTyped, Undisturbed, MoveUp
<1>2. PICK i : i = sess[s].ino
  OBVIOUS
<1>3. PICK c : c = Mine(s)
  OBVIOUS
<1>4. PICK e : e = WriteAt(data[i], sess[s].pos, c)
  OBVIOUS
<1>5. PICK m : m = Append(sess[s].sent, c)
  OBVIOUS
<1>6. PICK p : p = sess[s].pos + 1
  OBVIOUS
<1>7. /\ i \in Inodes /\ i # None /\ c \in Chunk /\ p \in Nat /\ sess[s].pos \in Nat
      /\ sess[s].sent \in Seq(Chunk) /\ sess[s].base \in Seq(Chunk) /\ data[i] \in Seq(Chunk)
  <2>1. i \in Inodes /\ i # None /\ sess[s].pos \in Nat /\ sess[s].no \in Nat
        /\ sess[s].sent \in Seq(Chunk) /\ sess[s].base \in Seq(Chunk)
    BY <1>1, <1>2 DEF InPlace, SessionType
  <2>2. c \in Chunk
    BY <1>3, <2>1 DEF Mine, Chunk
  <2> QED
    BY <1>1, <1>6, <2>1, <2>2 DEF DiskTyped
<1>8. m \in Seq(Chunk)
  BY <1>5, <1>7
<1>9. e \in Seq(Chunk)
  BY <1>4, <1>7, WriteAtIsFile
<1>10. PICK q : q = [sess[s] EXCEPT !.pos = p, !.sent = m]
  OBVIOUS
<1>11. data' = [data EXCEPT ![i] = e] /\ Become(s, q)
  BY <1>2, <1>3, <1>4, <1>5, <1>6, <1>10 DEF MoveUp
<1>12. /\ q \in SessionType /\ q.at = "move" /\ q.cmd = sess[s].cmd /\ q.ino = i
       /\ q.pos = p /\ q.sent = m /\ q.base = sess[s].base /\ q.ok = sess[s].ok /\ q.no = sess[s].no
       /\ q.log_type = sess[s].log_type /\ q.bug = sess[s].bug
  BY <1>1, <1>2, <1>7, <1>8, <1>10 DEF SessionType
<1>13. HoldsOn(q, sess[s]) /\ Quiet(q, sess[s])
  BY <1>1, <1>2, <1>12 DEF HoldsOn, Quiet, Holding
<1>14. SessTyped' /\ OthersAlike(s) /\ sess'[s] = q /\ Locked' /\ Logs' /\ conf' = conf
  BY <1>1, <1>11, <1>12, <1>13, HoldersKeep
<1>15. /\ kind' = kind /\ creator' = creator /\ data' \in [Inodes -> Seq(Chunk)]
       /\ data'[i] = e /\ \A j \in Inodes \ {i} : data'[j] = data[j]
  BY <1>1, <1>7, <1>9, <1>11 DEF DiskTyped
<1>16. DiskTyped'
  BY <1>1, <1>15 DEF DiskTyped
<1>17. FilesStay(s)
  BY <1>1, <1>2, <1>15 DEF FilesStay, Holding
<1>18. InPlace(s)'
  BY <1>1, <1>2, <1>12, <1>14, <1>15 DEF InPlace
<1>19. Own(s)'
  BY <1>1, <1>2, <1>12, <1>14, <1>15 DEF Own, Mine
<1>20. ASSUME conf.lock_upload_files PROVE Upload(s)' /\ Download(s)'
  <2>1. Written(data[i], sess[s].base, sess[s].sent, sess[s].pos)
    BY <1>1, <1>2, <1>7, <1>20 DEF Upload
  <2>2. Written(e, sess[s].base, m, p)
    BY <1>4, <1>5, <1>6, <1>7, <2>1, Writes
  <2> QED
    BY <1>1, <1>12, <1>14, <1>15, <2>2 DEF Upload, Download
<1> QED
  BY <1>14, <1>16, <1>17, <1>18, <1>19, <1>20, StepKeeps

LEMMA MoveDownKeeps ==
    ASSUME FInv, NEW s \in Sessions, MoveDown(s)
    PROVE  FInv'
<1>1. /\ sess[s] \in SessionType /\ sess[s].at = "move" /\ sess[s].cmd = "RETR"
      /\ InPlace(s) /\ Own(s) /\ DiskTyped
      /\ conf.lock_upload_files => Download(s)
      /\ UNCHANGED <<conf, disk, locks, logs>>
  BY DEF FInv, SessTyped, Undisturbed, MoveDown
<1>2. PICK i : i = sess[s].ino
  OBVIOUS
<1>3. PICK c : c = data[i][sess[s].pos + 1]
  OBVIOUS
<1>4. PICK m : m = Append(sess[s].sent, c)
  OBVIOUS
<1>5. PICK p : p = sess[s].pos + 1
  OBVIOUS
<1>6. /\ i \in Inodes /\ i # None /\ p \in Nat /\ sess[s].pos \in Nat
      /\ sess[s].sent \in Seq(Chunk) /\ data[i] \in Seq(Chunk)
  BY <1>1, <1>2, <1>5 DEF InPlace, SessionType, DiskTyped
<1>7. sess[s].pos < Len(data[i])
  BY <1>2 DEF MoveDown
<1>8. m \in Seq(Chunk)
  BY <1>3, <1>4, <1>6, <1>7
<1>9. PICK q : q = [sess[s] EXCEPT !.pos = p, !.sent = m]
  OBVIOUS
<1>10. Become(s, q)
  BY <1>2, <1>3, <1>4, <1>5, <1>9 DEF MoveDown
<1>11. /\ q \in SessionType /\ q.at = "move" /\ q.cmd = "RETR" /\ q.ino = i /\ q.size = sess[s].size
       /\ q.pos = p /\ q.sent = m /\ q.ok = sess[s].ok /\ q.no = sess[s].no
       /\ q.log_type = sess[s].log_type /\ q.bug = sess[s].bug
  BY <1>1, <1>2, <1>6, <1>8, <1>9 DEF SessionType
<1>12. HoldsOn(q, sess[s]) /\ Quiet(q, sess[s])
  BY <1>1, <1>2, <1>11 DEF HoldsOn, Quiet, Holding
<1>13. SessTyped' /\ OthersAlike(s) /\ sess'[s] = q /\ Locked' /\ Logs' /\ conf' = conf
  BY <1>1, <1>10, <1>11, <1>12, HoldersKeep
<1>14. kind' = kind /\ data' = data /\ creator' = creator /\ DiskTyped' /\ FilesStay(s)
  BY <1>1, FilesStayOnDisk DEF disk
<1>15. InPlace(s)'
  BY <1>1, <1>2, <1>11, <1>13, <1>14 DEF InPlace
<1>16. Own(s)'
  BY <1>11, <1>13 DEF Own
<1>17. ASSUME conf.lock_upload_files PROVE Upload(s)' /\ Download(s)'
  <2>1. Read(data[i], sess[s].sent, sess[s].pos) /\ Len(data[i]) = sess[s].size
    BY <1>1, <1>2, <1>6, <1>17 DEF Download
  <2>2. Read(data[i], m, p)
    BY <1>3, <1>4, <1>5, <1>6, <1>7, <2>1, Reads
  <2> QED
    BY <1>11, <1>13, <1>14, <2>1, <2>2 DEF Upload, Download
<1> QED
  BY <1>13, <1>14, <1>15, <1>16, <1>17, StepKeeps

-----------------------------------------------------------------------------
(* The steps that change a lock.                                            *)

LEMMA LockFileKeeps ==
    ASSUME FInv, NEW s \in Sessions, LockFile(s)
    PROVE  FInv'
<1>1. /\ sess[s] \in SessionType /\ sess[s].at = "lock" /\ InPlace(s) /\ Own(s) /\ Locked
      /\ UNCHANGED <<conf, disk, logs>>
  BY DEF FInv, SessTyped, LockFile
<1>2. PICK i : i = sess[s].ino
  OBVIOUS
<1>3. i \in Inodes /\ i # None
  BY <1>1, <1>2 DEF InPlace, SessionType
<1>4. PICK q : q = [sess[s] EXCEPT !.at = "ready"]
  OBVIOUS
<1>5. /\ q \in SessionType /\ q.at = "ready" /\ q.cmd = sess[s].cmd /\ q.ino = i /\ q.ok = sess[s].ok
      /\ q.no = sess[s].no /\ q.log_type = sess[s].log_type /\ q.bug = sess[s].bug
  BY <1>1, <1>2, <1>4 DEF SessionType, Places
<1>6. SessTyped' /\ OthersAlike(s) /\ sess'[s] = q
  BY <1>4, <1>5, Becomes DEF LockFile, FInv
<1>7. \A t \in Sessions \ {s} : /\ sess'[t].at = sess[t].at /\ sess'[t].ino = sess[t].ino
                                /\ sess'[t].cmd = sess[t].cmd
  BY <1>6 DEF OthersAlike, Alike
<1>8. Logs'
  <2>1. \A t \in Sessions : Quiet(sess'[t], sess[t])
    BY <1>1, <1>5, <1>6 DEF OthersAlike, Alike, Quiet
  <2> QED
    BY <1>1, <2>1, LogsStay
<1>9. \A j \in Inodes : writer[j] # s /\ s \notin readers[j]
  BY <1>1 DEF Locked, Holding
<1>10. s # "none" /\ "ready" \in Holding
  BY SessionsAreNamed DEF Holding
<1>11. Locked'
  <2>1. CASE ~conf.lock_upload_files
    <3>1. writer' = writer /\ readers' = readers
      BY <1>2, <2>1 DEF LockFile, locks
    <3>2. ASSUME NEW j \in Inodes, NEW t \in Sessions
          PROVE  /\ writer'[j] = t => sess'[t].ino = j /\ sess'[t].at \in Holding /\ sess'[t].cmd # "RETR"
                 /\ t \in readers'[j] => sess'[t].ino = j /\ sess'[t].at \in Holding /\ sess'[t].cmd = "RETR"
      <4>1. CASE t = s
        BY <1>9, <3>1, <4>1
      <4>2. CASE t # s
        BY <1>1, <1>7, <3>1, <4>2 DEF Locked
      <4> QED
        BY <4>1, <4>2
    <3>3. (\A j \in Inodes, t \in Sessions :
           /\ writer[j] = t => sess[t].ino = j /\ sess[t].at \in Holding /\ sess[t].cmd # "RETR"
           /\ t \in readers[j] => sess[t].ino = j /\ sess[t].at \in Holding /\ sess[t].cmd = "RETR")'
      BY <3>2
    <3>4. (/\ writer = [j \in Inodes |-> writer[j]] /\ readers = [j \in Inodes |-> readers[j]]
           /\ \A j \in Inodes : writer[j] \in Sessions \cup {"none"} /\ readers[j] \subseteq Sessions
                                /\ (writer[j] # "none" => readers[j] = {}))'
      BY <1>1, <3>1, Zenon DEF Locked
    <3>5. (~conf.lock_upload_files)'
      BY <1>1, <2>1
    <3> QED
      BY <3>3, <3>4, <3>5, Zenon DEF Locked
  <2>2. CASE conf.lock_upload_files
    <3>1. /\ writer[i] = "none"
          /\ \/ /\ sess[s].cmd # "RETR" /\ readers[i] \subseteq {s}
                /\ writer' = [writer EXCEPT ![i] = s] /\ readers' = readers
             \/ /\ sess[s].cmd = "RETR" /\ writer' = writer
                /\ readers' = [readers EXCEPT ![i] = @ \cup {s}]
      BY <1>2, <2>2 DEF LockFile
    <3>2. /\ writer = [j \in Inodes |-> writer[j]] /\ readers = [j \in Inodes |-> readers[j]]
          /\ \A j \in Inodes : writer[j] \in Sessions \cup {"none"} /\ readers[j] \subseteq Sessions
                               /\ (writer[j] # "none" => readers[j] = {})
      BY <1>1, Zenon DEF Locked
    <3>3. /\ writer' = [j \in Inodes |-> writer'[j]] /\ readers' = [j \in Inodes |-> readers'[j]]
          /\ \A j \in Inodes \ {i} : writer'[j] = writer[j] /\ readers'[j] = readers[j]
          /\ \/ sess[s].cmd # "RETR" /\ writer'[i] = s /\ readers'[i] = readers[i]
             \/ sess[s].cmd = "RETR" /\ writer'[i] = "none" /\ readers'[i] = readers[i] \cup {s}
      BY <1>3, <3>1, <3>2
    <3>4. \A j \in Inodes : /\ writer'[j] \in Sessions \cup {"none"} /\ readers'[j] \subseteq Sessions
                            /\ writer'[j] # "none" => readers'[j] = {}
      <4> SUFFICES ASSUME NEW j \in Inodes
                   PROVE  /\ writer'[j] \in Sessions \cup {"none"} /\ readers'[j] \subseteq Sessions
                          /\ writer'[j] # "none" => readers'[j] = {}
        OBVIOUS
      <4>1. CASE j # i
        BY <3>2, <3>3, <4>1
      <4>2. CASE j = i
        <5>1. sess[s].cmd # "RETR" => readers[i] = {}
          BY <1>3, <1>9, <3>1
        <5> QED
          BY <3>2, <3>3, <4>2, <5>1
      <4> QED
        BY <4>1, <4>2
    <3>5. ASSUME NEW j \in Inodes, NEW t \in Sessions
          PROVE  /\ writer'[j] = t => sess'[t].ino = j /\ sess'[t].at \in Holding /\ sess'[t].cmd # "RETR"
                 /\ t \in readers'[j] => sess'[t].ino = j /\ sess'[t].at \in Holding /\ sess'[t].cmd = "RETR"
      <4>1. CASE t = s
        BY <1>5, <1>6, <1>9, <1>10, <3>3, <4>1
      <4>2. CASE t # s
        <5>1. (writer'[j] = t => writer[j] = t) /\ (t \in readers'[j] => t \in readers[j])
          BY <3>3, <4>2, SessionsAreNamed
        <5> QED
          BY <1>1, <1>7, <4>2, <5>1 DEF Locked
      <4> QED
        BY <4>1, <4>2
    <3>6. ASSUME NEW t \in Sessions, sess'[t].at \in Holding, sess'[t].ino # None
          PROVE  /\ sess'[t].cmd = "RETR" => t \in readers'[sess'[t].ino]
                 /\ sess'[t].cmd # "RETR" => writer'[sess'[t].ino] = t
      <4>1. CASE t = s
        BY <1>5, <1>6, <3>3, <4>1
      <4>2. CASE t # s
        <5>1. PICK j : j = sess[t].ino
          OBVIOUS
        <5>2. /\ j \in Inodes /\ sess'[t].ino = j /\ sess'[t].cmd = sess[t].cmd
              /\ sess[t].cmd = "RETR" => t \in readers[j]
              /\ sess[t].cmd # "RETR" => writer[j] = t
          BY <1>1, <1>7, <2>2, <3>6, <4>2, <5>1 DEF Locked, FInv, SessTyped, SessionType
        <5>3. CASE j # i
          BY <3>3, <5>2, <5>3
        <5>4. CASE j = i
          <6>1. sess[t].cmd = "RETR" /\ t \in readers[i]
            BY <3>1, <5>2, <5>4, SessionsAreNamed
          <6>2. readers'[i] = readers[i] \/ readers'[i] = readers[i] \cup {s}
            BY <3>3
          <6> QED
            BY <5>2, <5>4, <6>1, <6>2
        <5> QED
          BY <5>3, <5>4
      <4> QED
        BY <4>1, <4>2
    <3>7. (\A j \in Inodes, t \in Sessions :
           /\ writer[j] = t => sess[t].ino = j /\ sess[t].at \in Holding /\ sess[t].cmd # "RETR"
           /\ t \in readers[j] => sess[t].ino = j /\ sess[t].at \in Holding /\ sess[t].cmd = "RETR")'
      BY <3>5
    <3>8. (/\ writer = [j \in Inodes |-> writer[j]] /\ readers = [j \in Inodes |-> readers[j]]
           /\ \A j \in Inodes : writer[j] \in Sessions \cup {"none"} /\ readers[j] \subseteq Sessions
                                /\ (writer[j] # "none" => readers[j] = {}))'
      BY <3>3, <3>4, Zenon
    <3>9. (\A t \in Sessions : sess[t].at \in Holding /\ sess[t].ino # None =>
             /\ sess[t].cmd = "RETR" => t \in readers[sess[t].ino]
             /\ sess[t].cmd # "RETR" => writer[sess[t].ino] = t)'
      BY <3>6
    <3> QED
      BY <3>7, <3>8, <3>9, Zenon DEF Locked
  <2> QED
    BY <2>1, <2>2
<1>12. kind' = kind /\ data' = data /\ creator' = creator /\ DiskTyped' /\ FilesStay(s) /\ conf' = conf
  BY <1>1, FilesStayOnDisk DEF disk
<1>13. InPlace(s)'
  BY <1>1, <1>2, <1>5, <1>6, <1>12 DEF InPlace
<1>14. Own(s)'
  BY <1>1, <1>2, <1>5, <1>6, <1>12 DEF Own, Mine
<1>15. Upload(s)' /\ Download(s)'
  BY <1>5, <1>6 DEF Upload, Download
<1> QED
  BY <1>6, <1>8, <1>11, <1>12, <1>13, <1>14, <1>15, StepKeeps

\* Closing a file gives its locks back and nobody else's.
LEMMA UnlockKeeps ==
    ASSUME FInv, NEW s \in Sessions, Unlock(s), conf' = conf, OthersAlike(s), sess'[s].ino = None
    PROVE  Locked'
<1>1. /\ Locked /\ writer' = [j \in Inodes |-> IF writer[j] = s THEN "none" ELSE writer[j]]
      /\ readers' = [j \in Inodes |-> readers[j] \ {s}]
  BY DEF FInv, Unlock
<1>2. \A t \in Sessions \ {s} : /\ sess'[t].at = sess[t].at /\ sess'[t].ino = sess[t].ino
                                /\ sess'[t].cmd = sess[t].cmd
  BY DEF OthersAlike, Alike
<1>3. \A j \in Inodes : /\ writer'[j] = IF writer[j] = s THEN "none" ELSE writer[j]
                        /\ readers'[j] = readers[j] \ {s}
  BY <1>1
<1>4. ASSUME NEW j \in Inodes, NEW t \in Sessions
      PROVE  /\ writer'[j] = t => sess'[t].ino = j /\ sess'[t].at \in Holding /\ sess'[t].cmd # "RETR"
             /\ t \in readers'[j] => sess'[t].ino = j /\ sess'[t].at \in Holding /\ sess'[t].cmd = "RETR"
  <2>1. /\ writer'[j] = t => writer[j] = t /\ t # s
        /\ t \in readers'[j] => t \in readers[j] /\ t # s
    BY <1>3, SessionsAreNamed
  <2> QED
    BY <1>1, <1>2, <2>1 DEF Locked
<1>5. ASSUME conf.lock_upload_files, NEW t \in Sessions, sess'[t].at \in Holding, sess'[t].ino # None
      PROVE  /\ sess'[t].cmd = "RETR" => t \in readers'[sess'[t].ino]
             /\ sess'[t].cmd # "RETR" => writer'[sess'[t].ino] = t
  <2>1. PICK j : j = sess[t].ino
    OBVIOUS
  <2>2. t # s
    BY <1>5
  <2>3. /\ j \in Inodes /\ sess'[t].ino = j /\ sess'[t].cmd = sess[t].cmd
        /\ sess[t].cmd = "RETR" => t \in readers[j]
        /\ sess[t].cmd # "RETR" => writer[j] = t
    BY <1>1, <1>2, <1>5, <2>1, <2>2 DEF Locked, FInv, SessTyped, SessionType
  <2> QED
    BY <1>3, <2>2, <2>3
<1>6. (\A j \in Inodes, t \in Sessions :
       /\ writer[j] = t => sess[t].ino = j /\ sess[t].at \in Holding /\ sess[t].cmd # "RETR"
       /\ t \in readers[j] => sess[t].ino = j /\ sess[t].at \in Holding /\ sess[t].cmd = "RETR")'
  BY <1>4
<1>7. /\ writer' = [j \in Inodes |-> writer'[j]] /\ readers' = [j \in Inodes |-> readers'[j]]
      /\ \A j \in Inodes : writer'[j] \in Sessions \cup {"none"} /\ readers'[j] \subseteq Sessions
                           /\ (writer'[j] # "none" => readers'[j] = {})
  <2>1. writer' = [j \in Inodes |-> writer'[j]] /\ readers' = [j \in Inodes |-> readers'[j]]
    BY <1>1
  <2>2. ASSUME NEW j \in Inodes
        PROVE  writer'[j] \in Sessions \cup {"none"} /\ readers'[j] \subseteq Sessions
               /\ (writer'[j] # "none" => readers'[j] = {})
    <3>1. writer[j] \in Sessions \cup {"none"} /\ readers[j] \subseteq Sessions
          /\ (writer[j] # "none" => readers[j] = {})
      BY <1>1, Zenon DEF Locked
    <3> QED
      BY <1>3, <3>1
  <2> QED
    BY <2>1, <2>2
<1>8. (/\ writer = [j \in Inodes |-> writer[j]] /\ readers = [j \in Inodes |-> readers[j]]
       /\ \A j \in Inodes : writer[j] \in Sessions \cup {"none"} /\ readers[j] \subseteq Sessions
                            /\ (writer[j] # "none" => readers[j] = {}))'
  BY <1>7, Zenon
<1>9. (conf.lock_upload_files => \A t \in Sessions : sess[t].at \in Holding /\ sess[t].ino # None =>
         /\ sess[t].cmd = "RETR" => t \in readers[sess[t].ino]
         /\ sess[t].cmd # "RETR" => writer[sess[t].ino] = t)'
  BY <1>5
<1> QED
  BY <1>6, <1>8, <1>9, Zenon DEF Locked

LEMMA FinishKeeps ==
    ASSUME FInv, NEW s \in Sessions, Finish(s)
    PROVE  FInv'
<1>1. /\ sess[s] \in SessionType /\ sess[s].at = "finish" /\ InPlace(s)
      /\ UNCHANGED <<conf, data, kind, readable, creator, logs>> /\ Unlock(s)
  BY DEF FInv, SessTyped, Finish
<1>2. PICK r : r = [sess[s] EXCEPT !.restart_pos = 0]
  OBVIOUS
<1>3. /\ r \in SessionType /\ r.no = sess[s].no /\ r.log_type = sess[s].log_type
      /\ r.bug = sess[s].bug
  BY <1>1, <1>2 DEF SessionType
<1>4. Over(s, r)
  BY <1>2 DEF Finish
<1>5. /\ SessTyped' /\ OthersAlike(s)
      /\ sess'[s].at = IF r.log_type = "none" THEN "idle" ELSE "log"
      /\ sess'[s].ino = None /\ ~sess'[s].ok /\ sess'[s].no = r.no
      /\ sess'[s].log_type = r.log_type /\ sess'[s].bug = r.bug
  BY <1>3, <1>4, Overs DEF FInv
<1>6. DiskTyped'
  <2>1. CASE dir' = dir
    BY <1>1, <2>1, TreeStays DEF FInv, DiskTyped
  <2>2. CASE dir' = [dir EXCEPT ![sess[s].path] = None]
    <3>1. sess[s].path \in Paths
      BY <1>1 DEF SessionType
    <3> QED
      BY <1>1, <2>2, <3>1, NamesGo
  <2> QED
    BY <2>1, <2>2 DEF Finish
<1>7. FilesStay(s) /\ conf' = conf
  BY <1>1 DEF FilesStay
<1>8. Locked'
  BY <1>1, <1>5, UnlockKeeps
<1>9. Logs'
  <2>1. \A t \in Sessions : Quiet(sess'[t], sess[t])
    BY <1>1, <1>3, <1>5 DEF OthersAlike, Alike, Quiet
  <2> QED
    BY <1>1, <2>1, LogsStay
<1>10. InPlace(s)' /\ Own(s)' /\ Upload(s)' /\ Download(s)'
  BY <1>1, <1>3, <1>5 DEF InPlace, Own, Upload, Download
<1> QED
  BY <1>5, <1>6, <1>7, <1>8, <1>9, <1>10, StepKeeps

LEMMA DiesKeeps ==
    ASSUME FInv, NEW s \in Sessions, Dies(s)
    PROVE  FInv'
<1>1. /\ sess[s] \in SessionType /\ sess[s].at \in {"lock", "connect", "move"}
      /\ UNCHANGED <<conf, disk, logs>> /\ Unlock(s)
  BY DEF FInv, SessTyped, Dies
<1>2. PICK n : n = sess[s].no
  OBVIOUS
<1>3. PICK q : q = [NewSession EXCEPT !.at = "gone", !.no = n]
  OBVIOUS
<1>4. /\ q \in SessionType /\ q.at = "gone" /\ q.ino = None /\ ~q.ok /\ q.log_type = "none" /\ ~q.bug
      /\ q.no = n
  <2>1. n \in Nat
    BY <1>1, <1>2 DEF SessionType
  <2>2. q \in SessionType
    BY <1>3, <2>1, FirstSession DEF SessionType, Places
  <2> QED
    BY <1>3, <2>2 DEF NewSession
<1>5. SessTyped' /\ OthersAlike(s) /\ sess'[s] = q
  BY <1>2, <1>3, <1>4, Becomes DEF Dies, FInv
<1>6. DiskTyped' /\ FilesStay(s) /\ conf' = conf
  BY <1>1, FilesStayOnDisk
<1>7. Locked'
  BY <1>1, <1>4, <1>5, <1>6, UnlockKeeps
<1>8. Logs'
  <2>1. \A t \in Sessions : Quiet(sess'[t], sess[t])
    BY <1>1, <1>2, <1>4, <1>5 DEF OthersAlike, Alike, Quiet
  <2> QED
    BY <1>1, <2>1, LogsStay
<1>9. InPlace(s)' /\ Own(s)' /\ Upload(s)' /\ Download(s)'
  BY <1>4, <1>5 DEF InPlace, Own, Upload, Download
<1> QED
  BY <1>5, <1>6, <1>7, <1>8, <1>9, StepKeeps

-----------------------------------------------------------------------------
(* The log.                                                                 *)

\* A half that is appended counts for the command it is about.
LEMMA LinesGrow ==
    ASSUME log \in Seq(Chunk), NEW x \in Chunk, log' = Append(log, x), NEW t, NEW n
    PROVE  /\ Lines(t, n) \in Nat
           /\ x = [by |-> t, no |-> n] => Lines(t, n)' = Lines(t, n) + 1
           /\ x # [by |-> t, no |-> n] => Lines(t, n)' = Lines(t, n)
<1> DEFINE l == [by |-> t, no |-> n]
           k == Len(log)
<1>1. /\ k \in Nat /\ DOMAIN log = 1..k /\ DOMAIN log' = 1..(k + 1) /\ log'[k + 1] = x
      /\ \A j \in 1..k : log'[j] = log[j]
  OBVIOUS
<1>2. IsFiniteSet(Halves(t, n)) /\ k + 1 \notin Halves(t, n)
  <2>1. IsFiniteSet(1..k)
    BY <1>1, FS_Interval
  <2>2. Halves(t, n) \subseteq 1..k
    BY <1>1 DEF Halves
  <2> QED
    BY <1>1, <2>1, <2>2, FS_Subset
<1>3. CASE x = l
  <2>1. Halves(t, n)' = Halves(t, n) \cup {k + 1}
    BY <1>1, <1>3 DEF Halves
  <2>2. Cardinality(Halves(t, n) \cup {k + 1}) = Cardinality(Halves(t, n)) + 1
    BY <1>2, FS_AddElement
  <2> QED
    BY <1>2, <1>3, <2>1, <2>2, FS_CardinalityType DEF Lines
<1>4. CASE x # l
  <2>1. Halves(t, n)' = Halves(t, n)
    BY <1>1, <1>4 DEF Halves
  <2> QED
    BY <1>2, <1>4, <2>1, FS_CardinalityType DEF Lines
<1> QED
  BY <1>3, <1>4

LEMMA Halving ==
    ASSUME NEW n \in Nat
    PROVE  /\ n % 2 = 0 => (n + 1) % 2 = 1 /\ (n + 1) \div 2 = n \div 2
           /\ n % 2 = 1 => (n + 1) % 2 = 0 /\ (n + 1) \div 2 = n \div 2 + 1 /\ 2 * (n \div 2) + 1 = n
           /\ n \div 2 \in Nat /\ 2 * (n \div 2) <= n
  OBVIOUS

\* The count of the lines of the other sessions, and of the other commands.
LEMMA TalliesStay ==
    ASSUME FInv, NEW s \in Sessions, OthersAlike(s), log' = Append(log, Mine(s)),
           sess'[s].no = sess[s].no, NEW t \in Sessions, NEW n \in Nat, t # s \/ n # sess[s].no
    PROVE  Tally(sess'[t], n, Lines(t, n)')
<1>1. /\ Tally(sess[t], n, Lines(t, n)) /\ sess[t].no \in Nat /\ log \in Seq(Chunk) /\ Mine(s) \in Chunk
  BY DEF FInv, Logs, SessTyped, SessionType, Mine, Chunk
<1>2. Lines(t, n)' = Lines(t, n)
  BY <1>1, LinesGrow DEF Mine
<1>3. CASE t # s
  <2>1. Quiet(sess'[t], sess[t])
    BY <1>3 DEF OthersAlike, Alike, Quiet
  <2> QED
    BY <1>1, <1>2, <2>1, TallyStays
<1>4. CASE t = s
  BY <1>1, <1>2, <1>4 DEF Tally
<1> QED
  BY <1>3, <1>4

LEMMA LogBeginKeeps ==
    ASSUME FInv, NEW s \in Sessions, LogBegin(s)
    PROVE  FInv'
<1>1. /\ sess[s] \in SessionType /\ sess[s].at = "log" /\ InPlace(s) /\ Own(s) /\ Logs
      /\ UNCHANGED <<conf, disk, locks>> /\ log' = Append(log, Mine(s))
      /\ conf.lock_upload_files => Upload(s) /\ Download(s)
      /\ conf.no_log_lock \/ (logLock = "none" /\ logLock' = s)
  BY DEF FInv, SessTyped, Undisturbed, LogBegin, LogLine
<1>2. PICK q : q = [sess[s] EXCEPT !.at = "logging"]
  OBVIOUS
<1>3. /\ q \in SessionType /\ q.at = "logging" /\ q.cmd = sess[s].cmd /\ q.ino = sess[s].ino
      /\ q.pos = sess[s].pos /\ q.sent = sess[s].sent /\ q.base = sess[s].base
      /\ q.size = sess[s].size /\ q.ok = sess[s].ok /\ q.no = sess[s].no
      /\ q.log_type = sess[s].log_type /\ q.bug = sess[s].bug
  BY <1>1, <1>2 DEF SessionType, Places
<1>4. SessTyped' /\ OthersAlike(s) /\ sess'[s] = q
  BY <1>2, <1>3, Becomes DEF LogBegin, FInv
<1>5. Locked'
  <2>1. \A t \in Sessions : HoldsOn(sess'[t], sess[t])
    BY <1>1, <1>3, <1>4 DEF OthersAlike, Alike, HoldsOn, Holding
  <2> QED
    BY <1>1, <2>1, LocksStay
<1>6. kind' = kind /\ data' = data /\ creator' = creator /\ DiskTyped' /\ FilesStay(s) /\ conf' = conf
  BY <1>1, FilesStayOnDisk DEF disk
<1>7. Logs'
  <2>1. log \in Seq(Chunk) /\ Mine(s) \in Chunk /\ sess[s].no \in Nat /\ sess[s].log_type # "none"
    BY <1>1 DEF Logs, SessionType, Mine, Chunk, InPlace
  <2>2. ASSUME NEW t \in Sessions, NEW n \in Nat PROVE Tally(sess'[t], n, Lines(t, n)')
    <3>1. CASE t = s /\ n = sess[s].no
      <4>1. Lines(s, n) = 0
        BY <1>1, <2>1, <3>1 DEF Logs, Tally
      <4>2. Lines(s, n)' = Lines(s, n) + 1
        BY <1>1, <2>1, <3>1, LinesGrow DEF Mine
      <4>3. PICK k : k = Lines(s, n)'
        OBVIOUS
      <4>4. k = 1
        BY <4>1, <4>2, <4>3
      <4>5. Tally(q, n, k)
        BY <1>3, <3>1, <4>4, <2>1 DEF Tally
      <4> QED
        BY <1>4, <3>1, <4>3, <4>5
    <3>2. CASE ~(t = s /\ n = sess[s].no)
      BY <1>1, <1>3, <1>4, <3>2, TalliesStay
    <3> QED
      BY <3>1, <3>2
  <2>3. PICK k : k = Len(log)
    OBVIOUS
  <2>4. /\ k \in Nat /\ Len(log') = k + 1 /\ log' \in Seq(Chunk) /\ log'[k + 1] = Mine(s)
        /\ \A j \in 1..k : log'[j] = log[j]
    BY <1>1, <2>1, <2>3
  <2>5. Mine(s)' = Mine(s)
    BY <1>3, <1>4 DEF Mine
  <2>6. ASSUME ~conf.no_log_lock
        PROVE  /\ logLock' = s /\ k % 2 = 0
               /\ \A t \in Sessions : logLock' = t <=> sess'[t].at = "logging"
               /\ Len(log') % 2 = 1 /\ log'[Len(log')] = Mine(s)
               /\ \A j \in 1..(Len(log') \div 2) : log'[2 * j - 1] = log'[2 * j]
    <3>1. logLock = "none" /\ logLock' = s
      BY <1>1, <2>6
    <3>2. /\ k % 2 = 0 /\ \A t \in Sessions : logLock = t <=> sess[t].at = "logging"
          /\ \A j \in 1..(k \div 2) : log[2 * j - 1] = log[2 * j]
      BY <1>1, <2>3, <2>6, <3>1 DEF Logs
    <3>3. \A t \in Sessions : logLock' = t <=> sess'[t].at = "logging"
      BY <1>3, <1>4, <3>1, <3>2, SessionsAreNamed DEF OthersAlike, Alike
    <3>4. Len(log') % 2 = 1 /\ log'[Len(log')] = Mine(s) /\ Len(log') \div 2 = k \div 2
      BY <2>4, <3>2, Halving
    <3>5. ASSUME NEW j \in 1..(k \div 2) PROVE log'[2 * j - 1] = log'[2 * j]
      <4>1. 2 * j - 1 \in 1..k /\ 2 * j \in 1..k
        BY <2>4, Halving
      <4> QED
        BY <2>4, <3>2, <4>1
    <3> QED
      BY <3>1, <3>2, <3>3, <3>4, <3>5
  <2>7. s # "none"
    BY SessionsAreNamed
  <2>8. (\A t \in Sessions : \A n \in Nat : Tally(sess[t], n, Lines(t, n)))'
    BY <2>2
  <2>9. (~conf.no_log_lock =>
         /\ logLock \in Sessions \cup {"none"}
         /\ \A t \in Sessions : logLock = t <=> sess[t].at = "logging"
         /\ logLock = "none" => Len(log) % 2 = 0
         /\ logLock # "none" => Len(log) % 2 = 1 /\ log[Len(log)] = Mine(logLock)
         /\ \A j \in 1..(Len(log) \div 2) : log[2 * j - 1] = log[2 * j])'
    BY <1>6, <2>5, <2>6, <2>7
  <2> QED
    BY <2>4, <2>8, <2>9 DEF Logs
<1>8. InPlace(s)'
  BY <1>1, <1>3, <1>4, <1>6 DEF InPlace
<1>9. Own(s)'
  BY <1>1, <1>3, <1>4, <1>6 DEF Own, Mine
<1>10. conf.lock_upload_files => Upload(s)' /\ Download(s)'
  BY <1>1, <1>3, <1>4, <1>6 DEF Upload, Download
<1> QED
  BY <1>4, <1>5, <1>6, <1>7, <1>8, <1>9, <1>10, StepKeeps

LEMMA LogEndKeeps ==
    ASSUME FInv, NEW s \in Sessions, LogEnd(s)
    PROVE  FInv'
<1>1. /\ sess[s] \in SessionType /\ sess[s].at = "logging" /\ InPlace(s) /\ Own(s) /\ Logs
      /\ UNCHANGED <<conf, disk, locks>> /\ log' = Append(log, Mine(s))
      /\ conf.lock_upload_files => Upload(s) /\ Download(s)
      /\ logLock' = IF logLock = s THEN "none" ELSE logLock
  BY DEF FInv, SessTyped, Undisturbed, LogEnd, LogLine
<1>2. PICK r : r = [sess[s] EXCEPT !.log_type = "none"]
  OBVIOUS
<1>3. /\ r \in SessionType /\ r.cmd = sess[s].cmd /\ r.ino = sess[s].ino
      /\ r.pos = sess[s].pos /\ r.sent = sess[s].sent /\ r.base = sess[s].base
      /\ r.size = sess[s].size /\ r.ok = sess[s].ok /\ r.no = sess[s].no
      /\ r.log_type = "none" /\ r.bug = sess[s].bug
  BY <1>1, <1>2 DEF SessionType, Words
<1>4. PICK q : q = IF r.ino = None THEN Rest(r) ELSE [r EXCEPT !.at = "finish"]
  OBVIOUS
<1>5. /\ q \in SessionType /\ q.no = sess[s].no /\ q.log_type = "none" /\ q.bug = sess[s].bug
      /\ \/ q.at = "idle" /\ q.ino = None /\ sess[s].ino = None /\ ~q.ok
         \/ /\ q.at = "finish" /\ sess[s].ino # None /\ q.cmd = sess[s].cmd /\ q.ino = sess[s].ino
            /\ q.pos = sess[s].pos /\ q.sent = sess[s].sent /\ q.base = sess[s].base
            /\ q.size = sess[s].size /\ q.ok = sess[s].ok
  <2>1. CASE r.ino = None
    BY <1>3, <1>4, <2>1, Rests
  <2>2. CASE r.ino # None
    <3>1. q = [r EXCEPT !.at = "finish"]
      BY <1>4, <2>2
    <3>2. q \in SessionType
      BY <1>3, <3>1 DEF SessionType, Places
    <3> QED
      BY <1>3, <2>2, <3>1, <3>2 DEF SessionType
  <2> QED
    BY <2>1, <2>2
<1>6. Become(s, q)
  BY <1>2, <1>4 DEF LogEnd
<1>7. SessTyped' /\ OthersAlike(s) /\ sess'[s] = q
  BY <1>5, <1>6, Becomes DEF FInv
<1>8. Locked'
  <2>1. HoldsOn(q, sess[s])
    BY <1>1, <1>5 DEF HoldsOn, Holding
  <2>2. \A t \in Sessions : HoldsOn(sess'[t], sess[t])
    BY <1>7, <2>1 DEF OthersAlike, Alike, HoldsOn
  <2> QED
    BY <1>1, <2>2, LocksStay
<1>9. kind' = kind /\ data' = data /\ creator' = creator /\ DiskTyped' /\ FilesStay(s) /\ conf' = conf
  BY <1>1, FilesStayOnDisk DEF disk
<1>10. Logs'
  <2>1. log \in Seq(Chunk) /\ Mine(s) \in Chunk /\ sess[s].no \in Nat
    BY <1>1 DEF Logs, SessionType, Mine, Chunk
  <2>2. ASSUME NEW t \in Sessions, NEW n \in Nat PROVE Tally(sess'[t], n, Lines(t, n)')
    <3>1. CASE t = s /\ n = sess[s].no
      <4>1. Lines(s, n) = 1
        BY <1>1, <2>1, <3>1 DEF Logs, Tally
      <4>2. Lines(s, n)' = Lines(s, n) + 1
        BY <1>1, <2>1, <3>1, LinesGrow DEF Mine
      <4>3. PICK k : k = Lines(s, n)'
        OBVIOUS
      <4>4. k = 2
        BY <4>1, <4>2, <4>3
      <4>5. Tally(q, n, k)
        BY <1>5, <3>1, <4>4, <2>1 DEF Tally
      <4> QED
        BY <1>7, <3>1, <4>3, <4>5
    <3>2. CASE ~(t = s /\ n = sess[s].no)
      BY <1>1, <1>5, <1>7, <3>2, TalliesStay
    <3> QED
      BY <3>1, <3>2
  <2>3. PICK k : k = Len(log)
    OBVIOUS
  <2>4. /\ k \in Nat /\ Len(log') = k + 1 /\ log' \in Seq(Chunk) /\ log'[k + 1] = Mine(s)
        /\ \A j \in 1..k : log'[j] = log[j]
    BY <1>1, <2>1, <2>3
  <2>5. ASSUME ~conf.no_log_lock
        PROVE  /\ logLock' = "none"
               /\ \A t \in Sessions : logLock' = t <=> sess'[t].at = "logging"
               /\ Len(log') % 2 = 0
               /\ \A j \in 1..(Len(log') \div 2) : log'[2 * j - 1] = log'[2 * j]
    <3>1. logLock = s /\ logLock' = "none" /\ s # "none"
      BY <1>1, <2>5, SessionsAreNamed DEF Logs
    <3>2. /\ k % 2 = 1 /\ log[k] = Mine(s)
          /\ \A t \in Sessions : logLock = t <=> sess[t].at = "logging"
          /\ \A j \in 1..(k \div 2) : log[2 * j - 1] = log[2 * j]
      BY <1>1, <2>3, <2>5, <3>1 DEF Logs
    <3>3. \A t \in Sessions : logLock' = t <=> sess'[t].at = "logging"
      BY <1>5, <1>7, <3>1, <3>2, SessionsAreNamed DEF OthersAlike, Alike
    <3>4. /\ Len(log') % 2 = 0 /\ Len(log') \div 2 = k \div 2 + 1 /\ 2 * (k \div 2) + 1 = k
          /\ k \div 2 \in Nat
      BY <2>4, <3>2, Halving
    <3>5. ASSUME NEW j \in 1..(k \div 2 + 1) PROVE log'[2 * j - 1] = log'[2 * j]
      <4>1. CASE j = k \div 2 + 1
        <5>1. 2 * j - 1 = k /\ 2 * j = k + 1 /\ k \in 1..k
          BY <2>4, <3>4, <4>1
        <5> QED
          BY <2>4, <3>2, <5>1
      <4>2. CASE j # k \div 2 + 1
        <5>1. 2 * j - 1 \in 1..k /\ 2 * j \in 1..k /\ j \in 1..(k \div 2)
          BY <2>4, <3>4, <4>2
        <5> QED
          BY <2>4, <3>2, <5>1
      <4> QED
        BY <4>1, <4>2
    <3> QED
      BY <3>1, <3>3, <3>4, <3>5
  <2>6. (\A t \in Sessions : \A n \in Nat : Tally(sess[t], n, Lines(t, n)))'
    BY <2>2
  <2>7. (~conf.no_log_lock =>
         /\ logLock \in Sessions \cup {"none"}
         /\ \A t \in Sessions : logLock = t <=> sess[t].at = "logging"
         /\ logLock = "none" => Len(log) % 2 = 0
         /\ logLock # "none" => Len(log) % 2 = 1 /\ log[Len(log)] = Mine(logLock)
         /\ \A j \in 1..(Len(log) \div 2) : log[2 * j - 1] = log[2 * j])'
    BY <1>9, <2>5
  <2> QED
    BY <2>4, <2>6, <2>7 DEF Logs
<1>11. InPlace(s)'
  BY <1>1, <1>5, <1>7, <1>9 DEF InPlace
<1>12. Own(s)'
  BY <1>1, <1>5, <1>7, <1>9 DEF Own, Mine
<1>13. conf.lock_upload_files => Upload(s)' /\ Download(s)'
  BY <1>1, <1>5, <1>7, <1>9 DEF Upload, Download
<1> QED
  BY <1>7, <1>8, <1>9, <1>10, <1>11, <1>12, <1>13, StepKeeps

-----------------------------------------------------------------------------
(* The invariant, and what follows from it.                                 *)

LEMMA FInvInit == Init => FInv
<1> SUFFICES ASSUME Init PROVE FInv
  OBVIOUS
<1>1. \A s \in Sessions : sess[s] = NewSession
  BY DEF Init
<1>2. SessTyped
  BY <1>1, FirstSession DEF Init, SessTyped
<1>3. DiskTyped
  <2>1. Old \in Chunk /\ 1 \in Inodes /\ 2 \in Inodes
    BY InodesAreNumbers DEF Old, Chunk
  <2>2. <<Old, Old>> \in Seq(Chunk) /\ << >> \in Seq(Chunk)
    BY <2>1
  <2>3. data \in [Inodes -> Seq(Chunk)]
    BY <2>2 DEF Init
  <2>4. dir \in [Paths -> Inodes \cup {None}] /\ \A p \in Paths : dir[p] \in {1, 2, None}
    BY <2>1 DEF Init
  <2>5. kind \in [Inodes -> {"free", "file", "dir"}] /\ kind[1] = "file" /\ kind[2] = "dir"
    BY <2>1 DEF Init
  <2>6. creator = [i \in Inodes |-> creator[i]] /\ readable = [i \in Inodes |-> readable[i]]
    BY DEF Init
  <2>7. \A p \in Paths : dir[p] # None => kind[dir[p]] # "free"
    BY <2>4, <2>5
  <2> QED
    BY <2>3, <2>4, <2>5, <2>6, <2>7 DEF DiskTyped
<1>4. /\ NewSession.at = "idle" /\ NewSession.ino = None /\ ~NewSession.ok /\ NewSession.no = 0
      /\ NewSession.log_type = "none" /\ ~NewSession.bug
  BY DEF NewSession
<1>5. Locked
  <2>1. \A i \in Inodes : writer[i] = "none" /\ readers[i] = {}
    BY DEF Init
  <2>2. writer = [i \in Inodes |-> writer[i]] /\ readers = [i \in Inodes |-> readers[i]]
    BY DEF Init
  <2>3. \A s \in Sessions : sess[s].at \notin Holding
    BY <1>1, <1>4 DEF Holding
  <2> QED
    BY <2>1, <2>2, <2>3, SessionsAreNamed DEF Locked
<1>6. Logs
  <2>1. log = << >> /\ logLock = "none" /\ log \in Seq(Chunk) /\ Len(log) = 0
    BY DEF Init
  <2>2. ASSUME NEW s \in Sessions, NEW n \in Nat PROVE Tally(sess[s], n, Lines(s, n))
    <3>1. Lines(s, n) = 0
      <4>1. Halves(s, n) = {}
        BY <2>1 DEF Halves
      <4> QED
        BY <4>1, FS_EmptySet DEF Lines
    <3>2. PICK k : k = Lines(s, n)
      OBVIOUS
    <3>3. Tally(sess[s], n, k)
      BY <1>1, <1>4, <3>1, <3>2 DEF Tally
    <3> QED
      BY <3>2, <3>3
  <2>3. \A s \in Sessions : logLock # s /\ sess[s].at # "logging"
    BY <1>1, <1>4, <2>1, SessionsAreNamed
  <2>4. Len(log) % 2 = 0 /\ 1..(Len(log) \div 2) = {}
    BY <2>1
  <2> QED
    BY <2>1, <2>2, <2>3, <2>4 DEF Logs
<1>7. \A s \in Sessions : InPlace(s) /\ Own(s) /\ Upload(s) /\ Download(s)
  BY <1>1, <1>4 DEF InPlace, Own, Upload, Download
<1> QED
  BY <1>2, <1>3, <1>5, <1>6, <1>7 DEF FInv, Undisturbed

LEMMA StepsKeep ==
    ASSUME FInv, NEW s \in Sessions, Commands(s) \/ Steps(s) \/ Dies(s)
    PROVE  FInv'
<1>1. CASE Commands(s) \/ CreateUnique(s)
  BY <1>1, CommandsOpen, OpeningKeeps
<1>2. CASE LockFile(s) \/ PositionUpload(s) \/ PositionDownload(s) \/ Connect(s)
  BY <1>2, LockFileKeeps, PositionUploadKeeps, PositionDownloadKeeps, ConnectKeeps
<1>3. CASE MoveUp(s) \/ MoveDown(s) \/ TransferEnds(s) \/ Finish(s)
  BY <1>3, MoveUpKeeps, MoveDownKeeps, TransferEndsKeeps, FinishKeeps
<1>4. CASE LogBegin(s) \/ LogEnd(s) \/ Dies(s)
  BY <1>4, LogBeginKeeps, LogEndKeeps, DiesKeeps
<1> QED
  BY <1>1, <1>2, <1>3, <1>4 DEF Steps

LEMMA FInvNext == FInv /\ [Next]_vars => FInv'
<1> SUFFICES ASSUME FInv, [Next]_vars PROVE FInv'
  OBVIOUS
<1>1. CASE Next
  BY <1>1, StepsKeep DEF Next
<1>2. CASE UNCHANGED vars
  <2>1. /\ UNCHANGED <<conf, dir, data, kind, readable, creator>>
        /\ UNCHANGED <<writer, readers, log, logLock, sess>>
    BY <1>2 DEF vars, disk, locks, logs
  <2>2. DiskTyped' /\ SessTyped' /\ Undisturbed' /\ \A s \in Sessions : InPlace(s)' /\ Own(s)'
    BY <2>1 DEF FInv, DiskTyped, SessTyped, Undisturbed, Upload, Download, InPlace, Own, Mine
  <2>3. Locked'
    <3>1. UNCHANGED <<conf, locks>> /\ \A t \in Sessions : HoldsOn(sess'[t], sess[t])
      BY <2>1 DEF locks, HoldsOn
    <3> QED
      BY <3>1, LocksStay
  <2>4. Logs'
    <3>1. UNCHANGED <<conf, logs>> /\ \A t \in Sessions : Quiet(sess'[t], sess[t])
      BY <2>1 DEF logs, Quiet
    <3> QED
      BY <3>1, LogsStay
  <2> QED
    BY <2>2, <2>3, <2>4 DEF FInv
<1> QED
  BY <1>1, <1>2

LEMMA SpecKeepsFInv == Spec => []FInv
  BY FInvInit, FInvNext, PTL DEF Spec

\* What Written and Read say at the end of a transfer, in the words of Files.tla.
LEMMA WholeUploads == FInv => UploadsStayWhole
<1> SUFFICES ASSUME FInv, conf.lock_upload_files, NEW s \in Sessions, Succeeded(s, {"STOR", "APPE", "STOU"})
             PROVE  LET r == sess[s]
                        start == r.pos - Len(r.sent)
                        d == data[r.ino]
                    IN  /\ r.sent # <<>> => r.pos <= Len(d) /\ SubSeq(d, start + 1, r.pos) = r.sent
                        /\ \A j \in DOMAIN d : j \notin (start + 1)..r.pos =>
                             d[j] = IF j <= Len(r.base) THEN r.base[j] ELSE Hole
  BY DEF UploadsStayWhole
<1> DEFINE r == sess[s]
<1>1. PICK d : d = data[r.ino]
  OBVIOUS
<1>2. PICK sent : sent = r.sent
  OBVIOUS
<1>3. PICK pos : pos = r.pos
  OBVIOUS
<1>4. PICK base : base = r.base
  OBVIOUS
<1>5. r \in SessionType /\ r.ino \in Inodes /\ r.ino # None /\ r.cmd # "RETR" /\ r.at \in {"log", "logging", "finish"}
  BY DEF FInv, SessTyped, SessionType, Succeeded
<1>6. d \in Seq(Chunk) /\ sent \in Seq(Chunk) /\ base \in Seq(Chunk) /\ pos \in Nat
  BY <1>1, <1>2, <1>3, <1>4, <1>5 DEF FInv, DiskTyped, SessionType
<1>7. Written(d, base, sent, pos)
  BY <1>1, <1>2, <1>3, <1>4, <1>5 DEF FInv, Undisturbed, Upload
<1> HIDE DEF r
<1>8. ASSUME sent # << >> PROVE pos <= Len(d) /\ SubSeq(d, (pos - Len(sent)) + 1, pos) = sent
  <2>1. /\ Len(sent) \in Nat /\ Len(d) \in Nat /\ Len(sent) <= pos /\ pos <= Len(d)
        /\ \A j \in 1..Len(sent) : d[pos - Len(sent) + j] = sent[j]
    BY <1>6, <1>7, <1>8 DEF Written
  <2>2. PICK e : e = SubSeq(d, (pos - Len(sent)) + 1, pos)
    OBVIOUS
  <2>3. /\ e \in Seq(Chunk) /\ Len(e) = Len(sent)
        /\ \A j \in 1..Len(sent) : e[j] = d[(pos - Len(sent)) + 1 + j - 1]
    BY <1>6, <2>1, <2>2, SubSeqProperties
  <2>4. ASSUME NEW j \in 1..Len(sent) PROVE e[j] = sent[j]
    <3>1. (pos - Len(sent)) + 1 + j - 1 = pos - Len(sent) + j
      BY <1>6, <2>1
    <3> QED
      BY <2>1, <2>3, <3>1
  <2>5. e = sent
    BY <1>6, <2>3, <2>4, SeqEqual
  <2> QED
    BY <2>1, <2>2, <2>5
<1>9. \A j \in DOMAIN d : j \notin ((pos - Len(sent)) + 1)..pos =>
        d[j] = IF j <= Len(base) THEN base[j] ELSE Hole
  <2>1. CASE sent = << >>
    BY <1>6, <1>7, <2>1 DEF Written
  <2>2. CASE sent # << >>
    BY <1>6, <1>7, <2>2 DEF Written
  <2> QED
    BY <2>1, <2>2
<1> QED
  BY <1>1, <1>2, <1>3, <1>4, <1>8, <1>9 DEF r

LEMMA WholeDownloads == FInv => DownloadsAreConsistent
<1> SUFFICES ASSUME FInv, conf.lock_upload_files, NEW s \in Sessions, Succeeded(s, {"RETR"})
             PROVE  /\ Len(data[sess[s].ino]) = sess[s].size
                    /\ sess[s].sent = SubSeq(data[sess[s].ino],
                                             Len(data[sess[s].ino]) - Len(sess[s].sent) + 1,
                                             Len(data[sess[s].ino]))
  BY DEF DownloadsAreConsistent
<1> DEFINE r == sess[s]
<1>1. PICK d : d = data[r.ino]
  OBVIOUS
<1>2. PICK sent : sent = r.sent
  OBVIOUS
<1>3. PICK pos : pos = r.pos
  OBVIOUS
<1>4. /\ r \in SessionType /\ r.ino \in Inodes /\ r.ino # None /\ r.cmd = "RETR"
      /\ r.at \in {"log", "logging"} \/ (r.at = "finish" /\ r.ok)
  BY DEF FInv, SessTyped, SessionType, Succeeded
<1>5. d \in Seq(Chunk) /\ sent \in Seq(Chunk) /\ pos \in Nat
  BY <1>1, <1>2, <1>3, <1>4 DEF FInv, DiskTyped, SessionType
<1>6. Len(d) = r.size /\ Read(d, sent, pos) /\ pos >= Len(d)
  BY <1>1, <1>2, <1>3, <1>4 DEF FInv, Undisturbed, Download
<1> HIDE DEF r
<1>7. PICK e : e = SubSeq(d, Len(d) - Len(sent) + 1, Len(d))
  OBVIOUS
<1>8. CASE sent = << >>
  <2>1. Len(sent) = 0 /\ Len(d) \in Nat
    BY <1>5, <1>8
  <2>2. e = << >>
    <3>1. e = SubSeq(d, Len(d) + 1, Len(d))
      BY <1>7, <2>1
    <3>2. e \in Seq(Chunk) /\ Len(e) = 0
      BY <1>5, <2>1, <3>1, SubSeqProperties
    <3> QED
      BY <3>2, EmptySeq
  <2> QED
    BY <1>1, <1>2, <1>6, <1>7, <1>8, <2>2 DEF r
<1>9. CASE sent # << >>
  <2>1. /\ Len(sent) \in Nat /\ Len(d) \in Nat /\ Len(sent) <= pos /\ pos = Len(d)
        /\ \A j \in 1..Len(sent) : sent[j] = d[pos - Len(sent) + j]
    BY <1>5, <1>6, <1>9 DEF Read
  <2>2. /\ e \in Seq(Chunk) /\ Len(e) = Len(sent)
        /\ \A j \in 1..Len(sent) : e[j] = d[Len(d) - Len(sent) + 1 + j - 1]
    BY <1>5, <1>7, <2>1, SubSeqProperties
  <2>3. \A j \in 1..Len(sent) : e[j] = sent[j]
    BY <2>1, <2>2
  <2>4. e = sent
    BY <1>5, <2>2, <2>3, SeqEqual
  <2> QED
    BY <1>1, <1>2, <1>6, <1>7, <2>4 DEF r
<1> QED
  BY <1>8, <1>9

\* With lock_upload_files, whatever the sessions do in between: a finished upload is in
\* its file as it was sent, and a finished download is one state of its file
\* (handle_upload_common, handle_retr, vsf_sysutil_lock_file_write and _read).
THEOREM TransfersAreWhole == Spec => []LockedTransfersAreWhole
<1>1. FInv => LockedTransfersAreWhole
  BY WholeUploads, WholeDownloads DEF LockedTransfersAreWhole
<1> QED
  BY <1>1, SpecKeepsFInv, PTL

\* The log has two halves of every command that was logged, one after the other while
\* the log is locked, and no command finds the entry of another
\* (vsf_log_start_entry, vsf_log_do_log_to_file).
THEOREM LogIsWhole == Spec => []LogTellsEachCommandOnce
<1>1. FInv => LogTellsEachCommandOnce
  <2> SUFFICES ASSUME FInv PROVE LogTellsEachCommandOnce
    OBVIOUS
  <2>1. ASSUME NEW s \in Sessions
        PROVE  ~sess[s].bug /\ (sess[s].at = "idle" => sess[s].log_type = "none")
    BY DEF FInv, InPlace
  <2>2. ASSUME NEW s \in Sessions, NEW n \in 1..MaxCommands[s]
        PROVE  Cardinality(Halves(s, n)) \in
                 IF n = sess[s].no /\ sess[s].at = "logging" THEN {1} ELSE {0, 2}
    <3>1. n \in Nat /\ sess[s].no \in Nat
      <4>1. MaxCommands[s] \in Nat
        BY FilesConstants
      <4> QED
        BY <4>1 DEF FInv, SessTyped, SessionType
    <3>2. PICK k : k = Lines(s, n)
      OBVIOUS
    <3>3. Tally(sess[s], n, k)
      BY <3>1, <3>2 DEF FInv, Logs
    <3>4. k \in IF n = sess[s].no /\ sess[s].at = "logging" THEN {1} ELSE {0, 2}
      BY <3>1, <3>3 DEF Tally
    <3> QED
      BY <3>2, <3>4 DEF Lines
  <2>3. ~conf.no_log_lock => \A j \in 1..(Len(log) \div 2) : log[2 * j - 1] = log[2 * j]
    BY DEF FInv, Logs
  <2> QED
    BY <2>1, <2>2, <2>3 DEF LogTellsEachCommandOnce
<1> QED
  BY <1>1, SpecKeepsFInv, PTL

\* A sleeping session waits for one that has its file or the log and goes on, at most by
\* way of one that waits for the log: no two processes wait for each other in fcntl()
\* (lock_internal, vsf_log_do_log_to_file), and no lock is left behind.
THEOREM NoCircleOfWaits == Spec => []WaitsEndAtWork
<1>1. FInv => WaitsEndAtWork
  <2> SUFFICES ASSUME FInv, NEW s \in Sessions, NEW t \in WaitsFor(s)
               PROVE  /\ sess[t].at \notin {"idle", "create", "gone"}
                      /\ \A u \in WaitsFor(t) : WaitsFor(u) = {}
    BY DEF WaitsEndAtWork
  <2>1. Locked /\ Logs /\ \A q \in Sessions : InPlace(q) /\ sess[q].ino \in Inodes \cup {None}
    BY DEF FInv, SessTyped, SessionType
  <2>2. ASSUME NEW p \in Sessions, NEW q \in WaitsFor(p)
        PROVE  q \in Sessions /\ sess[q].at \in Holding /\ (sess[p].at = "log" => sess[q].at = "logging")
    <3>1. CASE sess[p].at = "lock"
      <4>1. sess[p].ino \in Inodes
        BY <2>1, <3>1 DEF InPlace
      <4> QED
        BY <2>1, <2>2, <3>1, <4>1 DEF WaitsFor, Locked
    <3>2. CASE sess[p].at = "log"
      BY <2>1, <2>2, <3>2 DEF WaitsFor, Logs, Holding
    <3> QED
      BY <2>2, <3>1, <3>2 DEF WaitsFor
  <2>3. t \in Sessions /\ sess[t].at \in Holding
    BY <2>2
  <2>4. ASSUME NEW u \in WaitsFor(t) PROVE WaitsFor(u) = {}
    <3>1. sess[t].at = "log"
      BY <2>3, <2>4 DEF WaitsFor, Holding
    <3>2. sess[u].at = "logging"
      BY <2>2, <2>3, <2>4, <3>1
    <3> QED
      BY <3>2 DEF WaitsFor
  <2> QED
    BY <2>3, <2>4 DEF Holding
<1> QED
  BY <1>1, SpecKeepsFInv, PTL

-----------------------------------------------------------------------------
\* One step, as AnonymousNeverOverwrites has it.
Untouched ==
    ~conf.anon_other_write_enable =>
        \A s \in AnonSessions : sess'[s] # sess[s] =>
            \A i \in Inodes : data'[i] # data[i] => creator'[i] = [by |-> s, no |-> sess'[s].no]

LEMMA StepsTouchTheirOwn ==
    ASSUME FInv, NEW s \in Sessions, Commands(s) \/ Steps(s) \/ Dies(s), ~conf.anon_other_write_enable,
           s \in AnonSessions, NEW i \in Inodes, data'[i] # data[i]
    PROVE  creator'[i] = [by |-> s, no |-> sess'[s].no]
<1>1. CASE Commands(s) \/ CreateUnique(s)
  BY <1>1, CommandsOpen DEF Opening, TreeGrows, Mine
<1>2. CASE PositionUpload(s)
  <2>1. data' = [data EXCEPT ![sess[s].ino] = data[sess[s].ino]]
    BY <1>2 DEF PositionUpload, Exclusive
  <2> QED
    BY <2>1 DEF FInv, DiskTyped
<1>3. CASE MoveUp(s)
  <2>1. /\ i = sess[s].ino /\ sess[s].cmd # "RETR" /\ creator' = creator
        /\ i # None
    BY <1>3, InodesAreNumbers DEF MoveUp, FInv, DiskTyped
  <2>2. creator[i] = Mine(s)
    BY <2>1 DEF FInv, Own
  <2>3. sess'[s].no = sess[s].no
    <3>1. PICK p, m : sess' = [sess EXCEPT ![s] = [sess[s] EXCEPT !.pos = p, !.sent = m]]
      BY <1>3 DEF MoveUp, Become
    <3> QED
      BY <3>1 DEF FInv, SessTyped, SessionType
  <2> QED
    BY <2>1, <2>2, <2>3 DEF Mine
<1>4. CASE ~(Commands(s) \/ CreateUnique(s) \/ PositionUpload(s) \/ MoveUp(s))
  BY <1>4 DEF Steps, LockFile, PositionDownload, Connect, MoveDown, TransferEnds, Finish, LogBegin,
              LogEnd, Dies, disk
<1> QED
  BY <1>1, <1>2, <1>3, <1>4

\* Only the session that removes a directory touches another, and it writes to no file.
LEMMA OthersKeepFiles ==
    ASSUME FInv, NEW s \in Sessions, Commands(s) \/ Steps(s) \/ Dies(s), NEW t \in Sessions \ {s},
           sess'[t] # sess[t]
    PROVE  data' = data
<1>1. CASE \E a \in Args : HandleRmd(s, a)
  BY <1>1 DEF HandleRmd, disk
<1>2. CASE ~\E a \in Args : HandleRmd(s, a)
  <2>1. \E r : sess' = [sess EXCEPT ![s] = r]
    <3>1. ASSUME NEW a \in Args, NEW c, HandleUpload(s, c, a) PROVE \E r : Become(s, r)
      BY <3>1 DEF HandleUpload, OpenUpload, Over
    <3>2. ASSUME NEW a \in Args, HandleRetr(s, a) \/ HandleRnfr(s, a) \/ HandleSize(s, a)
          PROVE  \E r : Become(s, r)
      BY <3>2 DEF HandleRetr, HandleRnfr, HandleSize, Over
    <3>3. ASSUME NEW a \in Args, HandleMkd(s, a) \/ HandleDele(s, a) \/ \E o \in BOOLEAN : HandleChmod(s, a, o)
          PROVE  \E r : Become(s, r)
      BY <3>3 DEF HandleMkd, HandleDele, HandleChmod, Simple, Over, Logged
    <3>4. ASSUME NEW a \in Args, HandleRnto(s, a) PROVE \E r : Become(s, r)
      BY <3>4 DEF HandleRnto, Over, Logged
    <3>5. ASSUME HandleRest(s, 1) \/ HandleRest(s, 3) \/ \E d \in {"/", "d"} : HandleCwd(s, d)
          PROVE  \E r : Become(s, r)
      BY <3>5 DEF HandleRest, HandleCwd
    <3>6. Commands(s) => \E r : Become(s, r)
      BY <1>2, <3>1, <3>2, <3>3, <3>4, <3>5 DEF Commands
    <3>7. CreateUnique(s) => \E r : Become(s, r)
      BY DEF CreateUnique, OpenUpload, Over
    <3>8. LockFile(s) \/ PositionUpload(s) \/ PositionDownload(s) \/ Connect(s) => \E r : Become(s, r)
      BY DEF LockFile, PositionUpload, PositionDownload, Connect
    <3>9. MoveUp(s) \/ MoveDown(s) \/ TransferEnds(s) \/ Finish(s) => \E r : Become(s, r)
      BY DEF MoveUp, MoveDown, TransferEnds, Finish, Over, Logged
    <3>10. LogBegin(s) \/ LogEnd(s) \/ Dies(s) => \E r : Become(s, r)
      BY DEF LogBegin, LogEnd, Dies
    <3> QED
      BY <3>6, <3>7, <3>8, <3>9, <3>10 DEF Steps, Become
  <2> QED
    BY <2>1 DEF FInv, SessTyped
<1> QED
  BY <1>1, <1>2

\* Without anon_other_write_enable an anonymous session never changes what a file held that
\* it has not made itself with this very command (handle_upload_common, O_EXCL).
THEOREM AnonymousKeepsOff == Spec => AnonymousNeverOverwrites
<1>1. FInv /\ [Next]_vars => [Untouched]_vars
  <2> SUFFICES ASSUME FInv, Next, ~conf.anon_other_write_enable, NEW t \in AnonSessions, sess'[t] # sess[t],
                      NEW i \in Inodes, data'[i] # data[i]
               PROVE  creator'[i] = [by |-> t, no |-> sess'[t].no]
    BY DEF Untouched
  <2>1. PICK s \in Sessions : Commands(s) \/ Steps(s) \/ Dies(s)
    BY DEF Next
  <2>2. t \in Sessions
    BY FilesConstants
  <2>3. CASE s = t
    BY <2>1, <2>3, StepsTouchTheirOwn
  <2>4. CASE s # t
    BY <2>1, <2>2, <2>4, OthersKeepFiles
  <2> QED
    BY <2>3, <2>4
<1> QED
  BY <1>1, SpecKeepsFInv, PTL DEF Spec, AnonymousNeverOverwrites, Untouched
=============================================================================
