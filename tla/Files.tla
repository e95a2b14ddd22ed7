-------------------------------- MODULE Files --------------------------------
(***************************************************************************)
(* Sessions that share a directory tree and a log: the file commands of     *)
(* postlogin.c, the filters of access.c, the log entries of logging.c and   *)
(* the locks of sysutil.c.  Each session is a process of its own, so every  *)
(* system call of one may fall between two of another.                      *)
(*                                                                         *)
(* A file is a sequence of chunks, each marked with the command that sent   *)
(* it.  Opened files are known by inode, so that a name may go away or come *)
(* to mean another file while a transfer runs.                             *)
(***************************************************************************)
EXTENDS Integers, Sequences, FiniteSets

CONSTANTS
    Sessions,       \* logged-in sessions
    AnonSessions,   \* those with is_anonymous
    Configs,        \* the tunables, the same for all sessions
    Args,           \* arguments of commands: a name, relative or behind "~/"
    MaxCommands,    \* bound: commands of each session
    MaxChunks,      \* bound: chunks of an upload
    MaxInodes       \* bound: files and directories ever made

ASSUME FilesConstants ==
    /\ AnonSessions \subseteq Sessions /\ "none" \notin Sessions
    /\ Args \subseteq [tilde : BOOLEAN, name : {"f", "g", "d", "denied"}]
    /\ MaxCommands \in [Sessions -> Nat] /\ {MaxChunks, MaxInodes} \subseteq Nat
    /\ MaxInodes >= 2    \* those of Init

Dirs == {"/", "d", "gone"}             \* "gone" is where a session is whose directory was removed
Names == {"f", "g", "d", "denied"}     \* deny_file matches the last one
Paths == Dirs \X Names
Inodes == 1..MaxInodes
None == 0
NoName == [tilde |-> FALSE, name |-> "none"]
Old == [by |-> "old", no |-> 0]      \* what was there before
Hole == [by |-> "hole", no |-> 0]    \* what lies between the end and a seek past it

VARIABLES
    conf,
    dir,            \* the tree: Paths -> Inodes or None
    data,           \* Inodes -> chunks; directories have none
    kind,           \* Inodes -> "free", "file" or "dir"
    readable,       \* Inodes -> whether others may read it
    creator,        \* history, Inodes -> the command that made it
    writer,         \* Inodes -> the session with the write lock, "none" if none
    readers,        \* Inodes -> the sessions with a read lock
    log,            \* the log file: halves of lines, in the order they were written
    logLock,        \* the session with the lock on the log file, "none" if none
    sess            \* the state of each session

disk == <<dir, data, kind, readable, creator>>
locks == <<writer, readers>>
logs == <<log, logLock>>
vars == <<conf, disk, locks, logs, sess>>

\* A session: at tells the next system call, ino the open file, base what the
\* file held when it was positioned (history), sent the chunks moved so far.
NewSession ==
    [at |-> "idle", cmd |-> "none", path |-> <<"/", "f">>, ino |-> None, pos |-> 0, sent |-> << >>,
     base |-> << >>, size |-> 0, ok |-> FALSE, no |-> 0, log_type |-> "none", rnfr |-> NoName,
     cwd |-> "/", restart_pos |-> 0, bug |-> FALSE]

Init ==
    /\ conf \in Configs
    /\ dir = [p \in Paths |-> CASE p = <<"/", "f">> -> 1 [] p = <<"/", "d">> -> 2 [] OTHER -> None]
    /\ data = [i \in Inodes |-> IF i = 1 THEN <<Old, Old>> ELSE << >>]
    /\ kind = [i \in Inodes |-> CASE i = 1 -> "file" [] i = 2 -> "dir" [] OTHER -> "free"]
    /\ readable = [i \in Inodes |-> TRUE]
    /\ creator = [i \in Inodes |-> Old]
    /\ writer = [i \in Inodes |-> "none"] /\ readers = [i \in Inodes |-> {}]
    /\ log = << >> /\ logLock = "none"
    /\ sess = [s \in Sessions |-> NewSession]

------------------------------------------------------------------------------
(* Names.                                                                   *)

\* resolve_tilde, and the directory the kernel starts from.
Resolve(s, a) == <<IF a.tilde THEN "/" ELSE sess[s].cwd, a.name>>
\* vsf_access_check_file: a name deny_file matches is refused.
AccessCheckFile(a) == a.name # "denied"
IsDir(i) == i # None /\ kind[i] = "dir"
IsFile(i) == i # None /\ kind[i] = "file"
\* The directory the name is in exists.
ParentThere(p) == p[1] = "/" \/ (p[1] = "d" /\ IsDir(dir[<<"/", "d">>]))
At(p) == IF ParentThere(p) THEN dir[p] ELSE None

Mine(s) == [by |-> s, no |-> sess[s].no]
Fresh == CHOOSE i \in Inodes : kind[i] = "free"
RoomLeft == \E i \in Inodes : kind[i] = "free"
MakeNode(mark, p, k, others) ==
    /\ dir' = [dir EXCEPT ![p] = Fresh] /\ kind' = [kind EXCEPT ![Fresh] = k]
    /\ readable' = [readable EXCEPT ![Fresh] = others]
    /\ creator' = [creator EXCEPT ![Fresh] = mark]
    /\ data' = [data EXCEPT ![Fresh] = << >>]

------------------------------------------------------------------------------
(* The life of a command.                                                   *)

\* vsf_log_start_entry
LogStartEntry(s, r, what) ==
    [r EXCEPT !.bug = @ \/ r.log_type # "none", !.log_type = what]

Idle(s) == sess[s].at = "idle" /\ sess[s].no < MaxCommands[s]
Begin(s, c, p) == [sess[s] EXCEPT !.cmd = c, !.path = p, !.no = @ + 1]
Become(s, r) == sess' = [sess EXCEPT ![s] = r]
\* Between commands only these fields mean something.
Rest(r) == [NewSession EXCEPT !.no = r.no, !.log_type = r.log_type, !.rnfr = r.rnfr, !.cwd = r.cwd,
                              !.restart_pos = r.restart_pos, !.bug = r.bug]

\* A command that has not started an entry ends; one that has leaves it to be
\* logged as a failure.
Over(s, r) == Become(s, [Rest(r) EXCEPT !.at = IF r.log_type = "none" THEN "idle" ELSE "log"])
\* vsf_log_do_log(p_sess, 1)
Logged(s, r) == Become(s, [r EXCEPT !.at = "log", !.ok = TRUE])

\* The tunables that let anonymous sessions upload and make directories are on.
MayWrite(s) == s \notin AnonSessions \/ conf.anon_other_write_enable

------------------------------------------------------------------------------
(* Transfers.                                                               *)

\* get_unique_filename: stat() only, so another session may take the name.
UniqueFilename(p) ==
    IF At(p) = None THEN p ELSE <<p[1], IF p[2] = "f" THEN "g" ELSE "f">>

\* Mutant: STOU opens what is there.
ExclusiveUnlessUnique(s, c) == s \in AnonSessions /\ ~conf.anon_other_write_enable /\ c # "STOU"
\* When handle_upload_common creates with O_EXCL.
Exclusive(s, c) == c = "STOU" \/ (s \in AnonSessions /\ ~conf.anon_other_write_enable)

\* handle_upload_common up to the open().  STOU has looked for a free name in an
\* earlier step, ChooseName.
OpenUpload(s, r, p) ==
    LET i == At(p)
        opened == [r EXCEPT !.at = "lock"]
    IN  \/ /\ \/ ~ParentThere(p)
              \/ IsDir(i) \/ (i # None /\ Exclusive(s, r.cmd))
              \/ i = None /\ ~RoomLeft
           /\ Over(s, [r EXCEPT !.restart_pos = 0]) /\ UNCHANGED disk
        \/ /\ IsFile(i) /\ ~Exclusive(s, r.cmd)
           /\ Become(s, [opened EXCEPT !.path = p, !.ino = i]) /\ UNCHANGED disk
        \/ /\ i = None /\ ParentThere(p) /\ RoomLeft
           /\ Become(s, [opened EXCEPT !.path = p, !.ino = Fresh])
           \* chown_uploads takes the file away from its anonymous owner.
           /\ MakeNode([by |-> s, no |-> r.no], p, "file", ~(s \in AnonSessions /\ conf.chown_uploads))

HandleUpload(s, c, a) ==
    /\ Idle(s) /\ (c = "APPE" => MayWrite(s))
    /\ LET r == LogStartEntry(s, Begin(s, c, Resolve(s, a)), "UPLOAD")
       IN  IF ~AccessCheckFile(a)
           THEN Over(s, [r EXCEPT !.restart_pos = 0]) /\ UNCHANGED disk
           ELSE IF c = "STOU"
           THEN Become(s, [r EXCEPT !.at = "create", !.path = UniqueFilename(r.path)])
                /\ UNCHANGED disk
           ELSE OpenUpload(s, r, r.path)
    /\ UNCHANGED <<conf, locks, logs>>

CreateUnique(s) ==
    /\ sess[s].at = "create" /\ OpenUpload(s, sess[s], sess[s].path)
    /\ UNCHANGED <<conf, locks, logs>>

\* handle_retr up to the open()
HandleRetr(s, a) ==
    /\ Idle(s)
    /\ LET r == LogStartEntry(s, Begin(s, "RETR", Resolve(s, a)), "DOWNLOAD")
           i == At(r.path)
       IN  IF ~AccessCheckFile(a) \/ i = None
           THEN Over(s, [r EXCEPT !.restart_pos = 0])
           ELSE Become(s, [r EXCEPT !.at = "lock", !.ino = i])
    /\ UNCHANGED <<conf, disk, locks, logs>>

\* Mutant: the lock is asked for and not waited for.
LockWithoutWaiting(s) ==
    /\ sess[s].at = "lock" /\ Become(s, [sess[s] EXCEPT !.at = "ready"])
    /\ UNCHANGED <<conf, disk, locks, logs>>

\* lock_internal: F_SETLKW, repeated while a signal interrupts it.
LockFile(s) ==
    /\ sess[s].at = "lock"
    /\ LET i == sess[s].ino
           write == sess[s].cmd # "RETR"
       IN  IF ~conf.lock_upload_files
           THEN UNCHANGED locks
           ELSE /\ writer[i] = "none" /\ (write => readers[i] \subseteq {s})
                /\ writer' = IF write THEN [writer EXCEPT ![i] = s] ELSE writer
                /\ readers' = IF write THEN readers ELSE [readers EXCEPT ![i] = @ \cup {s}]
    /\ Become(s, [sess[s] EXCEPT !.at = "ready"]) /\ UNCHANGED <<conf, disk, logs>>

\* handle_upload_common: ftruncate and the seeks, after the lock.
PositionUpload(s) ==
    /\ sess[s].at = "ready" /\ sess[s].cmd # "RETR"
    /\ LET r == sess[s]
           do_truncate == ~Exclusive(s, r.cmd) /\ r.cmd # "APPE" /\ r.restart_pos = 0
           left == IF do_truncate THEN << >> ELSE data[r.ino]
       IN  /\ data' = [data EXCEPT ![r.ino] = left]
           /\ Become(s, [r EXCEPT !.at = "connect", !.sent = << >>, !.base = left,
                                  !.pos = IF r.cmd = "APPE" THEN Len(left) ELSE r.restart_pos])
    /\ UNCHANGED <<conf, dir, kind, readable, creator, locks, logs>>

\* handle_retr: fstat after the lock.  A directory is not worth a log line.
PositionDownload(s) ==
    /\ sess[s].at = "ready" /\ sess[s].cmd = "RETR"
    /\ LET r == sess[s]
       IN  Become(s,
             CASE kind[r.ino] # "file" -> [r EXCEPT !.at = "finish", !.log_type = "none"]
               [] kind[r.ino] = "file" /\ s \in AnonSessions /\ conf.anon_world_readable_only
                  /\ ~readable[r.ino] -> [r EXCEPT !.at = "finish"]
               [] OTHER -> [r EXCEPT !.at = "connect", !.sent = << >>, !.pos = r.restart_pos,
                                     !.size = Len(data[r.ino])])
    /\ UNCHANGED <<conf, disk, locks, logs>>

\* get_remote_transfer_fd
Connect(s) ==
    /\ sess[s].at = "connect"
    /\ \E place \in {"move", "finish"} : Become(s, [sess[s] EXCEPT !.at = place])
    /\ UNCHANGED <<conf, disk, locks, logs>>

\* The contents after c is written at position p (counted from 0).
WriteAt(d, p, c) ==
    [j \in 1..(IF p + 1 > Len(d) THEN p + 1 ELSE Len(d)) |->
        IF j = p + 1 THEN c ELSE IF j <= Len(d) THEN d[j] ELSE Hole]

\* One turn of do_file_recv.
MoveUp(s) ==
    /\ sess[s].at = "move" /\ sess[s].cmd # "RETR" /\ Len(sess[s].sent) < MaxChunks
    /\ LET r == sess[s]
       IN  /\ data' = [data EXCEPT ![r.ino] = WriteAt(@, r.pos, Mine(s))]
           /\ Become(s, [r EXCEPT !.pos = @ + 1, !.sent = Append(@, Mine(s))])
    /\ UNCHANGED <<conf, dir, kind, readable, creator, locks, logs>>

\* One turn of do_file_send_rwloop.
MoveDown(s) ==
    /\ sess[s].at = "move" /\ sess[s].cmd = "RETR" /\ sess[s].pos < Len(data[sess[s].ino])
    /\ LET r == sess[s]
       IN  Become(s, [r EXCEPT !.pos = @ + 1, !.sent = Append(@, data[r.ino][r.pos + 1])])
    /\ UNCHANGED <<conf, disk, locks, logs>>

\* The end of the data, or a failure of either side.
TransferEnds(s) ==
    /\ sess[s].at = "move"
    /\ \/ /\ sess[s].cmd = "RETR" => sess[s].pos >= Len(data[sess[s].ino])
          /\ Logged(s, sess[s])
       \/ Become(s, [sess[s] EXCEPT !.at = "finish"])
    /\ UNCHANGED <<conf, disk, locks, logs>>

\* Mutant: closing leaves a write lock behind.
UnlockReaders(s) == writer' = writer /\ readers' = [i \in Inodes |-> readers[i] \ {s}]

\* Locks go with the descriptor.
Unlock(s) ==
    /\ writer' = [i \in Inodes |-> IF writer[i] = s THEN "none" ELSE writer[i]]
    /\ readers' = [i \in Inodes |-> readers[i] \ {s}]

\* The reply is out: a failed upload is unlinked, by name, and the file closed,
\* which gives its locks back.
Finish(s) ==
    /\ sess[s].at = "finish"
    /\ LET r == sess[s]
           unlink == conf.delete_failed_uploads /\ r.cmd # "RETR" /\ ~r.ok
       IN  /\ dir' = IF unlink /\ IsFile(At(r.path))
                     THEN [dir EXCEPT ![r.path] = None] ELSE dir
           /\ Over(s, [r EXCEPT !.restart_pos = 0])
    /\ Unlock(s) /\ UNCHANGED <<conf, data, kind, readable, creator, logs>>

\* The data timeout or a lost control connection ends the process between two calls.
Dies(s) ==
    /\ sess[s].at \in {"lock", "connect", "move"}
    /\ Become(s, [NewSession EXCEPT !.at = "gone", !.no = sess[s].no])
    /\ Unlock(s) /\ UNCHANGED <<conf, disk, logs>>

------------------------------------------------------------------------------
(* vsf_log_do_log_to_file: lock, write in as many calls as it takes, unlock. *)

\* A line in either format, down to whom and which command it is about.
LogLine(s) == Mine(s)

\* Mutant: the log entry stays open.
LogEndKeepsEntry(s) ==
    /\ sess[s].at = "logging"
    /\ log' = Append(log, LogLine(s)) /\ logLock' = IF logLock = s THEN "none" ELSE logLock
    /\ Become(s, [sess[s] EXCEPT !.at = IF sess[s].ino = None THEN "idle" ELSE "finish"])
    /\ UNCHANGED <<conf, disk, locks>>

LogBegin(s) ==
    /\ sess[s].at = "log" /\ (conf.no_log_lock \/ logLock = "none")
    /\ logLock' = IF conf.no_log_lock THEN logLock ELSE s
    /\ log' = Append(log, LogLine(s)) /\ Become(s, [sess[s] EXCEPT !.at = "logging"])
    /\ UNCHANGED <<conf, disk, locks>>

\* A transfer logs before it closes its file; everything else at the end.
LogEnd(s) ==
    /\ sess[s].at = "logging"
    /\ log' = Append(log, LogLine(s)) /\ logLock' = IF logLock = s THEN "none" ELSE logLock
    /\ LET r == [sess[s] EXCEPT !.log_type = "none"]
       IN  Become(s, IF r.ino = None THEN Rest(r) ELSE [r EXCEPT !.at = "finish"])
    /\ UNCHANGED <<conf, disk, locks>>

------------------------------------------------------------------------------
(* Commands without a transfer.                                             *)

Plain == UNCHANGED <<conf, locks, logs>>

HandleRest(s, n) ==
    /\ Idle(s) /\ Become(s, [Rest(Begin(s, "REST", sess[s].path)) EXCEPT !.restart_pos = n])
    /\ Plain /\ UNCHANGED disk

\* handle_cwd and handle_cdup
HandleCwd(s, target) ==
    /\ Idle(s)
    /\ Become(s, [Rest(Begin(s, "CWD", sess[s].path)) EXCEPT
                     !.cwd = IF ParentThere(<<target, "f">>) THEN target ELSE @])
    /\ Plain /\ UNCHANGED disk

\* What MKD, RMD and DELE have in common: an entry, the filter, one system call.
Simple(s, what, a, possible, effect) ==
    /\ Idle(s)
    /\ LET r == LogStartEntry(s, Begin(s, what, Resolve(s, a)), what)
       IN  IF AccessCheckFile(a) /\ possible
           THEN effect /\ Logged(s, r)
           ELSE UNCHANGED disk /\ Over(s, r)
    /\ Plain

HandleMkd(s, a) ==
    LET p == Resolve(s, a)
    IN  Simple(s, "MKDIR", a, ParentThere(p) /\ At(p) = None /\ RoomLeft,
               MakeNode([by |-> s, no |-> sess[s].no + 1], p, "dir", TRUE))

\* Whoever is inside a removed directory stays there, and finds nothing.
HandleRmd(s, a) ==
    LET r == LogStartEntry(s, Begin(s, "RMDIR", Resolve(s, a)), "RMDIR")
        p == r.path
        Evict(t) == [t EXCEPT !.cwd = IF t.cwd = p[2] THEN "gone" ELSE t.cwd,
                              !.path = IF t.path[1] = p[2] THEN <<"gone", t.path[2]>> ELSE t.path]
        removed == [t \in Sessions |-> IF p[1] = "/" THEN Evict(sess[t]) ELSE sess[t]]
    IN  /\ Idle(s) /\ MayWrite(s) /\ Plain
        /\ IF /\ AccessCheckFile(a) /\ IsDir(At(p))
              /\ \A n \in Names : p = <<"/", "d">> => dir[<<"d", n>>] = None
           THEN /\ dir' = [dir EXCEPT ![p] = None] /\ UNCHANGED <<data, kind, readable, creator>>
                /\ sess' = [removed EXCEPT ![s] = [r EXCEPT !.at = "log", !.ok = TRUE, !.cwd = removed[s].cwd]]
           ELSE UNCHANGED disk /\ Over(s, r)

HandleDele(s, a) ==
    LET p == Resolve(s, a)
    IN  /\ MayWrite(s)
        /\ Simple(s, "DELETE", a, IsFile(At(p)),
                  dir' = [dir EXCEPT ![p] = None] /\ UNCHANGED <<data, kind, readable, creator>>)

\* handle_site_chmod: others may read, or not.
HandleChmod(s, a, others) ==
    LET p == Resolve(s, a)
    IN  /\ s \notin AnonSessions
        /\ Simple(s, "CHMOD", a, At(p) # None,
                  readable' = [readable EXCEPT ![At(p)] = others] /\ UNCHANGED <<dir, data, kind, creator>>)

\* handle_rnfr keeps the name as it was given, and starts an entry only when it fails.
HandleRnfr(s, a) ==
    /\ Idle(s) /\ MayWrite(s)
    /\ LET r == [Begin(s, "RNFR", Resolve(s, a)) EXCEPT !.rnfr = NoName]
       IN  IF AccessCheckFile(a) /\ At(r.path) # None
           THEN Become(s, [Rest(r) EXCEPT !.rnfr = a])
           ELSE Over(s, LogStartEntry(s, r, "RENAME"))
    /\ Plain /\ UNCHANGED disk

\* handle_rnto: the kept name is taken from wherever the session is by now.
\* Directories keep their names here.
HandleRnto(s, a) ==
    /\ Idle(s) /\ MayWrite(s)
    /\ LET r == Begin(s, "RNTO", Resolve(s, a))
           from == Resolve(s, sess[s].rnfr)
           started == LogStartEntry(s, r, "RENAME")
       IN  /\ sess[s].rnfr # NoName => ~IsDir(At(from))
           /\ CASE sess[s].rnfr = NoName -> Become(s, Rest(r)) /\ UNCHANGED disk
               [] sess[s].rnfr # NoName /\ ~AccessCheckFile(a) -> Over(s, started) /\ UNCHANGED disk
               [] sess[s].rnfr # NoName /\ AccessCheckFile(a) ->
                  IF IsFile(At(from)) /\ ParentThere(r.path) /\ ~IsDir(At(r.path))
                  THEN /\ dir' = [dir EXCEPT ![from] = None, ![r.path] = dir[from]]
                       /\ UNCHANGED <<data, kind, readable, creator>>
                       /\ Logged(s, [started EXCEPT !.rnfr = NoName])
                  ELSE UNCHANGED disk /\ Over(s, [started EXCEPT !.rnfr = NoName])
    /\ Plain

\* handle_size and handle_mdtm look and leave no trace but a reply; the times MDTM
\* may set are not kept.
HandleSize(s, a) ==
    /\ Idle(s) /\ Become(s, Rest(Begin(s, "SIZE", Resolve(s, a)))) /\ Plain /\ UNCHANGED disk

------------------------------------------------------------------------------
Commands(s) ==
    \/ \E a \in Args :
         \/ \E c \in {"STOR", "APPE", "STOU"} : HandleUpload(s, c, a)
         \/ HandleRetr(s, a) \/ HandleMkd(s, a) \/ HandleRmd(s, a) \/ HandleDele(s, a)
         \/ HandleRnfr(s, a) \/ HandleRnto(s, a) \/ HandleSize(s, a)
         \/ \E o \in BOOLEAN : HandleChmod(s, a, o)
    \/ HandleRest(s, 1) \/ HandleRest(s, 3)
    \/ \E t \in {"/", "d"} : HandleCwd(s, t)

\* The steps of a command under way; the data timeout stands behind the ones that
\* wait for a client.
Steps(s) ==
    \/ CreateUnique(s) \/ LockFile(s) \/ PositionUpload(s) \/ PositionDownload(s) \/ Connect(s)
    \/ MoveUp(s) \/ MoveDown(s) \/ TransferEnds(s) \/ Finish(s) \/ LogBegin(s) \/ LogEnd(s)

Next == \E s \in Sessions : Commands(s) \/ Steps(s) \/ Dies(s)
Spec == Init /\ [][Next]_vars /\ \A s \in Sessions : WF_vars(Steps(s))

------------------------------------------------------------------------------
\* A transfer that has succeeded and still has its file open.
Succeeded(s, cmds) == sess[s].at \in {"log", "logging", "finish"} /\ sess[s].ok
                      /\ sess[s].ino # None /\ sess[s].cmd \in cmds

\* With lock_upload_files, when an upload is about to be reported complete its file
\* holds what this upload made of it and nothing of another one: its own chunks
\* from where it started, what was there before, and holes it asked for.
UploadsStayWhole ==
    conf.lock_upload_files => \A s \in Sessions : Succeeded(s, {"STOR", "APPE", "STOU"}) =>
        LET r == sess[s]
            start == r.pos - Len(r.sent)
            d == data[r.ino]
        IN  /\ r.sent # <<>> => r.pos <= Len(d) /\ SubSeq(d, start + 1, r.pos) = r.sent
            /\ \A j \in DOMAIN d : j \notin (start + 1)..r.pos =>
                 d[j] = IF j <= Len(r.base) THEN r.base[j] ELSE Hole

\* With lock_upload_files, a download that is about to be reported complete has
\* sent one state of the file, the one whose size was announced.
DownloadsAreConsistent ==
    conf.lock_upload_files => \A s \in Sessions : Succeeded(s, {"RETR"}) =>
        /\ Len(data[sess[s].ino]) = sess[s].size
        /\ sess[s].sent = SubSeq(data[sess[s].ino], Len(data[sess[s].ino]) - Len(sess[s].sent) + 1,
                                 Len(data[sess[s].ino]))

\* The two together: with lock_upload_files no transfer sees or leaves the work of
\* two writers (handle_upload_common, handle_retr, lock_internal).
LockedTransfersAreWhole == UploadsStayWhole /\ DownloadsAreConsistent

\* Without anon_other_write_enable an anonymous session only ever writes to a file
\* the command it is in has made, whatever the names come to mean meanwhile.
AnonymousNeverOverwrites ==
    [][~conf.anon_other_write_enable =>
         \A s \in AnonSessions : sess'[s] # sess[s] =>
           \A i \in Inodes : data'[i] # data[i] => creator'[i] = [by |-> s, no |-> sess'[s].no]]_vars

\* Where the log has a half of the line about command n of session s.
Halves(s, n) == {j \in DOMAIN log : log[j] = [by |-> s, no |-> n]}

\* Every command with a log entry leaves one line of its own, whole unless locking
\* is off, and no command finds the entry of an earlier one (bug() in
\* vsf_log_start_entry).
LogTellsEachCommandOnce ==
    /\ \A s \in Sessions :
         /\ ~sess[s].bug
         /\ sess[s].at = "idle" => sess[s].log_type = "none"
         /\ \A n \in 1..MaxCommands[s] :
              Cardinality(Halves(s, n)) \in
                IF n = sess[s].no /\ sess[s].at = "logging" THEN {1} ELSE {0, 2}
    /\ ~conf.no_log_lock =>
         \A j \in 1..(Len(log) \div 2) : log[2 * j - 1] = log[2 * j]

\* The sessions whose locks keep session s asleep: on the file it has opened, or on
\* the log, for which it may wait with a locked file in its hand.
WaitsFor(s) ==
    LET r == sess[s]
    IN  {t \in Sessions :
           \/ /\ r.at = "lock" /\ conf.lock_upload_files
              /\ writer[r.ino] = t \/ (r.cmd # "RETR" /\ t \in readers[r.ino])
           \/ r.at = "log" /\ ~conf.no_log_lock /\ logLock = t}

\* Whoever sleeps for a lock sleeps for a session in the middle of a transfer or of its
\* log line, never for one that is done or dead; and from session to session the waits
\* end at one that waits for nobody, so that no circle of them closes
\* (vsf_sysutil_lock_file_write and _read, vsf_log_do_log_to_file, and the closes).
\* How long the holders take, and how many readers follow one another, is up to them.
WaitsEndAtWork ==
    \A s \in Sessions : \A t \in WaitsFor(s) :
        /\ sess[t].at \notin {"idle", "create", "gone"}
        /\ \A u \in WaitsFor(t) : WaitsFor(u) = {}
==============================================================================
