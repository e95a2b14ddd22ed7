# The DragonsUnited installer: a verification project

The repository holds a Minecraft modpack installer written in Java (`client/`) and
the FTP server it talks to, a vsftpd 2.3.5 extended by two commands
(`vsftpd-2.3.5/`, the extension is `mcupdate.c` and `SITE VERS`/`SITE UINS` in
`postlogin.c`). Its README promises one thing: the installer distributes modpacks
and keeps them "up to date". There are no tests. This directory models the parts
that promise rests on, client and server, checks them with TLC and proves most of
their invariants with TLAPS for every value of the constants.

Paths below are relative to `src/vsftpd-2.3.5/` (`*.c`) or
`src/client/src/fur/shadowdrake/minecraft/` (`*.java`).

## 1. The system

| Component | State | Operations | Talks to |
|---|---|---|---|
| Listener, `standalone.c` | number of children, children per address, address of each child, tunables | accept, fork, reap, reload, count | children (inherited counters), kernel (SIGCHLD, SIGHUP, SIGALRM) |
| Signal framework, `sysutil.c` | pending flag per signal, one alarm, one i/o handler | asynchronous half sets a flag; `check_pending_actions` runs handlers after blocking calls | listener, login, session |
| Login, `prelogin.c`, `privops.c`, `oneprocess.c`, `twoprocess.c` | up to three processes, their ids and jails, their private sockets, a PAM session | greeting, USER, PASS, AUTH, PBSZ, PROT, forks, change of credentials | client, kernel, PAM |
| Helper processes, `postprivparent.c`, `privsock.c`, `sslslave.c` | passive listener, request being answered | sockets and chown on request; TLS reads and writes on request | session |
| Session, `postlogin.c`, `ftpdataio.c`, `ftpcmdio.c` | PORT/PASV mode, data descriptor, restart offset, ABOR flag, alarm, names | one handler per command | client over two connections, helpers |
| Files, `postlogin.c`, `access.c`, `logging.c` | a directory tree and a log shared by all sessions, locks | uploads, downloads, renames, ... | other sessions |
| Libraries, `str.c`, `hash.c`, `ls.c`, `strlist.c`, `ipaddrparse.c`, `netstr.c`, `ascii.c`, `parseconf.c` | buffers, chains, tunables | | everything |
| Sandbox, `ptracesandbox.c`, `ftppolicy.c`, and `secutil.c` | registers and memory of a traced process, the policy; ids, groups, capabilities | validate, continue, kill; change credentials | the session it watches |
| Generator of instructions, `mcupdate.c` | none (reads `/DATA/LISTFILE`, `/DATA/CHANGE`, `/DATA/VERSION`) | version query, instructions from a version to the latest | session |
| FTP client, `FtpClient.java` | one control connection, current data channel, semaphores | chat, open channel, RETR, UINS, VERS | a data thread and a completion thread per transfer |
| Command reader, `FtpCommandChannelReader.java` | buffer, closed flag | read, close | reading thread and command thread |
| Installer, `InstallPanel.java`, `InstallerWindow.java` | `packList`, manifests, pack files, `ver`, `manifest.json`, `modpacks.json` | install, update, add-ons, read-me | FTP client, Swing |
| Bootloader, `Bootloader.java` | installer jar, artifacts | check, download, start | web server, Swing |

What is hard here:

* *Concurrency.* Three kinds of client threads share one reply stream, one
  `channel` field and one `success` field. Server processes are sequential, but
  signals arrive between any two steps and are handled only after the next
  blocking call; three processes share a connection, and all sessions a tree.
* *Ordering.* The final reply of a transfer and its data travel on two connections.
  Requests to the helpers carry no number: only order ties an answer to its request.
* *Failure.* Downloads break, the installer is killed between two instructions and
  starts again from the old version; `modpacks.json` is emptied before it is written;
  any process of a connection can die at any step.
* *Long histories.* Instructions of many releases are merged by text replacement;
  clients may skip any number of releases.
* *Timeouts.* Idle and data alarms share SIGALRM; accept timeouts of the client
  interrupt a thread that waits for a reply.
* *Boundaries.* Strings reuse their buffers, lines and chunks end anywhere, addresses
  and dates have many spellings.

`PROJECT.json` lists these hazards one by one with their lines.

## 2. Modules

| Module | Models | Checked by |
|---|---|---|
| `Standalone`, `StandaloneProofs` | listener, pending signals, limit check of the children; proofs of it and of `Hash` | `MCText` |
| `McUpdate` | `mcu_create_update_instructions` as a fold over the CHANGE lines; operators only | `MCUpdatePack` |
| `UpdatePack`, `UpdatePackProofs` | the client's update, from the check to `modpacks.json`, composed with the generator and the maintainer; proofs | `MCUpdatePack` |
| `FtpClient` | command, data and completion threads, with the server at the other end; proofs in `InstallProofs` | `MCFtpClient` |
| `Reader` | the reader of the command channel | `MCFtpClient` |
| `Bootloader` | the bootloader over restarts and new installers | `MCFtpClient` |
| `Install`, `InstallProofs` | installing a pack and its add-ons, over failures, kills and new attempts; proofs of it and of `FtpClient` | `MCFtpClient` |
| `Session`, `SessionProofs` | a logged-in session: handlers, data connection, SIGALRM, SIGURG; proofs | `MCSandbox` |
| `Login`, `PrivParent`, `PrivParentProofs` | from a connection to a session; then the helpers (`PrivParent` extends `Login`); proofs of both | `MCPrivParent` |
| `Files`, `FilesProofs` | several sessions on one tree and one log; proofs | `MCFiles` |
| `Commands`, `CommandsProofs`, `Transfer` | bytes on the control and on the data connection; proofs of `Commands` | `MCWire` |
| `Sandbox`, `SandboxProofs` | the supervisor and its policy; proofs of it and of `Credentials` | `MCSandbox` |
| `Credentials` | `change_credentials` call by call | `MCSandbox` |
| `Strings` | characters, numbers and splitting shared by the following | |
| `Buffers`, `Hash`, `Map`, `Listing`, `Addresses`, `Metadata`, `ParseConf` | the libraries of the server; `Map` is what `Hash` promises | `MCText` |

Where an MC module checks several modules (`MCFtpClient`, `MCWire`, `MCSandbox`,
`MCText`) they share no state: a variable `job` says which of them a behaviour is
about, the others stand still in one fixed state; what TLC then calls `NeverBug` of
`MCText` is the listener's, that of `MCSandbox` the session's, and a liveness property
that starts in the initial state is asked of its own behaviours only
(`SessionsEndWhenStalled`). `MCSession` is for the run `session_uins` alone.

### Standalone

The accept loop is split where a signal can be noticed or a child can run:
before and in `accept()`, after it in `check_pending_actions` (SIGHUP, then SIGCHLD,
then the `alarm(0)`), before and after `fork()`. `hup`, `chld` and `alarm` are the
pending flags and the running `alarm(1)`; `ip_count` and `pid_ip` are the two hashes;
a child copies the counters and the tunables at `fork()` (`info`) and compares them
itself (`CheckLimits`). `bug` records a failed assertion or a NULL dereference.

Properties: none of the assertions fails (`NeverBug`) although a child can exit
before its pid is recorded; the total and the counts per address are exact at every
moment (`CountersMatchProcesses`); for every limit L at most L sessions run under
limits of at most L, over config reloads (`MaxClientsHolds`, `MaxPerIpHolds`); every
exited child is reaped although nobody connects again (`ZombiesAreReaped`).

Known limit: a SIGHUP just before `accept()` can lose its alarm to the `alarm(0)` that
follows a SIGCHLD (`sysutil.c:166`) and is then handled at the next connection only.

### McUpdate and UpdatePack

A release history gives every path its content in every release. `ListFile` and
`ChangeBlock` are what the maintainer publishes for it, in an order in which the
lines of one release can be carried out. `UpdateInstructions` is the server's
answer. `str_replace_text` without a line end also hits lines of longer paths: that
is the relation `Extends`. `UpdatePack` carries the instructions out on a disk in the
way `updatePack` does: the result of deleting is ignored for `-`, `*` deletes first, a
download into a missing directory fails, a refused RETR hangs (`"hung"`), `mkdirs`
makes parents. A download that fails with an exception leaves a partial file and ends
the update; one whose data end early (`Cut`) counts as a success. Afterwards the version
is asked for again, `ver` is written, and `modpacks.json` is emptied and written. A SITE
VERS that is answered with anything but 216 gives null: up to date for `checkUpdate`,
the new version for `updatePack` (`lost`).

`FineIsFine` is the promise of the program: when the installer says "Everything
fine. Please start the launcher.", the files are the files of the latest release, but
for a file whose own download ended early. `NeverStuck`: without a fault no update fails
or hangs. `VersionsGrow`: recorded versions only grow, until a SITE VERS goes
unanswered. `KeptUpToDate`: once the faults are over every client converges, unless it
has recorded null: `SITE UINS` refuses that version at every later start. The two
exceptions are the code's; `update_cut` shows the first as a violation of the promise
without it.

These do not hold for all histories. Two conditions delimit where they do:

* `Gentle`: nothing is changed (or brought back) and later removed; no mod and no
  directory returns under its old name; nothing returns while a path whose name
  continues its name was removed for good. Outside it: a changed-then-removed file
  stays, because a merged `-` cancels the `*` before it (`mcupdate.c:184`); a directory
  that comes back is replaced by `*d` after its contents were, which fails for ever; a
  removal of `a.cfg.bak` is turned into a replacement when `a.cfg` returns, and its
  download hangs.
* `Lasting`: nothing is added and later taken away. Outside it an interrupted update
  can leave an added file that no later instruction mentions.

`Events` switches on what breaks `FineIsFine` even for gentle histories (run
`update_races`): a release published during an update, a list of instructions cut
short, and the read-me's final reply taken for the answer to SITE VERS.

### FtpClient, Reader, Bootloader, Install

Call k of the command thread has data thread k and completion thread k. A thread in
`readLine` holds the reader's lock; the replies carry the call and the thread they
are meant for, so that taking somebody else's is observable (`mixed`). `channel`,
`success` and the semaphores are the shared fields. In passive mode `close()` ends in
a NullPointerException and leaves the socket open. Each command can be refused, by the
states of the server that `postlogin.c` and `mcupdate.c` have: a PORT answered with 500
switches to passive mode and opens a second channel, one answered with 550 returns with
its channel still set, and 421 closes a null socket, of which in active mode the command
thread dies (`"died"`); in passive mode the client would connect again, which is not
followed (`"over"`).

`CallsKeepApart`: every thread gets its own reply unless a call did not wait for its
transfer (`showReadMe`, an interrupt); a call that returns leaves a quiet control
connection, and a channel only after a refused PORT or SITE UINS. `SuccessIsComplete`: what
`downloadFile` calls a success is complete unless the server broke it off (end-of-file is
taken for success) or a late data thread set the shared field. `CallsReturn`: every call
returns or ends in one of the ways just named, except a download whose RETR was refused
and a call that reads an abandoned channel in the command thread. A list of
instructions can be cut short without any fault: the final reply overtakes the data
(`InstallPanel.java:859`); its consequence is the `truncate` event of UpdatePack.

`Reader` has the thread that reads the socket into `cbuf` and appends to `sb` under the
mutex, and a caller of `read()` that waits. Nothing is lost, doubled or reordered and
everything that was sent is handed over (`RepliesReachTheCaller`). The caller may
never learn of the *end* of the connection: `closed` is set outside the mutex after the
last notify.

`Bootloader` runs `main`, `needUpdate`, `boot` and `getArtifacts` over restarts while
the maintainer uploads the parts of a newer installer in any order. Any file can end
early: the list of artifacts is read with a `Scanner`, which hides exceptions, and nobody
compares lengths. A started installer is whole, at least as new as what was online when
the program was started, and has whole artifacts, unless since the jar was replaced a
start broke off, or an artifact or the list of them ended early (`torn`); every start
comes to an end, to the dialogue, to the installer or to the exception of a jar that ended
early, unless `main` waits for a `notifyAll` that has already been sent
(`InstallerStartsWhole`; the exceptions are the code's).

`Install` has the player in the window (`OpenPanel`, `ChooseAddons`, `Begin` with or
without "Force reinstall", `QuitInstaller`) and the thread `begin` starts: `cleanUp`
deletion by deletion, the branches on what `detectPack` and `checkDir` find, `unTar`
entry by entry, the removal and installation of add-ons, `manifest.json` emptied and
written, `doPostDownload`, `modpacks.json`. A failure or a kill is possible at each of
these steps. `folder` is the pack's directory; a file is missing, partial or whole. An
imported pack may be brought up to date by `updatePack`, file by file, of which `begin`
ignores the result. In passive mode `unTar` can outlive `downloadArchive` (`late`): it goes
on writing into the directory, and its end sets the `success` and the list of files that
the next `downloadArchive` returns (`lent`). `doubt` remembers what makes the directory
untrustworthy.

`InstalledPacksAreWhole`: a pack that was called installed, or that the next start
takes for installed, has all its files, and `manifest.json` names no deleted file of
an add-on. It rests on an assumption about the maintainer, made explicit in
`PackEntries`: an archive ends with `modpack` and `ver`. With these two first, a broken
download is taken for an installed pack by the next attempt. And it has four exceptions
that are the code's: `cleanUp` deletes `ver` and `modpack` last, so that one that is
cut off leaves a directory that looks installed; the update of an imported pack can fail
unnoticed, and the half-updated files are saved as installed; an `unTar` that outlives its
installation shares the next one's directory; and a change of add-ons that is cut
off leaves the old `manifest.json`. `PostDownload` is not part of the claim: when the
add-ons fail, a second attempt finds the pack installed and does not run it. A pack
installed a second time in another directory is out of the model: `downloadAddons`
then unpacks into the one and records in the other.

### Session

Handlers are split at their blocking calls (`getline`, `connect`, `transfer`, the
lingering `close`, and the read inside `handle_sigurg`). `blocked` separates reaching
such a call from sleeping in it: a signal in between sets only its flag. `check` is
`check_pending_actions` with the return address `ret`; SIGALRM is looked at before
SIGURG. One alarm serves two handlers, the one installed last counts. `owed` is the
number of lines read minus final replies written. `disk` is the state of the last
upload.

No assertion fails (`NeverBug`); a session that waits for a command holds nothing of
the last one, its ABOR flag included, and has given every line one final reply
(`SettledBetweenCommands`); failed uploads are deleted when the server is told to
(`FailedUploadsAreDeleted`); a session whose client neither sends nor moves data ends
(`StalledSessionsEnd`, checked as `SessionsEndWhenStalled`).

`UinsDisturbed = FALSE` is a condition: the data connection of SITE UINS comes about
and is not aborted. `handle_site_uins` ignores the failure of
`get_remote_transfer_fd` (run `session_uins`) and never calls `check_abor`, so an
ABOR would stay unanswered until a later STAT. `FailedUploadsAreDeleted` excludes
aborted uploads (end-of-file on the shut socket counts as the end of the data) and
sessions that end in the middle of one. A client sends no second ABOR before the
first is answered; the server would acknowledge the two once.

### Login and PrivParent

Three processes: `parent` (root), `pre` (before the login, and the TLS handler after
it), `post` (the session). `pc` says where each is, `cred` what it may still do, `ends`
which ends of the private sockets it holds and `inbox` what can be read there: the
socket of an end nobody holds gives end-of-file, which ends a process. `sess` is each
process's copy of the session structure, copied at `fork()`. The parent's signals are
pending flags with the same alarm as the listener's. The dialogue knows four names
(anonymous, local, on the user list, one that PAM refuses). `PrivParent` continues
with the calls of the session (`op`): each is a request to the parent or to the TLS
handler and an answer in pieces; PASV, PORT, RETR, STOR and CHOWN are made of them.
With `async_abor_enable` a SIGURG can arrive in any of these calls (`HandleSigurg`): over
TLS the handler of the signal asks the TLS handler for a line in the middle of the
exchange (`urgent`), takes what comes first for its answer (`UrgentAnswered`), and the call
it interrupted goes on with what is left (`OutOfStep`).

* `NeverBug`: none of the assertions on sockets and descriptors fails. With
  `async_abor_enable` one of them does, "recv_len bigger than buffer", and only that one:
  urgent data in the middle of a private upload end the session with it.
* `SessionsRunAsTheirUser`: who reads what a client sends is not root and can start
  no process; the session runs as the account that was let in, in a jail if anonymous.
* `ForcedEncryptionHolds`: forced encryption is not got round, but by the account `ftp`
  when there are no anonymous logins: USER exempts it by its name and the login then is
  a local one (run `login_clear`: `LocalLoginsAreEncrypted`).
* `AnswersMatchRequests`: the parent and the TLS handler are in the state a request needs,
  and without `async_abor_enable` an answer belongs to the request that waits for it.
* `PamSessionIsClosed`; `NobodyLingers`: when the client is gone, all processes of the
  connection end; without `async_abor_enable` also when the parent or the session is. With
  it a session that has died of a misread answer can leave the TLS handler in the read of
  a line, where only the client's going ends it.

`TimeoutKicksOff` fails with a data connection stalled over TLS (run `login_stall`).
Assumption: per-user config files leave the tunables that `conf` holds alone.

### Files

Each session has a state record (`at` is the system call it is about to make); a file
is known by inode, so a name may change its meaning while a transfer runs. A chunk
carries the command that sent it. Commands: RETR, STOR, APPE, STOU, REST, DELE,
RNFR/RNTO, MKD, RMD, CWD, SITE CHMOD, with the checks of `access.c`, the tunables for
anonymous users, the locks, `delete_failed_uploads`, and one log entry per command
written in two halves.

With `lock_upload_files` no transfer sees or leaves the work of two writers
(`LockedTransfersAreWhole`); an anonymous session writes to files only that its own
command has made (`AnonymousNeverOverwrites`), although STOU looks for a free name
first and opens it later; each command leaves one whole log line
(`LogTellsEachCommandOnce`); whoever sleeps for a lock sleeps for a session at work, and
no circle of waits closes (`WaitsEndAtWork`). That a lock is granted in the end is not
claimed, and not true: readers that follow one another starve a writer, as the manual
warns of `lock_upload_files` (`vsftpd.conf.5:297-301`). Known limit:
`delete_failed_uploads` unlinks by *name*, which may meanwhile be another session's file.

### Commands and Transfer

`Commands` follows bytes: they arrive in pieces (`wire`, `sock`), are peeked and read up
to a line end (`str_netfd_alloc`), become upper-case command and argument, pass
`cmds_allowed` and `cmds_denied` and reach a handler whose reply is bytes again
(`told`). `ControlConnectionInStep` compares both ends with an independent reading of
the byte streams: what the client sent as lines is what is carried out, in order, and
a client that reads replies by the rules of FTP counts one final reply per command,
whatever names and messages the replies quote. `DataAddressIsTheClients`: after any
sequence of PORT, EPRT, PASV and EPSV over IPv4, IPv6 and mapped addresses the server
connects only to the client, not below port 1024, never has both modes, and `EPSV ALL`
lasts. Known limits: EPRT is not refused after `EPSV ALL`; a listing over the control
connection (STAT) writes names as they are, so it is left out of the comparison.

`Transfer` moves one file in the four ways of `ftpdataio.c` (binary by sendfile or by
read and write, ASCII in both directions), every system call moving as much as it
likes, with errors and a file cut short. `TransfersConvertExactly`: what has arrived
is a prefix of the conversion of the whole file, all of it on success, counted
rightly, and no buffer is outgrown (`SecbufAlloc` is the page arithmetic of
`secbuf.c`).

### Sandbox and Credentials

`Sandbox`: supervisor (`sup`) and session (`child`) step by step from `fork()` over
`PTRACE_TRACEME`, options and the policy to the loop of traps; the session tries calls,
takes signals, writes to its memory; either process is killed at any point. On its way
the session changes its ids (`ChangeCredentials`), unless `run_as_launching_user`, and the
kernel then forgets the death signal it asked for before (`pdeath`).
`SessionsStayConfined`: no forbidden call runs, what a validator has read still holds
when the call runs, and nobody serves unwatched, except a session whose supervisor was
killed after that change of ids: it is detached and goes on, although
`ptracesandbox.c:585` means it to die with its supervisor. `TrapsAreAnswered`: a stopped session is continued or killed.

`Credentials`: the calls of `vsf_secutil_change_credentials` one by one on a process as
Linux keeps it (three user ids, three group ids, groups, permitted and effective
capabilities, root and working directory, limits), for the requests of its four
callers and every combination of faults of the host. `CredentialsAreAsAsked`: it ends
only for a fault that stands in the way of the request, and otherwise leaves exactly
what was asked for. `Login` uses the same function as one step (`ChangeCredentials`).

### The libraries

* `Buffers`: `str.c` with the memory of each string (what lies behind the end, what was
  allocated and never written) next to its value; `BuffersHoldStrings` ties the two.
* `Hash`: the chains of `hash.c` as nodes at addresses. `HashIsAMap` is a refinement:
  `INSTANCE Map WITH map <- what hash_lookup_entry answers`, and the abstract
  specification `Map!Spec` is the property (proved in `StandaloneProofs`). `Standalone` uses such maps.
* `Listing`: the filter, the sorted list, the recursion and the buffer of `ls.c` while
  others remove entries. `ListingShowsWhatMatches` compares with a definition of
  matching that is not the code's. After a `*` the matcher takes the last place of the
  next text, so it misses names with some filters: the property promises completeness
  for plain filters only, soundness for all.
* `Addresses`, `Metadata`: IPv4 and IPv6 texts, number lists of PORT; MDTM in both
  directions and time zones (with the sign turned for TZ), permissions and dates of a
  listing, CHMOD and UMASK texts, REST sizes. `ArgumentsMeanWhatTheySay` compares each
  with what the notation means, except an IPv6 text that ends in "::": of its missing
  zeros `ipaddrparse.c` writes only the first, and the rest of the address is whatever the
  static buffer held before. The zone is fixed when the session starts.
* `ParseConf`: defaults, command line, file, reload. `ConfigurationIsWhatWasGiven`: each
  setting has the value of the last line that names it and is right, or its default.

## 3. Runs

| Run | Properties | Bounds |
|---|---|---|
| `update` | `FineIsFine` `NeverStuck` `VersionsGrow` `KeptUpToDate` | 3 releases; a mod, a directory, two files in it with a common prefix; all gentle histories; 2 faults for lasting ones |
| `update_races` | `FineIsFine`, violated | 2 paths, `publish`, `truncate`, `readme`, no fault |
| `update_cut` | `FineMeansWhole`, violated | 2 paths, 1 fault, `cut` |
| `client` | `CallsKeepApart` `SuccessIsComplete` `CallsReturn` `RepliesReachTheCaller` `InstallerStartsWhole` `InstalledPacksAreWhole` | 2 calls of 4 kinds, both modes, faults of 4 kinds (`Faults`); replies of 0, 1 and 3 characters read 2 at a time; 2 installers (`Installers`), 2 artifacts; 4 entries of a pack, add-ons of 2 and 1 files, 2 failures (`MaxBreaks`), any number of attempts |
| `session_uins` | `NeverBug`, violated | a session as in `sandbox`, `UinsDisturbed` |
| `login` | `NeverBug` `SessionsRunAsTheirUser` `ForcedEncryptionHolds` `AnswersMatchRequests` `PamSessionIsClosed` `NobodyLingers` | 11 configurations, one with `async_abor_enable`, 5 lines (`MaxLines`) |
| `login_stall` | `TimeoutKicksOff`, violated | 1 configuration with TLS, 6 lines, `DataStalls` |
| `login_clear` | `LocalLoginsAreEncrypted`, violated | 1 configuration with TLS, without anonymous logins, 6 lines |
| `files` | `LockedTransfersAreWhole` `LogTellsEachCommandOnce` `AnonymousNeverOverwrites` `WaitsEndAtWork` | a local and an anonymous session, 2 and 1 commands (`MaxCommands`), uploads of 1 chunk, 4 inodes (`MaxInodes`) |
| `wire` | `ControlConnectionInStep` `TransfersConvertExactly` `DataAddressIsTheClients` | 2 client lines of 55 kinds (`MaxLines`), those in `Torn` in pieces, line limit 11 (`MaxLine`), 1 remembered directory (`MaxVisit`), 4 kinds of sessions; streams of up to 4 bytes, buffer of 3 (`DataBufsize`), pages of 4 |
| `sandbox` | `NeverBug` `SettledBetweenCommands` `FailedUploadsAreDeleted` `SessionsEndWhenStalled` `SessionsStayConfined` `CredentialsAreAsAsked` `TrapsAreAnswered` | a session of 4 commands, 2 ahead; 5 configurations of the sandbox, 36 calls; all requests of the four callers, all sets of faults |
| `text` | `NeverBug` `CountersMatchProcesses` `MaxClientsHolds` `MaxPerIpHolds` `ZombiesAreReaped` `BuffersHoldStrings` `ListingShowsWhatMatches` `ArgumentsMeanWhatTheySay` `ConfigurationIsWhatWasGiven` `HashIsAMap` | a listener with 2 pids, 2 addresses, configs (1,2) and (0,1); 2 strings of up to 3 characters; 4 keys in 2 buckets; 7 nodes, all filters of 3 characters; address texts of 5 pieces; 8 file contents, 2 edits (`MaxEdits`); 3 requests (`MaxRequests`), days of 3 hours of 3 minutes |

Why the bounds are enough to be interesting. Listener: with two pids one child dies
and its pid is used again while another is being recorded, and limit 1 is below the
number of children. Updates: with three releases a client can skip one, the shortest
history in which merging happens at all; every order of add, change, remove and
return of a path is among them. Two faults allow a failed retry. Client: whatever
one call leaves behind meets the next one; a read is shorter than a reply; an
installation that failed is tried again and fails again, or is forced. Session:
four commands are a mode, a transfer, an ABOR and a following command, or two complete
transfers. Login: five lines are a login over TLS with PROT and a command after it, or
a failed login and another one; between them the configurations take every branch on
a tunable. Files: two sessions meet on every pair of system calls. Wire: a command
meets what the one before it left behind; a buffer of three bytes puts CR and LF on
both sides of its end. Sandbox: a call of every kind the policy tells apart. Text: a
bucket holds up to three keys, so that the first, a middle and the last one go; the
longest address texts have more bytes than `AddrLen`. The scaled calendar keeps
what matters, an offset across midnight with hours and minutes; `AddrLen`, `ConfMax`
and `SizeDigits` stand for 16 bytes, `VSFTP_CONF_FILE_MAX` and 15 digits.

TLC's deadlock check is off where the system may stop: a session ends, calls have
been made, a hung or dead installer stays so (the liveness properties say which of
these are allowed).

What the violations show. `update_races`: a release published during an update, a
cut list or a lost version reply is recorded as the latest release without its files.
`update_cut`: so is a release with a file that ended early.
`session_uins`: SITE UINS without a data connection dies of an assertion.
`login_stall`: over TLS a data timeout waits for the process that is stuck in the very
transfer that timed out, and the client is never dropped. `login_clear`: with
`anonymous_enable=NO` the local account `ftp` logs in with its password in the clear though
`force_local_logins_ssl` is on.

### Fairness

* Listener: weak fairness of its own steps, and a running alarm fires. Nothing is
  assumed of clients, children or the operator.
* UpdatePack: the user starts the installer again and its thread goes on. For
  `FetchInstructions`, enabled whenever `pc = "fetch"`, weak fairness is written as
  `[]<>(pc # "fetch")`.
* Client: the JVM runs every thread, the server goes on; the reader's thread blocks
  only when nothing comes; the bootloader's HTTP connections have timeouts. No
  fairness of the accept timeout, of the user or of an installation.
* Session: the process runs, a running alarm fires, `accept` and `connect` return
  (both have timeouts in `sysutil.c`). Nothing is assumed of the client or of the
  acknowledgement a lingering `close()` waits for.
* Login: each process runs, the idle alarm fires, and unless `DataStalls` the TLS
  handler's data call returns. Nothing is assumed of the client.
* Files: no property needs any, and how long the holder of a lock takes is left open.
* Sandbox: both processes run; nobody has to kill or to signal.

## 4. Proofs

Each theorem has the form `Spec => []Inv` (or an action property, or a refinement), is
proved from an inductive invariant, and holds for every value of the constants that
satisfies the named assumptions. The bounds of the models are constants like the
others: what is proved holds for any number of commands, failures, releases, pids.

| Theorem | States | Inductive invariant |
|---|---|---|
| `StandaloneProofs`: `ListenerTypes`, `ListenerNeverBugs`, `ListenerCounts`, `ListenerMaxClients`, `ListenerMaxPerIp` | `TypeOK`, `NeverBug`, `CountersMatchProcesses`, `MaxClientsHolds`, `MaxPerIpHolds` | `IInv` |
| `StandaloneProofs`: `ChainsAreInOrder`, `HashRefinesMap` | the invariant itself, the refinement `HashIsAMap` | `HInv` |
| `SessionProofs`: `SessionNeverBug`, `SessionSettled`, `SessionDeletesFailedUploads` | `NeverBug`, `SettledBetweenCommands`, `FailedUploadsAreDeleted` | `SInv` |
| `PrivParentProofs`: `LoginsRunAsTheirUser`, `PamSessionsAreClosed`, `ForcedEncryptionIsKept` | `SessionsRunAsTheirUser`, `PamSessionIsClosed`, `ForcedEncryptionHolds` | `LoginInv` |
| `PrivParentProofs`: `NoBugIsReached`, `AnswersBelongToRequests` | `NeverBug`, `AnswersMatchRequests` | `Whole`, without `async_abor_enable` |
| `SandboxProofs`: `SandboxConfines` | `SessionsStayConfined` | `BoxInv` (`Watched` or `Orphaned`) |
| `SandboxProofs`: `CredentialsChangeAsAsked` | `CredentialsAreAsAsked` | `CredInv` |
| `CommandsProofs`: `ConnectsOnlyToItsClient` | the action property `DataAddressIsTheClients` | `WayInv` |
| `FilesProofs`: `TransfersAreWhole`, `LogIsWhole`, `AnonymousKeepsOff`, `NoCircleOfWaits` | `LockedTransfersAreWhole`, `LogTellsEachCommandOnce`, the action property `AnonymousNeverOverwrites`, `WaitsEndAtWork` | `FInv` |
| `InstallProofs`: `PacksAreInstalledWhole` | `InstalledPacksAreWhole` | `Vouched` (`InstallInv` and `Lates` unless `doubt = "late"`) |
| `InstallProofs`: `SuccessMeansComplete`, `CallsAreApart` | `SuccessIsComplete`, `CallsKeepApart` of `FtpClient` | `FtpInv`, `FtpInv /\ Apart` |
| `UpdatePackProofs`: `RecordedVersionsGrow` | the action property `VersionsGrow` | `VersionInv` |

### Listener

Any finite set of pids, any addresses and any config files (`PidsFinite`, `NoneIsNew`,
`ConfigsAreTunables`). `IInv == TypeOK /\ NeverBug /\ Remembered /\
CountersMatchProcesses /\ Ranked`. `Remembered` says that `pid_ip` holds exactly the
unreaped children, except the one just forked, with their addresses: without it
nothing is known about the entry that reaping finds. `Ranked` is what makes limits
checked on copied counters work: among the unreaped children at most n have a copied
counter of at most n (in total and per address). A child that passes the check has a
counter within its limit L, and at most L children have one, whatever has been
reloaded, forked or reaped since. Counting steps rest on `CardPids`, steps that touch
neither counters nor processes are handled together (`Quiet`).

### Hash table

Any keys, hash function, positive number of buckets and set of addresses
(`HashAssumption`). `HInv` says that `next` and `prev` of neighbours agree (`Linked`), a
bucket points to the first node of its own chain (`Headed`), no key is there twice
(`OnceEach`), and that there is a *rank* of the nodes, a natural number that falls along
`next` (`Chains`): chains end, and do not run in circles. `hash_get_node_by_key` is a
walk along pointers; that it finds the node of its key, wherever in the chain, is an
induction on the rank. The provers cannot instantiate an induction theorem whose
parameter is an operator, so the induction is on a *set*: the nodes from which the
walk goes wrong, if any, include one of least rank, and its neighbour gives the
contradiction. With it what `hash_lookup_entry` answers is a function of the nodes in
use alone (`Lookups`), and each operation is a step of `Map`.

### Session

Any number of commands and of lines sent ahead, under `~UinsDisturbed` (the condition
of section 2; without it `NeverBug` is false, run `session_uins`). A signal handler
interrupts a command at any place that may block. The invariant therefore speaks of
`Here`, the place the process is at or will return to when the pending signals have been
looked at, and ties to it the data descriptor and its handler (`Descriptor`), the open
file, the alarm, the replies owed and what is on disk.

`ConnectsOnlyToItsClient` is about module `Commands`, for any lines, cut up in any way, any
tunables and any of its other constants; `AddressAssumption` says that the two ends of a
socket have addresses of one family, as `getpeername()` and `getsockname()` of the same
descriptor do, and that PORT parses a number. What a handler may do to the data address
and the listener is stated once (`Careful`) and shown of each handler; the lines it
gets may be anything. `WayInv` is what the session then remembers between commands.

### Login and helpers

Every configuration that the sanity checks of `main` let through, any number of lines,
`DataStalls` or not. `LoginInv` has which processes can be where at the same time
(`Together`), as whom each runs and what it may still do (`Identity`), what the parent
has decided about the login (`LetIn`), that the first private socket carries one
request and then its answer (`Exchange`), and that the flags of the child before login
are still those of its request when the parent takes them over (`Encryption`). The last
two need each other: a child that could go on talking TLS between its request and the
answer would leave the parent with stale flags. A SIGURG changes none of this: it is the
business of the session and of its own sockets, and `LoginInv` holds with it.

`NoBugIsReached` and `AnswersBelongToRequests` say `~conf.async_abor_enable => ...`: the
nested exchange of `handle_sigurg` breaks what they are about. `Whole` adds `CallInv`
about the two private sockets of the session. While the session
process waits, either its request is under way and nothing has come back, or the
request is gone and one whole answer to it has come; the other socket is silent, and
between two calls both are (`OneCall`). From the state of a helper the session process
can therefore tell its own: the TLS handler has a data connection from an accepted
handshake to its closing, and the session process is then in a transfer over TLS
(`OneConnection`), which is why no handshake finds one; the parent's listener is as the
last answer said (`OneListener`), which is why it can accept. All this ends with a
timeout: a session process that says goodbye in the middle of a call (`dying`) leaves a
second request, for that message, behind the first; no more is claimed then than that
it is the only one. `NoSockets` says that nothing is open before
`vsf_two_process_start`; with `Identity` it excludes the other calls of `bug()`.

### Sandbox and credentials

`SandboxConfines`: any setting of the tunables and any calls; `is_anonymous` is set, as
`main()` does before the policy is made (`SandboxConstants`). `BoxInv` says where the
supervisor may be for each place of the session (`Watched`): `is_exit` tells the two
traps of a call apart although nothing but their number does; and while a call is let go
on, `get_action` still grants it, because what a validator has read cannot change before
the call runs (the session has one thread and shares no memory). Once the supervisor was
killed (`Orphaned`) the session is dead or has changed its ids; with
`run_as_launching_user`, which leaves them alone, it is dead or never begins.

`CredentialsChangeAsAsked`: any host and any requests as the four callers make them
(`RequestsFromTheCallers`: the target is not root, and who asks for `change_euid` asks
for no capabilities). `CredInv` says at each step which ids and capabilities the process
has (`Identity`), which way it has taken (`Route`) and what it has already done (`Place`,
`Passed`): each call finds the privilege it needs because none before has given it up.

### Files

Any number of sessions, anonymous or not, any tunables, arguments, files and chunks;
of the constants only that no session is called `"none"`, the mark of a free lock, and
that the two files of the initial tree have inodes (`FilesConstants`). One invariant,
`FInv`, carries the four theorems:

* `Locked`: who has a lock is in a transfer on that inode, from the lock to the close,
  for reading or for writing as its command says; with `lock_upload_files` the reverse
  holds too, and a write lock excludes every other lock. Names take no part in it, so
  RNTO, DELE and RMD of other sessions cannot disturb it. A session has one lock on a file
  and waits for none while it has it, but for the log's, whose holder waits for nobody:
  that is why waits end (`NoCircleOfWaits`).
* `Undisturbed`: how far a transfer has come. `Written` says of an upload that its file
  is what the file was when it was positioned, with the chunks sent so far written over
  it and holes up to a seek past the end; `Read` says the same of a download. At the end
  they become what `LockedTransfersAreWhole` says.
* `Own`: the open file of an anonymous upload bears the mark of the command it is in.
* `Logs`: a command has no half line in the log while its entry is open, one while it is
  being written, then two; under the lock of the log the halves come in pairs.

A step belongs to one session, and what it may do to the others is stated once
(`OthersUndisturbed`): the files that are there stay, and only a writer with the lock
changes what one holds. All commands up to the lock are one case (`Opening`), which
each of them is shown to be.

### FTP client

Any number of calls, any kinds of call, both transfer modes, any faults
(`FtpAssumption`). The difficulty of `SuccessMeansComplete` is the field `success`, which
every data thread writes for whatever listener it has. `FtpInv` says whose it is: as long
as no call has failed, a `success` that is set during a download is that of this download
(`Current`). That rests on the control connection being in step (`InStep`): the first
answer to a command comes once, so a call is told to wait by its own 150. It is not
simply one reply after the other: `showReadMe` does not wait, so its final reply may
lie before the answer to the next command, and a VERS that takes it leaves its own
behind. In passive mode a call may also read an abandoned channel in the command thread
(`"self"`); it then sets `success` before it has asked for its file, and `Dead` says that
such a download gets no 150 any more and never returns a success. `OneListener` excludes
that two data threads report for the same call.

`CallsAreApart` needs more than that, but only while every call waits: then the two ends
take turns (`TurnByTurn`). For each place of the command thread `Exchange` says exactly
what is in the two queues and what the server is doing, at most one completion thread is
at work, that of the current call, and the lock of the reader tells who is in `readLine`.
A call that is not waited for stays one (`WaitsKept`), which makes
`Apart == EachWaits => TurnByTurn` inductive. A refused PORT or
SITE UINS leaves a channel, and nothing else, to the next call (`NotBegun`).

### Installation and update

`PacksAreInstalledWhole`: any content of a pack, any add-ons, any number of failures.
The assumption (`InstallAssumption`) is on what the maintainer packs: the archive ends
with its only `modpack` and `ver`, and no file belongs to two archives. Two chains of
reasoning meet in `InstallInv`. A whole `modpack` means a whole pack, because it comes
last and is unpacked only into a directory without the pack's content (`Marked`,
`Unpacking`). And a manifest names whole files only: the one in memory follows every
file that is removed and comes to include an add-on when all of it was unpacked
(`Changing`, `UnpackingAddon`), and the one on disk is a copy (`Recorded`), except in the
cases the property excepts. Of an `unTar` that outlives its installation the same is known
as of one at work, as long as the window waits (`Lates`, with the `PackLeft` of both); an
installation that begins beside it raises `doubt`.

`RecordedVersionsGrow`: any history, any number of releases and faults, with releases
published at any time, files and lists cut short, commands refused, and the read-me's
reply taken for a version. `VersionInv` says that everything recorded was once the
latest release, or null; the property makes no claim after a null (`lost`).

### Only model-checked

* What is, or includes, liveness: `ZombiesAreReaped`, `KeptUpToDate`, `CallsReturn`,
  `RepliesReachTheCaller`, `InstallerStartsWhole`, `StalledSessionsEnd`, `NobodyLingers`,
  `TrapsAreAnswered`. Fairness is out of the prover's reach.
* What folds and recursive definitions compute: `FineIsFine`, `NeverStuck` (the merge of
  `McUpdate`), `BuffersHoldStrings`, `ListingShowsWhatMatches`,
  `ArgumentsMeanWhatTheySay`, `ConfigurationIsWhatWasGiven`, `ControlConnectionInStep`,
  `TransfersConvertExactly`. These are inductions over data, or rest on RECURSIVE
  operators.

## 5. Abstractions

Paths, addresses and pids are model values; file contents are the release or the
command that brought them. Reply texts and bandwidth limits are left out. In
`UpdatePack` a cut list of instructions is cut between lines, publication of a release
is one step, and `mkdirs` makes one missing parent. Comment lines (`# unstatable
file`) do not occur because a listed mod exists.

In `FtpClient` a 421 is the answer to the first command of a call: RETR and SITE UINS
follow a PORT at once, and a timeout of the data connection is one of the aborts. The
`reconnect()` after it is not followed. In `PrivParent` the replies inside a command are
part of the step before them (150, 425 and 522 of a transfer are one RESP), a failed
GETLINE ends the session without the exchange for its message, and of the ways in which a
nested exchange of `handle_sigurg` cuts answers in two those are not followed that happen
to look right. In `Commands` a character is a token, and frequent words are one token;
there SITE UINS has a data connection or no data address (Session has the case between, run
`session_uins`). PR_SET_PDEATHSIG is left out of `Login`: the kernel forgets it at the `setuid()`
that follows. The kernel's rules on ids, capabilities, locks, traps and sockets are
modelled from how the code relies on them. Mutants (`...Early`, `...Always`, ...) stand
before the definition they deform; no specification uses them.

### Not modelled

* The Swing windows and dialogues, the HTTP mode of the server (`handle_http`),
  `setproctitle`, `tcpwrap.c` (one question to libwrap), certificates and ciphers:
  presentation, or a library's behaviour.
* The wrappers of `sysutil.c` and `sysstr.c` that make one system call each and have
  no caller in a module.
* The profiles of the Mojang launcher that an installation adds, and the import of an
  unnamed `rhaokar_light` directory beyond the file `modpack` it writes.
* `pasv_addr_resolve` (`main.c:124-132`), which replaces `pasv_address` by what a name
  server says.
* `.pc/`: copies that quilt keeps of sources before each patch; they are not compiled.
* Descriptors that `mcupdate.c:107` never closes: `McUpdate` is a function of the
  history and opens nothing.

## 6. Plan

Done: all modules of section 2, the proofs of section 4.

Next: abstract specifications, a pack as one register "installed version = files",
implemented by UpdatePack under `Gentle` and `Lasting`; a limited resource, implemented
by Standalone.
