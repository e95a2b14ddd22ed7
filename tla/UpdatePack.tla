----------------------------- MODULE UpdatePack -----------------------------
(***************************************************************************)
(* Updating an installed modpack: the client's "Login" and "Updater"       *)
(* threads (InstallerWindow.LoginAndCheckUpdate, InstallPanel.updatePack)  *)
(* against the server's SITE VERS and SITE UINS (McUpdate), while the      *)
(* maintainer publishes releases and the client may fail or die anywhere.  *)
(*                                                                         *)
(* What survives the client is its disk: the pack's files, the file "ver"  *)
(* in the pack's directory and the pack's entry in modpacks.json.          *)
(***************************************************************************)
EXTENDS McUpdate

CONSTANTS
    Published,     \* the histories a run considers
    Faulty,        \* the histories during which the client can fail
    Events,        \* which of the events below can happen
    MaxFaults      \* bound: cut or failed transfers, failed commands and crashes

ASSUME UpdateAssumption ==
    /\ Published \subseteq Histories /\ Faulty \subseteq Histories
    /\ Events \subseteq {"publish", "truncate", "readme", "cut", "refuse"}
    /\ MaxFaults \in Nat

Partial == -1      \* content of a file whose download failed
Cut == -2          \* content of a file that ended early and was taken for whole
Null == 0          \* a version that is Java's null
Torn == -1         \* modpacks.json is truncated and not yet written

VARIABLES
    history,       \* the releases, history[p][r] as in McUpdate
    latest,        \* /DATA/VERSION/<pack>
    disk,          \* the pack's directory on the client
    ver,           \* the file "ver"
    reg,           \* the version of the pack in modpacks.json
    pc,            \* where the client's thread is
    version,       \* Pack.version in the client's packList
    instr,         \* updateInstructions still to be processed
    faults,        \* number of faults so far
    lost           \* an updatePack has had no version in answer to SITE VERS

files == <<disk, ver, reg>>
vars == <<history, latest, disk, ver, reg, pc, version, instr, faults, lost>>

Served(p) == history[p][latest]

Init ==
    /\ history \in Published
    /\ latest = 1
    /\ disk = [p \in Paths |-> history[p][1]]
    /\ ver = 1 /\ reg = 1
    /\ pc = "off" /\ version = 1 /\ instr = <<>>
    /\ faults = 0 /\ lost = FALSE

Goto(from, to) == pc = from /\ pc' = to

\* A command or a transfer that fails, within the bound.
Fault == history \in Faulty /\ faults < MaxFaults /\ faults' = faults + 1

-----------------------------------------------------------------------------
\* The maintainer puts the next release online.
Publish ==
    /\ latest < Releases
    /\ "publish" \in Events \/ pc = "off"
    /\ latest' = latest + 1
    /\ UNCHANGED <<history, files, pc, version, instr, faults, lost>>

\* InstallPanel.initialize: modpacks.json becomes packList.  Gson turns the empty
\* file into null, and the thread dies of it.
Initialize ==
    /\ pc = "off"
    /\ pc' = IF reg = Torn THEN "dead" ELSE "check"
    /\ version' = IF reg = Torn THEN Null ELSE reg
    /\ instr' = <<>>
    /\ UNCHANGED <<history, latest, files, faults, lost>>

\* checkUpdate compares the answer to SITE VERS with packList.  Any other reply
\* than 216 is a null, and counts as up to date.
CheckUpdate ==
    /\ pc = "check"
    /\ \/ /\ pc' = IF version = latest THEN "write" ELSE "outdated"
          /\ UNCHANGED faults
       \/ /\ "refuse" \in Events /\ Fault
          /\ pc' = "write"
    /\ UNCHANGED <<history, latest, files, version, instr, lost>>

\* fetchUpdateInstructions: an unknown version is answered with 550.  What the
\* data thread has read when the reply to the transfer arrives is the answer.
FetchInstructions ==
    /\ pc = "fetch"
    /\ IF version \in 1..latest
       THEN /\ pc' = "cwd"
            /\ \E all \in {UpdateInstructions(history, version, latest)} :
                   \E n \in IF "truncate" \in Events THEN 0..Len(all) ELSE {Len(all)} :
                       instr' = SubSeq(all, 1, n)
       ELSE pc' = "failed" /\ UNCHANGED instr
    /\ UNCHANGED <<history, latest, files, version, faults, lost>>

\* CWD <pack>
Cwd ==
    /\ Goto("cwd", "apply")
    /\ UNCHANGED <<history, latest, files, version, instr, faults, lost>>

\* UINS, CWD, PostDownload or, with an IOException, VERS fails: updatePack returns
\* false.
StepFails ==
    /\ pc \in {"fetch", "cwd", "post"}
    /\ pc' = "failed"
    /\ Fault
    /\ UNCHANGED <<history, latest, files, version, instr, lost>>

\* CWD is answered with 421: updatePack reconnects and starts over.
TimeoutOnCwd ==
    /\ Goto("cwd", "fetch")
    /\ Fault
    /\ UNCHANGED <<history, latest, files, version, instr, lost>>

-----------------------------------------------------------------------------
(* One instruction.                                                        *)

Children(d) == {p \in Paths \ {d} : Parent[p] = d}
HasParent(dir, p) == Parent[p] = p \/ dir[Parent[p]] # Absent

\* File.delete: a directory goes only when it is empty.
CanDelete(p) == \A q \in Children(p) : disk[q] = Absent
Deleted(p) == IF CanDelete(p) THEN [disk EXCEPT ![p] = Absent] ELSE disk

Proceed == pc' = pc /\ instr' = Tail(instr)
Fail == pc' = "failed" /\ instr' = instr

\* downloadFile into directory "dir": the file is opened, and emptied, when the
\* data channel opens; after a refused RETR it waits for a reply that never comes.
\* A full download overwrites what was there.  A failed read or write leaves a
\* partial file and fails; an early end of the data is taken for the end of the file.
DownloadFile(dir, p) ==
    \/ /\ Served(p) = Absent
       /\ pc' = "hung"
       /\ disk' = dir
       /\ UNCHANGED <<instr, faults>>
    \/ /\ Served(p) # Absent /\ ~HasParent(dir, p)
       /\ Fail
       /\ disk' = dir
       /\ UNCHANGED faults
    \/ /\ Served(p) # Absent /\ HasParent(dir, p)
       /\ \/ /\ Proceed
             /\ disk' = [dir EXCEPT ![p] = Served(p)]
             /\ UNCHANGED faults
          \/ /\ Fault /\ Fail
             /\ disk' = [dir EXCEPT ![p] = Partial]
          \/ /\ "cut" \in Events /\ Fault /\ Proceed
             /\ disk' = [dir EXCEPT ![p] = Cut]

\* A directory that may exist already; mkdirs makes the missing parents too.
MakeDir(dir, p) ==
    /\ disk' = [q \in Paths |-> IF q = p \/ (q = Parent[p] /\ dir[q] = Absent)
                                THEN 1 ELSE dir[q]]
    /\ Proceed
    /\ UNCHANGED faults

Create(dir, l) ==
    CASE l.type = "f" -> DownloadFile(dir, l.path)
      [] l.type = "d" -> MakeDir(dir, l.path)
      [] OTHER -> Fail /\ disk' = dir /\ UNCHANGED faults

\* '-': the result of delete() is ignored.
Delete(l) ==
    /\ l.op = "-"
    /\ Proceed
    /\ disk' = Deleted(l.path)
    /\ UNCHANGED faults

\* '+'
Add(l) == l.op = "+" /\ Create(disk, l)

\* '*': delete, then as '+'; a directory that is not empty cannot be replaced.
Replace(l) ==
    /\ l.op = "*"
    /\ IF disk[l.path] # Absent /\ ~CanDelete(l.path)
       THEN Fail /\ UNCHANGED <<disk, faults>>
       ELSE Create([disk EXCEPT ![l.path] = Absent], l)

ProcessInstruction ==
    /\ pc = "apply" /\ instr # <<>>
    /\ \/ Delete(Head(instr))
       \/ Add(Head(instr))
       \/ Replace(Head(instr))
    /\ UNCHANGED <<history, latest, ver, reg, version, lost>>

-----------------------------------------------------------------------------
\* CWD .. and doPostDownload, which ends in showReadMe.
PostDownload ==
    /\ Goto("apply", "post") /\ instr = <<>>
    /\ UNCHANGED <<history, latest, files, version, instr, faults, lost>>

\* Mutant: the update goes on after an IOException, with no version.
GetLatestVersionMaybeNull ==
    /\ Goto("post", "ver")
    /\ \/ version' = latest /\ UNCHANGED faults
       \/ version' = Null /\ Fault
    /\ UNCHANGED <<history, latest, files, instr, lost>>

\* SITE VERS is asked again.  Any other reply than 216 gives null, and the update
\* goes on with it: a refusal, or the readme's final reply when that is still
\* under way.
GetLatestVersion ==
    /\ Goto("post", "ver")
    /\ \/ version' = latest /\ UNCHANGED <<faults, lost>>
       \/ /\ \/ "readme" \in Events /\ UNCHANGED faults
             \/ "refuse" \in Events /\ Fault
          /\ version' = Null /\ lost' = TRUE
    /\ UNCHANGED <<history, latest, files, instr>>

\* The file "ver" is written; a failure to write it is ignored.
WriteVer ==
    /\ Goto("ver", "write")
    /\ \/ ver' = version /\ UNCHANGED faults
       \/ Fault /\ UNCHANGED ver
    /\ UNCHANGED <<history, latest, disk, reg, version, instr, lost>>

\* Mutant: nothing is written, and nothing goes on, after a failed update.
TruncateModpacksIfOk ==
    /\ pc \in {"write", "outdated"}
    /\ pc' = IF pc = "outdated" THEN "torn_outdated" ELSE "torn"
    /\ reg' = Torn
    /\ UNCHANGED <<history, latest, disk, ver, version, instr, faults, lost>>

\* writeFiles, after the check and after the updates, failed ones included:
\* FileWriter empties modpacks.json ...
TruncateModpacks ==
    /\ pc \in {"write", "failed", "outdated"}
    /\ pc' = IF pc = "outdated" THEN "torn_outdated" ELSE "torn"
    /\ reg' = Torn
    /\ UNCHANGED <<history, latest, disk, ver, version, instr, faults, lost>>

\* ... and Gson writes packList.  The user then clicks Proceed to begin the
\* update, or leaves.
WriteModpacks ==
    /\ pc \in {"torn", "torn_outdated"}
    /\ pc' = IF pc = "torn" THEN "off" ELSE "fetch"
    /\ reg' = version
    /\ UNCHANGED <<history, latest, disk, ver, version, instr, faults, lost>>

\* The client is killed; packList and the instructions are gone.
Crash ==
    /\ pc # "off"
    /\ pc' = "off" /\ instr' = <<>>
    /\ Fault
    /\ UNCHANGED <<history, latest, files, version, lost>>

Client ==
    \/ Initialize \/ CheckUpdate \/ Cwd
    \/ ProcessInstruction \/ PostDownload \/ GetLatestVersion
    \/ WriteVer \/ TruncateModpacks \/ WriteModpacks

Next == Client \/ FetchInstructions \/ Publish \/ StepFails \/ TimeoutOnCwd \/ Crash

\* The user starts the installer again and again, and its threads go on.
\* FetchInstructions is possible whenever pc is "fetch", so that its weak fairness
\* says that the client does not stay there.
Spec == Init /\ [][Next]_vars /\ WF_vars(Client) /\ []<>(pc # "fetch")

-----------------------------------------------------------------------------
TypeOK ==
    /\ history \in [Paths -> [1..Releases -> 0..Releases]] /\ latest \in 1..Releases
    /\ disk \in [Paths -> {Cut, Partial} \cup 0..Releases]
    /\ ver \in 0..Releases /\ reg \in {Torn} \cup 0..Releases
    /\ pc \in {"off", "dead", "check", "outdated", "torn_outdated", "fetch",
               "cwd", "apply", "post", "ver", "write", "torn", "failed", "hung"}
    /\ version \in 0..Releases
    /\ instr \in Seq(Line)
    /\ faults \in 0..MaxFaults /\ lost \in BOOLEAN

\* The pack's files are those of release r, but for files that are there and ended early.
Matches(r) == \A p \in Paths \ Dirs :
                  disk[p] = history[p][r] \/ (disk[p] = Cut /\ history[p][r] # Absent)

\* "Everything fine. Please start the launcher.": when modpacks.json names the
\* latest release and no update is going on, the pack has exactly the files of that
\* release, each with its content unless its own last download ended early,
\* whatever else failed and whenever the client died before
\* (LoginAndCheckUpdate, updatePack, mcu_create_update_instructions).
FineIsFine == reg = latest /\ pc \in {"off", "check"} => Matches(latest)

\* "Everything fine. Please start the launcher." without that exception: every file
\* of the recorded release is there and whole (downloadFile).
FineMeansWhole ==
    reg = latest /\ pc \in {"off", "check"} => \A p \in Paths : disk[p] # Cut

\* Without a fault no update fails, hangs in downloadFile or leaves a mess:
\* the instructions can always be carried out in their order.
NeverStuck == faults = 0 => pc \notin {"failed", "hung"}

\* Until a SITE VERS at the end of an update is not answered, the version in the
\* file "ver", and the version that a running client goes on to write into
\* modpacks.json, are never replaced by an older one or by null (updatePack,
\* writeFiles).
VersionsGrow ==
    [][lost' \/ (ver' >= ver /\ (pc # "off" => version' >= version))]_vars

\* The modpack is kept up to date: once the faults are over, the client has the
\* latest release on its disk and on record, or it died while modpacks.json was
\* empty, or modpacks.json has no version any more since a SITE VERS went
\* unanswered (initialize, checkUpdate, updatePack, writeFiles).
KeptUpToDate ==
    <>[](\/ pc = "dead"
         \/ lost /\ Null \in {reg, version}
         \/ Matches(latest) /\ reg \in {latest, Torn})
=============================================================================
