------------------------------- MODULE Install -------------------------------
(***************************************************************************)
(* Installing a modpack and its add-ons: what the player does in the       *)
(* installer's window, and the "Installer" thread that cleans a directory  *)
(* up, unpacks the archives the server sends and records what is there.    *)
(* Transfers break off, files cannot be deleted or written, and the        *)
(* installer is killed, all at any step.                                   *)
(*                                                                         *)
(* One pack in one directory, which is also the installer's own, as it is  *)
(* for the first pack.  What survives the installer is that directory with *)
(* the pack's files, manifest.json and modpacks.json.                      *)
(***************************************************************************)
EXTENDS Integers, Sequences, Functions

CONSTANTS
    PackContent,     \* the directories and files of the pack's archive ...
    AddonEntries,    \* the entries of the archive of each add-on
    MaxBreaks        \* bound: operations that fail, and kills

Addons == DOMAIN AddonEntries
AddonFiles == UNION {Range(AddonEntries[a]) : a \in Addons}

\* ... which end with the files that say what it is.
PackEntries == PackContent \o <<"modpack", "ver">>

ASSUME InstallAssumption ==
    /\ MaxBreaks \in Nat /\ "pack" \notin Addons
    /\ PackContent \in Seq(STRING) /\ \A a \in Addons : AddonEntries[a] \in Seq(STRING)
    /\ Range(PackContent) \cap {"modpack", "ver"} = {}
    /\ Range(PackEntries) \cap AddonFiles = {}
    /\ \A a, b \in Addons : a # b => Range(AddonEntries[a]) \cap Range(AddonEntries[b]) = {}

NoManifest == [key |-> "none", list |-> <<>>]
\* A manifest.json that is empty is Java's null to Gson.
NullManifest == [key |-> "null", list |-> <<>>]
Listing(list) == [key |-> "list", list |-> list]

VARIABLES
    folder,          \* the files of pack and add-ons: "none", "partial", "whole";
                     \* and a file "modpack" that names another pack: "other"
    listed,          \* modpacks.json: "nofile", "without" or "with" the pack
    mfile,           \* manifest.json
    at,              \* what the player or the thread does
    inList,          \* packList has the pack
    mf,              \* the pack's entry in the map of manifests
    want,            \* the add-ons with "install" set
    ask,             \* first && !addonsOpenedOnce
    fresh,           \* downloadPack is part of this installation
    mine,            \* the Manifest downloadAddons works on
    what,            \* the archive being unpacked
    todo,            \* its entries still to come, or what cleanUp has still to delete
    unpacked,             \* downloadedFiles
    late,            \* unTar threads whose downloadArchive has returned
    lent,            \* the list a late unTar has left in downloadedFiles, with
                     \* success = true, since the download began; or nothing
    said,            \* history: how the last installation ended
    doubt,           \* history: why the directory may be in disorder (below)
    changing,        \* history: a change of add-ons is "no", "now" or "broken" off
    breaks           \* number of failures so far

(* doubt is "no"; "clean" after a cleanUp that was begun and did not get to  *)
(* its end; "update" after a failed update of a pack that was imported; and *)
(* "late" for good once an installation was begun beside a late unTar.      *)

thread == <<fresh, mine, what, todo, unpacked>>
others == <<late, lent>>
ivars == <<folder, listed, mfile, at, inList, mf, want, ask, thread, others, said, doubt,
           changing, breaks>>

IInit ==
    /\ folder = [f \in Range(PackEntries) \cup AddonFiles |-> "none"]
    /\ listed = "nofile" /\ mfile = NoManifest
    /\ at = "off" /\ inList = FALSE /\ mf = NoManifest /\ want = {} /\ ask = FALSE
    /\ fresh = FALSE /\ mine = <<>> /\ what = "pack" /\ todo = <<>> /\ unpacked = {}
    /\ late = {} /\ lent = <<>>
    /\ said = "nothing" /\ doubt = "no" /\ changing = "no" /\ breaks = 0

From(here, there) == at = here /\ at' = there
Break == breaks < MaxBreaks /\ breaks' = breaks + 1
Forgotten ==
    fresh' = FALSE /\ mine' = <<>> /\ what' = "pack" /\ todo' = <<>> /\ unpacked' = {}

\* writeFiles; UpdatePack has what becomes of a modpacks.json that is cut off.
WriteFiles == listed' = IF inList' THEN "with" ELSE "without"

-----------------------------------------------------------------------------
(* What is in the directory                                                *)

\* The name detectPack finds: it needs "ver", and takes a directory that has no
\* file "modpack" for another, old pack.
DetectPack ==
    CASE folder["ver"] = "none" -> "nothing"
      [] folder["ver"] # "none" /\ folder["modpack"] = "whole" -> "pack"
      [] OTHER -> "other"

\* registerRhaokarLightPack writes the file that is missing.
RegisterOldPack ==
    folder' = IF folder["ver"] # "none" /\ folder["modpack"] = "none"
              THEN [folder EXCEPT !["modpack"] = "other"] ELSE folder

\* checkDir(dir, 2)
CheckDir == \E f \in Range(PackContent) : folder[f] # "none"

-----------------------------------------------------------------------------
(* The window                                                              *)

\* checkUpdate: "check if the modpack is still present"; if not it is taken off the
\* list.
StillPresent == folder["modpack"] = "whole"

\* initialize and checkUpdate.  Without a modpacks.json the directory is looked into;
\* the manifest is read before the pack is found to be gone.
StartUp ==
    /\ From("off", "idle") /\ said' = "nothing"
    /\ LET found == CASE listed = "nofile" -> DetectPack
                      [] listed = "with" -> "pack"
                      [] listed = "without" -> "nothing"
       IN /\ mf' = IF found = "pack" THEN mfile ELSE NoManifest
          /\ inList' = (found = "pack" /\ StillPresent)
          /\ ask' = (found = "nothing")
          /\ IF found = "nothing" THEN UNCHANGED listed ELSE WriteFiles
    /\ IF listed = "nofile" THEN RegisterOldPack ELSE UNCHANGED folder
    /\ UNCHANGED <<mfile, want, thread, others, doubt, changing, breaks>>

\* beginWithInstallation: the server's list of packs comes, or is not there when
\* prepareInstall wants it.  The add-ons of the manifest are ticked.
OpenPanel ==
    /\ at = "idle"
    /\ \/ at' = "panel" /\ UNCHANGED breaks
       \/ at' = "stuck" /\ Break
    /\ want' = IF mf.key = "list" THEN DOMAIN mf.list ELSE {}
    /\ UNCHANGED <<folder, listed, mfile, inList, mf, ask, thread, others, said, doubt, changing>>

\* The panel with the add-ons, opened by the player or by begin.
ChooseAddons ==
    /\ From("panel", "panel") /\ want' \in SUBSET Addons /\ ask' = FALSE
    /\ UNCHANGED <<folder, listed, mfile, inList, mf, thread, others, said, doubt, changing, breaks>>

AbortPanel ==
    /\ From("panel", "idle")
    /\ UNCHANGED <<folder, listed, mfile, inList, mf, want, ask, thread, others, said, doubt,
                   changing, breaks>>

\* begin, with or without "Force reinstall".  Bound: after an installation beside a
\* late unTar no other is followed.
Begin(force) ==
    /\ doubt # "late" /\ From("panel", IF force THEN "clean" ELSE "detect") /\ said' = "nothing"
    /\ doubt' = IF late # {} THEN "late" ELSE IF force THEN "clean" ELSE doubt
    /\ todo' = IF force
               THEN PackContent \o <<"resourcepacks", "ver", "modpack", "manifest_json">>
               ELSE <<>>
    /\ UNCHANGED <<folder, listed, mfile, inList, mf, want, ask, fresh, mine, what,
                   unpacked, others, changing, breaks>>

\* Of a file that is being written when its thread ends only the beginning is there.
CutOff(running) == {[folder EXCEPT ![f] = "partial"] : f \in {Head(t) : t \in running \ {<<>>}}}
LateLists == {t.todo : t \in late}

\* The process ends, and what it was doing.
Ends ==
    /\ at' = "off" /\ inList' = FALSE /\ mf' = NoManifest /\ want' = {} /\ ask' = FALSE
    /\ changing' = IF changing = "now" THEN "broken" ELSE changing
    /\ Forgotten /\ late' = {} /\ lent' = <<>>

QuitInstaller ==
    /\ at \in {"idle", "panel", "stuck"} /\ Ends
    /\ folder' \in {folder} \cup CutOff(LateLists)
    /\ UNCHANGED <<listed, mfile, said, doubt, breaks>>

\* An update that does not get to its end: files of the pack are gone, or partial.
HalfUpdated ==
    /\ \E gone, cut \in SUBSET Range(PackContent) :
           folder' = [f \in DOMAIN folder |->
                         IF f \in gone THEN "none" ELSE IF f \in cut THEN "partial" ELSE folder[f]]
    /\ doubt' = IF doubt = "no" THEN "update" ELSE doubt

\* Killed while the thread works.
KillInstaller ==
    /\ at \notin {"off", "idle", "panel", "stuck"} /\ Break /\ Ends
    /\ \/ /\ folder' \in {folder} \cup CutOff(LateLists \cup (IF at = "extract" THEN {todo} ELSE {}))
          /\ UNCHANGED doubt
       \/ at = "import" /\ HalfUpdated
    /\ UNCHANGED <<listed, mfile, said>>

-----------------------------------------------------------------------------
(* cleanUp                                                                 *)

\* The add-ons are unpacked into resourcepacks and its like.
Under(name) == IF name = "resourcepacks" THEN AddonFiles ELSE {name}

\* deleteDirectory, or delete of a file.
Deleted(name) ==
    [f \in DOMAIN folder |-> IF f \in Under(name) THEN "none" ELSE folder[f]]

\* A directory that cannot be deleted has lost those of its files that can; a file
\* stays as it is.
NotDeleted(name) ==
    [f \in DOMAIN folder |->
        IF f \in Under(name) \ {"ver", "modpack"} /\ folder[f] # "none"
        THEN "partial" ELSE folder[f]]

\* One deletion after the other; nobody is told when one of them fails.
CleanUp ==
    /\ From("clean", "clean") /\ todo # <<>> /\ todo' = Tail(todo)
    /\ \/ /\ folder' = Deleted(Head(todo))
          /\ mfile' = IF Head(todo) = "manifest_json" THEN NoManifest ELSE mfile
          /\ UNCHANGED breaks
       \/ folder' = NotDeleted(Head(todo)) /\ UNCHANGED mfile /\ Break
    /\ UNCHANGED <<listed, inList, mf, want, ask, fresh, mine, what, unpacked, others, said,
                   doubt, changing>>

Cleaned == folder["ver"] = "none" /\ folder["modpack"] = "none" /\ mfile.key = "none"

Settled ==
    doubt' = IF doubt = "late" THEN "late" ELSE IF Cleaned THEN "no" ELSE "clean"

\* Mutant: the manifest in memory still has the add-ons that were deleted.
CleanedUpKeepsManifest ==
    /\ From("clean", "detect") /\ todo = <<>>
    /\ Settled /\ changing' = IF Cleaned THEN "no" ELSE changing
    /\ UNCHANGED <<folder, listed, mfile, inList, mf, want, ask, thread, others, said, breaks>>

CleanedUp ==
    /\ From("clean", "detect") /\ todo = <<>>
    /\ mf' = IF mf.key = "list" THEN Listing(<<>>) ELSE mf
    /\ Settled /\ changing' = IF Cleaned THEN "no" ELSE changing
    /\ UNCHANGED <<folder, listed, mfile, inList, want, ask, thread, others, said, breaks>>

-----------------------------------------------------------------------------
(* begin, after the directory was looked into                              *)

\* "This directory contains an unknown modpack", or another one: back to the panel.
Refused ==
    /\ From("detect", "panel")
    /\ DetectPack = "other" \/ (DetectPack = "nothing" /\ CheckDir)
    /\ RegisterOldPack
    /\ UNCHANGED <<inList, mf, want, ask, thread, others, said, mfile, doubt, changing, breaks>>
    /\ WriteFiles

\* The first installation shows the add-ons before it goes on.
AskForAddons ==
    /\ From("detect", "panel") /\ DetectPack = "nothing" /\ ~CheckDir
    /\ ask /\ ask' = FALSE
    /\ UNCHANGED <<folder, listed, mfile, inList, mf, want, thread, others, said, doubt, changing,
                   breaks>>

Unpack(archive, entries) ==
    what' = archive /\ todo' = entries /\ unpacked' = {} /\ lent' = <<>> /\ UNCHANGED late

DownloadPack ==
    /\ From("detect", "extract") /\ DetectPack = "nothing" /\ ~CheckDir /\ ~ask
    /\ fresh' = TRUE /\ Unpack("pack", PackEntries)
    /\ UNCHANGED <<folder, listed, mfile, inList, mf, want, ask, mine, said, doubt,
                   changing, breaks>>

\* A pack that is there and not on the list.
ImportPack ==
    /\ From("detect", "import") /\ DetectPack = "pack" /\ ~inList
    /\ inList' = TRUE
    /\ UNCHANGED <<folder, listed, mfile, mf, want, ask, thread, others, said, doubt, changing,
                   breaks>>

\* It is brought up to date by updatePack (UpdatePack.tla), and begin does not look
\* at the result.
Imported ==
    /\ From("import", "idle") /\ said' = "successful"
    /\ \/ UNCHANGED <<folder, doubt, breaks>>
       \/ HalfUpdated /\ Break
    /\ UNCHANGED <<mfile, inList, mf, want, ask, thread, others, changing>>
    /\ WriteFiles

\* No answer to SITE VERS (a null, and the thread dies of it), a network error or a
\* file that cannot be written.
ImportFails ==
    /\ From("import", "stuck") /\ Break
    /\ \/ UNCHANGED <<folder, doubt>>
       \/ HalfUpdated
    /\ UNCHANGED <<mfile, inList, mf, want, ask, thread, others, said, changing>>
    /\ WriteFiles \/ UNCHANGED listed

ChangeAddons ==
    /\ From("detect", "plan") /\ DetectPack = "pack" /\ inList
    /\ UNCHANGED <<folder, listed, mfile, inList, mf, want, ask, thread, others, said, doubt,
                   changing, breaks>>

-----------------------------------------------------------------------------
(* downloadArchive and unTar                                               *)

UnTar ==
    /\ From("extract", "extract") /\ todo # <<>>
    /\ folder' = [folder EXCEPT ![Head(todo)] = "whole"]
    /\ unpacked' = unpacked \cup {Head(todo)} /\ todo' = Tail(todo)
    /\ UNCHANGED <<listed, mfile, inList, mf, want, ask, fresh, mine, what, others, said,
                   doubt, changing, breaks>>

\* The end of the archive, or of the connection between two of its entries, which
\* the tar stream takes for the end.
UnTarEnds ==
    /\ From("extract", "saved")
    /\ \/ todo = <<>> /\ UNCHANGED breaks
       \/ todo # <<>> /\ Break
    /\ UNCHANGED <<folder, listed, mfile, inList, mf, want, ask, thread, others, said, doubt,
                   changing>>

\* downloadPack, downloadAddons or doPostDownload returned false.
InstallationFails ==
    /\ said' = "errors" /\ at' = IF fresh THEN "idle" ELSE "stuck"
    /\ WriteFiles /\ Forgotten

\* RETR is refused, or the transfer breaks off in the middle of an entry.
DownloadFails ==
    /\ at = "extract" /\ todo # <<>> /\ Break
    /\ folder' \in {folder} \cup CutOff({todo})
    /\ UNCHANGED <<mfile, inList, mf, want, ask, others, doubt, changing>>
    /\ InstallationFails

\* The final reply overtakes the data in passive mode, where it does not close the
\* socket: downloadArchive returns success = false and its unTar goes on.
UnTarOutlives ==
    /\ at = "extract" /\ Break
    /\ late' = late \cup {[todo |-> todo, unpacked |-> unpacked]}
    /\ UNCHANGED <<folder, mfile, inList, mf, want, ask, lent, doubt, changing>>
    /\ InstallationFails

\* A late unTar writes an entry ...
LateUnTar(t) ==
    /\ t.todo # <<>>
    /\ folder' = [folder EXCEPT ![Head(t.todo)] = "whole"]
    /\ late' = (late \ {t}) \cup {[todo |-> Tail(t.todo), unpacked |-> t.unpacked \cup {Head(t.todo)}]}
    /\ UNCHANGED <<listed, mfile, at, inList, mf, want, ask, thread, lent, said, doubt, changing,
                   breaks>>

\* ... fails in the middle of one ...
LateFails(t) ==
    /\ folder' \in CutOff({t.todo}) /\ late' = late \ {t} /\ Break
    /\ UNCHANGED <<listed, mfile, at, inList, mf, want, ask, thread, lent, said, doubt, changing>>

\* ... or comes to its end: success and downloadedFiles are those of whichever
\* download is going on.
LateEnds(t) ==
    /\ t.todo = <<>> /\ late' = late \ {t}
    /\ lent' = IF at = "extract" THEN <<t.unpacked>> ELSE lent
    /\ unpacked' = IF at = "saved" THEN t.unpacked ELSE unpacked
    /\ UNCHANGED <<folder, listed, mfile, at, inList, mf, want, ask, fresh, mine, what, todo, said,
                   doubt, changing, breaks>>

\* downloadArchive returns a success that is another's.
SuccessIsLent ==
    /\ From("extract", "saved") /\ lent # <<>>
    /\ late' = late \cup {[todo |-> todo, unpacked |-> unpacked]}
    /\ unpacked' = lent[1] /\ lent' = <<>>
    /\ UNCHANGED <<folder, listed, mfile, inList, mf, want, ask, fresh, mine, what, todo, said, doubt,
                   changing, breaks>>

\* NetworkException: begin closes the connection and writes nothing.
NetworkFails ==
    /\ From("extract", "stuck") /\ Break /\ Forgotten
    /\ UNCHANGED <<folder, listed, mfile, inList, mf, want, ask, others, said, doubt, changing>>

\* downloadPack: an archive without the files that name the pack is none.
PackDownloaded ==
    /\ at = "saved" /\ what = "pack"
    /\ RegisterOldPack
    /\ inList' = (inList \/ DetectPack = "pack")
    /\ UNCHANGED <<mfile, mf, want, ask, others, doubt, changing, breaks>>
    /\ IF DetectPack # "nothing"
       THEN at' = "plan" /\ UNCHANGED <<listed, thread, said>>
       ELSE InstallationFails

-----------------------------------------------------------------------------
(* downloadAddons                                                          *)

\* isNew makes a Manifest of its own, which is put into the map at the end; the
\* lambda that compares the add-ons dies of a null.
PlanAddons ==
    /\ From("plan", IF mf.key = "null" THEN "stuck" ELSE "addons")
    /\ mine' = mf.list
    /\ changing' = IF changing = "no" /\ mf.key # "null" THEN "now" ELSE changing
    /\ UNCHANGED <<folder, listed, mfile, inList, mf, want, ask, fresh, what, todo, unpacked,
                   others, said, doubt, breaks>>

InMap(list) == mf' = IF mf.key = "list" THEN Listing(list) ELSE mf

\* A file that cannot be deleted stays, and is no longer in the manifest.
RemoveAddon(a) ==
    /\ From("addons", "addons") /\ a \in DOMAIN mine \ want
    /\ \E gone \in SUBSET mine[a] :
           /\ folder' = [f \in DOMAIN folder |-> IF f \in gone THEN "none" ELSE folder[f]]
           /\ IF gone = mine[a] THEN UNCHANGED breaks ELSE Break
    /\ mine' = Restrict(mine, DOMAIN mine \ {a}) /\ InMap(mine')
    /\ UNCHANGED <<listed, mfile, inList, want, ask, fresh, what, todo, unpacked, others, said,
                   doubt, changing>>

DownloadAddon(a) ==
    /\ From("addons", "extract") /\ DOMAIN mine \subseteq want /\ a \in want \ DOMAIN mine
    /\ Unpack(a, AddonEntries[a])
    /\ UNCHANGED <<folder, listed, mfile, inList, mf, want, ask, fresh, mine, said, doubt,
                   changing, breaks>>

AddonDownloaded ==
    /\ From("saved", "addons") /\ what # "pack"
    /\ mine' = [a \in DOMAIN mine \cup {what} |-> IF a = what THEN unpacked ELSE mine[a]]
    /\ InMap(mine')
    /\ UNCHANGED <<folder, listed, mfile, inList, want, ask, fresh, what, todo, unpacked,
                   others, said, doubt, changing, breaks>>

\* FileWriter empties manifest.json, or cannot, which is only logged.
AddonsDone ==
    /\ at = "addons" /\ DOMAIN mine = want /\ mf' = Listing(mine)
    /\ \/ at' = "manifest" /\ mfile' = NullManifest /\ UNCHANGED breaks
       \/ at' = "post" /\ Break /\ UNCHANGED mfile
    /\ UNCHANGED <<folder, listed, inList, want, ask, thread, others, said, doubt, changing>>

WriteManifest ==
    /\ From("manifest", "post") /\ mfile' = mf
    /\ changing' = IF changing = "now" THEN "no" ELSE changing
    /\ UNCHANGED <<folder, listed, inList, mf, want, ask, thread, others, said, doubt, breaks>>

\* doPostDownload, after downloadPack only, and the end of begin.
BeginEnds(ok) ==
    /\ at = "post" /\ (fresh \/ ok)
    /\ UNCHANGED <<folder, mfile, inList, mf, want, ask, others, doubt, changing>>
    /\ \/ ok /\ at' = "idle" /\ said' = "successful" /\ WriteFiles /\ Forgotten
          /\ UNCHANGED breaks
       \/ ~ok /\ Break /\ InstallationFails

InstallSteps ==
    \/ CleanUp \/ CleanedUp
    \/ Refused \/ AskForAddons \/ DownloadPack \/ ImportPack \/ Imported \/ ImportFails
    \/ ChangeAddons \/ UnTar \/ UnTarEnds \/ DownloadFails \/ NetworkFails \/ UnTarOutlives
    \/ PackDownloaded \/ SuccessIsLent \/ \E t \in late : LateUnTar(t) \/ LateFails(t) \/ LateEnds(t)
    \/ PlanAddons \/ AddonDownloaded \/ AddonsDone \/ WriteManifest
    \/ \E a \in Addons : RemoveAddon(a) \/ DownloadAddon(a)
    \/ \E ok \in BOOLEAN : BeginEnds(ok)

INext ==
    \/ StartUp \/ OpenPanel \/ ChooseAddons \/ AbortPanel \/ QuitInstaller \/ KillInstaller
    \/ \E force \in BOOLEAN : Begin(force)
    \/ InstallSteps

ISpec == IInit /\ [][INext]_ivars

-----------------------------------------------------------------------------
Resting == at \in {"off", "idle", "panel", "stuck"}

\* The next start finds the pack on its list and in its directory.
Known == listed = "with" /\ StillPresent

\* A pack that was said to be installed, or that the next start takes for installed,
\* has all its files, and manifest.json names no file of an add-on that is not there,
\* whatever broke off or was killed, and however often the player tried again.  What
\* is excepted is the code's: a cleanUp that did not get to its end can leave
\* "modpack" and "ver" in a directory without the rest; begin ignores that the update
\* of an imported pack failed; an installation that is begun while the unTar of a
\* failed one is still at work shares its directory, its success and its list of
\* files; and a change of add-ons that was broken off leaves its old manifest.json
\* (begin, downloadPack, downloadArchive, downloadAddons, cleanUp).
InstalledPacksAreWhole ==
    Resting /\ doubt = "no" /\ (Known \/ said = "successful") =>
        /\ \A f \in Range(PackContent) : folder[f] = "whole"
        /\ changing = "no" =>
               \A a \in DOMAIN mfile.list : \A f \in mfile.list[a] : folder[f] = "whole"
==============================================================================
