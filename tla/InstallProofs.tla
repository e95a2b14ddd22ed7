--------------------------- MODULE InstallProofs ---------------------------
(***************************************************************************)
(* InstalledPacksAreWhole for any pack, any add-ons and any number of      *)
(* failures.                                                               *)
(*                                                                         *)
(* Two chains of reasoning meet in the invariant.  A file "modpack" that   *)
(* is there means that the rest of the pack is there, because it comes     *)
(* last in an archive and a directory with any of the content is refused   *)
(* (Marked, Unpacking).  And a manifest names only whole files: the one in *)
(* memory follows every file that is removed and comes to include an       *)
(* add-on only when all of it was unpacked, and the one on the disk is a   *)
(* copy of it (Recorded, Changing).                                        *)
(*                                                                         *)
(* An unTar that outlives its download works while the window waits, as    *)
(* long as no installation is begun beside it (Lates): what is left of its *)
(* archive is described like that of the thread (PackLeft).                *)
(*                                                                         *)
(* Then, with a second invariant, SuccessIsComplete and CallsKeepApart of  *)
(* FtpClient, whose downloads the installation uses, for any number of     *)
(* calls: the first answer to a command comes once (InStep), so the field  *)
(* "success" is that of the current call (Current), and the two ends of the*)
(* control connection take turns while every call waits (TurnByTurn).      *)
(***************************************************************************)
EXTENDS Install, FtpClient, SequenceTheorems, TLAPS

Files == Range(PackEntries) \cup AddonFiles
Content == Range(PackContent)
Places == {"off", "idle", "panel", "stuck", "clean", "detect", "extract", "saved", "import",
           "plan", "addons", "manifest", "post"}

\* A manifest's list has files of the add-on only under its name.
Owned(list) == \A a \in DOMAIN list : a \in Addons /\ list[a] \subseteq Range(AddonEntries[a])
Shaped(m) == m = [key |-> m.key, list |-> m.list] /\ (m.key # "list" => m.list = << >>)
AllWhole(list) == \A a \in DOMAIN list : \A f \in list[a] : folder[f] = "whole"

\* The add-on that is being unpacked, and the thread at work on add-ons.
WithAddon == at \in {"extract", "saved"} /\ what # "pack"
WithAddons == at \in {"addons", "manifest"} \/ WithAddon

Typed ==
    /\ folder = [f \in Files |-> folder[f]]
    /\ Shaped(mf) /\ Shaped(mfile) /\ Owned(mf.list) /\ Owned(mfile.list) /\ Owned(mine)
    /\ changing \in {"no", "now", "broken"}

\* The file that comes last stands for the content.
Marked == doubt = "no" /\ folder["modpack"] = "whole" => \A f \in Content : folder[f] = "whole"

\* The manifest on the disk, and the one in memory.
Recorded ==
    /\ doubt = "no" /\ changing = "no" => AllWhole(mfile.list)
    /\ doubt = "no" /\ changing # "broken" => AllWhole(mf.list)

\* What is known at the places of the window and of the thread.
Placed ==
    /\ at \in Places
    /\ at = "clean" => doubt # "no"
    /\ at = "off" => changing # "now"
    /\ at \in {"import", "plan", "addons", "manifest", "post"} \/ WithAddon =>
         folder["modpack"] = "whole"
    /\ ~Resting => said = "nothing"
    /\ said = "successful" => folder["modpack"] = "whole"

\* What is left of the archive of the pack, and what has come already.
PackLeft(dir, s, why) ==
    /\ s \in Seq(Range(PackEntries))
    /\ \A f \in Content : dir[f] = "whole" \/ \E i \in 1..Len(s) : s[i] = f
    /\ Len(s) >= 1 => s[Len(s)] = "ver" /\ dir["ver"] = "none"
    /\ Len(s) >= 2 => s[Len(s) - 1] = "modpack"
    /\ \A i \in 1..(Len(s) - 2) : s[i] \in Content
    /\ Len(s) <= 1 => dir["modpack"] = "whole"
    /\ why = "no" /\ Len(s) > 2 => dir["modpack"] # "whole"

Unpacking == at \in {"extract", "saved"} /\ what = "pack" => PackLeft(folder, todo, doubt)

\* The archive of an add-on.
UnpackingAddon ==
    WithAddon =>
        /\ what \in Addons /\ what \notin DOMAIN mine
        /\ todo \in Seq(Range(AddonEntries[what])) /\ unpacked \subseteq Range(AddonEntries[what])
        /\ \A f \in unpacked : folder[f] = "whole"

\* The thread at work on the add-ons.
Changing ==
    /\ WithAddons => changing # "no"
    /\ at = "addons" \/ WithAddon =>
         /\ mf.list = mine \/ mf.list = << >>
         /\ doubt = "no" /\ changing = "now" => AllWhole(mine)

\* An unTar that has outlived its download: one, while the player is asked what to
\* do next, and at work on the pack or on an add-on that is in no manifest that counts.
LatePack(t) == PackLeft(folder, t.todo, doubt)
LateAddon(t) ==
    /\ changing # "no"
    /\ \E a \in Addons : t.todo \in Seq(Range(AddonEntries[a])) /\ a \notin DOMAIN mf.list
Lates ==
    /\ lent = << >> /\ (~Resting \/ at = "off" => late = {})
    /\ \A t \in late : said = "errors" /\ (LatePack(t) \/ LateAddon(t)) /\ \A u \in late : u = t

InstallInv == Typed /\ Marked /\ Recorded /\ Placed /\ Unpacking /\ UnpackingAddon /\ Changing

-----------------------------------------------------------------------------
\* A function that is changed at one place.
LEMMA Put ==
    ASSUME NEW D, NEW f, f = [d \in D |-> f[d]], NEW q \in D, NEW v
    PROVE  /\ [f EXCEPT ![q] = v] = [d \in D |-> [f EXCEPT ![q] = v][d]]
           /\ [f EXCEPT ![q] = v][q] = v
           /\ \A d \in D \ {q} : [f EXCEPT ![q] = v][d] = f[d]
  OBVIOUS

\* The files of the pack are its content and two more; none is an add-on's.
LEMMA FileFacts ==
    /\ Range(PackEntries) = Content \cup {"modpack", "ver"}
    /\ "modpack" \in Files /\ "ver" \in Files /\ Content \subseteq Files /\ AddonFiles \subseteq Files
    /\ "modpack" \notin Content /\ "ver" \notin Content
    /\ \A f \in AddonFiles : f \notin Content /\ f # "modpack" /\ f # "ver"
    /\ \A a \in Addons : Range(AddonEntries[a]) \subseteq AddonFiles
<1>1. /\ Len(PackEntries) = Len(PackContent) + 2 /\ Len(PackContent) \in Nat
      /\ DOMAIN PackEntries = 1..(Len(PackContent) + 2) /\ DOMAIN PackContent = 1..Len(PackContent)
      /\ \A i \in 1..Len(PackContent) : PackEntries[i] = PackContent[i]
      /\ PackEntries[Len(PackContent) + 1] = "modpack" /\ PackEntries[Len(PackContent) + 2] = "ver"
  BY InstallAssumption DEF PackEntries
<1>2. Range(PackEntries) = Content \cup {"modpack", "ver"}
  <2>1. ASSUME NEW f \in Range(PackEntries) PROVE f \in Content \cup {"modpack", "ver"}
    <3>1. PICK i \in 1..(Len(PackContent) + 2) : f = PackEntries[i]
      BY <1>1, <2>1 DEF Range
    <3>2. i \in 1..Len(PackContent) \/ i = Len(PackContent) + 1 \/ i = Len(PackContent) + 2
      BY <1>1
    <3> QED
      BY <1>1, <3>1, <3>2 DEF Content, Range
  <2>2. ASSUME NEW f \in Content PROVE f \in Range(PackEntries)
    <3>1. PICK i \in 1..Len(PackContent) : f = PackContent[i]
      BY <1>1, <2>2 DEF Content, Range
    <3>2. i \in DOMAIN PackEntries /\ f = PackEntries[i]
      BY <1>1, <3>1
    <3> QED
      BY <3>2 DEF Range
  <2>3. "modpack" \in Range(PackEntries) /\ "ver" \in Range(PackEntries)
    <3>1. Len(PackContent) + 1 \in DOMAIN PackEntries /\ Len(PackContent) + 2 \in DOMAIN PackEntries
      BY <1>1
    <3> QED
      BY <1>1, <3>1 DEF Range
  <2> QED
    BY <2>1, <2>2, <2>3
<1>3. \A a \in Addons : Range(AddonEntries[a]) \subseteq AddonFiles
  BY DEF AddonFiles
<1> QED
  BY <1>2, <1>3, InstallAssumption DEF Files, Content

LEMMA InstallInvInit == IInit => InstallInv
<1> SUFFICES ASSUME IInit PROVE InstallInv
  OBVIOUS
<1> USE DEF IInit
<1>1. Typed
  <2>1. Shaped(NoManifest) /\ Owned(NoManifest.list) /\ Owned(<< >>)
    BY DEF Shaped, NoManifest, Owned
  <2>2. folder = [f \in Files |-> folder[f]]
    BY DEF Files
  <2> QED
    BY <2>1, <2>2 DEF Typed
<1>2. Marked /\ Recorded
  BY FileFacts DEF Marked, Recorded, Files, AllWhole, NoManifest
<1>3. Placed /\ Changing
  BY DEF Placed, Places, Resting, WithAddon, WithAddons, Changing
<1>4. Unpacking /\ UnpackingAddon
  BY DEF Unpacking, UnpackingAddon, WithAddon
<1> QED
  BY <1>1, <1>2, <1>3, <1>4 DEF InstallInv

\* Places where no more is known than Placed says.
Calm == {"off", "idle", "panel", "stuck", "clean", "detect", "import", "plan", "post"}
LEMMA CalmKeeps ==
    ASSUME Typed', Marked', Recorded', Placed', at' \in Calm
    PROVE  InstallInv'
  BY DEF InstallInv, Unpacking, UnpackingAddon, Changing, Calm, WithAddon, WithAddons

\* The files and the manifests stay as they are, or the process forgets its own.
LEMMA SameFiles ==
    ASSUME InstallInv, folder' = folder, mfile' = mfile, mf' = mf \/ mf' = NoManifest,
           mine' = mine \/ mine' = << >>,
           doubt' = doubt \/ doubt' # "no", changing' = changing \/ changing' = "broken"
    PROVE  Typed' /\ Marked' /\ Recorded'
<1>1. Shaped(NoManifest) /\ Owned(NoManifest.list) /\ Owned(<< >>) /\ NoManifest.list = << >>
  BY DEF Shaped, NoManifest, Owned
<1>2. Typed'
  BY <1>1 DEF InstallInv, Typed, Shaped, Owned
<1>3. Marked'
  BY DEF InstallInv, Marked
<1>4. Recorded'
  BY <1>1 DEF InstallInv, Recorded, AllWhole
<1> QED
  BY <1>2, <1>3, <1>4

-----------------------------------------------------------------------------
(* The window.                                                              *)

\* A step between calm places that leaves the files alone.
LEMMA CalmStep ==
    ASSUME InstallInv, folder' = folder, mfile' = mfile, mf' = mf \/ mf' = NoManifest,
           mine' = mine \/ mine' = << >>,
           doubt' = doubt \/ doubt' # "no", changing' = changing \/ changing' = "broken",
           at' \in Calm, at' = "clean" => doubt' # "no", at' = "off" => changing' # "now",
           at' \in {"import", "plan", "post"} => folder["modpack"] = "whole",
           at' \in {"clean", "detect", "import", "plan", "post"} => said' = "nothing",
           said' = said \/ said' # "successful" \/ folder["modpack"] = "whole"
    PROVE  InstallInv'
<1>1. Placed'
  BY DEF InstallInv, Placed, Calm, Places, Resting, WithAddon
<1> QED
  BY <1>1, SameFiles, CalmKeeps

LEMMA WindowKeeps ==
    ASSUME InstallInv,
           \/ OpenPanel \/ ChooseAddons \/ AbortPanel
           \/ \E force \in BOOLEAN : Begin(force)
    PROVE  InstallInv'
<1>1. CASE OpenPanel \/ ChooseAddons \/ AbortPanel
  BY <1>1, CalmStep DEF OpenPanel, ChooseAddons, AbortPanel, From, thread, Calm
<1>2. ASSUME NEW force \in BOOLEAN, Begin(force) PROVE InstallInv'
  <2>1. CASE force = TRUE
    BY <1>2, <2>1, CalmStep DEF Begin, From, Calm
  <2>2. CASE force = FALSE
    BY <1>2, <2>2, CalmStep DEF Begin, From, Calm
  <2> QED
    BY <2>1, <2>2
<1> QED
  BY <1>1, <1>2

\* The thread between two of its parts.
LEMMA ThreadKeeps ==
    ASSUME InstallInv,
           \/ AskForAddons \/ ImportPack \/ ChangeAddons \/ NetworkFails
           \/ \E ok \in BOOLEAN : BeginEnds(ok)
    PROVE  InstallInv'
<1>0. at \in {"detect", "import", "extract"} => said = "nothing"
  BY DEF InstallInv, Placed, Resting
<1>1. CASE AskForAddons
  BY <1>0, <1>1, CalmStep DEF AskForAddons, From, thread, Calm
<1>2. CASE ImportPack \/ ChangeAddons
  <2>1. folder["modpack"] = "whole"
    BY <1>2 DEF ImportPack, ChangeAddons, DetectPack
  <2> QED
    BY <1>0, <1>2, <2>1, CalmStep DEF ImportPack, ChangeAddons, From, thread, Calm
<1>3. CASE NetworkFails
  BY <1>0, <1>3, CalmStep DEF NetworkFails, From, Forgotten, thread, Calm
<1>4. ASSUME NEW ok \in BOOLEAN, BeginEnds(ok) PROVE InstallInv'
  <2>1. folder["modpack"] = "whole"
    BY <1>4 DEF BeginEnds, InstallInv, Placed
  <2>2. at' \in {"idle", "stuck"}
    BY <1>4 DEF BeginEnds, InstallationFails
  <2>3. mine' = << >>
    BY <1>4 DEF BeginEnds, InstallationFails, Forgotten
  <2> QED
    BY <1>4, <2>1, <2>2, <2>3, CalmStep DEF BeginEnds, Calm
<1> QED
  BY <1>1, <1>2, <1>3, <1>4

\* registerRhaokarLightPack writes a file that was not there.
LEMMA OldPackRegistered ==
    ASSUME InstallInv, RegisterOldPack
    PROVE  /\ folder' = [f \in Files |-> folder'[f]]
           /\ \A f \in Files \ {"modpack"} : folder'[f] = folder[f]
           /\ folder'["modpack"] = "whole" <=> folder["modpack"] = "whole"
  BY FileFacts, Put DEF RegisterOldPack, InstallInv, Typed

LEMMA ListsAreFiles ==
    ASSUME NEW list, Owned(list), NEW a \in DOMAIN list, NEW f \in list[a]
    PROVE  f \in AddonFiles /\ f \in Range(AddonEntries[a]) /\ a \in Addons
  BY FileFacts DEF Owned

\* Files of the pack that change do not concern the manifests.
LEMMA PackFilesChange ==
    ASSUME InstallInv, folder' = [f \in Files |-> folder'[f]],
           \A f \in AddonFiles : folder'[f] = folder[f],
           mfile' = mfile, mf' \in {mf, mfile, NoManifest}, mine' = mine \/ mine' = << >>,
           mf' = mfile => changing # "now" \/ mf' = mf \/ mf' = NoManifest,
           doubt' = doubt \/ doubt' # "no", changing' = changing \/ changing' = "broken"
    PROVE  Typed' /\ Recorded'
<1>1. Shaped(NoManifest) /\ Owned(NoManifest.list) /\ Owned(<< >>) /\ NoManifest.list = << >>
  BY DEF Shaped, NoManifest, Owned
<1>2. Typed'
  BY <1>1 DEF InstallInv, Typed, Shaped, Owned
<1>3. ASSUME NEW list, Owned(list), AllWhole(list)
      PROVE  \A a \in DOMAIN list : \A f \in list[a] : folder'[f] = "whole"
  BY <1>3, ListsAreFiles DEF AllWhole
<1>4. \A a \in DOMAIN << >> : FALSE
  OBVIOUS
<1>5. ASSUME doubt' = "no", changing' = "no" PROVE AllWhole(mfile.list)'
  BY <1>3, <1>5 DEF InstallInv, Typed, Recorded, AllWhole
<1>6. ASSUME doubt' = "no", changing' # "broken" PROVE AllWhole(mf.list)'
  <2>1. CASE mf' = mf
    BY <1>3, <1>6, <2>1 DEF InstallInv, Typed, Recorded, AllWhole
  <2>2. CASE mf' = NoManifest
    BY <1>1, <2>2, <1>4 DEF AllWhole
  <2>3. CASE mf' = mfile /\ changing # "now"
    BY <1>3, <1>6, <2>3 DEF InstallInv, Typed, Recorded, AllWhole
  <2> QED
    BY <2>1, <2>2, <2>3
<1> QED
  BY <1>2, <1>5, <1>6 DEF Recorded

\* An update that does not get to its end changes the content, and the pack is in doubt.
LEMMA UpdateBreaks ==
    ASSUME InstallInv, at = "import", HalfUpdated, mfile' = mfile,
           mf' = mf \/ mf' = NoManifest, mine' = mine \/ mine' = << >>,
           changing' = changing \/ changing' = "broken",
           at' \in {"off", "idle", "stuck"}, at' = "off" => changing' # "now"
    PROVE  InstallInv'
<1>1. DOMAIN folder = Files
  BY DEF InstallInv, Typed
<1>2. PICK gone \in SUBSET Range(PackContent), cut \in SUBSET Range(PackContent) :
        folder' = [f \in DOMAIN folder |->
                      IF f \in gone THEN "none" ELSE IF f \in cut THEN "partial" ELSE folder[f]]
  BY DEF HalfUpdated
<1>3. folder' = [f \in Files |-> folder'[f]]
  BY <1>1, <1>2
<1>4. \A f \in Files \ Content : folder'[f] = folder[f]
  BY <1>1, <1>2 DEF Content
<1>5. \A f \in AddonFiles : folder'[f] = folder[f]
  BY <1>4, FileFacts
<1>6. Typed' /\ Recorded'
  BY <1>3, <1>5, PackFilesChange DEF HalfUpdated
<1>7. Marked'
  BY DEF Marked, HalfUpdated
<1>8. folder'["modpack"] = "whole"
  BY <1>4, FileFacts DEF InstallInv, Placed
<1>9. Placed'
  BY <1>8 DEF Placed, Places, Resting, WithAddon
<1> QED
  BY <1>6, <1>7, <1>9, CalmKeeps DEF Calm

LEMMA ImportKeeps == ASSUME InstallInv, Imported \/ ImportFails PROVE InstallInv'
<1>1. /\ at = "import" /\ at' \in {"idle", "stuck"} /\ UNCHANGED <<mfile, mf, mine, changing>>
      /\ said' = said \/ said' = "successful"
      /\ (folder' = folder /\ doubt' = doubt) \/ (HalfUpdated)
  BY DEF Imported, ImportFails, From, thread
<1>2. folder["modpack"] = "whole"
  BY <1>1 DEF InstallInv, Placed
<1>3. CASE folder' = folder /\ doubt' = doubt
  BY <1>1, <1>2, <1>3, CalmStep DEF Calm
<1>4. CASE HalfUpdated
  BY <1>1, <1>4, UpdateBreaks
<1> QED
  BY <1>1, <1>3, <1>4

LEMMA StartUpKeeps == ASSUME InstallInv, StartUp PROVE InstallInv'
<1>1. /\ at = "off" /\ at' = "idle" /\ said' = "nothing" /\ mf' \in {mfile, NoManifest}
      /\ UNCHANGED <<mfile, mine, doubt, changing>>
  BY DEF StartUp, From, thread
<1>2. RegisterOldPack \/ folder' = folder
  BY DEF StartUp
<1>3. /\ folder' = [f \in Files |-> folder'[f]]
      /\ \A f \in Files \ {"modpack"} : folder'[f] = folder[f]
      /\ folder'["modpack"] = "whole" <=> folder["modpack"] = "whole"
  BY <1>2, OldPackRegistered DEF InstallInv, Typed
<1>4. changing # "now"
  BY <1>1 DEF InstallInv, Placed
<1>5. Typed' /\ Recorded'
  BY <1>1, <1>3, <1>4, FileFacts, PackFilesChange
<1>6. Marked'
  BY <1>1, <1>3, FileFacts DEF InstallInv, Marked
<1>7. Placed'
  BY <1>1 DEF Placed, Places, Resting, WithAddon
<1> QED
  BY <1>1, <1>5, <1>6, <1>7, CalmKeeps DEF Calm

LEMMA RefusedKeeps == ASSUME InstallInv, Refused PROVE InstallInv'
<1>1. /\ at = "detect" /\ at' = "panel" /\ RegisterOldPack
      /\ UNCHANGED <<mfile, mf, mine, said, doubt, changing>>
  BY DEF Refused, From, thread
<1>2. said = "nothing"
  BY <1>1 DEF InstallInv, Placed, Resting
<1>3. Typed' /\ Recorded'
  BY <1>1, OldPackRegistered, FileFacts, PackFilesChange
<1>4. Marked'
  BY <1>1, OldPackRegistered, FileFacts DEF InstallInv, Marked
<1>5. Placed'
  BY <1>1, <1>2 DEF Placed, Places, Resting, WithAddon
<1> QED
  BY <1>1, <1>3, <1>4, <1>5, CalmKeeps DEF Calm

-----------------------------------------------------------------------------
(* cleanUp, and the archive of the pack.                                    *)

LEMMA CleanUpKeeps == ASSUME InstallInv, CleanUp PROVE InstallInv'
<1>1. /\ at = "clean" /\ at' = "clean" /\ mfile' \in {mfile, NoManifest}
      /\ UNCHANGED <<mf, mine, said, doubt, changing>>
  BY DEF CleanUp, From
<1>2. folder' = Deleted(Head(todo)) \/ folder' = NotDeleted(Head(todo))
  BY DEF CleanUp
<1>3. DOMAIN folder = Files
  BY DEF InstallInv, Typed
<1>4. folder' = [f \in Files |-> folder'[f]]
  BY <1>2, <1>3 DEF Deleted, NotDeleted
<1>5. doubt # "no" /\ said = "nothing"
  BY <1>1 DEF InstallInv, Placed, Resting
<1>6. Shaped(NoManifest) /\ Owned(NoManifest.list)
  BY DEF Shaped, NoManifest, Owned
<1>7. Typed'
  BY <1>1, <1>4, <1>6 DEF InstallInv, Typed, Shaped, Owned
<1>8. Marked' /\ Recorded'
  BY <1>1, <1>5 DEF Marked, Recorded
<1>9. Placed'
  BY <1>1, <1>5 DEF Placed, Places, Resting, WithAddon
<1> QED
  BY <1>1, <1>7, <1>8, <1>9, CalmKeeps DEF Calm

LEMMA CleanedUpKeeps == ASSUME InstallInv, CleanedUp PROVE InstallInv'
<1>1. /\ at = "clean" /\ at' = "detect" /\ UNCHANGED <<folder, mfile, mine, said>>
      /\ mf' = IF mf.key = "list" THEN Listing(<< >>) ELSE mf
      /\ (doubt' = "no" => Cleaned) /\ changing' = IF Cleaned THEN "no" ELSE changing
  BY DEF CleanedUp, From, thread, Settled
<1>2. said = "nothing"
  BY <1>1 DEF InstallInv, Placed, Resting
<1>3. Shaped(Listing(<< >>)) /\ Listing(<< >>).list = << >> /\ Owned(<< >>)
  BY DEF Shaped, Listing, Owned
<1>4. Shaped(mf') /\ mf'.list = << >>
  BY <1>1, <1>3 DEF InstallInv, Typed, Shaped
<1>5. Typed'
  <2>1. changing' \in {"no", "now", "broken"}
    BY <1>1 DEF InstallInv, Typed, Cleaned
  <2> QED
    BY <1>1, <1>3, <1>4, <2>1 DEF InstallInv, Typed, Shaped, Owned
<1>6. Marked'
  BY <1>1 DEF Marked, Cleaned
<1>7. doubt' = "no" => mfile.list = << >>
  BY <1>1 DEF InstallInv, Typed, Shaped, Cleaned
<1>8. Recorded'
  BY <1>1, <1>4, <1>7 DEF Recorded, AllWhole
<1>9. Placed'
  BY <1>1, <1>2 DEF Placed, Places, Resting, WithAddon
<1> QED
  BY <1>1, <1>5, <1>6, <1>8, <1>9, CalmKeeps DEF Calm

LEMMA DownloadPackKeeps == ASSUME InstallInv, DownloadPack PROVE InstallInv'
<1>1. /\ at = "detect" /\ at' = "extract" /\ what' = "pack" /\ todo' = PackEntries
      /\ UNCHANGED <<folder, mfile, mf, mine, said, doubt, changing>>
  BY DEF DownloadPack, From, Unpack
<1>2. folder["ver"] = "none" /\ \A f \in Content : folder[f] = "none"
  BY DEF DownloadPack, DetectPack, CheckDir, Content
<1>3. Typed' /\ Marked' /\ Recorded'
  BY <1>1, SameFiles
<1>4. Placed'
  BY <1>1 DEF InstallInv, Placed, Places, Resting, WithAddon
<1>5. /\ Len(PackEntries) = Len(PackContent) + 2 /\ Len(PackContent) \in Nat
      /\ DOMAIN PackContent = 1..Len(PackContent)
      /\ \A i \in 1..Len(PackContent) : PackEntries[i] = PackContent[i]
      /\ PackEntries[Len(PackContent) + 1] = "modpack" /\ PackEntries[Len(PackContent) + 2] = "ver"
  BY InstallAssumption DEF PackEntries
<1>6. PackEntries \in Seq(Range(PackEntries))
  <2> DEFINE Strings == STRING \cup {"modpack", "ver"}
  <2>a. PackContent \in Seq(Strings)
    <3>1. \A S, T : S \subseteq T => Seq(S) \subseteq Seq(T)
      OBVIOUS
    <3> QED
      BY <3>1, InstallAssumption
  <2>b. <<"modpack", "ver">> \in Seq(Strings)
    OBVIOUS
  <2> HIDE DEF Strings
  <2>1. PackEntries \in Seq(Strings)
    BY <2>a, <2>b DEF PackEntries
  <2> QED
    BY <2>1 DEF Range
<1>7. \A f \in Content : \E i \in 1..Len(PackEntries) : PackEntries[i] = f
  BY <1>5 DEF Content, Range
<1>8. \A i \in 1..(Len(PackEntries) - 2) : PackEntries[i] \in Content
  BY <1>5 DEF Content, Range
<1>9. doubt = "no" /\ Len(PackEntries) > 2 => folder["modpack"] # "whole"
  <2>1. SUFFICES ASSUME doubt = "no", Len(PackEntries) > 2, folder["modpack"] = "whole" PROVE FALSE
    OBVIOUS
  <2>2. PackContent[1] \in Content
    BY <1>5, <2>1 DEF Content, Range
  <2> QED
    BY <1>2, <2>1, <2>2 DEF InstallInv, Marked
<1>10. Unpacking'
  BY <1>1, <1>2, <1>5, <1>6, <1>7, <1>8, <1>9 DEF Unpacking, PackLeft
<1>11. UnpackingAddon' /\ Changing'
  BY <1>1 DEF UnpackingAddon, Changing, WithAddon, WithAddons
<1> QED
  BY <1>3, <1>4, <1>10, <1>11 DEF InstallInv

LEMMA UnTarEndsKeeps == ASSUME InstallInv, UnTarEnds PROVE InstallInv'
<1>1. /\ at = "extract" /\ at' = "saved"
      /\ UNCHANGED <<folder, mfile, mf, mine, what, todo, unpacked, said, doubt, changing>>
  BY DEF UnTarEnds, From, thread
<1>2. Typed' /\ Marked' /\ Recorded'
  BY <1>1, SameFiles
<1>3. Placed'
  BY <1>1 DEF InstallInv, Placed, Places, Resting, WithAddon
<1>4. Unpacking'
  BY <1>1 DEF InstallInv, Unpacking
<1>5. UnpackingAddon'
  BY <1>1 DEF InstallInv, UnpackingAddon, WithAddon
<1>6. Changing'
  BY <1>1 DEF InstallInv, Changing, WithAddon, WithAddons, AllWhole
<1> QED
  BY <1>2, <1>3, <1>4, <1>5, <1>6 DEF InstallInv

\* The entry that comes next.
LEMMA NextOfPack ==
    ASSUME NEW dir, NEW s, NEW why, PackLeft(dir, s, why), s # << >>
    PROVE  /\ Len(s) \in Nat /\ Len(s) >= 1 /\ Head(s) = s[1]
           /\ Len(s) = 1 => Head(s) = "ver"
           /\ Len(s) = 2 => Head(s) = "modpack"
           /\ Len(s) > 2 => Head(s) \in Content
           /\ Head(s) \in Content \cup {"modpack", "ver"}
<1>1. s \in Seq(Range(PackEntries))
  BY DEF PackLeft
<1>2. Len(s) \in Nat /\ Len(s) >= 1 /\ Head(s) = s[1]
  BY <1>1
<1>3. /\ s[Len(s)] = "ver"
      /\ Len(s) >= 2 => s[Len(s) - 1] = "modpack"
      /\ \A i \in 1..(Len(s) - 2) : s[i] \in Content
  BY <1>2 DEF PackLeft
<1>4. Len(s) > 2 => 1 \in 1..(Len(s) - 2)
  BY <1>2
<1>5. Len(s) = 1 \/ Len(s) = 2 \/ Len(s) > 2
  <2>1. \A n \in Nat : n >= 1 => n = 1 \/ n = 2 \/ n > 2
    OBVIOUS
  <2> QED
    BY <1>2, <2>1
<1>6. Len(s) = 2 => s[1] = "modpack"
  <2>1. Len(s) = 2 => Len(s) - 1 = 1
    OBVIOUS
  <2> QED
    BY <1>2, <1>3, <2>1
<1> QED
  BY <1>2, <1>3, <1>4, <1>5, <1>6

LEMMA NextOfAddon ==
    ASSUME NEW a \in Addons, NEW s \in Seq(Range(AddonEntries[a])), s # << >>
    PROVE  /\ Head(s) \in Range(AddonEntries[a]) /\ Head(s) \in AddonFiles /\ Head(s) \in Files
           /\ Tail(s) \in Seq(Range(AddonEntries[a]))
  BY FileFacts

\* An entry of the pack is written ...
LEMMA PackEntryComes ==
    ASSUME InstallInv, NEW s, PackLeft(folder, s, doubt), s # << >>, doubt' = doubt,
           folder' = [folder EXCEPT ![Head(s)] = "whole"]
    PROVE  /\ folder' = [f \in Files |-> folder'[f]] /\ \A f \in AddonFiles : folder'[f] = folder[f]
           /\ Marked' /\ PackLeft(folder', Tail(s), doubt')
<1> DEFINE n == Len(s)  x == Head(s)  rest == Tail(s)
<1>2. /\ n \in Nat /\ n >= 1 /\ x = s[1] /\ (n = 1 => x = "ver") /\ (n = 2 => x = "modpack")
      /\ (n > 2 => x \in Content) /\ x \in Content \cup {"modpack", "ver"}
  BY NextOfPack
<1>3. x \in Files /\ x \notin AddonFiles
  BY <1>2, FileFacts
<1>4. /\ folder' = [f \in Files |-> folder'[f]] /\ folder'[x] = "whole"
      /\ \A f \in Files \ {x} : folder'[f] = folder[f]
  BY <1>3, Put DEF InstallInv, Typed
<1>5. /\ s \in Seq(Range(PackEntries))
      /\ \A f \in Content : folder[f] = "whole" \/ \E i \in 1..n : s[i] = f
      /\ s[n] = "ver" /\ folder["ver"] = "none"
      /\ n >= 2 => s[n - 1] = "modpack"
      /\ \A i \in 1..(n - 2) : s[i] \in Content
      /\ n <= 1 => folder["modpack"] = "whole"
      /\ doubt = "no" /\ n > 2 => folder["modpack"] # "whole"
  BY <1>2 DEF PackLeft
<1>6. /\ rest \in Seq(Range(PackEntries)) /\ Len(rest) = n - 1
      /\ \A i \in 1..(n - 1) : rest[i] = s[i + 1]
  BY <1>5
<1> HIDE DEF n, x, rest
<1>7. \A f \in AddonFiles : folder'[f] = folder[f]
  BY <1>3, <1>4, FileFacts
<1>8. \A f \in Content : folder'[f] = "whole" \/ \E i \in 1..(n - 1) : rest[i] = f
  <2>1. SUFFICES ASSUME NEW f \in Content, folder'[f] # "whole"
                 PROVE  \E i \in 1..(n - 1) : rest[i] = f
    OBVIOUS
  <2>2. f # x /\ folder[f] # "whole"
    BY <1>4, <2>1, FileFacts
  <2>3. PICK j \in 1..n : s[j] = f
    BY <1>5, <2>2
  <2>4. j # 1 /\ j - 1 \in 1..(n - 1) /\ (j - 1) + 1 = j
    BY <1>2, <2>2, <2>3
  <2>5. rest[j - 1] = f
    BY <1>6, <2>3, <2>4
  <2> QED
    BY <2>4, <2>5
<1>9. Marked'
  <2>1. SUFFICES ASSUME doubt = "no", folder'["modpack"] = "whole", NEW f \in Content
                 PROVE  folder'[f] = "whole"
    BY DEF Marked
  <2>2. CASE folder["modpack"] = "whole"
    BY <1>4, <2>1, <2>2, FileFacts DEF InstallInv, Marked
  <2>3. CASE folder["modpack"] # "whole"
    <3>1. x = "modpack"
      BY <1>4, <2>1, <2>3, FileFacts
    <3>2. n = 2
      BY <1>2, <3>1, FileFacts
    <3>3. rest[1] = "ver"
      BY <1>5, <1>6, <3>2
    <3>4. \A i \in 1..(n - 1) : i = 1
      BY <3>2
    <3> QED
      BY <1>8, <3>3, <3>4, FileFacts
  <2> QED
    BY <2>2, <2>3
<1>12. Len(rest) >= 1 => rest[Len(rest)] = "ver" /\ folder'["ver"] = "none"
  <2>1. SUFFICES ASSUME n >= 2 PROVE rest[n - 1] = "ver" /\ folder'["ver"] = "none"
    BY <1>2, <1>6
  <2>2. n - 1 \in 1..(n - 1) /\ (n - 1) + 1 = n
    BY <1>2, <2>1
  <2>3. x # "ver"
    BY <1>2, <2>1, FileFacts
  <2> QED
    BY <1>4, <1>5, <1>6, <2>2, <2>3, FileFacts
<1>13. Len(rest) >= 2 => rest[Len(rest) - 1] = "modpack"
  <2>1. SUFFICES ASSUME n >= 3 PROVE rest[(n - 1) - 1] = "modpack"
    BY <1>2, <1>6
  <2>2. (n - 1) - 1 \in 1..(n - 1) /\ ((n - 1) - 1) + 1 = n - 1 /\ n >= 2
    BY <1>2, <2>1
  <2> QED
    BY <1>5, <1>6, <2>2
<1>14. \A i \in 1..(Len(rest) - 2) : rest[i] \in Content
  <2>1. SUFFICES ASSUME NEW i \in 1..((n - 1) - 2) PROVE rest[i] \in Content
    BY <1>6
  <2>2. i \in 1..(n - 1) /\ i + 1 \in 1..(n - 2)
    BY <1>2, <2>1
  <2> QED
    BY <1>5, <1>6, <2>2
<1>15. Len(rest) <= 1 => folder'["modpack"] = "whole"
  <2>1. SUFFICES ASSUME n <= 2 PROVE folder'["modpack"] = "whole"
    BY <1>2, <1>6
  <2>2. n = 1 \/ n = 2
    BY <1>2, <2>1
  <2> QED
    BY <1>2, <1>4, <1>5, <2>2, FileFacts
<1>16. doubt' = "no" /\ Len(rest) > 2 => folder'["modpack"] # "whole"
  <2>1. SUFFICES ASSUME doubt = "no", n > 3 PROVE folder'["modpack"] # "whole"
    BY <1>2, <1>6
  <2>2. x \in Content /\ n > 2
    BY <1>2, <2>1
  <2> QED
    BY <1>4, <1>5, <2>1, <2>2, FileFacts
<1>17. PackLeft(folder', rest, doubt')
  BY <1>6, <1>8, <1>12, <1>13, <1>14, <1>15, <1>16 DEF PackLeft
<1> QED
  BY <1>4, <1>7, <1>9, <1>17 DEF rest

\* ... or only begun.
LEMMA PackEntryCut ==
    ASSUME InstallInv, NEW s, PackLeft(folder, s, doubt), s # << >>, doubt' = doubt,
           folder' = [folder EXCEPT ![Head(s)] = "partial"]
    PROVE  /\ folder' = [f \in Files |-> folder'[f]] /\ \A f \in AddonFiles : folder'[f] = folder[f]
           /\ Marked'
<1> DEFINE x == Head(s)
<1>1. /\ Len(s) \in Nat /\ (Len(s) > 2 => x \in Content) /\ Len(s) >= 1
      /\ (Len(s) = 1 => x = "ver") /\ (Len(s) = 2 => x = "modpack")
      /\ x \in Content \cup {"modpack", "ver"}
  BY NextOfPack
<1>2. x \in Files /\ x \notin AddonFiles
  BY <1>1, FileFacts
<1>3. /\ folder' = [f \in Files |-> folder'[f]] /\ folder'[x] = "partial"
      /\ \A f \in Files \ {x} : folder'[f] = folder[f]
  BY <1>2, Put DEF InstallInv, Typed
<1>4. doubt = "no" /\ Len(s) > 2 => folder["modpack"] # "whole"
  BY DEF PackLeft
<1> HIDE DEF x
<1>5. \A f \in AddonFiles : folder'[f] = folder[f]
  BY <1>2, <1>3, FileFacts
<1>6. Marked'
  <2>1. SUFFICES ASSUME doubt = "no", folder'["modpack"] = "whole" PROVE \A f \in Content : folder'[f] = "whole"
    BY DEF Marked
  <2>2. x # "modpack" /\ folder["modpack"] = "whole"
    BY <1>3, <2>1, FileFacts
  <2>3. x \notin Content
    <3>1. Len(s) = 1 \/ Len(s) = 2 \/ Len(s) > 2
      <4>1. \A n \in Nat : n >= 1 => n = 1 \/ n = 2 \/ n > 2
        OBVIOUS
      <4> QED
        BY <1>1, <4>1
    <3> QED
      BY <1>1, <1>4, <2>1, <2>2, <3>1, FileFacts
  <2> QED
    BY <1>3, <2>1, <2>2, <2>3, FileFacts DEF InstallInv, Marked
<1> QED
  BY <1>3, <1>5, <1>6

LEMMA UnTarPackKeeps == ASSUME InstallInv, UnTar, what = "pack" PROVE InstallInv'
<1>1. /\ at = "extract" /\ at' = "extract" /\ todo # << >> /\ todo' = Tail(todo)
      /\ folder' = [folder EXCEPT ![Head(todo)] = "whole"] /\ what' = "pack"
      /\ UNCHANGED <<mfile, mf, mine, said, doubt, changing>>
  BY DEF UnTar, From
<1>2. PackLeft(folder, todo, doubt)
  BY <1>1 DEF InstallInv, Unpacking
<1>3. /\ folder' = [f \in Files |-> folder'[f]] /\ \A f \in AddonFiles : folder'[f] = folder[f]
      /\ Marked' /\ PackLeft(folder', Tail(todo), doubt')
  BY <1>1, <1>2, PackEntryComes
<1>4. Typed' /\ Recorded'
  BY <1>1, <1>3, PackFilesChange
<1>5. Placed'
  BY <1>1 DEF InstallInv, Placed, Places, Resting, WithAddon
<1>6. Unpacking'
  BY <1>1, <1>3 DEF Unpacking
<1>7. UnpackingAddon' /\ Changing'
  BY <1>1 DEF UnpackingAddon, Changing, WithAddon, WithAddons
<1> QED
  BY <1>3, <1>4, <1>5, <1>6, <1>7 DEF InstallInv

\* Files of one add-on that change concern no list that is without it.
LEMMA AddonFilesChange ==
    ASSUME InstallInv, folder' = [f \in Files |-> folder'[f]], NEW a \in Addons,
           \A f \in Files \ Range(AddonEntries[a]) : folder'[f] = folder[f]
    PROVE  /\ \A f \in Content : folder'[f] = folder[f]
           /\ folder'["modpack"] = folder["modpack"] /\ folder'["ver"] = folder["ver"]
           /\ \A list : Owned(list) /\ a \notin DOMAIN list /\ AllWhole(list) =>
                \A b \in DOMAIN list : \A f \in list[b] : folder'[f] = "whole"
<1>1. \A f \in Content : folder'[f] = folder[f]
  BY FileFacts
<1>2. folder'["modpack"] = folder["modpack"] /\ folder'["ver"] = folder["ver"]
  BY FileFacts
<1>3. ASSUME NEW list, Owned(list), a \notin DOMAIN list, AllWhole(list),
             NEW b \in DOMAIN list, NEW f \in list[b]
      PROVE  folder'[f] = "whole"
  <2>1. f \in AddonFiles /\ f \in Range(AddonEntries[b]) /\ b \in Addons /\ a # b
    BY <1>3, ListsAreFiles
  <2>2. f \notin Range(AddonEntries[a])
    BY <2>1, InstallAssumption
  <2>3. folder'[f] = folder[f]
    BY <2>1, <2>2, FileFacts
  <2> QED
    BY <1>3, <2>3 DEF AllWhole
<1> QED
  BY <1>1, <1>2, <1>3

\* What holds of the manifests when a file changes of an add-on they do not name.
LEMMA AddonUnpacks ==
    ASSUME InstallInv, NEW a \in Addons, a \notin DOMAIN mf.list, changing # "no",
           folder' = [f \in Files |-> folder'[f]],
           \A f \in Files \ Range(AddonEntries[a]) : folder'[f] = folder[f],
           mfile' = mfile, mf' = mf \/ mf' = NoManifest, mine' = mine \/ mine' = << >>,
           doubt' = doubt, changing' = changing \/ changing' = "broken"
    PROVE  /\ Typed' /\ Marked' /\ Recorded'
           /\ folder'["modpack"] = folder["modpack"]
           /\ a \notin DOMAIN mine /\ AllWhole(mine) =>
                \A b \in DOMAIN mine : \A f \in mine[b] : folder'[f] = "whole"
<1>1. Shaped(NoManifest) /\ Owned(NoManifest.list) /\ Owned(<< >>) /\ NoManifest.list = << >>
  BY DEF Shaped, NoManifest, Owned
<1>2. Typed'
  BY <1>1 DEF InstallInv, Typed, Shaped, Owned
<1>3. /\ \A f \in Content : folder'[f] = folder[f]
      /\ folder'["modpack"] = folder["modpack"]
      /\ \A list : Owned(list) /\ a \notin DOMAIN list /\ AllWhole(list) =>
           \A b \in DOMAIN list : \A f \in list[b] : folder'[f] = "whole"
  BY AddonFilesChange
<1>4. Marked'
  BY <1>3 DEF InstallInv, Marked
<1>5. Recorded'
  <2>1. ASSUME doubt = "no", changing' # "broken" PROVE AllWhole(mf.list)'
    <3>1. CASE mf' = mf
      BY <1>3, <2>1, <3>1 DEF InstallInv, Typed, Recorded, AllWhole
    <3>2. CASE mf' = NoManifest
      BY <1>1, <3>2 DEF AllWhole
    <3> QED
      BY <3>1, <3>2
  <2> QED
    BY <2>1 DEF Recorded
<1>6. a \notin DOMAIN mine /\ AllWhole(mine) =>
        \A b \in DOMAIN mine : \A f \in mine[b] : folder'[f] = "whole"
  BY <1>3 DEF InstallInv, Typed
<1> QED
  BY <1>2, <1>3, <1>4, <1>5, <1>6

\* The add-on that is being unpacked is in no list.
LEMMA AddonIsNew ==
    ASSUME InstallInv, WithAddon
    PROVE  /\ what \in Addons /\ what \notin DOMAIN mine /\ what \notin DOMAIN mf.list
           /\ changing # "no" /\ todo \in Seq(Range(AddonEntries[what]))
<1>1. /\ what \in Addons /\ what \notin DOMAIN mine /\ changing # "no"
      /\ (mf.list = mine \/ mf.list = << >>) /\ todo \in Seq(Range(AddonEntries[what]))
  BY DEF InstallInv, UnpackingAddon, Changing, WithAddons
<1> QED
  BY <1>1

LEMMA UnTarAddonKeeps == ASSUME InstallInv, UnTar, what # "pack" PROVE InstallInv'
<1>1. /\ at = "extract" /\ at' = "extract" /\ todo # << >> /\ todo' = Tail(todo)
      /\ folder' = [folder EXCEPT ![Head(todo)] = "whole"] /\ unpacked' = unpacked \cup {Head(todo)}
      /\ UNCHANGED <<mfile, mf, mine, said, doubt, changing, what>>
  BY DEF UnTar, From
<1> DEFINE x == Head(todo)
<1>2. /\ x \in Range(AddonEntries[what]) /\ x \in Files /\ what \in Addons /\ WithAddon
      /\ todo' \in Seq(Range(AddonEntries[what]))
  <2>1. WithAddon
    BY <1>1 DEF WithAddon
  <2> QED
    BY <1>1, <2>1, AddonIsNew, NextOfAddon
<1>3. /\ folder' = [f \in Files |-> folder'[f]] /\ folder'[x] = "whole"
      /\ \A f \in Files \ {x} : folder'[f] = folder[f]
  BY <1>1, <1>2, Put DEF InstallInv, Typed
<1> HIDE DEF x
<1>4. /\ Typed' /\ Marked' /\ Recorded' /\ folder'["modpack"] = "whole"
      /\ doubt = "no" /\ changing = "now" => \A b \in DOMAIN mine : \A f \in mine[b] : folder'[f] = "whole"
  <2>1. /\ what \notin DOMAIN mine /\ what \notin DOMAIN mf.list /\ changing # "no"
        /\ folder["modpack"] = "whole" /\ (doubt = "no" /\ changing = "now" => AllWhole(mine))
    BY <1>2, AddonIsNew DEF InstallInv, Placed, Changing
  <2>2. \A f \in Files \ Range(AddonEntries[what]) : folder'[f] = folder[f]
    BY <1>2, <1>3
  <2> QED
    BY <1>1, <1>2, <1>3, <2>1, <2>2, AddonUnpacks
<1>5. Placed'
  BY <1>1, <1>4 DEF InstallInv, Placed, Places, Resting, WithAddon
<1>6. Unpacking'
  BY <1>1 DEF Unpacking
<1>7. UnpackingAddon'
  <2>1. unpacked \subseteq Range(AddonEntries[what]) /\ what \notin DOMAIN mine
        /\ \A f \in unpacked : folder[f] = "whole"
    BY <1>2 DEF InstallInv, UnpackingAddon
  <2>2. \A f \in unpacked : f \in Files
    BY <1>2, <2>1, FileFacts
  <2>3. unpacked' = unpacked \cup {x}
    BY <1>1 DEF x
  <2> QED
    BY <1>1, <1>2, <1>3, <2>1, <2>2, <2>3 DEF UnpackingAddon
<1>8. Changing'
  BY <1>1, <1>2, <1>4 DEF InstallInv, Changing, WithAddon, WithAddons, AllWhole
<1> QED
  BY <1>4, <1>5, <1>6, <1>7, <1>8 DEF InstallInv

\* An entry that is cut off, and the thread or the process that ends with it.
LEMMA CutOffKeeps ==
    ASSUME InstallInv, NEW s, s # << >>,
           \/ PackLeft(folder, s, doubt)
           \/ /\ changing # "no"
              /\ \E a \in Addons : s \in Seq(Range(AddonEntries[a])) /\ a \notin DOMAIN mf.list,
           folder' = [folder EXCEPT ![Head(s)] = "partial"],
           at' \in {"off", "idle", "panel", "stuck"}, at' = "off" => changing' # "now",
           mfile' = mfile, mf' = mf \/ mf' = NoManifest, mine' = mine \/ mine' = << >>,
           said' # "successful", doubt' = doubt, changing' = changing \/ changing' = "broken"
    PROVE  InstallInv'
<1>1. Placed'
  BY DEF Placed, Places, Resting, WithAddon
<1>2. CASE PackLeft(folder, s, doubt)
  <2>1. /\ folder' = [f \in Files |-> folder'[f]] /\ \A f \in AddonFiles : folder'[f] = folder[f]
        /\ Marked'
    BY <1>2, PackEntryCut
  <2>2. Typed' /\ Recorded'
    BY <2>1, PackFilesChange
  <2> QED
    BY <1>1, <2>1, <2>2, CalmKeeps DEF Calm
<1>3. ASSUME NEW a \in Addons, s \in Seq(Range(AddonEntries[a])), a \notin DOMAIN mf.list,
             changing # "no"
      PROVE  InstallInv'
  <2> DEFINE x == Head(s)
  <2>1. x \in Range(AddonEntries[a]) /\ x \in Files
    BY <1>3, NextOfAddon
  <2>2. /\ folder' = [f \in Files |-> folder'[f]]
        /\ \A f \in Files \ {x} : folder'[f] = folder[f]
    BY <2>1, Put DEF InstallInv, Typed
  <2> HIDE DEF x
  <2>3. Typed' /\ Marked' /\ Recorded'
    BY <1>3, <2>1, <2>2, AddonUnpacks
  <2> QED
    BY <1>1, <2>3, CalmKeeps DEF Calm
<1> QED
  BY <1>2, <1>3

\* What the thread is unpacking, as CutOffKeeps wants it.
LEMMA AtWork ==
    ASSUME InstallInv, at = "extract"
    PROVE  \/ PackLeft(folder, todo, doubt)
           \/ /\ changing # "no"
              /\ \E a \in Addons : todo \in Seq(Range(AddonEntries[a])) /\ a \notin DOMAIN mf.list
<1>1. CASE what = "pack"
  BY <1>1 DEF InstallInv, Unpacking
<1>2. CASE what # "pack"
  BY <1>2, AddonIsNew DEF WithAddon
<1> QED
  BY <1>1, <1>2

LEMMA DownloadFailsKeeps == ASSUME InstallInv, DownloadFails PROVE InstallInv'
<1>1. /\ at = "extract" /\ todo # << >> /\ at' \in {"idle", "stuck"} /\ said' = "errors"
      /\ mine' = << >> /\ UNCHANGED <<mfile, mf, doubt, changing>>
      /\ folder' = folder \/ folder' = [folder EXCEPT ![Head(todo)] = "partial"]
  BY DEF DownloadFails, InstallationFails, Forgotten, CutOff
<1>2. CASE folder' = folder
  BY <1>1, <1>2, CalmStep DEF Calm
<1>3. CASE folder' = [folder EXCEPT ![Head(todo)] = "partial"]
  BY <1>1, <1>3, AtWork, CutOffKeeps
<1> QED
  BY <1>1, <1>2, <1>3

LEMMA KillInstallerKeeps == ASSUME InstallInv, Lates, KillInstaller PROVE InstallInv'
<1>1. /\ at \notin {"off", "idle", "panel", "stuck"} /\ at' = "off"
      /\ mine' = << >> /\ mf' = NoManifest /\ UNCHANGED <<mfile, said>>
      /\ changing' = IF changing = "now" THEN "broken" ELSE changing
  BY DEF KillInstaller, Ends, Forgotten
<1>2. said = "nothing" /\ LateLists = {}
  BY <1>1 DEF InstallInv, Placed, Resting, Lates, LateLists
<1>3. \/ folder' = folder /\ doubt' = doubt
      \/ /\ at = "extract" /\ todo # << >> /\ folder' = [folder EXCEPT ![Head(todo)] = "partial"]
         /\ doubt' = doubt
      \/ at = "import" /\ HalfUpdated
  BY <1>2 DEF KillInstaller, CutOff
<1>4. CASE folder' = folder /\ doubt' = doubt
  BY <1>1, <1>2, <1>4, CalmStep DEF Calm
<1>5. CASE /\ at = "extract" /\ todo # << >> /\ folder' = [folder EXCEPT ![Head(todo)] = "partial"]
           /\ doubt' = doubt
  BY <1>1, <1>2, <1>5, AtWork, CutOffKeeps
<1>6. CASE at = "import" /\ HalfUpdated
  BY <1>1, <1>6, UpdateBreaks
<1> QED
  BY <1>3, <1>4, <1>5, <1>6

LEMMA QuitInstallerKeeps == ASSUME InstallInv, Lates, QuitInstaller PROVE InstallInv'
<1>1. /\ at' = "off" /\ mine' = << >> /\ mf' = NoManifest /\ UNCHANGED <<mfile, said, doubt>>
      /\ changing' = IF changing = "now" THEN "broken" ELSE changing
  BY DEF QuitInstaller, Ends, Forgotten
<1>2. CASE folder' = folder
  BY <1>1, <1>2, CalmStep DEF Calm
<1>3. CASE folder' \in CutOff(LateLists)
  <2>1. PICK t \in late : t.todo # << >> /\ folder' = [folder EXCEPT ![Head(t.todo)] = "partial"]
    BY <1>3 DEF CutOff, LateLists
  <2>2. said' = "errors" /\ (LatePack(t) \/ LateAddon(t))
    BY <1>1 DEF Lates
  <2> QED
    BY <1>1, <2>1, <2>2, CutOffKeeps DEF LatePack, LateAddon
<1> QED
  BY <1>2, <1>3 DEF QuitInstaller

LEMMA PackDownloadedKeeps == ASSUME InstallInv, PackDownloaded PROVE InstallInv'
<1>1. /\ at = "saved" /\ what = "pack" /\ RegisterOldPack /\ UNCHANGED <<mfile, mf, doubt, changing>>
  BY DEF PackDownloaded
<1>2. said = "nothing"
  BY <1>1 DEF InstallInv, Placed, Resting
<1>3. /\ folder' = [f \in Files |-> folder'[f]]
      /\ \A f \in Files \ {"modpack"} : folder'[f] = folder[f]
      /\ folder'["modpack"] = "whole" <=> folder["modpack"] = "whole"
  BY <1>1, OldPackRegistered
<1>4. Marked'
  BY <1>1, <1>3, FileFacts DEF InstallInv, Marked
<1>5. CASE DetectPack # "nothing" /\ at' = "plan" /\ UNCHANGED <<listed, thread, said>>
  <2>1. Typed' /\ Recorded'
    BY <1>1, <1>3, <1>5, FileFacts, PackFilesChange DEF thread
  <2>2. folder["modpack"] = "whole"
    <3>1. folder["ver"] # "none"
      BY <1>5 DEF DetectPack
    <3>2. todo \in Seq(Range(PackEntries)) /\ ~(Len(todo) >= 1)
          /\ (Len(todo) <= 1 => folder["modpack"] = "whole")
      BY <1>1, <3>1 DEF InstallInv, Unpacking, PackLeft
    <3> QED
      BY <3>2
  <2>3. Placed'
    BY <1>2, <1>3, <1>5, <2>2 DEF Placed, Places, Resting, WithAddon
  <2> QED
    BY <1>4, <1>5, <2>1, <2>3, CalmKeeps DEF Calm
<1>6. CASE InstallationFails
  <2>1. at' \in {"idle", "stuck"} /\ said' = "errors" /\ mine' = << >>
    BY <1>6 DEF InstallationFails, Forgotten
  <2>2. Typed' /\ Recorded'
    BY <1>1, <1>3, <2>1, FileFacts, PackFilesChange
  <2>3. Placed'
    BY <2>1 DEF Placed, Places, Resting, WithAddon
  <2> QED
    BY <1>4, <2>1, <2>2, <2>3, CalmKeeps DEF Calm
<1> QED
  BY <1>5, <1>6 DEF PackDownloaded

-----------------------------------------------------------------------------
(* downloadAddons.                                                          *)

LEMMA PlanAddonsKeeps == ASSUME InstallInv, PlanAddons PROVE InstallInv'
<1>1. /\ at = "plan" /\ at' = (IF mf.key = "null" THEN "stuck" ELSE "addons") /\ mine' = mf.list
      /\ changing' = (IF changing = "no" /\ mf.key # "null" THEN "now" ELSE changing)
      /\ UNCHANGED <<folder, mfile, mf, said, doubt>>
  BY DEF PlanAddons, From
<1>2. Typed'
  BY <1>1 DEF InstallInv, Typed, Shaped, Owned
<1>3. Marked'
  BY <1>1 DEF InstallInv, Marked
<1>4. Recorded'
  BY <1>1 DEF InstallInv, Typed, Recorded, AllWhole
<1>5. Placed'
  BY <1>1 DEF InstallInv, Placed, Places, Resting, WithAddon
<1>6. Unpacking' /\ UnpackingAddon'
  BY <1>1 DEF Unpacking, UnpackingAddon, WithAddon
<1>7. Changing'
  BY <1>1, <1>4 DEF InstallInv, Typed, Changing, Recorded, WithAddon, WithAddons, AllWhole
<1> QED
  BY <1>2, <1>3, <1>4, <1>5, <1>6, <1>7 DEF InstallInv

\* The list in memory that follows a change of the list of downloadAddons.
LEMMA MapFollows ==
    ASSUME InstallInv, at = "addons" \/ WithAddon, NEW list, Owned(list), InMap(list)
    PROVE  /\ Shaped(mf') /\ Owned(mf'.list) /\ (mf'.list = list \/ mf'.list = << >>)
<1>1. CASE mf.key = "list"
  <2>1. mf' = [key |-> "list", list |-> list]
    BY <1>1 DEF InMap, Listing
  <2> QED
    BY <2>1 DEF Shaped
<1>2. CASE mf.key # "list"
  <2>1. mf' = mf /\ Shaped(mf) /\ mf.list = << >> /\ Owned(mf.list)
    BY <1>2 DEF InMap, InstallInv, Typed, Shaped
  <2> QED
    BY <2>1
<1> QED
  BY <1>1, <1>2

\* Downloading goes on with a list whose files are whole.
LEMMA AddonsGoOn ==
    ASSUME InstallInv, at = "addons" \/ WithAddon, at' = "addons", InMap(mine'), Owned(mine'),
           folder' = [f \in Files |-> folder'[f]], UNCHANGED <<mfile, said, doubt, changing>>,
           \A f \in Content \cup {"modpack"} : folder'[f] = folder[f],
           doubt = "no" /\ changing = "now" => AllWhole(mine)'
    PROVE  InstallInv'
<1>1. Shaped(mf') /\ Owned(mf'.list) /\ (mf'.list = mine' \/ mf'.list = << >>)
  BY MapFollows
<1>2. Typed'
  <2>1. Shaped(mfile)' /\ Owned(mfile.list)' /\ changing' \in {"no", "now", "broken"}
    BY DEF InstallInv, Typed, Shaped, Owned
  <2>2. Shaped(mf)' /\ Owned(mf.list)' /\ Owned(mine)'
    BY <1>1 DEF Shaped, Owned
  <2> QED
    BY <2>1, <2>2 DEF Typed
<1>3. Marked'
  BY FileFacts DEF InstallInv, Marked
<1>4. changing # "no"
  BY DEF InstallInv, Changing, WithAddons
<1>5. Recorded'
  BY <1>1, <1>4, <1>2 DEF Recorded, AllWhole, Typed
<1>6. Placed'
  BY DEF InstallInv, Placed, Places, Resting, WithAddon
<1>7. Unpacking' /\ UnpackingAddon'
  BY DEF Unpacking, UnpackingAddon, WithAddon
<1>8. Changing'
  BY <1>1, <1>4 DEF Changing, WithAddon, WithAddons
<1> QED
  BY <1>2, <1>3, <1>5, <1>6, <1>7, <1>8 DEF InstallInv

LEMMA RemoveAddonKeeps ==
    ASSUME InstallInv, NEW a \in Addons, RemoveAddon(a)
    PROVE  InstallInv'
<1>1. /\ at = "addons" /\ at' = "addons" /\ a \in DOMAIN mine /\ InMap(mine')
      /\ mine' = [b \in DOMAIN mine \ {a} |-> mine[b]] /\ UNCHANGED <<mfile, said, doubt, changing>>
  BY DEF RemoveAddon, From, Restrict
<1>2. PICK gone \in SUBSET mine[a] :
           folder' = [f \in DOMAIN folder |-> IF f \in gone THEN "none" ELSE folder[f]]
  BY DEF RemoveAddon
<1>3. DOMAIN folder = Files /\ Owned(mine)
  BY DEF InstallInv, Typed
<1>4. folder' = [f \in Files |-> folder'[f]]
  BY <1>2, <1>3
<1>5. \A f \in Files \ Range(AddonEntries[a]) : folder'[f] = folder[f]
  BY <1>1, <1>2, <1>3 DEF Owned
<1>6. /\ DOMAIN mine' = DOMAIN mine \ {a} /\ \A b \in DOMAIN mine' : mine'[b] = mine[b]
  BY <1>1
<1>7. Owned(mine')
  BY <1>3, <1>6 DEF Owned
<1>8. doubt = "no" /\ changing = "now" => AllWhole(mine)'
  <2>1. SUFFICES ASSUME doubt = "no", changing = "now" PROVE AllWhole(mine)'
    OBVIOUS
  <2>2. AllWhole(mine)
    BY <1>1, <2>1 DEF InstallInv, Changing
  <2>3. \A b \in DOMAIN mine' : \A f \in mine'[b] : folder[f] = "whole"
    BY <1>6, <2>2 DEF AllWhole
  <2>4. \A b \in DOMAIN mine' : \A f \in mine'[b] : folder'[f] = "whole"
    <3>1. ASSUME NEW b \in DOMAIN mine', NEW f \in mine'[b] PROVE folder'[f] = "whole"
      <4>1. f \in AddonFiles /\ f \in Range(AddonEntries[b]) /\ b \in Addons /\ b # a
        BY <1>6, <1>7, <3>1, ListsAreFiles
      <4>2. f \notin Range(AddonEntries[a]) /\ f \in Files
        BY <4>1, InstallAssumption, FileFacts
      <4> QED
        BY <1>5, <2>3, <3>1, <4>2
    <3> QED
      BY <3>1
  <2> QED
    BY <2>4 DEF AllWhole
<1>9. \A f \in Content \cup {"modpack"} : folder'[f] = folder[f]
  BY <1>4, <1>5, AddonFilesChange
<1> QED
  BY <1>1, <1>4, <1>7, <1>8, <1>9, AddonsGoOn

LEMMA DownloadAddonKeeps ==
    ASSUME InstallInv, NEW a \in Addons, DownloadAddon(a)
    PROVE  InstallInv'
<1>1. /\ at = "addons" /\ at' = "extract" /\ a \notin DOMAIN mine /\ what' = a
      /\ todo' = AddonEntries[a] /\ unpacked' = {}
      /\ UNCHANGED <<folder, mfile, mf, mine, said, doubt, changing>>
  BY DEF DownloadAddon, From, Unpack
<1>2. Typed' /\ Marked' /\ Recorded'
  BY <1>1, SameFiles
<1>3. Placed'
  BY <1>1 DEF InstallInv, Placed, Places, Resting, WithAddon
<1>4. a # "pack"
  BY InstallAssumption
<1>5. AddonEntries[a] \in Seq(Range(AddonEntries[a]))
  <2>1. AddonEntries[a] \in Seq(STRING)
    BY InstallAssumption
  <2> QED
    BY <2>1 DEF Range
<1>6. Unpacking' /\ UnpackingAddon'
  BY <1>1, <1>4, <1>5 DEF Unpacking, UnpackingAddon, WithAddon
<1>7. Changing'
  BY <1>1 DEF InstallInv, Changing, WithAddon, WithAddons, AllWhole
<1> QED
  BY <1>2, <1>3, <1>6, <1>7 DEF InstallInv

LEMMA AddonDownloadedKeeps == ASSUME InstallInv, AddonDownloaded PROVE InstallInv'
<1>1. /\ at = "saved" /\ at' = "addons" /\ what # "pack" /\ InMap(mine')
      /\ mine' = [a \in DOMAIN mine \cup {what} |-> IF a = what THEN unpacked ELSE mine[a]]
      /\ UNCHANGED <<folder, mfile, said, doubt, changing>>
  BY DEF AddonDownloaded, From
<1>2. WithAddon
  BY <1>1 DEF WithAddon
<1>3. /\ what \in Addons /\ what \notin DOMAIN mine /\ unpacked \subseteq Range(AddonEntries[what])
      /\ \A f \in unpacked : folder[f] = "whole"
  BY <1>2 DEF InstallInv, UnpackingAddon
<1>4. /\ DOMAIN mine' = DOMAIN mine \cup {what} /\ mine'[what] = unpacked
      /\ \A a \in DOMAIN mine : mine'[a] = mine[a]
  BY <1>1, <1>3
<1>5. Owned(mine')
  <2>1. Owned(mine)
    BY DEF InstallInv, Typed
  <2> QED
    BY <1>3, <1>4, <2>1 DEF Owned
<1>6. doubt = "no" /\ changing = "now" => AllWhole(mine)'
  <2>1. doubt = "no" /\ changing = "now" => AllWhole(mine)
    BY <1>2 DEF InstallInv, Changing
  <2> QED
    BY <1>1, <1>3, <1>4, <2>1 DEF AllWhole
<1>7. folder' = [f \in Files |-> folder'[f]]
  BY <1>1 DEF InstallInv, Typed
<1> QED
  BY <1>1, <1>2, <1>5, <1>6, <1>7, AddonsGoOn

LEMMA AddonsDoneKeeps == ASSUME InstallInv, AddonsDone PROVE InstallInv'
<1>1. /\ at = "addons" /\ at' \in {"manifest", "post"} /\ mf' = Listing(mine)
      /\ mfile' \in {mfile, NullManifest} /\ UNCHANGED <<folder, mine, said, doubt, changing>>
  BY DEF AddonsDone, thread
<1>2. /\ Shaped(NullManifest) /\ NullManifest.list = << >> /\ Owned(<< >>)
      /\ Shaped(Listing(mine)) /\ Listing(mine).list = mine
  BY DEF Shaped, NullManifest, Owned, Listing
<1>3. Typed'
  BY <1>1, <1>2 DEF InstallInv, Typed, Shaped, Owned
<1>4. Marked'
  BY <1>1 DEF InstallInv, Marked
<1>5. changing # "no"
  BY <1>1 DEF InstallInv, Changing, WithAddons
<1>6. Recorded'
  BY <1>1, <1>2, <1>5 DEF InstallInv, Typed, Changing, Recorded, AllWhole
<1>7. Placed'
  BY <1>1 DEF InstallInv, Placed, Places, Resting, WithAddon
<1>8. Unpacking' /\ UnpackingAddon' /\ Changing'
  BY <1>1, <1>5 DEF Unpacking, UnpackingAddon, Changing, WithAddon, WithAddons
<1> QED
  BY <1>3, <1>4, <1>6, <1>7, <1>8 DEF InstallInv

LEMMA WriteManifestKeeps == ASSUME InstallInv, WriteManifest PROVE InstallInv'
<1>1. /\ at = "manifest" /\ at' = "post" /\ mfile' = mf
      /\ changing' = (IF changing = "now" THEN "no" ELSE changing)
      /\ UNCHANGED <<folder, mf, mine, said, doubt>>
  BY DEF WriteManifest, From, thread
<1>2. Typed'
  BY <1>1 DEF InstallInv, Typed, Shaped, Owned
<1>3. Marked'
  BY <1>1 DEF InstallInv, Marked
<1>4. changing # "no"
  BY <1>1 DEF InstallInv, Changing, WithAddons
<1>5. Recorded'
  BY <1>1, <1>4 DEF InstallInv, Recorded, AllWhole
<1>6. Placed'
  BY <1>1 DEF InstallInv, Placed, Places, Resting, WithAddon
<1> QED
  BY <1>1, <1>2, <1>3, <1>5, <1>6, CalmKeeps DEF Calm

-----------------------------------------------------------------------------
(* An unTar that is late.                                                   *)

LEMMA UnTarOutlivesKeeps == ASSUME InstallInv, UnTarOutlives PROVE InstallInv'
<1>1. /\ at' \in {"idle", "stuck"} /\ said' = "errors" /\ mine' = << >>
      /\ UNCHANGED <<folder, mfile, mf, doubt, changing>>
  BY DEF UnTarOutlives, InstallationFails, Forgotten
<1> QED
  BY <1>1, CalmStep DEF Calm

\* Where a late unTar is found.
LEMMA LateFacts ==
    ASSUME InstallInv, Lates, NEW t \in late
    PROVE  /\ at \in {"idle", "panel", "stuck"} /\ said = "errors"
           /\ LatePack(t) \/ LateAddon(t)
           /\ \A u \in late : u = t
  BY DEF Lates, Resting

LEMMA LateUnTarKeeps ==
    ASSUME InstallInv, Lates, NEW t \in late, LateUnTar(t)
    PROVE  InstallInv' /\ Lates'
<1> DEFINE x == Head(t.todo)
           u == [todo |-> Tail(t.todo), unpacked |-> t.unpacked \cup {x}]
<1>1. /\ t.todo # << >> /\ folder' = [folder EXCEPT ![x] = "whole"] /\ late' = (late \ {t}) \cup {u}
      /\ UNCHANGED <<mfile, at, mf, mine, lent, said, doubt, changing>>
  BY DEF LateUnTar, thread
<1>2. /\ at \in {"idle", "panel", "stuck"} /\ said = "errors" /\ (LatePack(t) \/ LateAddon(t))
      /\ late' = {u} /\ u.todo = Tail(t.todo) /\ lent = << >>
  BY <1>1, LateFacts DEF Lates
<1> HIDE DEF u
<1>3. Placed'
  BY <1>1, <1>2 DEF Placed, Places, Resting, WithAddon
<1>4. CASE LatePack(t)
  <2>1. /\ folder' = [f \in Files |-> folder'[f]] /\ \A f \in AddonFiles : folder'[f] = folder[f]
        /\ Marked' /\ PackLeft(folder', Tail(t.todo), doubt')
    BY <1>1, <1>4, PackEntryComes DEF LatePack
  <2>2. Typed' /\ Recorded'
    BY <1>1, <2>1, PackFilesChange
  <2>3. InstallInv'
    BY <1>1, <1>2, <1>3, <2>1, <2>2, CalmKeeps DEF Calm
  <2>4. \A v \in late' : PackLeft(folder', v.todo, doubt') /\ v = u
    BY <1>2, <2>1
  <2> QED
    BY <1>1, <1>2, <2>3, <2>4 DEF Lates, LatePack, Resting
<1>5. CASE LateAddon(t)
  <2>1. PICK a \in Addons : t.todo \in Seq(Range(AddonEntries[a])) /\ a \notin DOMAIN mf.list
    BY <1>5 DEF LateAddon
  <2>2. x \in Range(AddonEntries[a]) /\ x \in Files /\ Tail(t.todo) \in Seq(Range(AddonEntries[a]))
    BY <1>1, <2>1, NextOfAddon
  <2>3. /\ folder' = [f \in Files |-> folder'[f]]
        /\ \A f \in Files \ {x} : folder'[f] = folder[f]
    BY <1>1, <2>2, Put DEF InstallInv, Typed
  <2> HIDE DEF x
  <2>4. changing # "no"
    BY <1>5 DEF LateAddon
  <2>5. \A f \in Files \ Range(AddonEntries[a]) : folder'[f] = folder[f]
    BY <2>2, <2>3
  <2>6. Typed' /\ Marked' /\ Recorded'
    BY <1>1, <2>1, <2>3, <2>4, <2>5, AddonUnpacks
  <2>7. InstallInv'
    BY <1>1, <1>2, <1>3, <2>6, CalmKeeps DEF Calm
  <2>8. \A v \in late' : v.todo \in Seq(Range(AddonEntries[a])) /\ v = u
    BY <1>2, <2>2
  <2> QED
    BY <1>1, <1>2, <2>1, <2>4, <2>7, <2>8 DEF Lates, LateAddon, Resting
<1> QED
  BY <1>2, <1>4, <1>5

LEMMA LateFailsKeeps ==
    ASSUME InstallInv, Lates, NEW t \in late, LateFails(t)
    PROVE  InstallInv' /\ Lates'
<1>1. /\ t.todo # << >> /\ folder' = [folder EXCEPT ![Head(t.todo)] = "partial"] /\ late' = late \ {t}
      /\ UNCHANGED <<mfile, at, mf, mine, lent, said, doubt, changing>>
  BY DEF LateFails, thread, CutOff
<1>2. /\ at \in {"idle", "panel", "stuck"} /\ said = "errors" /\ (LatePack(t) \/ LateAddon(t))
      /\ late' = {} /\ lent = << >>
  BY <1>1, LateFacts DEF Lates
<1>3. InstallInv'
  BY <1>1, <1>2, CutOffKeeps DEF LatePack, LateAddon
<1> QED
  BY <1>1, <1>2, <1>3 DEF Lates

LEMMA LateEndsKeeps ==
    ASSUME InstallInv, Lates, NEW t \in late, LateEnds(t)
    PROVE  InstallInv' /\ Lates'
<1>1. at \in {"idle", "panel", "stuck"} /\ said = "errors" /\ \A u \in late : u = t
  BY LateFacts
<1>2. /\ UNCHANGED <<folder, mfile, at, mf, mine, lent, said, doubt, changing>>
      /\ late' = late \ {t}
  BY <1>1 DEF LateEnds
<1>3. InstallInv'
  BY <1>1, <1>2, CalmStep DEF Calm
<1> QED
  BY <1>1, <1>2, <1>3 DEF Lates

\* One step per action of the player and of the threads.
LEMMA InstallInvNext ==
    ASSUME InstallInv, Lates, INext \/ UNCHANGED ivars
    PROVE  InstallInv'
<1>1. CASE UNCHANGED ivars
  <2>1. UNCHANGED <<folder, mfile, mf, mine, at, what, todo, unpacked, said, doubt, changing>>
    BY <1>1 DEF ivars, thread
  <2>2. Typed' /\ Marked' /\ Recorded'
    BY <2>1, SameFiles
  <2>3. Placed' /\ Unpacking'
    BY <2>1 DEF InstallInv, Placed, Resting, WithAddon, Unpacking
  <2>4. UnpackingAddon' /\ Changing'
    BY <2>1 DEF InstallInv, UnpackingAddon, Changing, WithAddon, WithAddons, AllWhole
  <2> QED
    BY <2>2, <2>3, <2>4 DEF InstallInv
<1>2. CASE StartUp \/ KillInstaller \/ QuitInstaller
  BY <1>2, StartUpKeeps, KillInstallerKeeps, QuitInstallerKeeps
<1>3. CASE OpenPanel \/ ChooseAddons \/ AbortPanel \/ \E force \in BOOLEAN : Begin(force)
  BY <1>3, WindowKeeps
<1>4. CASE InstallSteps
  <2>1. CASE CleanUp \/ CleanedUp \/ Refused \/ DownloadPack \/ Imported \/ ImportFails
    BY <2>1, CleanUpKeeps, CleanedUpKeeps, RefusedKeeps, DownloadPackKeeps, ImportKeeps
  <2>2. CASE UnTar \/ UnTarEnds \/ DownloadFails \/ UnTarOutlives \/ PackDownloaded
    BY <2>2, UnTarPackKeeps, UnTarAddonKeeps, UnTarEndsKeeps, DownloadFailsKeeps,
       UnTarOutlivesKeeps, PackDownloadedKeeps
  <2>3. CASE PlanAddons \/ AddonDownloaded \/ AddonsDone \/ WriteManifest
    BY <2>3, PlanAddonsKeeps, AddonDownloadedKeeps, AddonsDoneKeeps, WriteManifestKeeps
  <2>4. CASE \E a \in Addons : RemoveAddon(a) \/ DownloadAddon(a)
    BY <2>4, RemoveAddonKeeps, DownloadAddonKeeps
  <2>5. CASE SuccessIsLent
    BY <2>5 DEF SuccessIsLent, Lates
  <2>6. CASE \E t \in late : LateUnTar(t) \/ LateFails(t) \/ LateEnds(t)
    BY <2>6, LateUnTarKeeps, LateFailsKeeps, LateEndsKeeps
  <2> QED
    BY <1>4, <2>1, <2>2, <2>3, <2>4, <2>5, <2>6, ThreadKeeps DEF InstallSteps
<1> QED
  BY <1>1, <1>2, <1>3, <1>4 DEF INext

\* No thread is late while another works, unless it was begun beside it.
LEMMA LatesNext ==
    ASSUME InstallInv, Lates, INext \/ UNCHANGED ivars, doubt' # "late"
    PROVE  Lates'
<1>1. ASSUME late' = {}, lent' = << >> PROVE Lates'
  BY <1>1 DEF Lates
<1>2. ASSUME UNCHANGED <<folder, mf, said, doubt, changing, late, lent>>,
             UNCHANGED at \/ at' \in {"idle", "panel", "stuck"}
      PROVE  Lates'
  BY <1>2 DEF Lates, LatePack, LateAddon, Resting
<1>3. lent = << >> /\ (~Resting \/ at = "off" => late = {})
  BY DEF Lates
<1>4. CASE UNCHANGED ivars
  BY <1>2, <1>4 DEF ivars, others
<1>5. CASE StartUp \/ KillInstaller \/ QuitInstaller
  BY <1>1, <1>3, <1>5 DEF StartUp, KillInstaller, QuitInstaller, Ends, From, others
<1>6. CASE OpenPanel \/ ChooseAddons \/ AbortPanel
  BY <1>2, <1>6 DEF OpenPanel, ChooseAddons, AbortPanel, From, others
<1>7. CASE \E force \in BOOLEAN : Begin(force)
  BY <1>1, <1>3, <1>7 DEF Begin, others
<1>8. CASE InstallSteps
  <2>1. CASE CleanUp \/ CleanedUp \/ Refused \/ AskForAddons \/ DownloadPack \/ ImportPack
    BY <1>1, <1>3, <2>1 DEF CleanUp, CleanedUp, Refused, AskForAddons, DownloadPack, ImportPack,
       From, Resting, others, Unpack
  <2>2. CASE Imported \/ ImportFails \/ ChangeAddons \/ UnTar \/ UnTarEnds \/ DownloadFails \/ NetworkFails
    BY <1>1, <1>3, <2>2 DEF Imported, ImportFails, ChangeAddons, UnTar, UnTarEnds, DownloadFails,
       NetworkFails, From, Resting, others
  <2>3. CASE PackDownloaded \/ PlanAddons \/ AddonDownloaded \/ AddonsDone \/ WriteManifest
    BY <1>1, <1>3, <2>3 DEF PackDownloaded, PlanAddons, AddonDownloaded, AddonsDone, WriteManifest,
       From, Resting, others
  <2>4. CASE \E a \in Addons : RemoveAddon(a) \/ DownloadAddon(a)
    BY <1>1, <1>3, <2>4 DEF RemoveAddon, DownloadAddon, From, Resting, others, Unpack
  <2>5. CASE \E ok \in BOOLEAN : BeginEnds(ok)
    BY <1>1, <1>3, <2>5 DEF BeginEnds, Resting, others
  <2>6. CASE SuccessIsLent
    BY <1>3, <2>6 DEF SuccessIsLent
  <2>7. CASE \E t \in late : LateUnTar(t) \/ LateFails(t) \/ LateEnds(t)
    BY <2>7, LateUnTarKeeps, LateFailsKeeps, LateEndsKeeps
  <2>8. CASE UnTarOutlives
    <3> DEFINE t == [todo |-> todo, unpacked |-> unpacked]
    <3>1. /\ at = "extract" /\ late' = late \cup {t} /\ said' = "errors" /\ at' \in {"idle", "stuck"}
          /\ UNCHANGED <<folder, mf, lent, doubt, changing>>
      BY <2>8 DEF UnTarOutlives, InstallationFails
    <3>2. late' = {t} /\ t.todo = todo
      BY <1>3, <3>1 DEF Resting
    <3> HIDE DEF t
    <3>3. \/ PackLeft(folder', t.todo, doubt')
          \/ /\ changing' # "no"
             /\ \E a \in Addons : t.todo \in Seq(Range(AddonEntries[a])) /\ a \notin DOMAIN mf'.list
      BY <3>1, <3>2, AtWork
    <3>4. ASSUME NEW v \in late' PROVE (LatePack(v) \/ LateAddon(v))' /\ v = t
      BY <3>2, <3>3, <3>4 DEF LatePack, LateAddon
    <3> QED
      BY <1>3, <3>1, <3>2, <3>3 DEF Lates, Resting, LatePack, LateAddon
  <2> QED
    BY <1>8, <2>1, <2>2, <2>3, <2>4, <2>5, <2>6, <2>7, <2>8 DEF InstallSteps
<1> QED
  BY <1>4, <1>5, <1>6, <1>7, <1>8 DEF INext

\* An installation that was begun beside another's unTar is never vouched for.
LEMMA DoubtStays ==
    ASSUME doubt = "late", INext \/ UNCHANGED ivars
    PROVE  doubt' = "late"
<1>1. CASE UNCHANGED ivars
  BY <1>1 DEF ivars
<1>2. CASE StartUp \/ KillInstaller \/ QuitInstaller \/ OpenPanel \/ ChooseAddons \/ AbortPanel
  BY <1>2 DEF StartUp, KillInstaller, QuitInstaller, OpenPanel, ChooseAddons, AbortPanel, HalfUpdated
<1>3. CASE \E force \in BOOLEAN : Begin(force)
  BY <1>3 DEF Begin
<1>4. CASE InstallSteps
  <2>1. CASE CleanUp \/ CleanedUp \/ Refused \/ AskForAddons \/ DownloadPack \/ ImportPack
    BY <2>1 DEF CleanUp, CleanedUp, Refused, AskForAddons, DownloadPack, ImportPack, Settled
  <2>2. CASE Imported \/ ImportFails \/ ChangeAddons \/ UnTar \/ UnTarEnds \/ DownloadFails \/ NetworkFails
    BY <2>2 DEF Imported, ImportFails, ChangeAddons, UnTar, UnTarEnds, DownloadFails, NetworkFails, HalfUpdated
  <2>3. CASE PackDownloaded \/ PlanAddons \/ AddonDownloaded \/ AddonsDone \/ WriteManifest
    BY <2>3 DEF PackDownloaded, PlanAddons, AddonDownloaded, AddonsDone, WriteManifest
  <2>4. CASE \E a \in Addons : RemoveAddon(a) \/ DownloadAddon(a)
    BY <2>4 DEF RemoveAddon, DownloadAddon
  <2>5. CASE (\E ok \in BOOLEAN : BeginEnds(ok)) \/ SuccessIsLent \/ UnTarOutlives
    BY <2>5 DEF BeginEnds, SuccessIsLent, UnTarOutlives
  <2>6. CASE \E t \in late : LateUnTar(t) \/ LateFails(t) \/ LateEnds(t)
    BY <2>6 DEF LateUnTar, LateFails, LateEnds
  <2> QED
    BY <1>4, <2>1, <2>2, <2>3, <2>4, <2>5, <2>6 DEF InstallSteps
<1> QED
  BY <1>1, <1>2, <1>3, <1>4 DEF INext

Vouched == doubt = "late" \/ (InstallInv /\ Lates)

\* A pack that the installer called installed, or that its next start takes for
\* installed, has all its files, and manifest.json names only files of add-ons that
\* are there, whatever failed or was killed and however often it was tried again
\* (InstallPanel.begin, downloadPack, downloadArchive, downloadAddons, cleanUp): for any
\* archive that ends with "modpack" and "ver" and any add-ons that share no file, with
\* the exceptions that InstalledPacksAreWhole names.
THEOREM PacksAreInstalledWhole == ISpec => []InstalledPacksAreWhole
<1>1. IInit => Vouched
  <2>1. IInit => Lates
    BY DEF IInit, Lates
  <2> QED
    BY <2>1, InstallInvInit DEF Vouched
<1>2. Vouched /\ [INext]_ivars => Vouched'
  <2>1. SUFFICES ASSUME Vouched, INext \/ UNCHANGED ivars PROVE Vouched'
    OBVIOUS
  <2> QED
    BY <2>1, InstallInvNext, LatesNext, DoubtStays DEF Vouched
<1>3. Vouched => InstalledPacksAreWhole
  BY DEF Vouched, InstallInv, Marked, Recorded, Placed, AllWhole, Content, Known, StillPresent,
     InstalledPacksAreWhole
<1> QED
  BY <1>1, <1>2, <1>3, PTL DEF ISpec

-----------------------------------------------------------------------------
(* The calls of the FTP client: FtpInv.                                    *)

Asking == {"port", "retr", "vers", "self"}
CommandSet == [cmd : {"PORT", "RETR", "VERS"}, id : Ids]
Codes == {150, 200, 216, 226, 421, 425, 426, 500, 550}
ReplySet == [code : Codes, id : Ids, to : {"chat", "wait"}]

\* A semaphore is released once, and a call adds at most one permit.
FtpTyped ==
    /\ TypeOK
    /\ passive \in BOOLEAN /\ success \in BOOLEAN /\ mixed \in BOOLEAN
    /\ waitingForResponse \in BOOLEAN /\ interrupted \in BOOLEAN /\ stray \in BOOLEAN
    /\ old \in Ids \cup {None}
    /\ cmds \in Seq(CommandSet) /\ replies \in Seq(ReplySet)
    /\ \A i \in Ids : semaphore[i] > 0 => wait[i] = "done"
    /\ permits <= k /\ (pc \in Asking => permits < k)

\* The calls are made one after the other, and what belongs to a later one is untouched.
InOrder ==
    /\ pc # "idle" => k > 0 /\ result[k] = "none"
    /\ pc \in Asking => wait[k] = "none"
    /\ \A i \in Ids : i < k \/ (i = k /\ pc = "idle") => result[i] # "none"
    /\ \A i \in Ids : i <= k => call[i] # "none"
    /\ \A i \in Ids : i > k => /\ call[i] = "none" /\ result[i] = "none" /\ got[i] = "none"
                               /\ wait[i] = "none" /\ data[i] = "none" /\ sock[i] = "none"
    /\ \A i \in Ids : listener[i] <= k
    /\ \A i \in Ids : call[i] = "file" => result[i] \in {"none", "true", "false", "interrupted"}
    /\ \A n \in 1..Len(cmds) : cmds[n].id <= k
    /\ port <= k /\ channel <= k
    /\ pc \in Asking => (pc = "vers" <=> call[k] = "vers")

\* A listener is that of one data thread, which has ended when all has been read.
OneListener ==
    \A c \in Ids : listener[c] # None =>
        /\ \A d \in Ids : listener[d] = listener[c] => d = c
        /\ got[listener[c]] \in {"all", "cut"} => data[c] = "done"

\* In passive mode the channel comes after the reply to PASV.
PassiveLater ==
    passive /\ pc \in {"port", "self"} =>
        /\ got[k] = "none" /\ sock[k] = "none" /\ data[k] = "none" /\ channel # k
        /\ \A c \in Ids : listener[c] # k
        /\ pc = "port" => channel = None

\* In active mode it is there before PORT is sent, and nobody connects to it before RETR.
ActiveBefore ==
    ~passive /\ pc = "port" =>
        /\ isActive[k] /\ got[k] = "none" /\ listener[k] = k
        /\ sock[k] \in {"listen", "closed"} /\ data[k] \in {"accept", "timeout", "done"}

\* The server handles the commands in the order of the calls, RETR after its PORT.
Served ==
    /\ \A n \in 1..Len(cmds) : port <= cmds[n].id
    /\ \A m, n \in 1..Len(cmds) : m <= n => cmds[m].id <= cmds[n].id
    /\ sending # None => port <= sending /\ sending <= k
    /\ pc = "port" => /\ sending # k
                      /\ \A n \in 1..Len(cmds) : cmds[n].id = k => cmds[n].cmd = "PORT"

\* The server sends into a connection that is open or was closed by the client.
Connection == sending # None => port # None /\ sock[port] \in {"open", "closed"}

\* A call that failed: from then on the replies may be out of step.
Failed == \E i \in Ids : result[i] \in {"false", "interrupted"}
\* A download whose RETR was refused never returns on its own.
Stuck == pc = "wait" /\ wait[k] = "none"

\* The first answer to PORT or RETR after which the client sends another command; none
\* in s, at most one, only as the last.
First(r) == r.code \in {150, 200, 500}
Quiet(s) == \A n \in 1..Len(s) : ~First(s[n])
OneFirst(s) == \A m, n \in 1..Len(s) : First(s[m]) /\ First(s[n]) => m = n
FirstIsLast(s) == \A n \in 1..Len(s) : First(s[n]) => n = Len(s)
Without(s, code) == \A n \in 1..Len(s) : s[n].code # code
OnlyVers(s) == \A n \in 1..Len(s) : s[n].cmd = "VERS"
EndsIn(s, c) ==
    /\ s # <<>> /\ s[Len(s)].cmd = c
    /\ \A n \in 1..Len(s) : s[n].cmd # "VERS" => n = Len(s)

\* The server was told of the current channel, or sends and was told of an older one.
OfChannel == port # None /\ passive /\ channel # None => port = channel
PortUsed == OfChannel /\ (port # None => sending # None)

\* While no call has failed, the first answer to a command comes once.  Before it there
\* may be the last reply of a readme, or the reply to a VERS that took that one.
InStep ==
    ~Failed =>
    /\ pc \in {"idle", "self", "vers"} => OnlyVers(cmds) /\ Quiet(replies) /\ PortUsed
    /\ pc = "self" /\ port # None => port = old
    /\ pc = "port" =>
        \/ EndsIn(cmds, "PORT") /\ cmds[Len(cmds)].id = k /\ Quiet(replies) /\ PortUsed
        \/ /\ cmds = <<>> /\ sending = None /\ OneFirst(replies) /\ Without(replies, 150)
           /\ \/ port = k /\ Without(replies, 500)
              \/ port = None /\ Without(replies, 200)
        \/ cmds = <<>> /\ Quiet(replies) /\ PortUsed
    /\ pc = "retr" =>
        \/ EndsIn(cmds, "RETR") /\ Quiet(replies) /\ OfChannel
        \/ cmds = <<>> /\ sending # None /\ FirstIsLast(replies) /\ OfChannel
        \/ cmds = <<>> /\ sending = None /\ port = None /\ OneFirst(replies)
        \/ cmds = <<>> /\ Quiet(replies)
    /\ pc = "wait" /\ ~Stuck =>
        /\ cmds = <<>> /\ Quiet(replies) /\ PortUsed
        /\ sending # None => replies = <<>> /\ wait[k] \in {"ready", "reading"}

\* A command thread that has read an abandoned channel itself gets no 150 any more.
Dead ==
    /\ pc \in {"retr", "wait"} /\ wait[k] = "none"
    /\ port = None /\ sending = None
    /\ \A n \in 1..Len(cmds) : cmds[n].cmd # "PORT"
    /\ Without(replies, 150)

\* The field "success" is about the current call.
Current ==
    pc \in {"port", "self", "retr", "wait"} /\ call[k] = "file" /\ success /\ ~Failed =>
        got[k] \in {"all", "cut"} \/ Dead

FtpInv ==
    /\ FtpTyped /\ InOrder /\ OneListener /\ PassiveLater /\ ActiveBefore /\ Served
    /\ Connection /\ InStep /\ Current /\ SuccessIsComplete

\* As long as every call waits for its transfer, the two ends take turns.
EachWaits == \A i \in Ids : ~NotWaitedFor(i)
ChannelLeft == \E i \in Ids : NotBegun(i)
Rested == cmds = <<>> /\ replies = <<>> /\ sending = None
Asked(c, code) ==
    /\ sending = None
    /\ \/ cmds = <<[cmd |-> c, id |-> k]>> /\ replies = <<>>
       \/ cmds = <<>> /\ replies = <<Reply(code, k, "chat")>>
Transferring(first) ==
    /\ cmds = <<>>
    /\ \/ sending = k /\ replies = first
       \/ /\ sending = None
          /\ \E code \in {226, 426} : replies = Append(first, Reply(code, k, "wait"))
Exchange ==
    /\ pc \in {"idle", "self"} => Rested
    /\ pc = "port" => \E code \in {200, 421, 500, 550} : Asked("PORT", code)
    /\ pc = "vers" => \E code \in {216, 421, 550} : Asked("VERS", code)
    /\ pc = "retr" => \/ Asked("RETR", 425) \/ Asked("RETR", 550)
                      \/ Transferring(<<Reply(150, k, "chat")>>)
    /\ pc = "wait" => IF wait[k] \in {"ready", "reading"} THEN Transferring(<<>>) ELSE Rested

TurnByTurn ==
    /\ ~mixed /\ Exchange
    /\ \A i \in Ids : i # k \/ pc # "wait" => wait[i] \in {"none", "done"}
    /\ lock = Command => pc \in {"port", "retr", "vers"}
    /\ \A i \in Ids : lock = i <=> wait[i] = "reading"
    /\ \/ ChannelLeft
       \/ pc \in {"idle", "vers"} \/ (pc = "wait" /\ wait[k] = "done") => channel = None
Apart == EachWaits => TurnByTurn

-----------------------------------------------------------------------------
(* Replies and commands in a queue.                                        *)

LEMMA TailOf ==
    ASSUME NEW S, NEW s \in Seq(S), s # <<>>
    PROVE  /\ Tail(s) \in Seq(S) /\ Head(s) = s[1] /\ Head(s) \in S
           /\ Len(s) \in Nat /\ Len(s) > 0 /\ Len(Tail(s)) = Len(s) - 1
           /\ \A n \in 1..Len(Tail(s)) : n + 1 \in 1..Len(s) /\ Tail(s)[n] = s[n + 1]
           /\ Len(s) = 1 => Tail(s) = <<>>
<1>1. /\ Head(s) \in S /\ Tail(s) \in Seq(S) /\ Len(Tail(s)) = Len(s) - 1
      /\ \A n \in 1..Len(Tail(s)) : Tail(s)[n] = s[n + 1]
  BY HeadTailProperties
<1>2. Len(s) \in Nat /\ Len(s) > 0 /\ Head(s) = s[1]
  BY EmptySeq
<1>3. Len(Tail(s)) = 0 => Tail(s) = <<>>
  BY <1>1, EmptySeq
<1> QED
  BY <1>1, <1>2, <1>3

LEMMA AppendTo ==
    ASSUME NEW S, NEW s \in Seq(S), NEW e \in S
    PROVE  /\ Append(s, e) \in Seq(S) /\ Append(s, e) # <<>>
           /\ Len(s) \in Nat /\ Len(Append(s, e)) = Len(s) + 1
           /\ Append(s, e)[Len(s) + 1] = e
           /\ \A n \in 1..Len(s) : Append(s, e)[n] = s[n]
  OBVIOUS

LEMMA TakenReply ==
    ASSUME NEW s \in Seq(ReplySet), s # <<>>
    PROVE  /\ Tail(s) \in Seq(ReplySet) /\ Head(s) \in ReplySet
           /\ Quiet(s) => Quiet(Tail(s)) /\ ~First(Head(s))
           /\ OneFirst(s) => OneFirst(Tail(s)) /\ (First(Head(s)) => Quiet(Tail(s)))
           /\ FirstIsLast(s) => FirstIsLast(Tail(s)) /\ (First(Head(s)) => Tail(s) = <<>>)
           /\ \A code : Without(s, code) => Without(Tail(s), code) /\ Head(s).code # code
<1> DEFINE t == Tail(s)
<1>1. /\ t \in Seq(ReplySet) /\ Head(s) = s[1] /\ Head(s) \in ReplySet
      /\ Len(s) \in Nat /\ Len(s) > 0 /\ Len(t) = Len(s) - 1
      /\ \A n \in 1..Len(t) : n + 1 \in 1..Len(s) /\ t[n] = s[n + 1]
      /\ Len(s) = 1 => t = <<>>
  BY TailOf
<1> HIDE DEF t, ReplySet, First
<1>2. 1 \in 1..Len(s)
  BY <1>1
<1>3. Quiet(s) => Quiet(t) /\ ~First(Head(s))
  BY <1>1, <1>2 DEF Quiet
<1>4. ASSUME OneFirst(s) PROVE OneFirst(t) /\ (First(Head(s)) => Quiet(t))
  <2>1. ASSUME NEW m \in 1..Len(t), NEW n \in 1..Len(t),
               First(t[m]), First(t[n])
        PROVE  m = n
    <3>1. First(s[m + 1]) /\ First(s[n + 1]) /\ m + 1 \in 1..Len(s) /\ n + 1 \in 1..Len(s)
      BY <1>1, <2>1
    <3> QED
      BY <1>4, <3>1 DEF OneFirst
  <2>2. ASSUME First(Head(s)), NEW n \in 1..Len(t), First(t[n])
        PROVE  FALSE
    <3>1. First(s[1]) /\ First(s[n + 1]) /\ n + 1 \in 1..Len(s)
      BY <1>1, <2>2
    <3>2. 1 = n + 1
      BY <1>2, <1>4, <3>1 DEF OneFirst
    <3> QED
      BY <3>2
  <2> QED
    BY <2>1, <2>2 DEF OneFirst, Quiet
<1>5. ASSUME FirstIsLast(s) PROVE FirstIsLast(t) /\ (First(Head(s)) => t = <<>>)
  <2>1. ASSUME NEW n \in 1..Len(t), First(t[n])
        PROVE  n = Len(t)
    <3>1. First(s[n + 1]) /\ n + 1 \in 1..Len(s)
      BY <1>1, <2>1
    <3>2. n + 1 = Len(s)
      BY <1>5, <3>1 DEF FirstIsLast
    <3>3. n = Len(s) - 1
      BY <1>1, <3>2
    <3> QED
      BY <1>1, <3>3
  <2>2. First(Head(s)) => Len(s) = 1
    BY <1>1, <1>2, <1>5 DEF FirstIsLast
  <2> QED
    BY <1>1, <2>1, <2>2 DEF FirstIsLast
<1>6. \A code : Without(s, code) => Without(t, code) /\ Head(s).code # code
  BY <1>1, <1>2 DEF Without
<1> QED
  BY <1>1, <1>3, <1>4, <1>5, <1>6 DEF t

LEMMA SentReply ==
    ASSUME NEW s \in Seq(ReplySet), NEW r \in ReplySet
    PROVE  /\ Append(s, r) \in Seq(ReplySet)
           /\ Quiet(s) => OneFirst(Append(s, r)) /\ FirstIsLast(Append(s, r))
           /\ ~First(r) => /\ Quiet(s) => Quiet(Append(s, r))
                           /\ OneFirst(s) => OneFirst(Append(s, r))
                           /\ FirstIsLast(s) => OneFirst(Append(s, r))
           /\ \A code : Without(s, code) /\ r.code # code => Without(Append(s, r), code)
<1>1. /\ Append(s, r) \in Seq(ReplySet) /\ Append(s, r) # <<>>
      /\ Len(s) \in Nat /\ Len(Append(s, r)) = Len(s) + 1
      /\ Append(s, r)[Len(s) + 1] = r
      /\ \A n \in 1..Len(s) : Append(s, r)[n] = s[n]
  BY AppendTo
<1> DEFINE t == Append(s, r)
<1> HIDE DEF t, ReplySet, First
<1>2. \A n \in 1..Len(t) : n = Len(t) \/ (n \in 1..Len(s) /\ t[n] = s[n])
  BY <1>1 DEF t
<1>3. t[Len(t)] = r
  BY <1>1 DEF t
<1>4. Quiet(s) => OneFirst(t) /\ FirstIsLast(t)
  BY <1>2 DEF Quiet, OneFirst, FirstIsLast
<1>5. ASSUME ~First(r) PROVE \A n \in 1..Len(t) : First(t[n]) => n \in 1..Len(s) /\ t[n] = s[n]
  BY <1>2, <1>3, <1>5
<1>6. ~First(r) => (Quiet(s) => Quiet(t))
  BY <1>5 DEF Quiet
<1>7. ~First(r) => (OneFirst(s) => OneFirst(t))
  BY <1>5 DEF OneFirst
<1>8. FirstIsLast(s) => OneFirst(s)
  BY DEF OneFirst, FirstIsLast
<1>9. \A code : Without(s, code) /\ r.code # code => Without(t, code)
  BY <1>2, <1>3 DEF Without
<1> QED
  BY <1>1, <1>4, <1>6, <1>7, <1>8, <1>9 DEF t

LEMMA ServedCommand ==
    ASSUME NEW s \in Seq(CommandSet), s # <<>>
    PROVE  /\ Tail(s) \in Seq(CommandSet) /\ Head(s) \in CommandSet
           /\ OnlyVers(s) => OnlyVers(Tail(s)) /\ Head(s).cmd = "VERS"
           /\ \A c : EndsIn(s, c) =>
                \/ Head(s).cmd = "VERS" /\ c # "VERS" /\ EndsIn(Tail(s), c)
                   /\ Tail(s)[Len(Tail(s))] = s[Len(s)]
                \/ Head(s) = s[Len(s)] /\ Head(s).cmd = c /\ Tail(s) = <<>>
                \/ c = "VERS"
           /\ \A c : (\A n \in 1..Len(s) : s[n].cmd # c) =>
                /\ \A n \in 1..Len(Tail(s)) : Tail(s)[n].cmd # c
                /\ Head(s).cmd # c
           /\ \A i \in Int : (\A n \in 1..Len(s) : s[n].id <= i) =>
                /\ \A n \in 1..Len(Tail(s)) : Tail(s)[n].id <= i
                /\ Head(s).id <= i
<1> DEFINE t == Tail(s)
<1>1. /\ t \in Seq(CommandSet) /\ Head(s) = s[1] /\ Head(s) \in CommandSet
      /\ Len(s) \in Nat /\ Len(s) > 0 /\ Len(t) = Len(s) - 1
      /\ \A n \in 1..Len(t) : n + 1 \in 1..Len(s) /\ t[n] = s[n + 1]
      /\ Len(s) = 1 => t = <<>>
  BY TailOf
<1> HIDE DEF t, CommandSet
<1>2. 1 \in 1..Len(s)
  BY <1>1
<1>3. OnlyVers(s) => OnlyVers(t) /\ Head(s).cmd = "VERS"
  BY <1>1, <1>2 DEF OnlyVers
<1>4. ASSUME NEW c, EndsIn(s, c), c # "VERS", Len(s) # 1
      PROVE  /\ Head(s).cmd = "VERS" /\ EndsIn(t, c)
             /\ t[Len(t)] = s[Len(s)]
  <2>1. Head(s).cmd = "VERS"
    BY <1>1, <1>2, <1>4 DEF EndsIn
  <2>2. Len(t) \in 1..Len(t) /\ Len(t) + 1 = Len(s)
    BY <1>1, <1>4
  <2>3. t[Len(t)] = s[Len(s)] /\ t # <<>>
    BY <1>1, <2>2, EmptySeq
  <2>4. ASSUME NEW n \in 1..Len(t), t[n].cmd # "VERS"
        PROVE  n = Len(t)
    <3>1. n + 1 \in 1..Len(s) /\ s[n + 1].cmd # "VERS"
      BY <1>1, <2>4
    <3>2. n + 1 = Len(s)
      BY <1>4, <3>1 DEF EndsIn
    <3>3. n = Len(s) - 1
      BY <1>1, <3>2
    <3> QED
      BY <1>1, <3>3
  <2> QED
    BY <1>4, <2>1, <2>3, <2>4 DEF EndsIn
<1>5. ASSUME NEW c, EndsIn(s, c), Len(s) = 1
      PROVE  Head(s) = s[Len(s)] /\ Head(s).cmd = c /\ t = <<>>
  BY <1>1, <1>5 DEF EndsIn
<1>6. \A c : (\A n \in 1..Len(s) : s[n].cmd # c) =>
          (\A n \in 1..Len(t) : t[n].cmd # c) /\ Head(s).cmd # c
  BY <1>1, <1>2
<1>7. \A i \in Int : (\A n \in 1..Len(s) : s[n].id <= i) =>
          (\A n \in 1..Len(t) : t[n].id <= i) /\ Head(s).id <= i
  BY <1>1, <1>2
<1> QED
  BY <1>1, <1>3, <1>4, <1>5, <1>6, <1>7 DEF t

LEMMA SentCommand ==
    ASSUME NEW s \in Seq(CommandSet), NEW e \in CommandSet
    PROVE  /\ Append(s, e) \in Seq(CommandSet)
           /\ Append(s, e)[Len(Append(s, e))] = e
           /\ OnlyVers(s) => EndsIn(Append(s, e), e.cmd)
           /\ OnlyVers(s) /\ e.cmd = "VERS" => OnlyVers(Append(s, e))
           /\ \A c : (\A n \in 1..Len(s) : s[n].cmd # c) /\ e.cmd # c =>
                \A n \in 1..Len(Append(s, e)) : Append(s, e)[n].cmd # c
           /\ \A i \in Int : (\A n \in 1..Len(s) : s[n].id <= i) /\ e.id <= i =>
                \A n \in 1..Len(Append(s, e)) : Append(s, e)[n].id <= i
<1>1. /\ Append(s, e) \in Seq(CommandSet) /\ Append(s, e) # <<>>
      /\ Len(s) \in Nat /\ Len(Append(s, e)) = Len(s) + 1
      /\ Append(s, e)[Len(s) + 1] = e
      /\ \A n \in 1..Len(s) : Append(s, e)[n] = s[n]
  BY AppendTo
<1> DEFINE t == Append(s, e)
<1> HIDE DEF t, CommandSet
<1>2. \A n \in 1..Len(t) : n = Len(t) \/ (n \in 1..Len(s) /\ t[n] = s[n])
  BY <1>1 DEF t
<1>3. t[Len(t)] = e /\ t # <<>>
  BY <1>1 DEF t
<1>4. OnlyVers(s) => EndsIn(t, e.cmd) /\ (e.cmd = "VERS" => OnlyVers(t))
  BY <1>2, <1>3 DEF OnlyVers, EndsIn
<1>5. \A c : (\A n \in 1..Len(s) : s[n].cmd # c) /\ e.cmd # c => \A n \in 1..Len(t) : t[n].cmd # c
  BY <1>2, <1>3
<1>6. \A i \in Int : (\A n \in 1..Len(s) : s[n].id <= i) /\ e.id <= i =>
          \A n \in 1..Len(t) : t[n].id <= i
  BY <1>2, <1>3
<1> QED
  BY <1>1, <1>3, <1>4, <1>5, <1>6 DEF t

-----------------------------------------------------------------------------
(* What the steps have in common.                                          *)

LEMMA Sends ==
    ASSUME FtpTyped, k' \in Ids, NEW c \in {"PORT", "RETR", "VERS"}, Send(c)
    PROVE  /\ cmds' \in Seq(CommandSet)
           /\ OnlyVers(cmds) => EndsIn(cmds', c)
           /\ OnlyVers(cmds) /\ c = "VERS" => OnlyVers(cmds')
           /\ cmds'[Len(cmds')].id = k'
           /\ (\A n \in 1..Len(cmds) : cmds[n].cmd # "PORT") /\ c # "PORT" =>
                \A n \in 1..Len(cmds') : cmds'[n].cmd # "PORT"
           /\ (\A n \in 1..Len(cmds) : cmds[n].id <= k') => \A n \in 1..Len(cmds') : cmds'[n].id <= k'
<1> DEFINE e == [cmd |-> c, id |-> k']
<1>1. e \in CommandSet /\ e.cmd = c /\ e.id = k'
  BY DEF CommandSet
<1>2. cmds \in Seq(CommandSet) /\ cmds' = Append(cmds, e)
  BY DEF FtpTyped, Send
<1>3. k' \in Int /\ k' <= k'
  BY FtpAssumption DEF Ids
<1> HIDE DEF e
<1> QED
  BY <1>1, <1>2, <1>3, SentCommand

LEMMA Takes ==
    ASSUME FtpTyped, NEW i, NEW to, TakeReply(i, to)
    PROVE  /\ replies' \in Seq(ReplySet) /\ mixed' \in BOOLEAN /\ lock' = None
           /\ Head(replies).code \in Codes
           /\ Quiet(replies) => Quiet(replies') /\ Head(replies).code \notin {150, 200, 500}
           /\ OneFirst(replies) =>
                OneFirst(replies') /\ (Head(replies).code \in {150, 200, 500} => Quiet(replies'))
           /\ FirstIsLast(replies) =>
                FirstIsLast(replies') /\ (Head(replies).code \in {150, 200, 500} => replies' = <<>>)
           /\ \A code : Without(replies, code) =>
                Without(replies', code) /\ Head(replies).code # code
<1>1. replies \in Seq(ReplySet) /\ replies # <<>> /\ replies' = Tail(replies) /\ lock' = None
  BY DEF FtpTyped, TakeReply
<1>2. mixed' \in BOOLEAN
  BY DEF TakeReply
<1>3. Head(replies) \in ReplySet => Head(replies).code \in Codes
  BY DEF ReplySet
<1> QED
  BY <1>1, <1>2, <1>3, TakenReply DEF First

LEMMA QuietIsWithout ==
    ASSUME NEW s \in Seq(ReplySet), Quiet(s)
    PROVE  /\ \A code \in {150, 200, 500} : Without(s, code)
           /\ OneFirst(s) /\ FirstIsLast(s)
  BY DEF Quiet, Without, First, OneFirst, FirstIsLast

\* A result is final.
LEMMA FailedStays ==
    ASSUME FtpInv, pc # "idle", NEW v, result' = [result EXCEPT ![k] = v]
    PROVE  /\ Failed => Failed'
           /\ v \in {"false", "interrupted"} => Failed'
<1>1. k \in Ids /\ result[k] = "none" /\ result'[k] = v /\ \A i \in Ids \ {k} : result'[i] = result[i]
  BY FtpAssumption DEF FtpInv, FtpTyped, TypeOK, InOrder, Ids
<1> QED
  BY <1>1 DEF Failed

LEMMA SuccessKept ==
    ASSUME FtpInv, call' = call, result' = result,
           \A j \in Ids : got'[j] = got[j] \/ result[j] # "true" \/ got[j] \notin {"all", "cut"}
    PROVE  SuccessIsComplete'
  BY DEF FtpInv, SuccessIsComplete

LEMMA SuccessReturned ==
    ASSUME FtpInv, pc # "idle", call' = call, got' = got,
           NEW v, result' = [result EXCEPT ![k] = v],
           call[k] = "file" /\ v = "true" => got[k] \in {"all", "cut"} \/ Failed
    PROVE  SuccessIsComplete'
<1>1. k \in Ids /\ result[k] = "none" /\ result'[k] = v /\ \A i \in Ids \ {k} : result'[i] = result[i]
  BY FtpAssumption DEF FtpInv, FtpTyped, TypeOK, InOrder, Ids
<1>2. ASSUME NEW i \in Ids, call[i] = "file", result'[i] = "true"
      PROVE  \/ got[i] \in {"all", "cut"}
             \/ \E j \in 1..(i - 1) : result'[j] \in {"false", "interrupted"}
  <2>1. CASE i # k
    <3>1. result[i] = "true"
      BY <1>1, <1>2, <2>1
    <3>2. CASE \E j \in 1..(i - 1) : result[j] \in {"false", "interrupted"}
      <4>1. PICK j \in 1..(i - 1) : result[j] \in {"false", "interrupted"}
        BY <3>2
      <4>2. j \in Ids /\ j # k
        BY <1>1, <4>1, FtpAssumption DEF Ids
      <4> QED
        BY <1>1, <4>1, <4>2
    <3> QED
      BY <1>2, <3>1, <3>2 DEF FtpInv, SuccessIsComplete
  <2>2. CASE i = k /\ Failed
    <3>1. PICK j \in Ids : result[j] \in {"false", "interrupted"}
      BY <2>2 DEF Failed
    <3>2. j # k /\ ~(j > k)
      BY <1>1, <3>1 DEF FtpInv, InOrder
    <3>3. j \in 1..(k - 1) /\ result'[j] = result[j]
      BY <1>1, <3>2, FtpAssumption DEF Ids
    <3> QED
      BY <2>2, <3>1, <3>3
  <2> QED
    BY <1>1, <1>2, <2>1, <2>2
<1> QED
  BY <1>2 DEF SuccessIsComplete

\* What a data thread reads while no call has failed belongs to the current download, if
\* it belongs to one.
LEMMA LiveListener ==
    ASSUME FtpInv, ~Failed, pc # "idle", NEW i \in Ids, data[i] # "done",
           listener[i] # None, call[listener[i]] = "file"
    PROVE  listener[i] = k
<1> DEFINE l == listener[i]
<1>1. l \in Ids /\ l <= k /\ got[l] \notin {"all", "cut"}
  BY FtpAssumption DEF FtpInv, FtpTyped, TypeOK, InOrder, OneListener, Ids
<1>2. SUFFICES ASSUME l < k PROVE FALSE
  BY <1>1, FtpAssumption DEF FtpInv, FtpTyped, TypeOK, Ids
<1>3. result[l] = "true"
  BY <1>1, <1>2 DEF FtpInv, InOrder, Failed
<1>4. PICK j \in 1..(l - 1) : result[j] \in {"false", "interrupted"}
  BY <1>1, <1>3 DEF FtpInv, SuccessIsComplete
<1>5. j \in Ids
  BY <1>1, <1>4, FtpAssumption DEF Ids
<1> QED
  BY <1>4, <1>5 DEF Failed

\* The command thread returns from a call.
LEMMA OrderReturned ==
    ASSUME FtpInv, pc # "idle", pc' = "idle",
           NEW v \in {"true", "false", "interrupted", "null", "part"},
           result' = [result EXCEPT ![k] = v],
           call[k] = "file" => v \in {"true", "false", "interrupted"},
           UNCHANGED <<k, call, got, wait, data, sock, cmds, port, channel>>,
           \A c \in Ids : listener'[c] \in {listener[c], None}
    PROVE  InOrder'
<1>1. k \in Ids /\ k \in Int /\ result'[k] = v /\ \A i \in Ids : i # k => result'[i] = result[i]
  BY FtpAssumption DEF FtpInv, FtpTyped, TypeOK, InOrder, Ids
<1>2. \A i \in Ids : i < k \/ i = k => result'[i] # "none"
  BY <1>1 DEF FtpInv, InOrder
<1>3. \A i \in Ids : i > k => result'[i] = "none"
  BY <1>1 DEF FtpInv, InOrder, Ids
<1>4. \A i \in Ids : call[i] = "file" => result'[i] \in {"none", "true", "false", "interrupted"}
  BY <1>1 DEF FtpInv, InOrder
<1>5. None <= k
  BY <1>1, FtpAssumption DEF Ids, None
<1>6. \A i \in Ids : listener'[i] <= k
  BY <1>5 DEF FtpInv, InOrder
<1> QED
  BY <1>2, <1>3, <1>4, <1>6 DEF FtpInv, InOrder, Asking

\* A data thread that is still at work reports what it has read.
LEMMA Reported ==
    ASSUME FtpInv, NEW i \in Ids, data[i] # "done", NEW l \in {listener[i], None},
           NEW seen \in {"part", "cut", "all"}, NEW ok \in BOOLEAN, Report(l, seen, ok),
           ok => seen # "part",
           UNCHANGED <<pc, k, call, result, wait, cmds, replies, server>>
    PROVE  /\ got' \in [Ids -> {"none", "part", "cut", "all"}] /\ success' \in BOOLEAN
           /\ \A j \in Ids : j # l => got'[j] = got[j]
           /\ Current' /\ SuccessIsComplete'
<1>1. l \in Ids \cup {None} /\ got \in [Ids -> {"none", "part", "cut", "all"}] /\ success \in BOOLEAN
  BY DEF FtpInv, FtpTyped, TypeOK
<1>2. got' = got \/ (l # None /\ got' = [got EXCEPT ![l] = seen])
  BY DEF Report
<1>3. /\ got' \in [Ids -> {"none", "part", "cut", "all"}]
      /\ \A j \in Ids : j # l => got'[j] = got[j]
      /\ l # None => got'[l] = seen
  BY <1>1, <1>2 DEF Report
<1>4. success' \in BOOLEAN
  BY <1>1 DEF Report
<1>5. l # None => got[l] \notin {"all", "cut"}
  BY DEF FtpInv, OneListener
<1>6. SuccessIsComplete'
  <2>1. CASE l = None
    BY <2>1, SuccessKept DEF Report
  <2>2. CASE l # None
    BY <1>3, <1>5, <2>2, SuccessKept
  <2> QED
    BY <2>1, <2>2
<1>7. Dead => Dead'
  BY DEF Dead, server
<1>8. ASSUME pc \in {"port", "self", "retr", "wait"}, call[k] = "file", success', ~Failed
      PROVE  got'[k] \in {"all", "cut"} \/ Dead
  <2>1. k \in Ids
    BY <1>8, FtpAssumption DEF FtpInv, FtpTyped, TypeOK, InOrder, Ids
  <2>2. CASE l # None /\ call[l] = "file"
    <3>1. l = k
      BY <1>8, <2>2, LiveListener
    <3> QED
      BY <1>3, <1>8, <2>2, <3>1 DEF Report
  <2>3. CASE ~(l # None /\ call[l] = "file")
    <3>1. success /\ got'[k] = got[k]
      BY <1>3, <1>8, <2>1, <2>3 DEF Report
    <3> QED
      BY <1>8, <3>1 DEF FtpInv, Current
  <2> QED
    BY <2>2, <2>3
<1>9. Current'
  BY <1>7, <1>8 DEF Current, Failed
<1> QED
  BY <1>3, <1>4, <1>6, <1>9

\* The command thread sends a command.
LEMMA ServedNext ==
    ASSUME FtpTyped, InOrder, Served, k' \in Ids, k' \in {k, k + 1},
           NEW c \in {"PORT", "RETR", "VERS"}, Send(c), UNCHANGED <<port, sending>>,
           pc' = "port" => c = "PORT" /\ (k' = k + 1 \/ pc = "port")
    PROVE  Served'
<1> DEFINE e == [cmd |-> c, id |-> k']
           t == Append(cmds, e)
<1>1. /\ e \in CommandSet /\ e.cmd = c /\ e.id = k' /\ cmds \in Seq(CommandSet) /\ cmds' = t
      /\ k \in Int /\ k' \in Int /\ k <= k' /\ k' > 0
  BY FtpAssumption DEF CommandSet, FtpTyped, TypeOK, Send, Ids
<1> HIDE DEF e
<1>2. /\ Len(cmds) \in Nat /\ Len(t) = Len(cmds) + 1 /\ t[Len(cmds) + 1] = e
      /\ \A n \in 1..Len(cmds) : t[n] = cmds[n]
  BY <1>1, AppendTo
<1> HIDE DEF t
<1>3. \A n \in 1..Len(t) : \/ n = Len(t) /\ t[n] = e
                           \/ n \in 1..Len(cmds) /\ n < Len(t) /\ t[n] = cmds[n]
  BY <1>2
<1>4. \A n \in 1..Len(cmds) : cmds[n].id \in Int /\ cmds[n].id <= k /\ cmds[n].id <= k'
  <2> TAKE n \in 1..Len(cmds)
  <2>1. cmds[n] \in CommandSet
    BY <1>1, ElementOfSeq
  <2>2. cmds[n].id \in Int /\ cmds[n].id <= k
    BY <2>1, FtpAssumption DEF CommandSet, Ids, InOrder
  <2> QED
    BY <1>1, <2>2
<1>5. port \in Int /\ port <= k' /\ sending \in Int
  BY <1>1, FtpAssumption DEF InOrder, FtpTyped, TypeOK, Ids, None
<1>6. \A n \in 1..Len(t) : port <= t[n].id
  BY <1>1, <1>3, <1>5 DEF Served
<1>7. \A m, n \in 1..Len(t) : m <= n => t[m].id <= t[n].id
  BY <1>1, <1>2, <1>3, <1>4 DEF Served
<1>8. sending # None => port <= sending /\ sending <= k'
  BY <1>1, <1>5 DEF Served
<1>9. ASSUME pc' = "port"
      PROVE  sending # k' /\ \A n \in 1..Len(t) : t[n].id = k' => t[n].cmd = "PORT"
  <2>1. CASE k' = k + 1
    <3>1. sending # k'
      BY <1>1, <1>5, <2>1 DEF Served, None
    <3>2. \A n \in 1..Len(cmds) : cmds[n].id # k'
      BY <1>1, <1>4, <2>1
    <3> QED
      BY <1>1, <1>3, <1>9, <3>1, <3>2
  <2>2. CASE k' = k /\ pc = "port"
    BY <1>1, <1>3, <1>9, <2>2 DEF Served
  <2> QED
    BY <1>1, <1>9, <2>1, <2>2
<1> QED
  BY <1>1, <1>6, <1>7, <1>8, <1>9 DEF Served

LEMMA ReadInCommandThreadKeeps == ASSUME FtpInv, ReadInCommandThread PROVE FtpInv'
<1>a. k' = k /\ k \in Ids /\ Send("RETR") /\ pc = "self" /\ pc' = "retr"
  BY FtpAssumption DEF FtpInv, FtpTyped, TypeOK, InOrder, ReadInCommandThread, Ids, modes
<1>b. /\ cmds' \in Seq(CommandSet) /\ (OnlyVers(cmds) => EndsIn(cmds', "RETR"))
      /\ (\A n \in 1..Len(cmds) : cmds[n].cmd # "PORT") => \A n \in 1..Len(cmds') : cmds'[n].cmd # "PORT"
      /\ (\A n \in 1..Len(cmds) : cmds[n].id <= k) => \A n \in 1..Len(cmds') : cmds'[n].id <= k
  BY <1>a, Sends, FtpAssumption DEF FtpInv, Ids
<1>1. FtpTyped'
  <2>1. TypeOK'
    BY <1>a, FtpAssumption DEF FtpInv, ReadInCommandThread, server, FtpTyped, TypeOK, Ids, modes
  <2>2. success' \in BOOLEAN
    BY DEF ReadInCommandThread
  <2> QED
    BY <1>a, <1>b, <2>1, <2>2 DEF FtpInv, ReadInCommandThread, server, FtpTyped, Asking, modes
<1>2. InOrder'
  BY <1>a, <1>b, FtpAssumption DEF FtpInv, ReadInCommandThread, Send, server, FtpTyped, TypeOK, InOrder, Asking, Ids, None, modes
<1>3. OneListener'
  BY FtpAssumption DEF FtpInv, ReadInCommandThread, Send, server, FtpTyped, TypeOK, InOrder, OneListener, Asking, Ids, None, modes
<1>4. PassiveLater'
  BY FtpAssumption DEF FtpInv, ReadInCommandThread, Send, server, FtpTyped, TypeOK, InOrder, PassiveLater, Ids, None, modes
<1>5. ActiveBefore'
  BY FtpAssumption DEF FtpInv, ReadInCommandThread, Send, server, FtpTyped, TypeOK, InOrder, ActiveBefore, Ids, None, modes
<1>6. Served'
  BY <1>a, ServedNext DEF FtpInv, ReadInCommandThread, server
<1>7. Connection'
  BY FtpAssumption DEF FtpInv, ReadInCommandThread, Send, server, FtpTyped, TypeOK, InOrder, Connection, PassiveLater, Ids, None, modes
<1>8. InStep'
  <2>1. ~Failed => EndsIn(cmds', "RETR") /\ Quiet(replies) /\ OfChannel
    BY <1>a, <1>b DEF FtpInv, InStep, PortUsed
  <2> QED
    BY <1>a, <2>1 DEF ReadInCommandThread, server, InStep, Failed, OfChannel, Stuck, modes
<1>9. Current'
  <2>1. ASSUME ~Failed PROVE Dead'
    <3>1. OnlyVers(cmds) /\ Quiet(replies) /\ (port # None => sending # None /\ port = old)
      BY <1>a, <2>1 DEF FtpInv, InStep, PortUsed
    <3>2. port = None /\ sending = None
      BY <3>1 DEF FtpInv, Connection, ReadInCommandThread
    <3>3. Without(replies, 150)
      BY <3>1, QuietIsWithout DEF FtpInv, FtpTyped
    <3>4. \A n \in 1..Len(cmds) : cmds[n].cmd # "PORT"
      BY <3>1 DEF OnlyVers
    <3>5. wait[k] = "none"
      BY <1>a DEF FtpInv, InOrder, Asking
    <3> QED
      BY <1>a, <1>b, <3>2, <3>3, <3>4, <3>5 DEF Dead, ReadInCommandThread, server
  <2> QED
    BY <2>1 DEF Current, Failed, ReadInCommandThread
<1>10. SuccessIsComplete'
  <2>1. result[k] = "none"
    BY <1>a DEF FtpInv, InOrder
  <2>2. \A j \in Ids : got'[j] = got[j] \/ result[j] # "true"
    BY <1>a, <2>1 DEF FtpInv, FtpTyped, TypeOK, ReadInCommandThread, modes
  <2> QED
    BY <2>2, SuccessKept DEF ReadInCommandThread
<1> QED
  BY <1>1, <1>2, <1>3, <1>4, <1>5, <1>6, <1>7, <1>8, <1>9, <1>10 DEF FtpInv

LEMMA ChatEntersKeeps == ASSUME FtpInv, ChatEnters PROVE FtpInv'
<1>1. FtpTyped'
  BY FtpAssumption DEF FtpInv, ChatEnters, client, threads, server, FtpTyped, TypeOK, Asking, Ids, None, Command, modes
<1>2. InOrder'
  BY FtpAssumption DEF FtpInv, ChatEnters, client, threads, server, FtpTyped, TypeOK, InOrder, Asking, Ids, None, modes
<1>3. OneListener'
  BY FtpAssumption DEF FtpInv, ChatEnters, client, threads, server, FtpTyped, TypeOK, InOrder, OneListener, Asking, Ids, None, modes
<1>4. PassiveLater'
  BY FtpAssumption DEF FtpInv, ChatEnters, client, threads, server, FtpTyped, TypeOK, InOrder, PassiveLater, Ids, None, modes
<1>5. ActiveBefore'
  BY FtpAssumption DEF FtpInv, ChatEnters, client, threads, server, FtpTyped, TypeOK, InOrder, ActiveBefore, Ids, None, modes
<1>6. Served'
  BY FtpAssumption DEF FtpInv, ChatEnters, client, threads, server, Served
<1>7. Connection'
  BY FtpAssumption DEF FtpInv, ChatEnters, client, threads, server, FtpTyped, TypeOK, InOrder, Connection, PassiveLater, Ids, None, modes
<1>8. InStep'
  BY FtpAssumption DEF FtpInv, ChatEnters, client, threads, server, FtpTyped, TypeOK, InOrder, InStep, Failed, Stuck, PortUsed, OfChannel, Ids, None, modes
<1>9. Current'
  BY FtpAssumption DEF FtpInv, ChatEnters, client, threads, server, FtpTyped, TypeOK, InOrder, Current, Dead, Failed, Ids, None, modes
<1>10. SuccessIsComplete'
  BY FtpAssumption DEF FtpInv, ChatEnters, client, threads, server, FtpTyped, TypeOK, InOrder, SuccessIsComplete, Ids, None, modes
<1> QED
  BY <1>1, <1>2, <1>3, <1>4, <1>5, <1>6, <1>7, <1>8, <1>9, <1>10 DEF FtpInv

LEMMA PortGrantedKeeps ==
    ASSUME FtpInv, PortAnswered, Granted
    PROVE  FtpInv'
<1>a. /\ TakeReply(k, "chat") /\ FtpTyped /\ Send("RETR") /\ k' = k /\ k \in Ids
      /\ Head(replies).code = 200
  BY FtpAssumption DEF FtpInv, FtpTyped, TypeOK, InOrder, PortAnswered, Granted, Ids
<1>b. /\ cmds' \in Seq(CommandSet) /\ (OnlyVers(cmds) => EndsIn(cmds', "RETR"))
      /\ (\A n \in 1..Len(cmds) : cmds[n].id <= k) => \A n \in 1..Len(cmds') : cmds'[n].id <= k
  BY <1>a, Sends
<1>c. /\ pc = "port" /\ pc' = "retr"
      /\ UNCHANGED <<passive, stray, old, call, interrupted, success, got, wait, semaphore, permits,
                     server, result>>
  BY DEF PortAnswered, Granted
<1>d. \/ ~passive /\ UNCHANGED <<channel, isActive, listener, data, sock>>
      \/ /\ passive /\ channel' = k /\ isActive' = [isActive EXCEPT ![k] = FALSE]
         /\ listener' = [listener EXCEPT ![k] = k]
         /\ data' = [data EXCEPT ![k] = "accept"] /\ sock' = [sock EXCEPT ![k] = "listen"]
  BY DEF PortAnswered, Granted
<1>1. FtpTyped'
  <2>1. lock' = None /\ replies' \in Seq(ReplySet) /\ mixed' \in BOOLEAN
    BY <1>a, Takes
  <2>2. /\ channel' \in Ids \cup {None} /\ listener' \in [Ids -> Ids \cup {None}]
        /\ data' \in [Ids -> {"none", "accept", "timeout", "read", "done"}]
        /\ sock' \in [Ids -> {"none", "listen", "open", "eof", "cut", "closed"}]
        /\ isActive' \in [Ids -> BOOLEAN]
    <3>1. TypeOK
      BY <1>a DEF FtpTyped
    <3>2. CASE ~passive
      BY <1>d, <3>1, <3>2 DEF TypeOK
    <3>3. CASE passive
      <4>1. /\ channel' = k /\ isActive' = [isActive EXCEPT ![k] = FALSE]
            /\ listener' = [listener EXCEPT ![k] = k]
            /\ data' = [data EXCEPT ![k] = "accept"] /\ sock' = [sock EXCEPT ![k] = "listen"]
        BY <1>d, <3>3
      <4>2. isActive' \in [Ids -> BOOLEAN]
        BY <3>1, <4>1 DEF TypeOK
      <4> QED
        BY <1>a, <3>1, <4>1, <4>2 DEF TypeOK
    <3> QED
      BY <3>2, <3>3
  <2>4. TypeOK'
    BY <1>a, <1>c, <2>1, <2>2 DEF FtpTyped, TypeOK, server
  <2>5. waitingForResponse' \in BOOLEAN
    BY DEF PortAnswered, Granted
  <2> QED
    BY <1>a, <1>b, <1>c, <2>1, <2>4, <2>5 DEF FtpTyped, server, Asking
<1>2. InOrder'
  BY <1>a, <1>b, <1>c, <1>d, FtpAssumption
  DEF FtpInv, FtpTyped, TypeOK, InOrder, server, Asking, Ids, None
<1>3. OneListener'
  <2>1. CASE passive
    <3>1. got[k] = "none" /\ \A c \in Ids : listener[c] # k
      BY <1>c, <2>1 DEF FtpInv, PassiveLater
    <3> QED
      BY <1>a, <1>c, <1>d, <2>1, <3>1 DEF FtpInv, FtpTyped, TypeOK, OneListener
  <2> QED
    BY <1>c, <1>d, <2>1 DEF FtpInv, OneListener
<1>4. PassiveLater'
  BY <1>c DEF PassiveLater
<1>5. ActiveBefore'
  BY <1>c DEF ActiveBefore
<1>6. Served'
  BY <1>a, <1>c, ServedNext DEF FtpInv, server
<1>7. Connection'
  <2>1. UNCHANGED <<port, sending>>
    BY <1>c DEF server
  <2>2. CASE ~passive
    BY <1>d, <2>1, <2>2 DEF FtpInv, Connection
  <2>3. CASE passive
    <3>1. sock[k] = "none" /\ sock' = [sock EXCEPT ![k] = "listen"]
      BY <1>c, <1>d, <2>3 DEF FtpInv, PassiveLater
    <3>2. sock \in [Ids -> {"none", "listen", "open", "eof", "cut", "closed"}] /\ port \in Ids \cup {None}
      BY DEF FtpInv, FtpTyped, TypeOK
    <3> QED
      BY <2>1, <3>1, <3>2 DEF FtpInv, Connection
  <2> QED
    BY <2>2, <2>3
<1>8. InStep'
  <2>1. ASSUME ~Failed PROVE EndsIn(cmds', "RETR") /\ Quiet(replies') /\ OfChannel'
    <3>1. cmds = <<>> /\ port = k /\ OneFirst(replies)
      BY <1>a, <1>c, <2>1, Takes DEF FtpInv, InStep
    <3>2. OnlyVers(cmds)
      BY <3>1 DEF OnlyVers
    <3>3. OfChannel'
      BY <1>c, <1>d, <3>1 DEF OfChannel, server
    <3> QED
      BY <1>a, <1>b, <3>1, <3>2, <3>3, Takes
  <2> QED
    BY <1>c, <2>1 DEF InStep, Failed, Stuck
<1>9. Current'
  BY <1>a, <1>c DEF FtpInv, Current, Failed, Dead
<1>10. SuccessIsComplete'
  BY <1>c, SuccessKept
<1> QED
  BY <1>1, <1>2, <1>3, <1>4, <1>5, <1>6, <1>7, <1>8, <1>9, <1>10 DEF FtpInv

LEMMA FallenBackKeeps ==
    ASSUME FtpInv, PortAnswered, FallBack
    PROVE  FtpInv'
<1>a. /\ TakeReply(k, "chat") /\ FtpTyped /\ Send("PORT") /\ k' = k /\ k \in Ids
      /\ Head(replies).code = 500 /\ ~passive /\ passive' = TRUE
  BY FtpAssumption DEF FtpInv, FtpTyped, TypeOK, InOrder, PortAnswered, FallBack, Ids
<1>b. /\ cmds' \in Seq(CommandSet) /\ (OnlyVers(cmds) => EndsIn(cmds', "PORT"))
      /\ cmds'[Len(cmds')].id = k
      /\ (\A n \in 1..Len(cmds) : cmds[n].id <= k) => \A n \in 1..Len(cmds') : cmds'[n].id <= k
  BY <1>a, Sends
<1>c. /\ pc = "port" /\ pc' = "port" /\ channel' = None
      /\ listener' = [listener EXCEPT ![k] = None]
      /\ data' = [data EXCEPT ![k] = "none"] /\ sock' = [sock EXCEPT ![k] = "none"]
      /\ UNCHANGED <<isActive, old, call, waitingForResponse, interrupted, success, got, wait,
                     semaphore, permits, server, result>>
  BY DEF PortAnswered, FallBack
<1>d. got[k] = "none" /\ listener[k] = k
  BY <1>a, <1>c DEF FtpInv, ActiveBefore
<1>e. /\ listener' \in [Ids -> Ids \cup {None}] /\ listener'[k] = None
      /\ data' \in [Ids -> {"none", "accept", "timeout", "read", "done"}]
      /\ sock' \in [Ids -> {"none", "listen", "open", "eof", "cut", "closed"}]
      /\ \A c \in Ids : c # k => listener'[c] = listener[c] /\ data'[c] = data[c] /\ sock'[c] = sock[c]
      /\ data'[k] = "none" /\ sock'[k] = "none"
  BY <1>a, <1>c DEF FtpTyped, TypeOK
<1>1. FtpTyped'
  <2>1. lock' = None /\ replies' \in Seq(ReplySet) /\ mixed' \in BOOLEAN
    BY <1>a, Takes
  <2>2. stray' \in BOOLEAN
    BY DEF PortAnswered, FallBack
  <2>3. TypeOK'
    BY <1>a, <1>c, <1>e, <2>1 DEF FtpTyped, TypeOK, server
  <2> QED
    BY <1>a, <1>b, <1>c, <2>1, <2>2, <2>3 DEF FtpTyped, server, Asking
<1>2. InOrder'
  <2>1. None <= k
    BY <1>a, FtpAssumption DEF Ids, None
  <2>2. \A c \in Ids : c > k => data'[c] = data[c] /\ sock'[c] = sock[c]
    BY <1>a, <1>e, FtpAssumption DEF Ids
  <2>3. \A c \in Ids : listener'[c] <= k
    BY <1>e, <2>1 DEF FtpInv, InOrder
  <2> QED
    BY <1>a, <1>b, <1>c, <2>1, <2>2, <2>3 DEF FtpInv, InOrder, server, Asking
<1>3. OneListener'
  BY <1>c, <1>e DEF FtpInv, OneListener
<1>4. PassiveLater'
  <2>1. \A c \in Ids : listener'[c] # k
    <3>1. k # None
      BY <1>a DEF Ids, None
    <3> QED
      BY <1>d, <1>e, <3>1 DEF FtpInv, OneListener
  <2> QED
    BY <1>a, <1>c, <1>d, <1>e, <2>1 DEF PassiveLater
<1>5. ActiveBefore'
  BY <1>a DEF ActiveBefore
<1>6. Served'
  BY <1>a, <1>c, ServedNext DEF FtpInv, server
<1>7. Connection'
  <2>1. sending # None => port # k
    <3>1. sending # None => port <= sending /\ sending <= k /\ sending # k
      BY <1>c DEF FtpInv, Served
    <3> QED
      BY <1>a, <3>1, FtpAssumption DEF FtpTyped, TypeOK, Ids, None
  <2> QED
    BY <1>a, <1>c, <1>e, <2>1 DEF FtpInv, FtpTyped, TypeOK, Connection, server
<1>8. InStep'
  <2>1. ASSUME ~Failed PROVE EndsIn(cmds', "PORT") /\ Quiet(replies') /\ PortUsed'
    <3>1. cmds = <<>> /\ port = None /\ OneFirst(replies)
      BY <1>a, <1>c, <2>1, Takes DEF FtpInv, InStep
    <3>2. OnlyVers(cmds)
      BY <3>1 DEF OnlyVers
    <3>3. PortUsed'
      BY <1>c, <3>1 DEF PortUsed, OfChannel, server
    <3> QED
      BY <1>a, <1>b, <3>1, <3>2, <3>3, Takes
  <2> QED
    BY <1>a, <1>b, <1>c, <2>1 DEF InStep, Failed
<1>9. Current'
  BY <1>a, <1>c DEF FtpInv, Current, Failed, Dead
<1>10. SuccessIsComplete'
  BY <1>c, SuccessKept
<1> QED
  BY <1>1, <1>2, <1>3, <1>4, <1>5, <1>6, <1>7, <1>8, <1>9, <1>10 DEF FtpInv

LEMMA PortOverKeeps ==
    ASSUME FtpInv, PortAnswered, SessionOver
    PROVE  FtpInv'
<1>a. TakeReply(k, "chat") /\ FtpTyped
  BY DEF FtpInv, PortAnswered
<1>b. /\ pc = "port" /\ pc' \in {"over", "died"}
      /\ UNCHANGED <<passive, isActive, stray, k, cmds, waitingForResponse, channel, listener, data,
                     result, old, call, interrupted, success, got, wait, semaphore, permits, server>>
  BY DEF PortAnswered, SessionOver, modes
<1>c. /\ sock' \in [Ids -> {"none", "listen", "open", "eof", "cut", "closed"}]
      /\ \A j \in Ids : sock'[j] \in {sock[j], "closed"} /\ (j > k => sock'[j] = sock[j])
  <2>1. sock' = sock \/ (channel # None /\ sock' = [sock EXCEPT ![channel] = "closed"])
    BY DEF PortAnswered, SessionOver, CloseSocket
  <2>2. channel \in Ids \cup {None} /\ channel <= k /\ k \in Int
    BY FtpAssumption DEF FtpInv, FtpTyped, TypeOK, InOrder, Ids
  <2>3. /\ sock \in [Ids -> {"none", "listen", "open", "eof", "cut", "closed"}]
        /\ \A j \in Ids : j \in Int
    BY <1>a, FtpAssumption DEF FtpTyped, TypeOK, Ids
  <2>4. CASE sock' = sock
    BY <2>3, <2>4
  <2>5. CASE channel # None /\ sock' = [sock EXCEPT ![channel] = "closed"]
    <3>1. channel \in Ids /\ \A j \in Ids : sock'[j] = IF j = channel THEN "closed" ELSE sock[j]
      BY <2>2, <2>3, <2>5
    <3> QED
      BY <2>2, <2>3, <2>5, <3>1
  <2> QED
    BY <2>1, <2>4, <2>5
<1>1. FtpTyped'
  <2>1. lock' = None /\ replies' \in Seq(ReplySet) /\ mixed' \in BOOLEAN
    BY <1>a, Takes
  <2>2. TypeOK'
    BY <1>a, <1>b, <1>c, <2>1 DEF FtpTyped, TypeOK, server
  <2> QED
    BY <1>a, <1>b, <2>1, <2>2 DEF FtpTyped, server, Asking
<1>2. InOrder'
  BY <1>b, <1>c DEF FtpInv, InOrder, server, Asking
<1>3. OneListener'
  BY <1>b DEF FtpInv, OneListener
<1>4. PassiveLater'
  BY <1>b DEF PassiveLater
<1>5. ActiveBefore'
  BY <1>b DEF ActiveBefore
<1>6. Served'
  BY <1>b DEF FtpInv, Served, server
<1>7. Connection'
  BY <1>b, <1>c DEF FtpInv, FtpTyped, TypeOK, Connection, server
<1>8. InStep'
  BY <1>b DEF InStep, Stuck
<1>9. Current'
  BY <1>b DEF Current
<1>10. SuccessIsComplete'
  BY <1>b, SuccessKept
<1> QED
  BY <1>1, <1>2, <1>3, <1>4, <1>5, <1>6, <1>7, <1>8, <1>9, <1>10 DEF FtpInv

LEMMA PortRefusedKeeps ==
    ASSUME FtpInv, PortAnswered, Refusal
    PROVE  FtpInv'
<1>a. TakeReply(k, "chat") /\ FtpTyped /\ Return("false")
  BY DEF FtpInv, PortAnswered, Refusal
<1>b. k \in Ids /\ pc = "port" /\ result[k] = "none"
  BY FtpAssumption DEF FtpInv, FtpTyped, TypeOK, InOrder, PortAnswered, Ids
<1>c. /\ pc' = "idle" /\ result' = [result EXCEPT ![k] = "false"] /\ Failed'
      /\ UNCHANGED <<passive, isActive, stray, old, k, call, interrupted, waitingForResponse, success, channel,
                     data, sock, got, wait, semaphore, permits, cmds, server>>
  BY <1>a, <1>b, FailedStays DEF PortAnswered, Refusal, Return, modes
<1>d. listener' \in [Ids -> Ids \cup {None}] /\ \A c \in Ids : listener'[c] \in {listener[c], None}
  <2>1. listener' = listener \/ listener' = [listener EXCEPT ![channel] = None]
    BY DEF PortAnswered, Refusal, SetActionListener
  <2>2. listener \in [Ids -> Ids \cup {None}]
    BY <1>a DEF FtpTyped, TypeOK
  <2>3. CASE listener' = [listener EXCEPT ![channel] = None]
    BY <2>2, <2>3
  <2> QED
    BY <2>1, <2>2, <2>3
<1>1. FtpTyped'
  <2>1. lock' = None /\ replies' \in Seq(ReplySet) /\ mixed' \in BOOLEAN
    BY <1>a, Takes
  <2>2. result' \in [Ids -> {"none", "true", "false", "interrupted", "null", "part"}]
    BY <1>a, <1>b, <1>c DEF FtpTyped, TypeOK
  <2>3. TypeOK'
    BY <1>a, <1>b, <1>c, <1>d, <2>1, <2>2 DEF FtpTyped, TypeOK, server
  <2> QED
    BY <1>a, <1>c, <2>1, <2>3 DEF FtpTyped, Asking
<1>2. InOrder'
  BY <1>b, <1>c, <1>d, OrderReturned DEF server
<1>3. OneListener'
  BY <1>c, <1>d DEF FtpInv, OneListener
<1>4. PassiveLater'
  BY <1>c DEF PassiveLater
<1>5. ActiveBefore'
  BY <1>c DEF ActiveBefore
<1>6. Served'
  BY <1>c DEF FtpInv, Served, server
<1>7. Connection'
  BY <1>c DEF FtpInv, Connection, server
<1>8. InStep'
  BY <1>c DEF InStep
<1>9. Current'
  BY <1>c DEF Current
<1>10. SuccessIsComplete'
  BY <1>b, <1>c, SuccessReturned
<1> QED
  BY <1>1, <1>2, <1>3, <1>4, <1>5, <1>6, <1>7, <1>8, <1>9, <1>10 DEF FtpInv

LEMMA RetrAcceptedKeeps ==
    ASSUME FtpInv, RetrAnswered, Head(replies).code = 150
    PROVE  FtpInv'
<1>a. TakeReply(k, "chat") /\ FtpTyped /\ k \in Ids /\ pc = "retr" /\ result[k] = "none"
  BY FtpAssumption DEF FtpInv, FtpTyped, TypeOK, InOrder, RetrAnswered, Ids, modes
<1>b. /\ waitingForResponse' = FALSE /\ wait' = [wait EXCEPT ![k] = "ready"]
      /\ permits' = IF passive THEN permits + 1 ELSE permits
      /\ UNCHANGED <<passive, isActive, stray, old, k, call, interrupted, success, channel, listener, data,
                     sock, got, semaphore, cmds, server>>
  BY DEF RetrAnswered, modes
<1>c. \/ pc' = "wait" /\ result' = result
      \/ call[k] = "readme" /\ pc' = "idle" /\ result' = [result EXCEPT ![k] = "true"]
  BY DEF RetrAnswered, Return
<1>d. result' \in [Ids -> {"none", "true", "false", "interrupted", "null", "part"}]
  BY <1>a, <1>c DEF FtpTyped, TypeOK
<1>e. ~Failed' => ~Failed
  BY <1>a, <1>c, FailedStays DEF Failed
<1>1. FtpTyped'
  <2>1. lock' = None /\ replies' \in Seq(ReplySet) /\ mixed' \in BOOLEAN
    BY <1>a, Takes
  <2>2. permits' \in 0..MaxCalls /\ permits' <= k
    BY <1>a, <1>b, FtpAssumption DEF FtpTyped, TypeOK, Asking, Ids
  <2>3. wait' \in [Ids -> {"none", "ready", "reading", "ok", "fail", "done"}]
    BY <1>a, <1>b DEF FtpTyped, TypeOK
  <2>4. TypeOK'
    BY <1>a, <1>b, <1>c, <1>d, <2>1, <2>2, <2>3 DEF FtpTyped, TypeOK, server
  <2>5. \A i \in Ids : semaphore[i] > 0 => wait'[i] = "done"
    BY <1>a, <1>b DEF FtpInv, FtpTyped, TypeOK, InOrder, Asking
  <2> QED
    BY <1>a, <1>b, <1>c, <2>1, <2>2, <2>4, <2>5 DEF FtpTyped, Asking
<1>2. InOrder'
  <2>1. \A i \in Ids : i # k => result'[i] = result[i] /\ wait'[i] = wait[i]
    BY <1>a, <1>b, <1>c DEF FtpTyped, TypeOK
  <2>2. pc' = "idle" => result'[k] = "true" /\ call[k] # "file"
    BY <1>a, <1>c DEF FtpTyped, TypeOK
  <2> QED
    BY <1>a, <1>b, <1>c, <2>1, <2>2, FtpAssumption
    DEF FtpInv, FtpTyped, TypeOK, InOrder, server, Asking, Ids, None
<1>3. OneListener'
  BY <1>b DEF FtpInv, OneListener
<1>4. PassiveLater'
  BY <1>c DEF PassiveLater
<1>5. ActiveBefore'
  BY <1>c DEF ActiveBefore
<1>6. Served'
  BY <1>b, <1>c DEF FtpInv, Served, server
<1>7. Connection'
  BY <1>b DEF FtpInv, Connection, server
<1>8. InStep'
  <2>1. ASSUME ~Failed
        PROVE  /\ cmds = <<>> /\ Quiet(replies') /\ PortUsed
               /\ sending # None => replies' = <<>>
    <3>1. \/ cmds = <<>> /\ sending # None /\ FirstIsLast(replies) /\ OfChannel
          \/ cmds = <<>> /\ sending = None /\ port = None /\ OneFirst(replies)
      BY <1>a, <2>1, Takes DEF FtpInv, InStep
    <3>2. Quiet(<<>>)
      BY DEF Quiet
    <3> QED
      BY <1>a, <3>1, <3>2, Takes DEF PortUsed, OfChannel
  <2>2. wait'[k] = "ready"
    BY <1>a, <1>b DEF FtpTyped, TypeOK
  <2>3. OnlyVers(<<>>)
    BY DEF OnlyVers
  <2> QED
    BY <1>b, <1>c, <1>e, <2>1, <2>2, <2>3 DEF InStep, PortUsed, OfChannel, server
<1>9. Current'
  <2>1. ~Dead
    BY <1>a, Takes DEF Dead
  <2> QED
    BY <1>a, <1>b, <1>c, <1>e, <2>1 DEF FtpInv, Current
<1>10. SuccessIsComplete'
  BY <1>a, <1>b, <1>c, SuccessKept, SuccessReturned
<1> QED
  BY <1>1, <1>2, <1>3, <1>4, <1>5, <1>6, <1>7, <1>8, <1>9, <1>10 DEF FtpInv

LEMMA RetrRefusedKeeps ==
    ASSUME FtpInv, RetrAnswered, Head(replies).code # 150
    PROVE  FtpInv'
<1>a. TakeReply(k, "chat") /\ FtpTyped /\ k \in Ids /\ pc = "retr" /\ result[k] = "none"
  BY FtpAssumption DEF FtpInv, FtpTyped, TypeOK, InOrder, RetrAnswered, Ids, modes
<1>b. /\ waitingForResponse' = FALSE
      /\ UNCHANGED <<passive, isActive, stray, old, k, call, interrupted, success, channel, data, sock, got,
                     wait, semaphore, permits, cmds, server>>
  BY DEF RetrAnswered, modes
<1>c. \/ call[k] = "file" /\ pc' = "wait" /\ result' = result
      \/ pc' = "idle" /\ result' = [result EXCEPT ![k] = "false"] /\ Failed'
  BY <1>a, FailedStays DEF RetrAnswered, Return
<1>d. listener' \in [Ids -> Ids \cup {None}] /\ \A c \in Ids : listener'[c] \in {listener[c], None}
  BY <1>a DEF RetrAnswered, SetActionListener, FtpTyped, TypeOK, modes
<1>e. wait[k] = "none"
  BY <1>a DEF FtpInv, InOrder, Asking
<1>1. FtpTyped'
  <2>1. lock' = None /\ replies' \in Seq(ReplySet) /\ mixed' \in BOOLEAN
    BY <1>a, Takes
  <2>2. result' \in [Ids -> {"none", "true", "false", "interrupted", "null", "part"}]
    BY <1>a, <1>c DEF FtpTyped, TypeOK
  <2>3. TypeOK'
    BY <1>a, <1>b, <1>c, <1>d, <2>1, <2>2 DEF FtpTyped, TypeOK, server
  <2> QED
    BY <1>a, <1>b, <1>c, <2>1, <2>3 DEF FtpTyped, Asking
<1>2. InOrder'
  <2>1. CASE pc' = "idle"
    BY <1>a, <1>b, <1>c, <1>d, <2>1, OrderReturned DEF server
  <2>2. None <= k
    BY <1>a, FtpAssumption DEF Ids, None
  <2>3. \A i \in Ids : listener'[i] <= k
    BY <1>d, <2>2 DEF FtpInv, InOrder
  <2>4. CASE pc' = "wait"
    BY <1>a, <1>b, <1>c, <2>3, <2>4 DEF FtpInv, InOrder, server, Asking
  <2> QED
    BY <1>c, <2>1, <2>4
<1>3. OneListener'
  BY <1>b, <1>d DEF FtpInv, OneListener
<1>4. PassiveLater'
  BY <1>c DEF PassiveLater
<1>5. ActiveBefore'
  BY <1>c DEF ActiveBefore
<1>6. Served'
  BY <1>b, <1>c DEF FtpInv, Served, server
<1>7. Connection'
  BY <1>b DEF FtpInv, Connection, server
<1>8. InStep'
  BY <1>b, <1>c, <1>e DEF InStep, Stuck
<1>9. Current'
  <2>1. Dead /\ pc' = "wait" => Dead'
    BY <1>a, <1>b, Takes DEF Dead, server
  <2> QED
    BY <1>a, <1>b, <1>c, <2>1 DEF FtpInv, Current, Failed
<1>10. SuccessIsComplete'
  BY <1>a, <1>b, <1>c, SuccessKept, SuccessReturned
<1> QED
  BY <1>1, <1>2, <1>3, <1>4, <1>5, <1>6, <1>7, <1>8, <1>9, <1>10 DEF FtpInv

LEMMA VersAnsweredKeeps == ASSUME FtpInv, VersAnswered PROVE FtpInv'
<1>a. TakeReply(k, "chat") /\ FtpTyped
  BY DEF FtpInv, VersAnswered
<1>b. k \in Ids /\ pc = "vers" /\ result[k] = "none" /\ call[k] = "vers"
  BY FtpAssumption DEF FtpInv, FtpTyped, TypeOK, InOrder, VersAnswered, Ids, Asking, modes
<1>c. \/ pc' = "over" /\ result' = result
      \/ pc' = "idle" /\ \E v \in {"true", "null"} : result' = [result EXCEPT ![k] = v]
  BY DEF VersAnswered, Return
<1>d. UNCHANGED <<passive, isActive, stray, old, k, call, waitingForResponse, interrupted, success,
                  channel, listener, threads, sock, cmds, server>>
  BY DEF VersAnswered, modes
<1>e. ~Failed' => ~Failed
  BY <1>b, <1>c, FailedStays DEF Failed
<1>1. FtpTyped'
  <2>1. lock' = None /\ replies' \in Seq(ReplySet) /\ mixed' \in BOOLEAN
    BY <1>a, Takes
  <2>2. result' \in [Ids -> {"none", "true", "false", "interrupted", "null", "part"}]
    <3>1. result \in [Ids -> {"none", "true", "false", "interrupted", "null", "part"}]
      BY <1>a DEF FtpTyped, TypeOK
    <3>2. ASSUME NEW v \in {"true", "null"}, result' = [result EXCEPT ![k] = v]
          PROVE  result' \in [Ids -> {"none", "true", "false", "interrupted", "null", "part"}]
      BY <3>1, <3>2
    <3> QED
      BY <1>c, <3>1, <3>2
  <2>3. TypeOK'
    BY <1>c, <1>d, <2>1, <2>2 DEF FtpInv, FtpTyped, TypeOK, threads, server
  <2> QED
    BY <1>c, <1>d, <2>1, <2>3 DEF FtpInv, FtpTyped, threads, server, Asking
<1>2. InOrder'
  <2>1. CASE pc' = "idle"
    BY <1>b, <1>c, <1>d, <2>1, OrderReturned DEF threads, server
  <2>2. CASE pc' = "over"
    BY <1>b, <1>c, <1>d, <2>2 DEF FtpInv, InOrder, threads, server, Asking
  <2> QED
    BY <1>c, <2>1, <2>2
<1>3. OneListener'
  BY <1>d DEF FtpInv, OneListener, threads
<1>4. PassiveLater'
  BY <1>c DEF PassiveLater
<1>5. ActiveBefore'
  BY <1>c DEF ActiveBefore
<1>6. Served'
  BY <1>c, <1>d DEF FtpInv, Served, server
<1>7. Connection'
  BY <1>d DEF FtpInv, Connection, server
<1>8. InStep'
  <2>1. ~Failed => OnlyVers(cmds) /\ Quiet(replies') /\ PortUsed
    BY <1>a, <1>b, Takes DEF FtpInv, InStep
  <2> QED
    BY <1>c, <1>d, <1>e, <2>1 DEF server, InStep, PortUsed, OfChannel, Stuck
<1>9. Current'
  BY <1>c DEF Current
<1>10. SuccessIsComplete'
  BY <1>b, <1>c, <1>d, SuccessKept, SuccessReturned DEF threads
<1> QED
  BY <1>1, <1>2, <1>3, <1>4, <1>5, <1>6, <1>7, <1>8, <1>9, <1>10 DEF FtpInv

LEMMA SemaphoreAcquiredKeeps == ASSUME FtpInv, SemaphoreAcquired PROVE FtpInv'
<1>a. k \in Ids /\ pc = "wait" /\ pc' = "idle" /\ result[k] = "none" /\ wait[k] = "done"
  BY FtpAssumption DEF FtpInv, FtpTyped, TypeOK, InOrder, SemaphoreAcquired, Return, Ids, modes
<1>b. PICK v \in {"true", "false", "part"} :
          /\ result' = [result EXCEPT ![k] = v]
          /\ call[k] = "file" => v # "part" /\ (v = "true" => success)
  BY DEF SemaphoreAcquired, Return
<1>1. FtpTyped'
  <2>1. result' \in [Ids -> {"none", "true", "false", "interrupted", "null", "part"}]
    BY <1>a, <1>b DEF FtpInv, FtpTyped, TypeOK
  <2>2. semaphore' \in [Ids -> 0..1] /\ \A i \in Ids : semaphore'[i] > 0 => semaphore[i] > 0
    BY <1>a DEF FtpInv, FtpTyped, TypeOK, SemaphoreAcquired, modes
  <2>3. TypeOK'
    BY <1>a, <2>1, <2>2 DEF FtpInv, FtpTyped, TypeOK, SemaphoreAcquired, server, modes
  <2> QED
    BY <1>a, <2>2, <2>3 DEF FtpInv, FtpTyped, SemaphoreAcquired, Asking, modes
<1>2. InOrder'
  BY <1>a, <1>b, OrderReturned DEF SemaphoreAcquired, server
<1>3. OneListener'
  BY FtpAssumption DEF FtpInv, SemaphoreAcquired, Return, server, FtpTyped, TypeOK, InOrder, OneListener, Asking, Ids, None, modes
<1>4. PassiveLater'
  BY FtpAssumption DEF FtpInv, SemaphoreAcquired, Return, server, FtpTyped, TypeOK, InOrder, PassiveLater, Ids, None, modes
<1>5. ActiveBefore'
  BY FtpAssumption DEF FtpInv, SemaphoreAcquired, Return, server, FtpTyped, TypeOK, InOrder, ActiveBefore, Ids, None, modes
<1>6. Served'
  BY FtpAssumption DEF FtpInv, SemaphoreAcquired, Return, server, Served
<1>7. Connection'
  BY FtpAssumption DEF FtpInv, SemaphoreAcquired, Return, server, FtpTyped, TypeOK, InOrder, Connection, PassiveLater, Ids, None, modes
<1>8. InStep'
  <2>1. ~Failed' => ~Failed
    BY <1>a, <1>b, FailedStays
  <2>2. ~Failed => cmds = <<>> /\ Quiet(replies) /\ PortUsed
    BY <1>a DEF FtpInv, InStep, Stuck
  <2>3. OnlyVers(<<>>)
    BY DEF OnlyVers
  <2> QED
    BY <1>a, <2>1, <2>2, <2>3 DEF SemaphoreAcquired, server, InStep, PortUsed, OfChannel, Stuck, modes
<1>9. Current'
  BY FtpAssumption DEF FtpInv, SemaphoreAcquired, Return, server, FtpTyped, TypeOK, InOrder, Current, Dead, Failed, Ids, None, modes
<1>10. SuccessIsComplete'
  <2>1. call[k] = "file" /\ v = "true" => got[k] \in {"all", "cut"} \/ Failed
    BY <1>a, <1>b DEF FtpInv, Current, Dead
  <2> QED
    BY <1>a, <1>b, <2>1, SuccessReturned DEF SemaphoreAcquired
<1> QED
  BY <1>1, <1>2, <1>3, <1>4, <1>5, <1>6, <1>7, <1>8, <1>9, <1>10 DEF FtpInv

LEMMA InterruptedKeeps == ASSUME FtpInv, Interrupted PROVE FtpInv'
<1>a. k \in Ids /\ pc # "idle" /\ result[k] = "none"
  BY FtpAssumption DEF FtpInv, FtpTyped, TypeOK, InOrder, Interrupted, Ids, modes
<1>b. \/ pc' = "network_error" /\ result' = result /\ lock' = None
      \/ pc' = "idle" /\ result' = [result EXCEPT ![k] = "interrupted"] /\ Failed' /\ lock' = lock
  BY <1>a, FailedStays DEF Interrupted, Return
<1>1. FtpTyped'
  <2>1. result' \in [Ids -> {"none", "true", "false", "interrupted", "null", "part"}]
    BY <1>a, <1>b DEF FtpInv, FtpTyped, TypeOK
  <2>2. TypeOK'
    BY <1>b, <2>1 DEF FtpInv, FtpTyped, TypeOK, Interrupted, threads, server, modes
  <2> QED
    BY <1>b, <2>2 DEF FtpInv, FtpTyped, Interrupted, threads, server, Asking, modes
<1>2. InOrder'
  <2>1. CASE pc' = "idle"
    BY <1>a, <1>b, <2>1, OrderReturned DEF Interrupted, threads, server
  <2>2. CASE pc' = "network_error"
    BY <1>a, <1>b, <2>2 DEF FtpInv, InOrder, Interrupted, threads, server, Asking
  <2> QED
    BY <1>b, <2>1, <2>2
<1>3. OneListener'
  BY FtpAssumption DEF FtpInv, Interrupted, Return, threads, server, FtpTyped, TypeOK, InOrder, OneListener, Asking, Ids, None, modes
<1>4. PassiveLater'
  BY <1>b DEF PassiveLater
<1>5. ActiveBefore'
  BY <1>b DEF ActiveBefore
<1>6. Served'
  BY FtpAssumption DEF FtpInv, Interrupted, Return, threads, server, Served
<1>7. Connection'
  BY FtpAssumption DEF FtpInv, Interrupted, Return, threads, server, FtpTyped, TypeOK, InOrder, Connection, PassiveLater, Ids, None, modes
<1>8. InStep'
  BY <1>b DEF InStep
<1>9. Current'
  BY <1>b DEF Current
<1>10. SuccessIsComplete'
  BY <1>a, <1>b, SuccessKept, SuccessReturned DEF Interrupted, threads
<1> QED
  BY <1>1, <1>2, <1>3, <1>4, <1>5, <1>6, <1>7, <1>8, <1>9, <1>10 DEF FtpInv

LEMMA ConnectedKeeps == ASSUME FtpInv, NEW i \in Ids, Connected(i) PROVE FtpInv'
<1>1. FtpTyped'
  BY FtpAssumption DEF FtpInv, Connected, client, server, FtpTyped, TypeOK, Asking, Ids, None, Command, modes
<1>2. InOrder'
  <2>1. \A j \in Ids : j > k => data'[j] = data[j]
    BY DEF FtpInv, FtpTyped, TypeOK, InOrder, Connected, modes
  <2> QED
    BY <2>1 DEF FtpInv, InOrder, Connected, client, server
<1>3. OneListener'
  BY FtpAssumption DEF FtpInv, Connected, client, server, FtpTyped, TypeOK, InOrder, OneListener, Asking, Ids, None, modes
<1>4. PassiveLater'
  BY FtpAssumption DEF FtpInv, Connected, client, server, FtpTyped, TypeOK, InOrder, PassiveLater, Ids, None, modes
<1>5. ActiveBefore'
  BY FtpAssumption DEF FtpInv, Connected, client, server, FtpTyped, TypeOK, InOrder, ActiveBefore, Ids, None, modes
<1>6. Served'
  BY FtpAssumption DEF FtpInv, Connected, client, server, Served
<1>7. Connection'
  BY FtpAssumption DEF FtpInv, Connected, client, server, FtpTyped, TypeOK, InOrder, Connection, PassiveLater, Ids, None, modes
<1>8. InStep'
  BY FtpAssumption DEF FtpInv, Connected, client, server, FtpTyped, TypeOK, InOrder, InStep, Failed, Stuck, PortUsed, OfChannel, Ids, None, modes
<1>9. Current'
  BY FtpAssumption DEF FtpInv, Connected, client, server, FtpTyped, TypeOK, InOrder, Current, Dead, Failed, Ids, None, modes
<1>10. SuccessIsComplete'
  BY FtpAssumption DEF FtpInv, Connected, client, server, FtpTyped, TypeOK, InOrder, SuccessIsComplete, Ids, None, modes
<1> QED
  BY <1>1, <1>2, <1>3, <1>4, <1>5, <1>6, <1>7, <1>8, <1>9, <1>10 DEF FtpInv

LEMMA AcceptClosedKeeps == ASSUME FtpInv, NEW i \in Ids, AcceptClosed(i) PROVE FtpInv'
<1>1. FtpTyped'
  BY FtpAssumption DEF FtpInv, AcceptClosed, client, server, FtpTyped, TypeOK, Asking, Ids, None, Command, modes
<1>2. InOrder'
  BY FtpAssumption DEF FtpInv, AcceptClosed, client, server, FtpTyped, TypeOK, InOrder, Asking, Ids, None, modes
<1>3. OneListener'
  BY FtpAssumption DEF FtpInv, AcceptClosed, client, server, FtpTyped, TypeOK, InOrder, OneListener, Asking, Ids, None, modes
<1>4. PassiveLater'
  BY FtpAssumption DEF FtpInv, AcceptClosed, client, server, FtpTyped, TypeOK, InOrder, PassiveLater, Ids, None, modes
<1>5. ActiveBefore'
  BY FtpAssumption DEF FtpInv, AcceptClosed, client, server, FtpTyped, TypeOK, InOrder, ActiveBefore, Ids, None, modes
<1>6. Served'
  BY FtpAssumption DEF FtpInv, AcceptClosed, client, server, Served
<1>7. Connection'
  BY FtpAssumption DEF FtpInv, AcceptClosed, client, server, FtpTyped, TypeOK, InOrder, Connection, PassiveLater, Ids, None, modes
<1>8. InStep'
  BY FtpAssumption DEF FtpInv, AcceptClosed, client, server, FtpTyped, TypeOK, InOrder, InStep, Failed, Stuck, PortUsed, OfChannel, Ids, None, modes
<1>9. Current'
  BY FtpAssumption DEF FtpInv, AcceptClosed, client, server, FtpTyped, TypeOK, InOrder, Current, Dead, Failed, Ids, None, modes
<1>10. SuccessIsComplete'
  BY FtpAssumption DEF FtpInv, AcceptClosed, client, server, FtpTyped, TypeOK, InOrder, SuccessIsComplete, Ids, None, modes
<1> QED
  BY <1>1, <1>2, <1>3, <1>4, <1>5, <1>6, <1>7, <1>8, <1>9, <1>10 DEF FtpInv

LEMMA AcceptTimesOutKeeps == ASSUME FtpInv, NEW i \in Ids, AcceptTimesOut(i) PROVE FtpInv'
<1>a. /\ data' = [data EXCEPT ![i] = "timeout"] /\ data[i] = "accept" /\ UNCHANGED <<got, listener>>
  BY DEF AcceptTimesOut, client
<1>1. FtpTyped'
  <2>1. data' \in [Ids -> {"none", "accept", "timeout", "read", "done"}]
    BY <1>a DEF FtpInv, FtpTyped, TypeOK
  <2>2. TypeOK'
    BY <2>1 DEF FtpInv, FtpTyped, TypeOK, AcceptTimesOut, client, server, modes
  <2> QED
    BY <2>2 DEF FtpInv, FtpTyped, AcceptTimesOut, client, server, modes
<1>2. InOrder'
  BY FtpAssumption DEF FtpInv, AcceptTimesOut, client, server, FtpTyped, TypeOK, InOrder, Asking, Ids, None, modes
<1>3. OneListener'
  <2>1. \A c \in Ids : data[c] = "done" => data'[c] = "done"
    BY <1>a DEF FtpInv, FtpTyped, TypeOK
  <2> QED
    BY <1>a, <2>1 DEF FtpInv, OneListener
<1>4. PassiveLater'
  BY FtpAssumption DEF FtpInv, AcceptTimesOut, client, server, FtpTyped, TypeOK, InOrder, PassiveLater, Ids, None, modes
<1>5. ActiveBefore'
  BY FtpAssumption DEF FtpInv, AcceptTimesOut, client, server, FtpTyped, TypeOK, InOrder, ActiveBefore, Ids, None, modes
<1>6. Served'
  BY FtpAssumption DEF FtpInv, AcceptTimesOut, client, server, Served
<1>7. Connection'
  BY FtpAssumption DEF FtpInv, AcceptTimesOut, client, server, FtpTyped, TypeOK, InOrder, Connection, PassiveLater, Ids, None, modes
<1>8. InStep'
  BY FtpAssumption DEF FtpInv, AcceptTimesOut, client, server, FtpTyped, TypeOK, InOrder, InStep, Failed, Stuck, PortUsed, OfChannel, Ids, None, modes
<1>9. Current'
  BY FtpAssumption DEF FtpInv, AcceptTimesOut, client, server, FtpTyped, TypeOK, InOrder, Current, Dead, Failed, Ids, None, modes
<1>10. SuccessIsComplete'
  BY FtpAssumption DEF FtpInv, AcceptTimesOut, client, server, FtpTyped, TypeOK, InOrder, SuccessIsComplete, Ids, None, modes
<1> QED
  BY <1>1, <1>2, <1>3, <1>4, <1>5, <1>6, <1>7, <1>8, <1>9, <1>10 DEF FtpInv

LEMMA TimeoutHandledKeeps == ASSUME FtpInv, NEW i \in Ids, TimeoutHandled(i) PROVE FtpInv'
<1> DEFINE l == IF isActive[i] THEN None ELSE listener[i]
<1>a. /\ got' \in [Ids -> {"none", "part", "cut", "all"}] /\ success' \in BOOLEAN
      /\ \A j \in Ids : j # l => got'[j] = got[j]
      /\ Current' /\ SuccessIsComplete'
  <2>1. /\ data[i] # "done" /\ l \in {listener[i], None} /\ Report(l, "part", FALSE)
        /\ UNCHANGED <<pc, k, call, result, wait, cmds, replies, server>>
    BY DEF TimeoutHandled, server
  <2> HIDE DEF l
  <2> QED
    BY <2>1, Reported
<1>b. sock' = sock \/ sock' = [sock EXCEPT ![i] = "closed"]
  BY DEF TimeoutHandled, CloseSocket
<1>1. FtpTyped'
  <2>1. interrupted' \in BOOLEAN
    BY DEF TimeoutHandled
  <2>2. /\ data' \in [Ids -> {"none", "accept", "timeout", "read", "done"}]
        /\ sock' \in [Ids -> {"none", "listen", "open", "eof", "cut", "closed"}]
    BY <1>b DEF FtpInv, FtpTyped, TypeOK, TimeoutHandled, modes
  <2>3. TypeOK'
    BY <1>a, <2>2 DEF FtpInv, FtpTyped, TypeOK, TimeoutHandled, server, modes
  <2> QED
    BY <1>a, <2>1, <2>3 DEF FtpInv, FtpTyped, TimeoutHandled, server, modes
<1>2. InOrder'
  BY FtpAssumption DEF FtpInv, TimeoutHandled, CloseSocket, Report, server, FtpTyped, TypeOK, InOrder, Asking, Ids, None, modes
<1>3. OneListener'
  BY FtpAssumption DEF FtpInv, TimeoutHandled, CloseSocket, Report, server, FtpTyped, TypeOK, InOrder, OneListener, Asking, Ids, None, modes
<1>4. PassiveLater'
  <2>1. ASSUME passive, pc \in {"port", "self"}
        PROVE  k \in Ids /\ l # k /\ k # None /\ i # k
    BY <2>1, FtpAssumption
    DEF FtpInv, FtpTyped, TypeOK, InOrder, PassiveLater, TimeoutHandled, Ids, None, modes
  <2>2. /\ UNCHANGED <<passive, pc, k, listener>> /\ channel' = None
        /\ \A j \in Ids : j # i => data'[j] = data[j] /\ sock'[j] = sock[j]
    BY <1>b DEF TimeoutHandled, modes, FtpInv, FtpTyped, TypeOK
  <2> HIDE DEF l
  <2> QED
    BY <1>a, <2>1, <2>2 DEF FtpInv, PassiveLater
<1>5. ActiveBefore'
  <2>1. ASSUME ~passive, pc = "port"
        PROVE  k \in Ids /\ l # k /\ k # None
    BY <2>1, FtpAssumption
    DEF FtpInv, FtpTyped, TypeOK, InOrder, OneListener, ActiveBefore, Ids, None
  <2>2. /\ UNCHANGED <<passive, isActive, pc, k, listener>>
        /\ \A j \in Ids : data'[j] \in {data[j], "done"} /\ sock'[j] \in {sock[j], "closed"}
    BY <1>b DEF TimeoutHandled, modes, FtpInv, FtpTyped, TypeOK
  <2> HIDE DEF l
  <2> QED
    BY <1>a, <2>1, <2>2 DEF FtpInv, ActiveBefore
<1>6. Served'
  BY FtpAssumption DEF FtpInv, TimeoutHandled, CloseSocket, Report, server, Served
<1>7. Connection'
  BY FtpAssumption DEF FtpInv, TimeoutHandled, CloseSocket, Report, server, FtpTyped, TypeOK, InOrder, Connection, PassiveLater, Ids, None, modes
<1>8. InStep'
  BY FtpAssumption DEF FtpInv, TimeoutHandled, CloseSocket, Report, server, FtpTyped, TypeOK, InOrder, InStep, Failed, Stuck, PortUsed, OfChannel, Ids, None, modes
<1>9. Current'
  BY <1>a
<1>10. SuccessIsComplete'
  BY <1>a
<1> QED
  BY <1>1, <1>2, <1>3, <1>4, <1>5, <1>6, <1>7, <1>8, <1>9, <1>10 DEF FtpInv

LEMMA StrayTimeoutKeeps == ASSUME FtpInv, StrayTimeout PROVE FtpInv'
<1>1. FtpTyped'
  <2>1. TypeOK'
    BY FtpAssumption DEF FtpInv, FtpTyped, TypeOK, StrayTimeout, threads, server
  <2>2. stray' \in BOOLEAN /\ interrupted' \in BOOLEAN
    BY DEF StrayTimeout
  <2> QED
    BY <2>1, <2>2 DEF FtpInv, FtpTyped, StrayTimeout, threads, server
<1>2. InOrder'
  BY FtpAssumption DEF FtpInv, StrayTimeout, threads, server, FtpTyped, TypeOK, InOrder, Asking, Ids, None
<1>3. OneListener'
  BY FtpAssumption DEF FtpInv, StrayTimeout, threads, server, FtpTyped, TypeOK, InOrder, OneListener, Asking, Ids, None
<1>4. PassiveLater'
  BY FtpAssumption DEF FtpInv, StrayTimeout, threads, server, FtpTyped, TypeOK, InOrder, PassiveLater, Ids, None
<1>5. ActiveBefore'
  BY FtpAssumption DEF FtpInv, StrayTimeout, threads, server, FtpTyped, TypeOK, InOrder, ActiveBefore, Ids, None
<1>6. Served'
  BY FtpAssumption DEF FtpInv, StrayTimeout, threads, server, Served
<1>7. Connection'
  BY FtpAssumption DEF FtpInv, StrayTimeout, threads, server, FtpTyped, TypeOK, InOrder, Connection, PassiveLater, Ids, None
<1>8. InStep'
  BY FtpAssumption DEF FtpInv, StrayTimeout, threads, server, FtpTyped, TypeOK, InOrder, InStep, Failed, Stuck, PortUsed, OfChannel, Ids, None
<1>9. Current'
  BY FtpAssumption DEF FtpInv, StrayTimeout, threads, server, FtpTyped, TypeOK, InOrder, Current, Dead, Failed, Ids, None
<1>10. SuccessIsComplete'
  BY FtpAssumption DEF FtpInv, StrayTimeout, threads, server, FtpTyped, TypeOK, InOrder, SuccessIsComplete, Ids, None
<1> QED
  BY <1>1, <1>2, <1>3, <1>4, <1>5, <1>6, <1>7, <1>8, <1>9, <1>10 DEF FtpInv

LEMMA ReadEndsKeeps == ASSUME FtpInv, NEW i \in Ids, ReadEnds(i) PROVE FtpInv'
<1> DEFINE seen == IF sock[i] = "eof" THEN "all" ELSE "cut"
<1>a. /\ got' \in [Ids -> {"none", "part", "cut", "all"}] /\ success' \in BOOLEAN
      /\ \A j \in Ids : j # listener[i] => got'[j] = got[j]
      /\ Current' /\ SuccessIsComplete'
  <2>1. /\ data[i] # "done" /\ seen \in {"cut", "all"} /\ Report(listener[i], seen, TRUE)
        /\ UNCHANGED <<pc, k, call, result, wait, cmds, replies, server>>
    BY DEF ReadEnds, server
  <2> HIDE DEF seen
  <2> QED
    BY <2>1, Reported
<1>1. FtpTyped'
  <2>1. TypeOK'
    BY <1>a DEF FtpInv, FtpTyped, TypeOK, ReadEnds, server, modes
  <2> QED
    BY <1>a, <2>1 DEF FtpInv, FtpTyped, ReadEnds, server, modes
<1>2. InOrder'
  BY FtpAssumption DEF FtpInv, ReadEnds, Report, server, FtpTyped, TypeOK, InOrder, Asking, Ids, None, modes
<1>3. OneListener'
  BY FtpAssumption DEF FtpInv, ReadEnds, Report, server, FtpTyped, TypeOK, InOrder, OneListener, Asking, Ids, None, modes
<1>4. PassiveLater'
  BY FtpAssumption DEF FtpInv, ReadEnds, Report, server, FtpTyped, TypeOK, InOrder, PassiveLater, Ids, None, modes
<1>5. ActiveBefore'
  <2>1. ASSUME ~passive, pc = "port"
        PROVE  /\ k \in Ids /\ i # k /\ listener[i] # k /\ k # None
    BY <2>1, FtpAssumption
    DEF FtpInv, FtpTyped, TypeOK, InOrder, OneListener, ActiveBefore, ReadEnds, Ids, None, modes
  <2>2. /\ UNCHANGED <<passive, isActive, pc, k, listener>>
        /\ \A j \in Ids : j # i => data'[j] = data[j]
    BY DEF ReadEnds, modes, FtpInv, FtpTyped, TypeOK
  <2> QED
    BY <1>a, <2>1, <2>2 DEF FtpInv, ActiveBefore, ReadEnds, modes
<1>6. Served'
  BY FtpAssumption DEF FtpInv, ReadEnds, Report, server, Served
<1>7. Connection'
  BY FtpAssumption DEF FtpInv, ReadEnds, Report, server, FtpTyped, TypeOK, InOrder, Connection, PassiveLater, Ids, None, modes
<1>8. InStep'
  BY FtpAssumption DEF FtpInv, ReadEnds, Report, server, FtpTyped, TypeOK, InOrder, InStep, Failed, Stuck, PortUsed, OfChannel, Ids, None, modes
<1>9. Current'
  BY <1>a
<1>10. SuccessIsComplete'
  BY <1>a
<1> QED
  BY <1>1, <1>2, <1>3, <1>4, <1>5, <1>6, <1>7, <1>8, <1>9, <1>10 DEF FtpInv

LEMMA ReadBreaksKeeps == ASSUME FtpInv, NEW i \in Ids, ReadBreaks(i) PROVE FtpInv'
<1>a. /\ got' \in [Ids -> {"none", "part", "cut", "all"}] /\ success' \in BOOLEAN
      /\ \A j \in Ids : j # listener[i] => got'[j] = got[j]
      /\ Current' /\ SuccessIsComplete'
  <2>1. /\ data[i] # "done" /\ Report(listener[i], "part", FALSE)
        /\ UNCHANGED <<pc, k, call, result, wait, cmds, replies, server>>
    BY DEF ReadBreaks, server
  <2> QED
    BY <2>1, Reported
<1>b. /\ channel' \in {channel, None}
      /\ sock' = sock \/ (channel # None /\ sock' = [sock EXCEPT ![channel] = "closed"])
  BY DEF ReadBreaks, CloseDataChannel, CloseSocket
<1>c. /\ sock' \in [Ids -> {"none", "listen", "open", "eof", "cut", "closed"}]
      /\ \A j \in Ids : sock'[j] \in {sock[j], "closed"} /\ (j > k => sock'[j] = sock[j])
  <2>1. channel \in Ids \cup {None} /\ channel <= k /\ k \in Int
    BY FtpAssumption DEF FtpInv, FtpTyped, TypeOK, InOrder, Ids
  <2> QED
    BY <1>b, <2>1, FtpAssumption DEF FtpInv, FtpTyped, TypeOK, Ids
<1>1. FtpTyped'
  <2>1. data' \in [Ids -> {"none", "accept", "timeout", "read", "done"}] /\ channel' \in Ids \cup {None}
    BY <1>b DEF FtpInv, FtpTyped, TypeOK, ReadBreaks, modes
  <2>2. TypeOK'
    BY <1>a, <1>c, <2>1 DEF FtpInv, FtpTyped, TypeOK, ReadBreaks, server, modes
  <2> QED
    BY <1>a, <2>2 DEF FtpInv, FtpTyped, ReadBreaks, server, modes
<1>2. InOrder'
  <2>1. \A j \in Ids : j > k => got'[j] = "none" /\ data'[j] = "none" /\ sock'[j] = "none"
    BY <1>a, <1>c, FtpAssumption DEF FtpInv, FtpTyped, TypeOK, InOrder, ReadBreaks, Ids, None, modes
  <2>2. channel' <= k
    BY <1>b, FtpAssumption DEF FtpInv, FtpTyped, TypeOK, InOrder, None
  <2> QED
    BY <2>1, <2>2 DEF FtpInv, InOrder, ReadBreaks, server
<1>3. OneListener'
  BY FtpAssumption DEF FtpInv, ReadBreaks, Report, CloseDataChannel, CloseSocket, server, FtpTyped, TypeOK, InOrder, OneListener, Asking, Ids, None, modes
<1>4. PassiveLater'
  <2>1. ASSUME passive, pc \in {"port", "self"} PROVE k \in Ids /\ listener[i] # k /\ i # k /\ channel # k
    BY <2>1, FtpAssumption
    DEF FtpInv, FtpTyped, TypeOK, InOrder, PassiveLater, ReadBreaks, Ids, modes
  <2>2. ASSUME passive, pc \in {"port", "self"} PROVE sock'[k] = sock[k]
    BY <1>b, <2>1, <2>2 DEF FtpInv, FtpTyped, TypeOK
  <2>3. channel' \in {channel, None} /\ \A j \in Ids : j # i => data'[j] = data[j]
    BY <1>b DEF ReadBreaks, FtpInv, FtpTyped, TypeOK, modes
  <2>4. UNCHANGED <<passive, pc, k, listener>>
    BY DEF ReadBreaks, modes
  <2>5. ASSUME passive, pc \in {"port", "self"} PROVE channel' # k
    BY <2>1, <2>3, <2>5 DEF FtpInv, InOrder, None
  <2> QED
    BY <1>a, <2>1, <2>2, <2>3, <2>4, <2>5 DEF FtpInv, PassiveLater
<1>5. ActiveBefore'
  <2>1. ASSUME ~passive, pc = "port"
        PROVE  /\ k \in Ids /\ i # k /\ listener[i] # k /\ k # None
    BY <2>1, FtpAssumption
    DEF FtpInv, FtpTyped, TypeOK, InOrder, OneListener, ActiveBefore, ReadBreaks, Ids, None, modes
  <2>2. /\ UNCHANGED <<passive, isActive, pc, k, listener>>
        /\ \A j \in Ids : j # i => data'[j] = data[j]
    BY DEF ReadBreaks, modes, FtpInv, FtpTyped, TypeOK
  <2> QED
    BY <1>a, <1>c, <2>1, <2>2 DEF FtpInv, ActiveBefore
<1>6. Served'
  BY FtpAssumption DEF FtpInv, ReadBreaks, Report, CloseDataChannel, CloseSocket, server, Served
<1>7. Connection'
  BY <1>c DEF FtpInv, FtpTyped, TypeOK, Connection, ReadBreaks, server, modes
<1>8. InStep'
  <2>1. OfChannel => OfChannel'
    BY <1>b DEF OfChannel, ReadBreaks, server, modes
  <2> QED
    BY <2>1 DEF FtpInv, InStep, Failed, Stuck, PortUsed, ReadBreaks, server, modes
<1>9. Current'
  BY <1>a
<1>10. SuccessIsComplete'
  BY <1>a
<1> QED
  BY <1>1, <1>2, <1>3, <1>4, <1>5, <1>6, <1>7, <1>8, <1>9, <1>10 DEF FtpInv

LEMMA CompleteEntersKeeps == ASSUME FtpInv, NEW i \in Ids, CompleteEnters(i) PROVE FtpInv'
<1>1. FtpTyped'
  BY FtpAssumption DEF FtpInv, CompleteEnters, client, server, FtpTyped, TypeOK, Asking, Ids, None, Command, modes
<1>2. InOrder'
  BY FtpAssumption DEF FtpInv, CompleteEnters, client, server, FtpTyped, TypeOK, InOrder, Asking, Ids, None, modes
<1>3. OneListener'
  BY FtpAssumption DEF FtpInv, CompleteEnters, client, server, FtpTyped, TypeOK, InOrder, OneListener, Asking, Ids, None, modes
<1>4. PassiveLater'
  BY FtpAssumption DEF FtpInv, CompleteEnters, client, server, FtpTyped, TypeOK, InOrder, PassiveLater, Ids, None, modes
<1>5. ActiveBefore'
  BY FtpAssumption DEF FtpInv, CompleteEnters, client, server, FtpTyped, TypeOK, InOrder, ActiveBefore, Ids, None, modes
<1>6. Served'
  BY FtpAssumption DEF FtpInv, CompleteEnters, client, server, Served
<1>7. Connection'
  BY FtpAssumption DEF FtpInv, CompleteEnters, client, server, FtpTyped, TypeOK, InOrder, Connection, PassiveLater, Ids, None, modes
<1>8. InStep'
  BY FtpAssumption DEF FtpInv, CompleteEnters, client, server, FtpTyped, TypeOK, InOrder, InStep, Failed, Stuck, PortUsed, OfChannel, Ids, None, modes
<1>9. Current'
  <2>1. Dead => Dead'
    BY DEF FtpInv, FtpTyped, TypeOK, Dead, CompleteEnters, client, server, modes
  <2> QED
    BY <2>1 DEF FtpInv, Current, Failed, CompleteEnters, client
<1>10. SuccessIsComplete'
  BY SuccessKept DEF CompleteEnters, client
<1> QED
  BY <1>1, <1>2, <1>3, <1>4, <1>5, <1>6, <1>7, <1>8, <1>9, <1>10 DEF FtpInv

LEMMA CompleteAnsweredKeeps == ASSUME FtpInv, NEW i \in Ids, CompleteAnswered(i) PROVE FtpInv'
<1>a. TakeReply(i, "wait") /\ FtpTyped
  BY DEF FtpInv, CompleteAnswered
<1>b. /\ wait[i] = "reading" /\ wait'[i] \in {"ok", "fail"}
      /\ \A j \in Ids : j # i => wait'[j] = wait[j]
      /\ wait' \in [Ids -> {"none", "ready", "reading", "ok", "fail", "done"}]
  BY <1>a DEF FtpTyped, TypeOK, CompleteAnswered, modes
<1>c. Stuck <=> Stuck'
  BY <1>b, FtpAssumption DEF FtpInv, FtpTyped, TypeOK, InOrder, CompleteAnswered, client, Stuck, Ids, modes
<1>1. FtpTyped'
  <2>1. lock' = None /\ replies' \in Seq(ReplySet) /\ mixed' \in BOOLEAN
    BY <1>a, Takes
  <2>2. TypeOK'
    BY <1>b, <2>1 DEF FtpInv, FtpTyped, TypeOK, CompleteAnswered, client, server, modes
  <2> QED
    BY <1>b, <2>1, <2>2 DEF FtpInv, FtpTyped, CompleteAnswered, client, server, modes
<1>2. InOrder'
  <2>1. UNCHANGED <<client, data, got, semaphore, permits, sock, cmds, server>>
    BY DEF CompleteAnswered
  <2>2. \A j \in Ids : (wait[j] = "none") <=> (wait'[j] = "none")
    <3>1. wait[i] # "none" /\ wait'[i] # "none"
      BY <1>b
    <3> QED
      BY <1>b, <3>1, Zenon
  <2>3. UNCHANGED <<pc, k, call, result, got, data, sock, listener, cmds, port, channel>>
    BY <2>1 DEF client, server
  <2>4. pc \in Asking => k \in Ids
    BY FtpAssumption DEF FtpInv, FtpTyped, TypeOK, InOrder, Asking, Ids
  <2>5. InOrder
    BY DEF FtpInv
  <2>6. pc' \in Asking => wait'[k'] = "none"
    BY <2>2, <2>3, <2>4, <2>5 DEF InOrder
  <2>7. \A j \in Ids : j > k' => wait'[j] = "none"
    BY <2>2, <2>3, <2>5 DEF InOrder
  <2> QED
    BY <2>3, <2>5, <2>6, <2>7 DEF InOrder
<1>3. OneListener'
  BY DEF FtpInv, OneListener, CompleteAnswered, client
<1>4. PassiveLater'
  BY FtpAssumption DEF FtpInv, CompleteAnswered, client, server, FtpTyped, TypeOK, InOrder, PassiveLater, Ids, None, modes
<1>5. ActiveBefore'
  BY FtpAssumption DEF FtpInv, CompleteAnswered, client, server, FtpTyped, TypeOK, InOrder, ActiveBefore, Ids, None, modes
<1>6. Served'
  BY FtpAssumption DEF FtpInv, CompleteAnswered, client, server, Served
<1>7. Connection'
  BY FtpAssumption DEF FtpInv, CompleteAnswered, client, server, FtpTyped, TypeOK, InOrder, Connection, PassiveLater, Ids, None, modes
<1>8. InStep'
  <2>1. replies # <<>>
    BY <1>a DEF TakeReply
  <2>2. PortUsed <=> PortUsed'
    BY DEF PortUsed, OfChannel, CompleteAnswered, client, server, modes
  <2>3. OfChannel <=> OfChannel'
    BY DEF OfChannel, CompleteAnswered, client, server, modes
  <2>4. UNCHANGED <<pc, k, old, cmds, port, sending, result>>
    BY DEF CompleteAnswered, client, server
  <2>5. /\ Quiet(replies) => Quiet(replies')
        /\ OneFirst(replies) => OneFirst(replies')
        /\ FirstIsLast(replies) => FirstIsLast(replies')
        /\ \A code : Without(replies, code) => Without(replies', code)
    BY <1>a, Takes
  <2> QED
    BY <1>c, <2>1, <2>2, <2>3, <2>4, <2>5 DEF FtpInv, InStep, Failed
<1>9. Current'
  <2>1. Without(replies, 150) => Without(replies', 150)
    BY <1>a, Takes
  <2>2. k > 0 /\ wait[k] = "none" => wait'[k] = "none"
    BY <1>b, FtpAssumption DEF FtpInv, FtpTyped, TypeOK, Ids
  <2>3. k > 0 /\ Dead => Dead'
    BY <2>1, <2>2 DEF Dead, CompleteAnswered, client, server
  <2> QED
    BY <2>3 DEF FtpInv, InOrder, Current, Failed, CompleteAnswered, client
<1>10. SuccessIsComplete'
  BY SuccessKept DEF CompleteAnswered, client
<1> QED
  BY <1>1, <1>2, <1>3, <1>4, <1>5, <1>6, <1>7, <1>8, <1>9, <1>10 DEF FtpInv

LEMMA CompletedKeeps == ASSUME FtpInv, NEW i \in Ids, Completed(i) PROVE FtpInv'
<1>a. /\ channel' = None
      /\ sock' = sock \/ (channel # None /\ sock' = [sock EXCEPT ![channel] = "closed"])
  BY DEF Completed, CloseDataChannel, CloseSocket
<1>b. /\ sock' \in [Ids -> {"none", "listen", "open", "eof", "cut", "closed"}]
      /\ \A j \in Ids : sock'[j] \in {sock[j], "closed"} /\ (j > k => sock'[j] = sock[j])
  <2>1. channel \in Ids \cup {None} /\ channel <= k /\ k \in Int
    BY FtpAssumption DEF FtpInv, FtpTyped, TypeOK, InOrder, Ids
  <2> QED
    BY <1>a, <2>1, FtpAssumption DEF FtpInv, FtpTyped, TypeOK, Ids
<1>c. /\ wait[i] \in {"ok", "fail"} /\ wait'[i] = "done"
      /\ \A j \in Ids : j # i => wait'[j] = wait[j]
      /\ wait' \in [Ids -> {"none", "ready", "reading", "ok", "fail", "done"}]
  BY DEF FtpInv, FtpTyped, TypeOK, Completed, modes
<1>1. FtpTyped'
  <2>1. ~(semaphore[i] > 0)
    BY <1>c DEF FtpInv, FtpTyped
  <2>2. semaphore' \in [Ids -> 0..1] /\ \A j \in Ids : j # i => semaphore'[j] = semaphore[j]
    BY <2>1 DEF FtpInv, FtpTyped, TypeOK, Completed, modes
  <2>3. TypeOK'
    BY <1>a, <1>b, <1>c, <2>2 DEF FtpInv, FtpTyped, TypeOK, Completed, server, modes
  <2> QED
    BY <1>c, <2>2, <2>3 DEF FtpInv, FtpTyped, Completed, server, modes
<1>2. InOrder'
  <2>1. \A j \in Ids : j > k => wait'[j] = "none" /\ sock'[j] = "none"
    BY <1>b, <1>c DEF FtpInv, InOrder
  <2>2. channel' <= k
    BY <1>a, FtpAssumption DEF FtpInv, FtpTyped, TypeOK, None
  <2>3. pc \in Asking => wait'[k] = "none"
    BY <1>c, FtpAssumption DEF FtpInv, FtpTyped, TypeOK, InOrder, Asking, Ids
  <2> QED
    BY <2>1, <2>2, <2>3 DEF FtpInv, InOrder, Completed, server, Asking
<1>3. OneListener'
  BY FtpAssumption DEF FtpInv, Completed, CloseDataChannel, CloseSocket, server, FtpTyped, TypeOK, InOrder, OneListener, Asking, Ids, None, modes
<1>4. PassiveLater'
  <2>1. UNCHANGED <<passive, pc, k, listener, got, data>>
    BY DEF Completed, modes
  <2>2. ASSUME passive, pc \in {"port", "self"} PROVE k \in Ids /\ channel # k /\ None # k
    BY <2>2, FtpAssumption DEF FtpInv, FtpTyped, TypeOK, InOrder, PassiveLater, Ids, None
  <2>3. ASSUME passive, pc \in {"port", "self"} PROVE sock'[k] = sock[k]
    BY <1>a, <2>2, <2>3 DEF FtpInv, FtpTyped, TypeOK
  <2> QED
    BY <1>a, <2>1, <2>2, <2>3 DEF FtpInv, PassiveLater
<1>5. ActiveBefore'
  BY FtpAssumption DEF FtpInv, Completed, CloseDataChannel, CloseSocket, server, FtpTyped, TypeOK, InOrder, ActiveBefore, Ids, None, modes
<1>6. Served'
  BY FtpAssumption DEF FtpInv, Completed, CloseDataChannel, CloseSocket, server, Served
<1>7. Connection'
  BY <1>b DEF FtpInv, FtpTyped, TypeOK, Connection, Completed, server, modes
<1>8. InStep'
  <2>1. OfChannel'
    BY <1>a DEF OfChannel
  <2>2. k > 0 => (Stuck <=> Stuck') /\ (wait[k] \in {"ready", "reading"} => wait'[k] = wait[k])
    BY <1>c, FtpAssumption DEF FtpInv, FtpTyped, TypeOK, Stuck, Completed, Ids, modes
  <2>3. UNCHANGED <<pc, k, old, cmds, replies, port, sending, result>>
    BY DEF Completed, server
  <2>4. pc # "idle" => k > 0
    BY DEF FtpInv, InOrder
  <2> QED
    BY <2>1, <2>2, <2>3, <2>4 DEF FtpInv, InStep, Failed, PortUsed
<1>9. Current'
  <2>1. k > 0 /\ Dead => Dead'
    BY <1>c, FtpAssumption DEF FtpInv, FtpTyped, TypeOK, Dead, Completed, server, Ids, modes
  <2> QED
    BY <2>1 DEF FtpInv, InOrder, Current, Failed, Completed
<1>10. SuccessIsComplete'
  BY SuccessKept DEF Completed
<1> QED
  BY <1>1, <1>2, <1>3, <1>4, <1>5, <1>6, <1>7, <1>8, <1>9, <1>10 DEF FtpInv

LEMMA Replied ==
    ASSUME FtpTyped, NEW code \in Codes, NEW id \in Ids,
           NEW to \in {"chat", "wait"}, replies' = Append(replies, Reply(code, id, to))
    PROVE  /\ replies' \in Seq(ReplySet)
           /\ Quiet(replies) => OneFirst(replies') /\ FirstIsLast(replies')
           /\ code \notin {150, 200, 500} =>
                /\ Quiet(replies) => Quiet(replies')
                /\ OneFirst(replies) => OneFirst(replies')
                /\ FirstIsLast(replies) => OneFirst(replies')
           /\ code # 150 /\ Without(replies, 150) => Without(replies', 150)
           /\ code # 200 /\ Without(replies, 200) => Without(replies', 200)
           /\ code # 500 /\ Without(replies, 500) => Without(replies', 500)
<1> DEFINE r == Reply(code, id, to)
<1>1. r \in ReplySet /\ r.code = code
  BY DEF Reply, ReplySet
<1>2. replies \in Seq(ReplySet) /\ replies' = Append(replies, r)
  BY DEF FtpTyped
<1>3. code \notin {150, 200, 500} => ~First(r)
  BY <1>1 DEF First
<1> HIDE DEF r
<1> QED
  BY <1>1, <1>2, <1>3, SentReply

LEMMA Serves ==
    ASSUME FtpTyped, NEW c, Serve(c)
    PROVE  /\ cmds # <<>> /\ sending = None /\ cmds' \in Seq(CommandSet)
           /\ Head(cmds).id \in Ids
           /\ OnlyVers(cmds) => OnlyVers(cmds') /\ c = "VERS"
           /\ \A d \in {"PORT", "RETR"} : EndsIn(cmds, d) =>
                \/ c = "VERS" /\ EndsIn(cmds', d) /\ cmds'[Len(cmds')] = cmds[Len(cmds)]
                \/ c = d /\ cmds' = <<>> /\ Head(cmds) = cmds[Len(cmds)]
           /\ (\A n \in 1..Len(cmds) : cmds[n].cmd # "PORT") =>
                (\A n \in 1..Len(cmds') : cmds'[n].cmd # "PORT") /\ c # "PORT"
           /\ (\A n \in 1..Len(cmds) : cmds[n].id <= k) =>
                (\A n \in 1..Len(cmds') : cmds'[n].id <= k) /\ Head(cmds).id <= k
<1>1. /\ cmds # <<>> /\ sending = None /\ Head(cmds).cmd = c /\ cmds' = Tail(cmds)
      /\ cmds \in Seq(CommandSet) /\ k \in Int
  BY FtpAssumption DEF FtpTyped, TypeOK, Serve
<1>2. Head(cmds) \in CommandSet => Head(cmds).id \in Ids
  BY DEF CommandSet
<1>3. \A d \in {"PORT", "RETR"} : EndsIn(cmds, d) =>
          \/ c = "VERS" /\ EndsIn(cmds', d) /\ cmds'[Len(cmds')] = cmds[Len(cmds)]
          \/ c = d /\ cmds' = <<>> /\ Head(cmds) = cmds[Len(cmds)]
  BY <1>1, ServedCommand
<1>4. (\A n \in 1..Len(cmds) : cmds[n].cmd # "PORT") =>
          (\A n \in 1..Len(cmds') : cmds'[n].cmd # "PORT") /\ c # "PORT"
  BY <1>1, ServedCommand
<1>5. (\A n \in 1..Len(cmds) : cmds[n].id <= k) =>
          (\A n \in 1..Len(cmds') : cmds'[n].id <= k) /\ Head(cmds).id <= k
  BY <1>1, ServedCommand
<1> QED
  BY <1>1, <1>2, <1>3, <1>4, <1>5, ServedCommand

LEMMA ServedTail ==
    ASSUME FtpInv, NEW c, Serve(c), UNCHANGED <<pc, k>>, port' \in {port, None, Head(cmds).id},
           sending' = None \/ (sending' = Head(cmds).id /\ c = "RETR" /\ port' = port)
    PROVE  Served'
<1> DEFINE t == Tail(cmds)
<1>1. /\ cmds \in Seq(CommandSet) /\ cmds # <<>> /\ cmds' = t /\ Head(cmds).cmd = c
      /\ k \in Int /\ port \in Int
  BY FtpAssumption DEF FtpInv, FtpTyped, TypeOK, Serve, Ids, None
<1>2. /\ Head(cmds) = cmds[1] /\ Len(cmds) \in Nat /\ Len(cmds) > 0
      /\ \A n \in 1..Len(t) : n + 1 \in 1..Len(cmds) /\ t[n] = cmds[n + 1]
  BY <1>1, TailOf
<1> HIDE DEF t
<1>3. 1 \in 1..Len(cmds)
  BY <1>2
<1>4. \A n \in 1..Len(cmds) : cmds[n].id \in Int /\ cmds[n].id > 0 /\ cmds[n].id <= k
  <2> TAKE n \in 1..Len(cmds)
  <2>1. cmds[n] \in CommandSet
    BY <1>1, ElementOfSeq
  <2> QED
    BY <2>1, FtpAssumption DEF CommandSet, Ids, FtpInv, InOrder
<1>5. ASSUME NEW n \in 1..Len(t)
      PROVE  port' <= t[n].id
  <2>1. /\ port <= cmds[n + 1].id /\ cmds[1].id <= cmds[n + 1].id /\ None <= cmds[n + 1].id
        /\ t[n] = cmds[n + 1]
    BY <1>2, <1>3, <1>4 DEF FtpInv, Served, None
  <2> QED
    BY <1>2, <2>1
<1>6. ASSUME NEW m \in 1..Len(t), NEW n \in 1..Len(t), m <= n PROVE t[m].id <= t[n].id
  <2>1. m + 1 \in 1..Len(cmds) /\ n + 1 \in 1..Len(cmds) /\ m + 1 <= n + 1
    BY <1>2, <1>6
  <2> QED
    BY <1>2, <2>1 DEF FtpInv, Served
<1>7. sending' # None => port' <= sending' /\ sending' <= k
  BY <1>2, <1>3, <1>4 DEF FtpInv, Served
<1>8. ASSUME pc = "port"
      PROVE  sending' # k /\ \A n \in 1..Len(t) : t[n].id = k => t[n].cmd = "PORT"
  <2>1. k # None
    BY <1>8 DEF FtpInv, InOrder, None
  <2>2. c = "RETR" => Head(cmds).id # k
    BY <1>1, <1>2, <1>3, <1>8 DEF FtpInv, Served
  <2> QED
    BY <1>2, <1>8, <2>1, <2>2 DEF FtpInv, Served
<1> QED
  BY <1>1, <1>5, <1>6, <1>7, <1>8 DEF Served

LEMMA ServePortKeeps ==
    ASSUME FtpInv, Serve("PORT"), NEW code \in {200, 500}, Answer(code, "chat"),
           port' = IF code = 200 THEN Head(cmds).id ELSE None,
           UNCHANGED <<client, threads, sock, lock, sending, mixed>>
    PROVE  FtpInv'
<1>a. FtpTyped /\ UNCHANGED <<client, threads, sock, lock, sending, mixed>>
  BY DEF FtpInv
<1>b. /\ sending = None /\ cmds # <<>> /\ cmds' \in Seq(CommandSet) /\ Head(cmds).id \in Ids
      /\ (\A n \in 1..Len(cmds) : cmds[n].id <= k) =>
            (\A n \in 1..Len(cmds') : cmds'[n].id <= k) /\ Head(cmds).id <= k
  BY <1>a, Serves
<1>c. replies' = Append(replies, Reply(code, Head(cmds).id, "chat"))
  BY DEF Answer
<1>d. replies' \in Seq(ReplySet)
  BY <1>a, <1>b, <1>c, Replied DEF Codes
<1>1. FtpTyped'
  <2>1. TypeOK'
    BY <1>a, <1>b DEF FtpTyped, TypeOK, client, threads, modes
  <2> QED
    BY <1>a, <1>b, <1>d, <2>1 DEF FtpTyped, client, threads, modes
<1>2. InOrder'
  <2>1. port' <= k
    BY <1>a, <1>b, FtpAssumption DEF FtpInv, InOrder, FtpTyped, TypeOK, None
  <2> QED
    BY <1>a, <1>b, <2>1 DEF FtpInv, InOrder, client, threads
<1>3. OneListener'
  BY <1>a DEF FtpInv, OneListener, client, threads
<1>4. PassiveLater' /\ ActiveBefore'
  BY <1>a DEF FtpInv, PassiveLater, ActiveBefore, client, threads, modes
<1>5. Connection' /\ Served'
  BY <1>a, <1>b, ServedTail DEF Connection, client
<1>6. InStep'
  <2>1. ASSUME ~Failed, ~Stuck, pc \notin {"network_error", "over", "died"}
        PROVE  /\ pc = "port" /\ Quiet(replies) /\ cmds' = <<>> /\ Head(cmds).id = k
    BY <1>a, <1>b, <2>1, Serves DEF FtpInv, FtpTyped, TypeOK, InStep
  <2>2. Quiet(replies) => /\ OneFirst(replies') /\ Without(replies', 150)
                          /\ code = 200 => Without(replies', 500)
                          /\ code = 500 => Without(replies', 200)
    <3>1. Quiet(replies) => \A d \in {150, 200, 500} : Without(replies, d)
      BY <1>a, QuietIsWithout DEF FtpTyped
    <3> QED
      BY <1>a, <1>b, <1>c, <3>1, Replied DEF Codes
  <2> QED
    BY <1>a, <1>b, <2>1, <2>2 DEF InStep, Failed, Stuck, client, threads, modes
<1>7. Current'
  <2>1. ~Dead
    BY <1>a, Serves DEF Dead
  <2> QED
    BY <1>a, <2>1 DEF FtpInv, Current, Failed, client, threads
<1>8. SuccessIsComplete'
  BY <1>a, SuccessKept DEF client, threads
<1> QED
  BY <1>1, <1>2, <1>3, <1>4, <1>5, <1>6, <1>7, <1>8 DEF FtpInv

\* PORT or VERS, answered by a reply after which the client sends nothing.
LEMMA ServeShortKeeps ==
    ASSUME FtpInv, NEW c \in {"PORT", "VERS"}, Serve(c), NEW code \in {216, 421, 550},
           Answer(code, "chat"), UNCHANGED <<client, threads, sock, lock, server, mixed>>
    PROVE  FtpInv'
<1>a. FtpTyped /\ UNCHANGED <<client, threads, sock, lock, port, sending, mixed>>
  BY DEF FtpInv, server
<1>b. /\ sending = None /\ cmds # <<>> /\ cmds' \in Seq(CommandSet) /\ Head(cmds).id \in Ids
      /\ (\A n \in 1..Len(cmds) : cmds[n].id <= k) => \A n \in 1..Len(cmds') : cmds'[n].id <= k
      /\ (\A n \in 1..Len(cmds) : cmds[n].cmd # "PORT") => \A n \in 1..Len(cmds') : cmds'[n].cmd # "PORT"
      /\ OnlyVers(cmds) => OnlyVers(cmds')
      /\ EndsIn(cmds, "RETR") => EndsIn(cmds', "RETR")
      /\ EndsIn(cmds, "PORT") => \/ EndsIn(cmds', "PORT") /\ cmds'[Len(cmds')] = cmds[Len(cmds)]
                                 \/ cmds' = <<>>
  BY <1>a, Serves
<1>c. replies' = Append(replies, Reply(code, Head(cmds).id, "chat"))
  BY DEF Answer
<1>d. /\ replies' \in Seq(ReplySet) /\ (Quiet(replies) => Quiet(replies'))
      /\ Without(replies, 150) => Without(replies', 150)
  <2>1. code \in Codes /\ code \notin {150, 200, 500} /\ code # 150
    BY DEF Codes
  <2> QED
    BY <1>a, <1>b, <1>c, <2>1, Replied
<1>1. FtpTyped'
  <2>1. TypeOK'
    BY <1>a, <1>b DEF FtpTyped, TypeOK, client, threads, modes
  <2> QED
    BY <1>a, <1>b, <1>d, <2>1 DEF FtpTyped, client, threads, modes
<1>2. InOrder'
  BY <1>a, <1>b DEF FtpInv, InOrder, client, threads
<1>3. OneListener'
  BY <1>a DEF FtpInv, OneListener, client, threads
<1>4. PassiveLater' /\ ActiveBefore'
  BY <1>a DEF FtpInv, PassiveLater, ActiveBefore, client, threads, modes
<1>5. Connection' /\ Served'
  BY <1>a, <1>b, ServedTail DEF Connection, client
<1>6. InStep'
  <2>1. UNCHANGED <<pc, k, old, channel, port, sending, wait, result, passive>>
    BY <1>a DEF client, modes, threads
  <2> QED
    BY <1>b, <1>d, <2>1 DEF FtpInv, InStep, Failed, Stuck, PortUsed, OfChannel
<1>7. Current'
  <2>1. Dead => Dead'
    BY <1>a, <1>b, <1>d DEF Dead, client, threads
  <2> QED
    BY <1>a, <2>1 DEF FtpInv, Current, Failed, client, threads
<1>8. SuccessIsComplete'
  BY <1>a, SuccessKept DEF client, threads
<1> QED
  BY <1>1, <1>2, <1>3, <1>4, <1>5, <1>6, <1>7, <1>8 DEF FtpInv

\* RETR is the last command of its call, so that the control connection is empty when
\* it is answered.
LEMMA ServeTransferKeeps == ASSUME FtpInv, ServeTransfer PROVE FtpInv'
<1>a. FtpTyped /\ Serve("RETR") /\ UNCHANGED <<client, threads, lock, mixed>>
  BY DEF FtpInv, ServeTransfer
<1>b. /\ sending = None /\ cmds # <<>> /\ cmds' \in Seq(CommandSet) /\ Head(cmds).id \in Ids
      /\ (\A n \in 1..Len(cmds) : cmds[n].id <= k) => \A n \in 1..Len(cmds') : cmds'[n].id <= k
      /\ (\A n \in 1..Len(cmds) : cmds[n].cmd # "PORT") => \A n \in 1..Len(cmds') : cmds'[n].cmd # "PORT"
  BY <1>a, Serves
<1>c. ASSUME ~Failed, ~Stuck, pc \notin {"network_error", "over", "died"}
      PROVE  pc = "retr" /\ cmds' = <<>> /\ Quiet(replies) /\ OfChannel
  BY <1>a, <1>b, <1>c, Serves DEF FtpInv, FtpTyped, TypeOK, InStep
<1>d. PICK code \in {150, 425, 550} :
          /\ replies' = Append(replies, Reply(code, Head(cmds).id, "chat"))
          /\ code # 150 => sock' = sock /\ sending' = None /\ port' \in {port, None}
          /\ code = 150 => /\ port # None /\ port' = port /\ sending' = Head(cmds).id
                           /\ sock[port] = "listen" /\ sock' = [sock EXCEPT ![port] = "open"]
  BY <1>b DEF ServeTransfer, Answer, Reachable
<1>e. /\ replies' \in Seq(ReplySet)
      /\ Quiet(replies) => FirstIsLast(replies') /\ (code # 150 => Quiet(replies'))
      /\ code # 150 /\ Without(replies, 150) => Without(replies', 150)
  <2>1. code \in Codes /\ (code # 150 => code \notin {150, 200, 500}) /\ "chat" \in {"chat", "wait"}
    BY DEF Codes
  <2> QED
    BY <1>a, <1>b, <1>d, <2>1, Replied
<1>f. /\ sock' \in [Ids -> {"none", "listen", "open", "eof", "cut", "closed"}]
      /\ \A j \in Ids : sock[j] = "none" => sock'[j] = "none"
      /\ port' \in Ids \cup {None} /\ sending' \in Ids \cup {None} /\ port' \in {port, None}
      /\ code = 150 => sock'[port] = "open"
  <2>1. /\ sock \in [Ids -> {"none", "listen", "open", "eof", "cut", "closed"}]
        /\ port \in Ids \cup {None} /\ sending = None
    BY <1>a, <1>b DEF FtpTyped, TypeOK
  <2>2. CASE code # 150
    BY <1>b, <1>d, <2>1, <2>2
  <2>3. CASE code = 150
    <3>1. port \in Ids /\ sock[port] = "listen" /\ sock' = [sock EXCEPT ![port] = "open"]
      BY <1>d, <2>1, <2>3
    <3>2. /\ sock' \in [Ids -> {"none", "listen", "open", "eof", "cut", "closed"}]
          /\ \A j \in Ids : sock[j] = "none" => sock'[j] = "none"
          /\ sock'[port] = "open"
      BY <2>1, <3>1
    <3> QED
      BY <1>b, <1>d, <2>1, <2>3, <3>2
  <2> QED
    BY <2>2, <2>3
<1>g. Served'
  BY <1>a, <1>d, <1>f, ServedTail DEF client
<1>1. FtpTyped'
  <2>1. TypeOK'
    BY <1>a, <1>f DEF FtpTyped, TypeOK, client, threads, modes
  <2> QED
    BY <1>a, <1>b, <1>e, <2>1 DEF FtpTyped, client, threads, modes
<1>2. InOrder'
  <2>1. None <= k
    BY <1>a, FtpAssumption DEF FtpTyped, TypeOK, None
  <2>2. port' <= k
    BY <1>f, <2>1 DEF FtpInv, InOrder
  <2> QED
    BY <1>a, <1>b, <1>f, <2>2 DEF FtpInv, InOrder, client, threads
<1>3. OneListener'
  BY <1>a DEF FtpInv, OneListener, client, threads
<1>4. PassiveLater' /\ ActiveBefore'
  <2>1. pc # "idle" => k \in Ids
    BY <1>a, FtpAssumption DEF FtpInv, InOrder, FtpTyped, TypeOK, Ids
  <2>2. pc = "port" /\ code = 150 => port # k
    <3>1. ASSUME pc = "port", code = 150
          PROVE  port <= Head(cmds).id /\ Head(cmds).id <= k /\ Head(cmds).id # k
      <4>1. pc' = "port" /\ k' = k /\ port' = port /\ sending' = Head(cmds).id /\ sending' # None
        BY <1>a, <1>b, <1>d, <3>1 DEF client, Ids, None
      <4> QED
        BY <1>g, <4>1 DEF Served
    <3> QED
      BY <1>a, <1>b, <2>1, <3>1, FtpAssumption DEF FtpTyped, TypeOK, Ids, None
  <2>3. pc = "port" => sock'[k] = sock[k]
    BY <1>a, <1>d, <2>1, <2>2 DEF FtpTyped, TypeOK
  <2> QED
    BY <1>a, <1>f, <2>1, <2>3 DEF FtpInv, PassiveLater, ActiveBefore, client, threads, modes
<1>5. Connection'
  BY <1>d, <1>f DEF Connection
<1>6. InStep'
  <2>1. UNCHANGED <<pc, k, channel, wait, result, passive>>
    BY <1>a DEF client, modes, threads
  <2>2. Head(cmds).id # None
    BY <1>b DEF Ids, None
  <2> QED
    BY <1>c, <1>d, <1>e, <2>1, <2>2 DEF InStep, Failed, Stuck, OfChannel
<1>7. Current'
  <2>1. Dead => Dead'
    BY <1>a, <1>b, <1>d, <1>e DEF Dead, client, threads
  <2> QED
    BY <1>a, <2>1 DEF FtpInv, Current, Failed, client, threads
<1>8. SuccessIsComplete'
  BY <1>a, SuccessKept DEF client, threads
<1> QED
  BY <1>g, <1>1, <1>2, <1>3, <1>4, <1>5, <1>6, <1>7, <1>8 DEF FtpInv

LEMMA FinishTransferKeeps == ASSUME FtpInv, FinishTransfer PROVE FtpInv'
<1>a. /\ FtpTyped /\ UNCHANGED <<client, threads, lock, cmds, mixed>>
      /\ sending # None /\ sending' = None /\ port' = None
  BY DEF FtpInv, FinishTransfer
<1>b. PICK code \in {226, 426} :
          /\ replies' = Append(replies, Reply(code, sending, "wait"))
          /\ sock' = sock \/ (sock[port] = "open" /\ \E e \in {"eof", "cut"} : sock' = [sock EXCEPT ![port] = e])
  BY DEF FinishTransfer
<1>c. /\ replies' \in Seq(ReplySet) /\ (Quiet(replies) => Quiet(replies'))
      /\ FirstIsLast(replies) => OneFirst(replies')
      /\ OneFirst(replies) => OneFirst(replies')
      /\ Without(replies, 150) => Without(replies', 150)
  <2>1. sending \in Ids
    BY <1>a DEF FtpTyped, TypeOK
  <2>2. code \in Codes /\ code \notin {150, 200, 500} /\ "wait" \in {"chat", "wait"}
    BY DEF Codes
  <2> QED
    BY <1>a, <1>b, <2>1, <2>2, Replied
<1>d. /\ sock' \in [Ids -> {"none", "listen", "open", "eof", "cut", "closed"}]
      /\ \A j \in Ids : sock[j] = "none" => sock'[j] = "none"
  <2>1. sock \in [Ids -> {"none", "listen", "open", "eof", "cut", "closed"}]
    BY <1>a DEF FtpTyped, TypeOK
  <2>2. ASSUME NEW e \in {"eof", "cut"}, sock[port] = "open", sock' = [sock EXCEPT ![port] = e]
        PROVE  /\ sock' \in [Ids -> {"none", "listen", "open", "eof", "cut", "closed"}]
               /\ \A j \in Ids : sock[j] = "none" => sock'[j] = "none"
    BY <2>1, <2>2
  <2> QED
    BY <1>b, <2>1, <2>2
<1>1. FtpTyped'
  <2>1. TypeOK'
    BY <1>a, <1>d DEF FtpTyped, TypeOK, client, threads, modes
  <2> QED
    BY <1>a, <1>c, <2>1 DEF FtpTyped, client, threads, modes
<1>2. InOrder'
  <2>1. None <= k
    BY <1>a, FtpAssumption DEF FtpTyped, TypeOK, None
  <2> QED
    BY <1>a, <1>d, <2>1 DEF FtpInv, InOrder, client, threads
<1>3. OneListener'
  BY <1>a DEF FtpInv, OneListener, client, threads
<1>4. PassiveLater' /\ ActiveBefore'
  <2>1. pc # "idle" => k \in Ids
    BY <1>a, FtpAssumption DEF FtpInv, InOrder, FtpTyped, TypeOK, Ids
  <2>2. ~passive /\ pc = "port" => sock'[k] = sock[k]
    BY <1>a, <1>b, <2>1 DEF FtpInv, ActiveBefore, FtpTyped, TypeOK
  <2> QED
    BY <1>a, <1>d, <2>1, <2>2 DEF FtpInv, PassiveLater, ActiveBefore, client, threads, modes
<1>5. Connection' /\ Served'
  <2>1. \A n \in 1..Len(cmds) : None <= cmds[n].id
    <3> TAKE n \in 1..Len(cmds)
    <3>1. cmds[n] \in CommandSet
      BY <1>a, ElementOfSeq DEF FtpTyped
    <3> QED
      BY <3>1, FtpAssumption DEF CommandSet, Ids, None
  <2>2. pc = "port" => k # None
    BY DEF FtpInv, InOrder, None
  <2> QED
    BY <1>a, <2>1, <2>2 DEF FtpInv, Connection, Served, client
<1>6. InStep'
  <2>1. UNCHANGED <<pc, k, old, channel, wait, result, passive, cmds>>
    BY <1>a DEF client, modes, threads
  <2>2. OfChannel' /\ PortUsed'
    BY <1>a DEF OfChannel, PortUsed
  <2> QED
    BY <1>a, <1>c, <2>1, <2>2 DEF FtpInv, InStep, Failed, Stuck
<1>7. Current'
  BY <1>a DEF FtpInv, Current, Dead, Failed, client, threads
<1>8. SuccessIsComplete'
  BY <1>a, SuccessKept DEF client, threads
<1> QED
  BY <1>1, <1>2, <1>3, <1>4, <1>5, <1>6, <1>7, <1>8 DEF FtpInv

\* A new call: nothing belongs to it yet.
LEMMA Opens ==
    ASSUME FtpInv, NEW kind \in Calls, OpenDataChannel(kind)
    PROVE  /\ pc = "idle" /\ k \in Nat /\ k' = k + 1 /\ k' \in Ids /\ FtpTyped
           /\ result[k'] = "none" /\ got[k'] = "none" /\ wait[k'] = "none" /\ sock[k'] = "none"
           /\ data[k'] = "none"
           /\ permits < k' /\ permits <= k' /\ port <= k /\ channel <= k
           /\ call' \in [Ids -> Calls \cup {"none"}] /\ call'[k'] = kind /\ kind # "none"
           /\ \A i \in Ids : i # k' => call'[i] = call[i]
           /\ success' \in BOOLEAN /\ (kind = "file" => success' = FALSE)
           /\ UNCHANGED <<passive, stray, interrupted, got, wait, semaphore, permits, lock, replies,
                          server, result, mixed>>
           /\ \A i \in Ids : listener[i] <= k
           /\ Current' /\ SuccessIsComplete'
<1>1. pc = "idle" /\ k \in Nat /\ k' = k + 1 /\ k' \in Ids
  BY FtpAssumption DEF FtpInv, FtpTyped, TypeOK, OpenDataChannel, Ids
<1>2. /\ UNCHANGED <<passive, stray, interrupted, got, wait, semaphore, permits, lock, replies,
                     server, result, mixed>>
      /\ call' = [call EXCEPT ![k'] = kind] /\ success' = IF kind = "file" THEN FALSE ELSE success
  BY DEF OpenDataChannel
<1>3. /\ result[k'] = "none" /\ got[k'] = "none" /\ wait[k'] = "none" /\ sock[k'] = "none"
      /\ data[k'] = "none"
      /\ port <= k /\ channel <= k /\ \A i \in Ids : listener[i] <= k
  <2>1. k' > k /\ InOrder
    BY <1>1 DEF FtpInv
  <2>2. /\ \A i \in Ids : i > k => result[i] = "none" /\ got[i] = "none" /\ wait[i] = "none"
                                  /\ sock[i] = "none" /\ data[i] = "none"
        /\ port <= k /\ channel <= k /\ \A i \in Ids : listener[i] <= k
    BY <2>1 DEF InOrder
  <2> QED
    BY <1>1, <2>1, <2>2
<1>4. /\ call' \in [Ids -> Calls \cup {"none"}] /\ call'[k'] = kind
      /\ \A i \in Ids : i # k' => call'[i] = call[i]
  BY <1>1, <1>2 DEF FtpInv, FtpTyped, TypeOK
<1>5. permits < k' /\ permits <= k' /\ FtpTyped
  BY <1>1, FtpAssumption DEF FtpInv, FtpTyped, TypeOK
<1>6. success' \in BOOLEAN /\ (kind = "file" => success' = FALSE) /\ kind # "none"
  BY <1>2, FtpAssumption DEF FtpInv, FtpTyped
<1>7. Current'
  BY <1>4, <1>6 DEF Current
<1>8. SuccessIsComplete'
  BY <1>2, <1>3, <1>4 DEF FtpInv, SuccessIsComplete
<1> QED
  BY <1>1, <1>2, <1>3, <1>4, <1>5, <1>6, <1>7, <1>8

LEMMA OrderOpens ==
    ASSUME FtpInv, NEW kind \in Calls, OpenDataChannel(kind),
           pc' \in Asking, pc' = "vers" <=> kind = "vers",
           \A i \in Ids : i # k' => data'[i] = data[i] /\ sock'[i] = sock[i],
           \A i \in Ids : listener'[i] <= k', channel' <= k',
           \/ cmds' = cmds /\ pc' # "port"
           \/ \E c \in {"PORT", "RETR", "VERS"} : Send(c) /\ (pc' = "port" => c = "PORT")
    PROVE  InOrder' /\ cmds' \in Seq(CommandSet) /\ Served'
<1>1. /\ pc = "idle" /\ k \in Nat /\ k' = k + 1 /\ k' \in Ids /\ FtpTyped
      /\ result[k'] = "none" /\ wait[k'] = "none" /\ port <= k
      /\ call'[k'] = kind /\ kind # "none" /\ \A i \in Ids : i # k' => call'[i] = call[i]
      /\ UNCHANGED <<got, wait, server, result>>
  BY Opens
<1>2. \A n \in 1..Len(cmds) : cmds[n].id \in Int /\ cmds[n].id <= k'
  <2>1. ASSUME NEW n \in 1..Len(cmds) PROVE cmds[n].id \in Ids /\ cmds[n].id <= k
    <3>1. cmds[n] \in CommandSet
      BY <1>1, ElementOfSeq DEF FtpTyped
    <3> QED
      BY <3>1 DEF FtpInv, InOrder, CommandSet
  <2> QED
    BY <1>1, <2>1, FtpAssumption DEF Ids
<1>3. cmds' \in Seq(CommandSet) /\ \A n \in 1..Len(cmds') : cmds'[n].id <= k'
  BY <1>1, <1>2, Sends DEF FtpTyped
<1>4. \A i \in Ids : i < k' => result[i] # "none"
  BY <1>1 DEF FtpInv, InOrder, Ids
<1>5. \A i \in Ids : i <= k' => call'[i] # "none"
  BY <1>1 DEF FtpInv, InOrder, Ids
<1>6. \A i \in Ids : i > k' => /\ call'[i] = "none" /\ result[i] = "none" /\ got[i] = "none"
                               /\ wait[i] = "none" /\ data'[i] = "none" /\ sock'[i] = "none"
  BY <1>1 DEF FtpInv, InOrder, Ids
<1>7. \A i \in Ids : call'[i] = "file" => result[i] \in {"none", "true", "false", "interrupted"}
  BY <1>1 DEF FtpInv, InOrder
<1>8. port' <= k' /\ k' > 0
  BY <1>1, FtpAssumption DEF FtpTyped, TypeOK, server, Ids, None
<1>9. pc' # "idle"
  BY DEF Asking
<1>10. Served'
  <2>1. CASE cmds' = cmds /\ pc' # "port"
    BY <1>1, <2>1, FtpAssumption DEF FtpInv, FtpTyped, TypeOK, Served, server, Ids, None
  <2>2. ASSUME NEW c \in {"PORT", "RETR", "VERS"}, Send(c), pc' = "port" => c = "PORT"
        PROVE  Served'
    BY <1>1, <2>2, ServedNext DEF FtpInv, server
  <2> QED
    BY <2>1, <2>2
<1> QED
  BY <1>1, <1>3, <1>4, <1>5, <1>6, <1>7, <1>8, <1>9, <1>10 DEF InOrder

\* SITE VERS.
LEMMA AskVersionKeeps == ASSUME FtpInv, OpenDataChannel("vers"), "vers" \in Calls PROVE FtpInv'
<1>a. /\ pc' = "vers" /\ Send("VERS")
      /\ UNCHANGED <<isActive, channel, old, listener, data, sock, waitingForResponse>>
  BY DEF OpenDataChannel
<1>b. /\ pc = "idle" /\ k \in Nat /\ k' = k + 1 /\ k' \in Ids /\ FtpTyped
      /\ permits < k' /\ permits <= k'
      /\ channel <= k /\ call' \in [Ids -> Calls \cup {"none"}] /\ success' \in BOOLEAN
      /\ \A i \in Ids : listener[i] <= k
      /\ UNCHANGED <<passive, stray, interrupted, got, wait, semaphore, permits, lock, replies,
                     server, result, mixed>>
      /\ Current' /\ SuccessIsComplete'
  BY Opens
<1>c. channel' <= k' /\ \A i \in Ids : listener'[i] <= k'
  <2>1. channel \in Int /\ \A i \in Ids : listener[i] \in Int
    BY <1>b, FtpAssumption DEF FtpTyped, TypeOK, Ids, None
  <2> QED
    BY <1>a, <1>b, <2>1
<1>2. InOrder' /\ cmds' \in Seq(CommandSet) /\ Served'
  BY <1>a, <1>c, OrderOpens DEF Asking
<1>1. FtpTyped'
  <2>1. TypeOK'
    BY <1>a, <1>b, FtpAssumption DEF FtpTyped, TypeOK, server, Ids
  <2> QED
    BY <1>a, <1>b, <1>2, <2>1 DEF FtpTyped, Asking
<1>3. OneListener'
  BY <1>a, <1>b DEF FtpInv, OneListener
<1>4. PassiveLater' /\ ActiveBefore'
  BY <1>a DEF PassiveLater, ActiveBefore
<1>5. Connection'
  BY <1>a, <1>b DEF FtpInv, Connection, server
<1>6. InStep'
  <2>1. OnlyVers(cmds) => OnlyVers(cmds')
    BY <1>a, <1>b, Sends
  <2> QED
    BY <1>a, <1>b, <2>1 DEF FtpInv, InStep, Failed, PortUsed, OfChannel, server, Stuck
<1> QED
  BY <1>b, <1>1, <1>2, <1>3, <1>4, <1>5, <1>6 DEF FtpInv

\* PORT or PASV; in active mode the data thread starts before PORT is sent.
LEMMA NewChannelKeeps ==
    ASSUME FtpInv, NEW kind \in Calls, OpenDataChannel(kind), kind # "vers", channel = None
    PROVE  FtpInv'
<1>a. /\ pc' = "port" /\ Send("PORT") /\ UNCHANGED <<old, waitingForResponse>>
      /\ passive => UNCHANGED <<isActive, channel, listener, data, sock>>
      /\ ~passive => /\ channel' = k' /\ isActive' = [isActive EXCEPT ![k'] = TRUE]
                     /\ listener' = [listener EXCEPT ![k'] = k']
                     /\ data' = [data EXCEPT ![k'] = "accept"]
                     /\ sock' = [sock EXCEPT ![k'] = "listen"]
  BY DEF OpenDataChannel
<1>b. /\ pc = "idle" /\ k \in Nat /\ k' = k + 1 /\ k' \in Ids /\ FtpTyped
      /\ permits < k' /\ permits <= k'
      /\ got[k'] = "none" /\ sock[k'] = "none" /\ data[k'] = "none" /\ port <= k
      /\ call' \in [Ids -> Calls \cup {"none"}] /\ success' \in BOOLEAN
      /\ \A i \in Ids : listener[i] <= k
      /\ UNCHANGED <<passive, stray, interrupted, got, wait, semaphore, permits, lock, replies,
                     server, result, mixed>>
      /\ Current' /\ SuccessIsComplete'
  BY Opens
<1>c. /\ channel' \in {None, k'}
      /\ listener' \in [Ids -> Ids \cup {None}]
      /\ data' \in [Ids -> {"none", "accept", "timeout", "read", "done"}]
      /\ sock' \in [Ids -> {"none", "listen", "open", "eof", "cut", "closed"}]
      /\ \A i \in Ids : i # k' => data'[i] = data[i] /\ sock'[i] = sock[i] /\ listener'[i] = listener[i]
      /\ listener'[k'] \in {listener[k'], k'}
      /\ isActive' \in [Ids -> BOOLEAN]
  <2>1. CASE passive
    BY <1>a, <2>1 DEF FtpInv, FtpTyped, TypeOK
  <2>2. CASE ~passive
    <3>1. /\ TypeOK /\ channel' = k' /\ isActive' = [isActive EXCEPT ![k'] = TRUE]
          /\ listener' = [listener EXCEPT ![k'] = k'] /\ data' = [data EXCEPT ![k'] = "accept"]
          /\ sock' = [sock EXCEPT ![k'] = "listen"]
      BY <1>a, <1>b, <2>2 DEF FtpTyped
    <3>2. isActive' \in [Ids -> BOOLEAN]
      BY <3>1 DEF TypeOK
    <3> QED
      BY <1>b, <3>1, <3>2 DEF TypeOK
  <2> QED
    BY <2>1, <2>2
<1>d. k' \in Int /\ \A i \in Ids : i \in Int /\ listener[i] \in Int /\ listener[i] # k'
  BY <1>b, FtpAssumption DEF FtpTyped, TypeOK, Ids, None
<1>e. channel' <= k' /\ \A i \in Ids : listener'[i] <= k'
  <2>1. None <= k' /\ k' <= k' /\ \A i \in Ids : listener[i] <= k'
    BY <1>b, <1>d DEF None
  <2> QED
    BY <1>b, <1>c, <2>1
<1>2. InOrder' /\ cmds' \in Seq(CommandSet) /\ Served'
  BY <1>a, <1>c, <1>e, OrderOpens DEF Asking
<1>1. FtpTyped'
  <2>1. TypeOK'
    BY <1>a, <1>b, <1>c, FtpAssumption DEF FtpTyped, TypeOK, server, Ids
  <2> QED
    BY <1>a, <1>b, <1>2, <2>1 DEF FtpTyped, Asking
<1>3. OneListener'
  <2>1. CASE passive
    BY <1>a, <1>b, <2>1 DEF FtpInv, OneListener
  <2>2. CASE ~passive
    <3>1. listener'[k'] = k'
      BY <1>a, <1>b, <2>2 DEF FtpTyped, TypeOK
    <3>2. ASSUME NEW c \in Ids, listener'[c] # None, NEW d \in Ids, listener'[d] = listener'[c]
          PROVE  d = c
      BY <1>c, <1>d, <3>1, <3>2 DEF FtpInv, OneListener
    <3>3. ASSUME NEW c \in Ids, listener'[c] # None, got[listener'[c]] \in {"all", "cut"}
          PROVE  data'[c] = "done"
      BY <1>b, <1>c, <3>1, <3>3 DEF FtpInv, OneListener
    <3> QED
      BY <1>b, <3>2, <3>3 DEF OneListener
  <2> QED
    BY <2>1, <2>2
<1>4. PassiveLater' /\ ActiveBefore'
  <2>1. CASE passive
    <3>1. channel' = None /\ k' # None
      BY <1>a, <1>b, <2>1 DEF Ids, None
    <3> QED
      BY <1>a, <1>b, <1>d, <2>1, <3>1 DEF PassiveLater, ActiveBefore
  <2>2. CASE ~passive
    <3>1. listener'[k'] = k' /\ sock'[k'] = "listen" /\ data'[k'] = "accept" /\ isActive'[k']
      BY <1>a, <1>b, <2>2 DEF FtpTyped, TypeOK
    <3> QED
      BY <1>b, <2>2, <3>1 DEF PassiveLater, ActiveBefore
  <2> QED
    BY <2>1, <2>2
<1>5. Connection'
  <2>1. port \in Ids => port # k'
    BY <1>b DEF Ids
  <2> QED
    BY <1>b, <1>c, <2>1 DEF FtpInv, FtpTyped, TypeOK, Connection, server
<1>6. InStep'
  <2>1. /\ OnlyVers(cmds) => EndsIn(cmds', "PORT")
        /\ cmds'[Len(cmds')].id = k'
    BY <1>a, <1>b, Sends
  <2>2. PortUsed => PortUsed'
    BY <1>a, <1>b DEF PortUsed, OfChannel, server
  <2> QED
    BY <1>a, <1>b, <2>1, <2>2 DEF FtpInv, InStep, Failed
<1> QED
  BY <1>b, <1>1, <1>2, <1>3, <1>4, <1>5, <1>6 DEF FtpInv

\* A channel that is left over, in passive mode.
LEMMA ReadOldKeeps ==
    ASSUME FtpInv, NEW kind \in Calls, OpenDataChannel(kind), kind # "vers", channel # None, passive
    PROVE  FtpInv'
<1>a. /\ pc' = "self" /\ old' = channel
      /\ UNCHANGED <<isActive, channel, listener, data, sock, cmds, waitingForResponse>>
  BY DEF OpenDataChannel
<1>b. /\ pc = "idle" /\ k \in Nat /\ k' = k + 1 /\ k' \in Ids /\ FtpTyped
      /\ permits < k' /\ permits <= k'
      /\ got[k'] = "none" /\ sock[k'] = "none" /\ data[k'] = "none" /\ channel <= k
      /\ call' \in [Ids -> Calls \cup {"none"}] /\ success' \in BOOLEAN
      /\ \A i \in Ids : listener[i] <= k
      /\ UNCHANGED <<passive, stray, interrupted, got, wait, semaphore, permits, lock, replies,
                     server, result, mixed>>
      /\ Current' /\ SuccessIsComplete'
  BY Opens
<1>c. \A i \in Ids : listener[i] \in Int /\ listener[i] # k'
  BY <1>b, FtpAssumption DEF FtpTyped, TypeOK, Ids, None
<1>d. channel' <= k' /\ \A i \in Ids : listener'[i] <= k'
  BY <1>a, <1>b, <1>c, FtpAssumption DEF FtpTyped, TypeOK, Ids, None
<1>2. InOrder' /\ cmds' \in Seq(CommandSet) /\ Served'
  BY <1>a, <1>d, OrderOpens DEF Asking
<1>1. FtpTyped'
  <2>1. TypeOK' /\ old' \in Ids \cup {None}
    BY <1>a, <1>b, FtpAssumption DEF FtpTyped, TypeOK, server, Ids
  <2> QED
    BY <1>a, <1>b, <1>2, <2>1 DEF FtpTyped, Asking
<1>3. OneListener'
  BY <1>a, <1>b DEF FtpInv, OneListener
<1>4. PassiveLater' /\ ActiveBefore'
  <2>1. channel' # k'
    BY <1>a, <1>b, FtpAssumption DEF FtpTyped, TypeOK, Ids, None
  <2> QED
    BY <1>a, <1>b, <1>c, <2>1 DEF PassiveLater, ActiveBefore
<1>5. Connection'
  BY <1>a, <1>b DEF FtpInv, Connection, server
<1>6. InStep'
  BY <1>a, <1>b DEF FtpInv, InStep, Failed, PortUsed, OfChannel, server, Stuck
<1> QED
  BY <1>b, <1>1, <1>2, <1>3, <1>4, <1>5, <1>6 DEF FtpInv

\* A channel that is left over, in active mode.
LEMMA UseOldKeeps ==
    ASSUME FtpInv, NEW kind \in Calls, OpenDataChannel(kind), kind # "vers", channel # None, ~passive
    PROVE  FtpInv'
<1>a. /\ pc' = "retr" /\ Send("RETR") /\ waitingForResponse' = TRUE
      /\ SetActionListener(channel, k') /\ UNCHANGED <<isActive, channel, old, data, sock>>
  BY DEF OpenDataChannel
<1>b. /\ pc = "idle" /\ k \in Nat /\ k' = k + 1 /\ k' \in Ids /\ FtpTyped
      /\ permits < k' /\ permits <= k'
      /\ got[k'] = "none" /\ channel <= k
      /\ call' \in [Ids -> Calls \cup {"none"}] /\ success' \in BOOLEAN
      /\ \A i \in Ids : listener[i] <= k
      /\ UNCHANGED <<passive, stray, interrupted, got, wait, semaphore, permits, lock, replies,
                     server, result, mixed>>
      /\ Current' /\ SuccessIsComplete'
  BY Opens
<1>c. \A i \in Ids : listener[i] \in Int /\ listener[i] # k'
  BY <1>b, FtpAssumption DEF FtpTyped, TypeOK, Ids, None
<1>d. /\ listener' \in [Ids -> Ids \cup {None}]
      /\ \A i \in Ids : i # channel => listener'[i] = listener[i]
      /\ listener'[channel] \in {listener[channel], k'}
  <2>1. listener \in [Ids -> Ids \cup {None}] /\ channel \in Ids
    BY <1>b DEF FtpTyped, TypeOK
  <2> QED
    BY <1>a, <1>b, <2>1 DEF SetActionListener
<1>e. channel' <= k' /\ \A i \in Ids : listener'[i] <= k'
  BY <1>a, <1>b, <1>c, <1>d, FtpAssumption DEF FtpTyped, TypeOK, Ids, None
<1>2. InOrder' /\ cmds' \in Seq(CommandSet) /\ Served'
  BY <1>a, <1>e, OrderOpens DEF Asking
<1>1. FtpTyped'
  <2>1. TypeOK'
    BY <1>a, <1>b, <1>d, FtpAssumption DEF FtpTyped, TypeOK, server, Ids
  <2> QED
    BY <1>a, <1>b, <1>2, <2>1 DEF FtpTyped, Asking
<1>3. OneListener'
  BY <1>a, <1>b, <1>c, <1>d DEF FtpInv, OneListener
<1>4. PassiveLater' /\ ActiveBefore'
  BY <1>a, <1>b DEF PassiveLater, ActiveBefore
<1>5. Connection'
  BY <1>a, <1>b DEF FtpInv, Connection, server
<1>6. InStep'
  <2>1. OnlyVers(cmds) => EndsIn(cmds', "RETR")
    BY <1>a, <1>b, Sends
  <2> QED
    BY <1>a, <1>b, <2>1 DEF FtpInv, InStep, Failed, OfChannel, server, Stuck
<1> QED
  BY <1>b, <1>1, <1>2, <1>3, <1>4, <1>5, <1>6 DEF FtpInv

LEMMA FtpInvInit == Init => FtpInv
<1> SUFFICES ASSUME Init PROVE FtpInv
  OBVIOUS
<1>1. \A i \in Ids : i \in Int /\ i > 0
  BY FtpAssumption DEF Ids
<1>2. cmds = <<>> /\ replies = <<>> /\ k = 0 /\ port = 0 /\ pc = "idle"
  BY DEF Init, None
<1>3. FtpTyped
  <2>1. cmds \in Seq(CommandSet) /\ replies \in Seq(ReplySet)
    BY <1>2, EmptySeq
  <2>2. TypeOK
    BY <1>2, FtpAssumption DEF Init, TypeOK, None
  <2>3. permits <= k /\ pc \notin Asking /\ old \in Ids \cup {None}
    BY <1>2 DEF Init, Asking
  <2>4. \A i \in Ids : ~(semaphore[i] > 0)
    BY DEF Init
  <2> QED
    BY <2>1, <2>2, <2>3, <2>4 DEF Init, FtpTyped
<1>4. InOrder
  BY <1>1, <1>2 DEF Init, InOrder, Asking, None
<1>5. OneListener /\ PassiveLater /\ ActiveBefore /\ Connection /\ Served
  BY <1>2 DEF Init, OneListener, PassiveLater, ActiveBefore, Connection, Served
<1>6. InStep
  BY <1>2 DEF Init, InStep, OnlyVers, Quiet, PortUsed, OfChannel, Stuck
<1>7. Current /\ SuccessIsComplete
  BY DEF Init, Current, SuccessIsComplete
<1> QED
  BY <1>3, <1>4, <1>5, <1>6, <1>7 DEF FtpInv

LEMMA FtpInvNext == ASSUME FtpInv, [Next]_vars PROVE FtpInv'
<1>1. ASSUME NEW kind \in Calls, OpenDataChannel(kind) PROVE FtpInv'
  <2>1. CASE kind = "vers"
    BY <1>1, <2>1, AskVersionKeeps
  <2>2. CASE kind # "vers" /\ channel = None
    BY <1>1, <2>2, NewChannelKeeps
  <2>3. CASE kind # "vers" /\ channel # None /\ passive
    BY <1>1, <2>3, ReadOldKeeps
  <2>4. CASE kind # "vers" /\ channel # None /\ ~passive
    BY <1>1, <2>4, UseOldKeeps
  <2> QED
    BY <2>1, <2>2, <2>3, <2>4
<1>2. CASE CommandThread
  <2>1. PortAnswered => Granted \/ FallBack \/ SessionOver \/ Refusal
    BY DEF PortAnswered
  <2> QED
  BY <1>2, <2>1, ReadInCommandThreadKeeps, ChatEntersKeeps, RetrAcceptedKeeps, RetrRefusedKeeps,
     PortGrantedKeeps, FallenBackKeeps, PortOverKeeps, PortRefusedKeeps, VersAnsweredKeeps,
     SemaphoreAcquiredKeeps, InterruptedKeeps
  DEF CommandThread
<1>3. ASSUME NEW i \in Ids, DataThread(i) \/ AcceptTimesOut(i) PROVE FtpInv'
  BY <1>3, ConnectedKeeps, AcceptClosedKeeps, AcceptTimesOutKeeps, TimeoutHandledKeeps,
     ReadEndsKeeps, ReadBreaksKeeps, StrayTimeoutKeeps DEF DataThread
<1>4. ASSUME NEW i \in Ids, WaitThread(i) PROVE FtpInv'
  BY <1>4, CompleteEntersKeeps, CompleteAnsweredKeeps, CompletedKeeps DEF WaitThread
<1>5. CASE Server
  <2>1. CASE ServePort
    <3>1. \/ Serve("PORT") /\ Answer(200, "chat") /\ port' = Head(cmds).id
          \/ Serve("PORT") /\ Answer(500, "chat") /\ port' = None
          \/ Serve("PORT") /\ Answer(550, "chat") /\ port' = port
      BY <2>1 DEF ServePort
    <3>2. UNCHANGED <<client, threads, sock, lock, sending, mixed>>
      BY <2>1 DEF ServePort
    <3> QED
      BY <3>1, <3>2, ServePortKeeps, ServeShortKeeps DEF server
  <2>2. CASE ServeVers
    BY <2>2, ServeShortKeeps DEF ServeVers
  <2>3. CASE SessionTimesOut
    BY <2>3, ServeShortKeeps DEF SessionTimesOut
  <2> QED
    BY <1>5, <2>1, <2>2, <2>3, ServeTransferKeeps, FinishTransferKeeps DEF Server
<1>6. CASE UNCHANGED vars
  BY <1>6 DEF vars, modes, FtpInv, FtpTyped, TypeOK, InOrder, OneListener, PassiveLater, ActiveBefore,
     Served, Connection,
     InStep, Failed, Stuck, PortUsed, OfChannel, Current, Dead, SuccessIsComplete
<1> QED
  BY <1>1, <1>2, <1>3, <1>4, <1>5, <1>6 DEF Next

\* A download that is reported as a success has been read to the end of its stream, for
\* any number of calls in any order, in both transfer modes, whatever is refused, cut or
\* timed out (FtpClient.downloadFile, FtpDataChannel.run, WaitForComplete.run).
THEOREM SuccessMeansComplete == Spec => []SuccessIsComplete
<1>1. FtpInv /\ [Next]_vars => FtpInv'
  BY FtpInvNext
<1>2. FtpInv => SuccessIsComplete
  BY DEF FtpInv
<1> QED
  BY FtpInvInit, <1>1, <1>2, PTL DEF Spec

-----------------------------------------------------------------------------
(* The two ends take turns while every call waits.                         *)

LEMMA ShortQueues ==
    \A a, b : /\ Append(<<>>, a) = <<a>> /\ Head(<<a>>) = a /\ Tail(<<a>>) = <<>> /\ <<a>> # <<>>
              /\ Append(<<a>>, b) = <<a, b>> /\ Head(<<a, b>>) = a /\ Tail(<<a, b>>) = <<b>>
<1> TAKE a, b
<1>1. Append(<<>>, a) = <<a>> /\ Head(<<a>>) = a /\ Tail(<<a>>) = <<>> /\ <<a>> # <<>>
  OBVIOUS
<1>2. Append(<<a>>, b) = <<a, b>>
  <2>1. <<a>> \in Seq({a, b}) /\ b \in {a, b} /\ <<a, b>> \in Seq({a, b}) /\ <<a>>[1] = a
        /\ Len(<<a>>) = 1 /\ Len(<<a, b>>) = 2 /\ <<a, b>>[1] = a /\ <<a, b>>[2] = b
    OBVIOUS
  <2>2. /\ Append(<<a>>, b) \in Seq({a, b}) /\ Len(Append(<<a>>, b)) = 2
        /\ Append(<<a>>, b)[1] = a /\ Append(<<a>>, b)[2] = b
    BY <2>1, AppendProperties
  <2>3. \A i \in 1..Len(Append(<<a>>, b)) : Append(<<a>>, b)[i] = <<a, b>>[i]
    <3> TAKE i \in 1..Len(Append(<<a>>, b))
    <3>1. i = 1 \/ i = 2
      BY <2>2
    <3> QED
      BY <2>1, <2>2, <3>1
  <2> DEFINE s == Append(<<a>>, b)
             t == <<a, b>>
  <2>4. s \in Seq({a, b}) /\ t \in Seq({a, b}) /\ Len(s) = Len(t)
        /\ \A i \in 1..Len(s) : s[i] = t[i]
    BY <2>1, <2>2, <2>3
  <2> HIDE DEF s, t
  <2>5. s = t
    BY <2>4, SeqEqual
  <2> QED
    BY <2>5 DEF s, t
<1>3. Head(<<a, b>>) = a
  OBVIOUS
<1>4. Tail(<<a, b>>) = <<b>>
  OBVIOUS
<1> QED
  BY <1>1, <1>2, <1>3, <1>4

LEMMA ReplyFields ==
    \A code, i, to : LET r == Reply(code, i, to) IN r.code = code /\ r.id = i /\ r.to = to
  BY DEF Reply

\* A call that was not waited for stays one.
LEMMA WaitsKept == ASSUME UNCHANGED <<call, result>>, EachWaits' PROVE EachWaits
  BY DEF EachWaits, NotWaitedFor

LEMMA WaitsReturned ==
    ASSUME FtpInv, pc # "idle", call' = call, NEW v, result' = [result EXCEPT ![k] = v], EachWaits'
    PROVE  EachWaits /\ v # "interrupted" /\ (wait' = wait /\ ChannelLeft => ChannelLeft')
<1>1. k \in Ids /\ result[k] = "none" /\ result'[k] = v /\ \A i \in Ids \ {k} : result'[i] = result[i]
  BY FtpAssumption DEF FtpInv, FtpTyped, TypeOK, InOrder, Ids
<1> QED
  BY <1>1 DEF EachWaits, NotWaitedFor, ChannelLeft, NotBegun

\* Nothing but the channel matters of what the data threads do.
LEMMA TurnKept ==
    ASSUME TurnByTurn, UNCHANGED <<pc, k, call, result, wait, lock, cmds, replies, sending, mixed>>,
           channel' \in {channel, None}
    PROVE  TurnByTurn'
  BY DEF TurnByTurn, Exchange, Rested, Asked, Transferring, ChannelLeft, NotBegun

\* The threads that wait are at most the one of the current call, in its wait.
LEMMA OneWaits ==
    ASSUME FtpInv, TurnByTurn, NEW i \in Ids, wait[i] \notin {"none", "done"}
    PROVE  i = k /\ pc = "wait"
  BY DEF TurnByTurn

\* chat takes a reply.
LEMMA ChatInTurn ==
    ASSUME FtpInv, TurnByTurn, TakeReply(k, "chat"), lock = Command
    PROVE  /\ pc \in {"port", "vers"} => ~mixed' /\ cmds = <<>> /\ replies' = <<>> /\ sending = None
           /\ pc = "retr" => /\ ~mixed' /\ cmds = <<>>
                             /\ Head(replies).code # 150 => replies' = <<>> /\ sending = None
                             /\ Head(replies).code = 150 =>
                                  \/ sending = k /\ replies' = <<>>
                                  \/ /\ sending = None
                                     /\ \E code \in {226, 426} : replies' = <<Reply(code, k, "wait")>>
           /\ pc \in {"port", "retr", "vers"} /\ lock' = None
           /\ \A i \in Ids : wait[i] \in {"none", "done"}
<1>1. pc \in {"port", "retr", "vers"} /\ \A i \in Ids : wait[i] \in {"none", "done"}
  BY DEF TurnByTurn
<1>2. /\ replies # <<>> /\ replies' = Tail(replies) /\ lock' = None
      /\ Head(replies).id = k /\ Head(replies).to = "chat" => (mixed' <=> mixed)
  BY DEF TakeReply
<1>3. ~mixed /\ Exchange
  BY DEF TurnByTurn
<1>4. ASSUME NEW c, NEW code, Asked(c, code)
      PROVE  /\ cmds = <<>> /\ sending = None /\ replies' = <<>> /\ ~mixed'
             /\ Head(replies).code = code
  <2>1. cmds = <<>> /\ sending = None /\ replies = <<Reply(code, k, "chat")>>
    BY <1>2, <1>4 DEF Asked
  <2> QED
    BY <1>2, <1>3, <2>1, ShortQueues, ReplyFields
<1>5. CASE pc \in {"port", "vers"}
  <2>1. PICK c, code : Asked(c, code)
    BY <1>3, <1>5 DEF Exchange
  <2> QED
    BY <1>1, <1>2, <1>4, <1>5, <2>1
<1>7. CASE pc = "retr"
  <2>1. CASE Asked("RETR", 425) \/ Asked("RETR", 550)
    BY <1>1, <1>2, <1>4, <1>7, <2>1
  <2>2. CASE Transferring(<<Reply(150, k, "chat")>>)
    <3>1. CASE sending = k /\ replies = <<Reply(150, k, "chat")>>
      BY <1>1, <1>2, <1>3, <1>7, <2>2, <3>1, ShortQueues, ReplyFields DEF Transferring
    <3>2. CASE /\ sending = None
               /\ \E code \in {226, 426} :
                      replies = Append(<<Reply(150, k, "chat")>>, Reply(code, k, "wait"))
      <4>1. PICK code \in {226, 426} : replies = <<Reply(150, k, "chat"), Reply(code, k, "wait")>>
        BY <3>2, ShortQueues
      <4>2. replies' = <<Reply(code, k, "wait")>> /\ Head(replies) = Reply(150, k, "chat")
        BY <1>2, <4>1, ShortQueues
      <4>3. Head(replies).code = 150 /\ ~mixed' /\ cmds = <<>>
        BY <1>2, <1>3, <2>2, <4>2, ReplyFields DEF Transferring
      <4> QED
        BY <1>1, <1>2, <1>7, <3>2, <4>2, <4>3
    <3> QED
      BY <2>2, <3>1, <3>2 DEF Transferring
  <2> QED
    BY <1>3, <1>7, <2>1, <2>2 DEF Exchange
<1> QED
  BY <1>1, <1>5, <1>7

\* Nobody reads, and the lock is free.
LEMMA LockFree ==
    ASSUME FtpInv, \A i \in Ids : wait'[i] \in {"none", "done", "ready", "ok", "fail"}, lock' = None
    PROVE  /\ lock' # Command
           /\ \A i \in Ids : lock' = i <=> wait'[i] = "reading"
<1>1. None # Command /\ None \notin Ids
  BY FtpAssumption DEF None, Command, Ids
<1> QED
  BY <1>1

LEMMA PortTurn == ASSUME FtpInv, TurnByTurn, PortAnswered PROVE TurnByTurn'
<1>1. TakeReply(k, "chat") /\ lock = Command /\ pc = "port" /\ k \in Ids /\ result[k] = "none"
  BY FtpAssumption DEF PortAnswered, FtpInv, FtpTyped, TypeOK, InOrder, Ids
<1>2. /\ ~mixed' /\ cmds = <<>> /\ replies' = <<>> /\ sending = None
      /\ lock' = None /\ \A i \in Ids : wait[i] \in {"none", "done"}
  BY <1>1, ChatInTurn
<1>3. k' = k /\ wait' = wait /\ sending' = sending
  BY DEF PortAnswered, Granted, FallBack, SessionOver, Refusal, server
<1>4. /\ lock' # Command /\ \A i \in Ids : lock' = i <=> wait'[i] = "reading"
  BY <1>2, <1>3, LockFree
<1>5. ASSUME NEW c, Send(c) PROVE cmds' = <<[cmd |-> c, id |-> k']>>
  BY <1>2, <1>5, ShortQueues DEF Send
<1>6. CASE Granted
  <2>1. pc' = "retr" /\ cmds' = <<[cmd |-> "RETR", id |-> k']>>
    BY <1>5, <1>6 DEF Granted
  <2>2. Exchange'
    BY <1>2, <1>3, <2>1 DEF Exchange, Asked
  <2> QED
    BY <1>2, <1>3, <1>4, <2>1, <2>2 DEF TurnByTurn
<1>7. CASE FallBack
  <2>1. pc' = "port" /\ cmds' = <<[cmd |-> "PORT", id |-> k']>>
    BY <1>1, <1>5, <1>7 DEF FallBack
  <2>2. \E code \in {200, 421, 500, 550} : Asked("PORT", code)'
    BY <1>2, <1>3, <2>1 DEF Asked
  <2>3. Exchange'
    BY <2>1, <2>2 DEF Exchange
  <2> QED
    BY <1>2, <1>3, <1>4, <2>1, <2>3 DEF TurnByTurn
<1>8. CASE SessionOver
  <2>1. pc' \in {"over", "died"}
    BY <1>8 DEF SessionOver
  <2> QED
    BY <1>2, <1>3, <1>4, <2>1 DEF TurnByTurn, Exchange
<1>9. CASE Refusal
  <2>1. pc' = "idle" /\ cmds' = cmds /\ result' = [result EXCEPT ![k] = "false"]
    BY <1>9 DEF Refusal, Return
  <2>2. wait[k] = "none" /\ result \in [Ids -> {"none", "true", "false", "interrupted", "null", "part"}]
    BY <1>1 DEF FtpInv, FtpTyped, TypeOK, InOrder, Asking
  <2>3. ChannelLeft'
    BY <1>1, <1>3, <2>1, <2>2 DEF ChannelLeft, NotBegun
  <2>4. Exchange'
    BY <1>2, <1>3, <2>1 DEF Exchange, Rested
  <2> QED
    BY <1>2, <1>3, <1>4, <2>1, <2>3, <2>4 DEF TurnByTurn
<1> QED
  BY <1>6, <1>7, <1>8, <1>9 DEF PortAnswered

LEMMA VersTurn == ASSUME FtpInv, TurnByTurn, EachWaits', VersAnswered PROVE TurnByTurn'
<1>1. TakeReply(k, "chat") /\ lock = Command /\ pc = "vers"
  BY DEF VersAnswered
<1>2. /\ ~mixed' /\ cmds = <<>> /\ replies' = <<>> /\ sending = None
      /\ lock' = None /\ \A i \in Ids : wait[i] \in {"none", "done"}
  BY <1>1, ChatInTurn
<1>3. pc' \in {"idle", "over"} /\ UNCHANGED <<k, call, cmds, sending, wait, channel>>
  BY DEF VersAnswered, Return, threads, server
<1>4. pc' = "idle" /\ ChannelLeft => ChannelLeft'
  BY <1>1, <1>3, WaitsReturned DEF VersAnswered, Return
<1>5. ChannelLeft \/ channel = None
  BY <1>1 DEF TurnByTurn
<1>6. Exchange'
  BY <1>2, <1>3 DEF Exchange, Rested
<1>7. /\ lock' # Command /\ \A i \in Ids : lock' = i <=> wait'[i] = "reading"
  BY <1>2, <1>3, LockFree
<1> QED
  BY <1>2, <1>3, <1>4, <1>5, <1>6, <1>7 DEF TurnByTurn

LEMMA RetrTurn == ASSUME FtpInv, TurnByTurn, EachWaits', RetrAnswered PROVE TurnByTurn'
<1>1. /\ TakeReply(k, "chat") /\ lock = Command /\ pc = "retr" /\ k \in Ids
      /\ call[k] \in {"file", "list", "readme"}
  <2>1. TakeReply(k, "chat") /\ lock = Command /\ pc = "retr" /\ k \in Ids
    BY FtpAssumption DEF FtpInv, FtpTyped, TypeOK, InOrder, RetrAnswered, Ids
  <2>2. call[k] \in Calls \cup {"none"} /\ call[k] # "none" /\ call[k] # "vers"
    BY <2>1, FtpAssumption DEF FtpInv, FtpTyped, TypeOK, InOrder, Asking, Ids
  <2> QED
    BY <2>1, <2>2, FtpAssumption
<1>2. /\ ~mixed' /\ cmds = <<>> /\ lock' = None
      /\ \A i \in Ids : wait[i] \in {"none", "done"}
      /\ Head(replies).code # 150 => replies' = <<>> /\ sending = None
      /\ Head(replies).code = 150 =>
            \/ sending = k /\ replies' = <<>>
            \/ /\ sending = None
               /\ \E code \in {226, 426} : replies' = <<Reply(code, k, "wait")>>
  BY <1>1, ChatInTurn
<1>3. UNCHANGED <<k, call, cmds, sending, channel>>
  BY DEF RetrAnswered, server
<1>4. call[k] # "readme"
  BY <1>1, <1>3 DEF EachWaits, NotWaitedFor
<1>5. CASE Head(replies).code = 150
  <2>1. pc' = "wait" /\ wait' = [wait EXCEPT ![k] = "ready"] /\ result' = result
    BY <1>4, <1>5 DEF RetrAnswered
  <2>2. wait'[k] = "ready" /\ \A i \in Ids : i # k => wait'[i] = wait[i]
    BY <1>1, <2>1 DEF FtpInv, FtpTyped, TypeOK
  <2>3. Transferring(<<>>)'
    BY <1>2, <1>3, <1>5, ShortQueues DEF Transferring
  <2>4. Exchange'
    BY <1>3, <2>1, <2>2, <2>3 DEF Exchange
  <2>5. lock' # Command /\ \A i \in Ids : lock' = i <=> wait'[i] = "reading"
    BY <1>2, <2>2, LockFree
  <2> QED
    BY <1>2, <1>3, <2>1, <2>2, <2>4, <2>5 DEF TurnByTurn
<1>6. CASE Head(replies).code # 150
  <2>1. /\ wait' = wait
        /\ \/ call[k] = "file" /\ pc' = "wait"
           \/ call[k] = "list" /\ pc' = "idle" /\ result' = [result EXCEPT ![k] = "false"]
    BY <1>1, <1>4, <1>6 DEF RetrAnswered, Return
  <2>2. wait[k] = "none"
    BY <1>1 DEF FtpInv, InOrder, Asking
  <2>3. pc' = "idle" => ChannelLeft'
    BY <1>1, <1>3, <2>1, <2>2 DEF FtpInv, FtpTyped, TypeOK, ChannelLeft, NotBegun
  <2>4. Exchange'
    BY <1>2, <1>3, <1>6, <2>1, <2>2 DEF Exchange, Rested
  <2>5. lock' # Command /\ \A i \in Ids : lock' = i <=> wait'[i] = "reading"
    BY <1>2, <2>1, LockFree
  <2> QED
    BY <1>2, <1>3, <2>1, <2>2, <2>3, <2>4, <2>5 DEF TurnByTurn
<1> QED
  BY <1>5, <1>6

LEMMA SelfTurn == ASSUME FtpInv, TurnByTurn, ReadInCommandThread PROVE TurnByTurn'
<1>1. /\ pc = "self" /\ pc' = "retr" /\ k' = k /\ Send("RETR")
      /\ UNCHANGED <<call, channel, wait, lock, replies, sending, result, mixed>>
  BY DEF ReadInCommandThread, server
<1>2. Rested /\ ~mixed /\ lock # Command
  BY <1>1 DEF TurnByTurn, Exchange
<1>3. cmds' = <<[cmd |-> "RETR", id |-> k']>>
  BY <1>1, <1>2, ShortQueues DEF Send, Rested
<1>4. Exchange'
  BY <1>1, <1>2, <1>3 DEF Exchange, Asked, Rested
<1> QED
  BY <1>1, <1>2, <1>4 DEF TurnByTurn

LEMMA ReturnTurn == ASSUME FtpInv, TurnByTurn, EachWaits', SemaphoreAcquired PROVE TurnByTurn'
<1>1. /\ pc = "wait" /\ pc' = "idle" /\ k \in Ids /\ wait[k] = "done"
      /\ UNCHANGED <<k, call, channel, wait, lock, cmds, replies, sending, mixed>>
  BY FtpAssumption DEF FtpInv, FtpTyped, TypeOK, InOrder, SemaphoreAcquired, Return, server, Ids
<1>2. ChannelLeft => ChannelLeft'
  BY <1>1, WaitsReturned DEF SemaphoreAcquired, Return
<1>3. Rested /\ (ChannelLeft \/ channel = None) /\ lock # Command
  BY <1>1 DEF TurnByTurn, Exchange
<1>4. Exchange'
  BY <1>1, <1>3 DEF Exchange, Rested
<1> QED
  BY <1>1, <1>2, <1>3, <1>4 DEF TurnByTurn

LEMMA InterruptTurn == ASSUME FtpInv, TurnByTurn, EachWaits', Interrupted PROVE TurnByTurn'
<1>1. UNCHANGED <<k, call, channel, wait, cmds, replies, sending, mixed>>
  BY DEF Interrupted, threads, server
<1>2. pc = "retr" /\ pc' = "network_error" /\ lock' = None /\ result' = result
  BY WaitsReturned DEF Interrupted, Return, threads
<1>3. \A i \in Ids : wait[i] \in {"none", "done"}
  BY <1>2 DEF TurnByTurn
<1>4. lock' # Command /\ \A i \in Ids : lock' = i <=> wait'[i] = "reading"
  BY <1>1, <1>2, <1>3, LockFree
<1> QED
  BY <1>1, <1>2, <1>3, <1>4 DEF TurnByTurn, Exchange

LEMMA EnterTurn == ASSUME FtpInv, TurnByTurn, ChatEnters PROVE TurnByTurn'
<1>1. /\ pc \in {"port", "retr", "vers"} /\ lock' = Command
      /\ UNCHANGED <<pc, k, call, result, channel, wait, cmds, replies, sending, mixed>>
  BY DEF ChatEnters, client, threads, server
<1>2. Command \notin Ids /\ \A i \in Ids : wait[i] # "reading"
  BY <1>1, FtpAssumption DEF TurnByTurn, Command, Ids
<1>3. Exchange'
  BY <1>1 DEF TurnByTurn, Exchange, Rested, Asked, Transferring
<1> QED
  BY <1>1, <1>2, <1>3 DEF TurnByTurn, ChannelLeft, NotBegun

LEMMA CompletionTurn == ASSUME FtpInv, TurnByTurn, NEW i \in Ids, WaitThread(i) PROVE TurnByTurn'
<1>1. /\ wait[i] \in {"ready", "reading", "ok", "fail"}
      /\ UNCHANGED <<pc, k, call, result, cmds, sending>>
  BY DEF WaitThread, CompleteEnters, CompleteAnswered, Completed, client, server
<1>2. i = k /\ pc = "wait" /\ k \in Ids
  BY <1>1, OneWaits
<1>3. \A j \in Ids : j # k => wait'[j] = wait[j] /\ wait[j] \in {"none", "done"}
  BY <1>2 DEF FtpInv, FtpTyped, TypeOK, TurnByTurn, WaitThread, CompleteEnters, CompleteAnswered, Completed
<1>4. ChannelLeft' <=> ChannelLeft
  <2>1. result[k] = "none"
    BY <1>2 DEF FtpInv, InOrder
  <2>2. \A j \in Ids : NotBegun(j)' <=> NotBegun(j)
    BY <1>1, <1>3, <2>1 DEF NotBegun
  <2> QED
    BY <2>2 DEF ChannelLeft
<1>5. CASE CompleteEnters(i)
  <2>1. wait[k] = "ready" /\ wait'[k] = "reading" /\ lock' = k /\ UNCHANGED <<channel, replies, mixed>>
    BY <1>2, <1>5 DEF FtpInv, FtpTyped, TypeOK, CompleteEnters, client
  <2>2. Transferring(<<>>)'
    BY <1>1, <1>2, <2>1 DEF TurnByTurn, Exchange, Transferring
  <2>3. Exchange'
    BY <1>1, <1>2, <2>1, <2>2 DEF Exchange
  <2>4. lock' # Command
    BY <1>2, <2>1, FtpAssumption DEF Ids, Command
  <2> QED
    BY <1>1, <1>2, <1>3, <1>4, <2>1, <2>3, <2>4 DEF TurnByTurn
<1>6. CASE CompleteAnswered(i)
  <2>1. /\ wait[k] = "reading" /\ wait'[k] \in {"ok", "fail"} /\ channel' = channel
        /\ TakeReply(k, "wait")
    BY <1>2, <1>6 DEF FtpInv, FtpTyped, TypeOK, CompleteAnswered, client
  <2>2. /\ replies # <<>> /\ replies' = Tail(replies) /\ lock' = None
        /\ Head(replies).id = k /\ Head(replies).to = "wait" => (mixed' <=> mixed)
    BY <2>1 DEF TakeReply
  <2>3. /\ cmds = <<>> /\ sending = None /\ ~mixed
        /\ \E code \in {226, 426} : replies = <<Reply(code, k, "wait")>>
    BY <1>2, <2>1, <2>2, ShortQueues DEF TurnByTurn, Exchange, Transferring
  <2>4. ~mixed' /\ replies' = <<>>
    BY <2>2, <2>3, ShortQueues, ReplyFields
  <2>5. Exchange'
    BY <1>1, <1>2, <2>1, <2>3, <2>4 DEF Exchange, Rested
  <2>6. lock' # Command /\ \A j \in Ids : lock' = j <=> wait'[j] = "reading"
    BY <1>3, <2>1, <2>2, LockFree
  <2> QED
    BY <1>1, <1>2, <1>3, <1>4, <2>1, <2>4, <2>5, <2>6 DEF TurnByTurn
<1>7. CASE Completed(i)
  <2>1. /\ wait[k] \in {"ok", "fail"} /\ wait'[k] = "done" /\ channel' = None
        /\ UNCHANGED <<lock, replies, mixed>>
    BY <1>2, <1>7 DEF FtpInv, FtpTyped, TypeOK, Completed, CloseDataChannel
  <2>2. Rested /\ ~mixed /\ lock # Command
    BY <1>2, <2>1 DEF TurnByTurn, Exchange
  <2>3. Exchange'
    BY <1>1, <1>2, <2>1, <2>2 DEF Exchange, Rested
  <2>4. \A j \in Ids : lock' = j <=> wait'[j] = "reading"
    BY <1>2, <1>3, <2>1 DEF TurnByTurn
  <2> QED
    BY <1>1, <1>2, <1>3, <2>1, <2>2, <2>3, <2>4 DEF TurnByTurn
<1> QED
  BY <1>5, <1>6, <1>7 DEF WaitThread

LEMMA ServerTurn == ASSUME FtpInv, TurnByTurn, Server PROVE TurnByTurn'
<1>1. UNCHANGED <<pc, k, call, result, channel, wait, lock, mixed>>
  BY DEF Server, ServePort, ServeVers, SessionTimesOut, ServeTransfer, FinishTransfer, client, threads
<1>2. Exchange /\ ~mixed
  BY DEF TurnByTurn
<1>3. ASSUME NEW c, NEW code, Asked(c, code), cmds # <<>>
      PROVE  /\ Head(cmds).cmd = c /\ Head(cmds).id = k /\ Tail(cmds) = <<>> /\ replies = <<>>
             /\ sending = None
  <2>1. cmds = <<[cmd |-> c, id |-> k]>> /\ replies = <<>> /\ sending = None
    BY <1>3 DEF Asked
  <2>2. Head(cmds) = [cmd |-> c, id |-> k] /\ Tail(cmds) = <<>>
    BY <2>1, ShortQueues
  <2> QED
    BY <2>1, <2>2
<1>4. ASSUME Server, cmds # <<>>, sending = None, pc \notin {"network_error", "over", "died"}
      PROVE  \/ pc = "port" /\ \E code \in {200, 421, 500, 550} : Asked("PORT", code)
             \/ pc = "vers" /\ \E code \in {216, 421, 550} : Asked("VERS", code)
             \/ pc = "retr" /\ Asked("RETR", 425)
  BY <1>2, <1>4 DEF FtpInv, FtpTyped, TypeOK, Exchange, Rested, Transferring, Asked
<1>5. CASE ServePort \/ ServeVers \/ SessionTimesOut
  <2>1. /\ sending' = sending /\ cmds # <<>> /\ sending = None /\ cmds' = Tail(cmds)
        /\ \/ Head(cmds).cmd = "PORT" /\ \E code \in {200, 421, 500, 550} : Answer(code, "chat")
           \/ Head(cmds).cmd = "VERS" /\ \E code \in {216, 421, 550} : Answer(code, "chat")
    BY <1>5 DEF ServePort, ServeVers, SessionTimesOut, Serve, server
  <2>2. ASSUME pc \in {"network_error", "over", "died"} PROVE Exchange'
    BY <1>1, <2>2 DEF Exchange
  <2>3. ASSUME pc \notin {"network_error", "over", "died"} PROVE Exchange'
    <3>1. PICK c, code : /\ Asked(c, code)
                         /\ \/ pc = "port" /\ c = "PORT"
                            \/ pc = "vers" /\ c = "VERS"
                            \/ pc = "retr" /\ c = "RETR"
      <4>1. Server
        BY <1>5 DEF Server
      <4> QED
        BY <1>4, <2>1, <2>3, <4>1
    <3>2. Head(cmds).cmd = c /\ Head(cmds).id = k /\ Tail(cmds) = <<>> /\ replies = <<>>
      BY <1>3, <2>1, <3>1
    <3>3. CASE pc = "port"
      <4>1. \E d \in {200, 421, 500, 550} : Answer(d, "chat")
        BY <2>1, <3>1, <3>2, <3>3
      <4>2. PICK d \in {200, 421, 500, 550} : replies' = <<Reply(d, k, "chat")>>
        BY <3>2, <4>1, ShortQueues DEF Answer
      <4> QED
        BY <1>1, <2>1, <3>2, <3>3, <4>2 DEF Exchange, Asked
    <3>4. CASE pc = "vers"
      <4>1. \E d \in {216, 421, 550} : Answer(d, "chat")
        BY <2>1, <3>1, <3>2, <3>4
      <4>2. PICK d \in {216, 421, 550} : replies' = <<Reply(d, k, "chat")>>
        BY <3>2, <4>1, ShortQueues DEF Answer
      <4> QED
        BY <1>1, <2>1, <3>2, <3>4, <4>2 DEF Exchange, Asked
    <3> QED
      BY <2>1, <3>1, <3>2, <3>3, <3>4
  <2>4. Exchange'
    BY <2>2, <2>3
  <2> QED
    BY <1>1, <1>2, <2>4 DEF TurnByTurn, ChannelLeft, NotBegun
<1>6. CASE ServeTransfer
  <2>1. ASSUME pc \in {"network_error", "over", "died"} PROVE Exchange'
    BY <1>1, <2>1 DEF Exchange
  <2>2. ASSUME pc \notin {"network_error", "over", "died"} PROVE Exchange'
    <3>1. pc = "retr" /\ cmds' = <<>> /\ replies = <<>> /\ Head(cmds).id = k /\ sending = None
      BY <1>3, <1>4, <1>6, <2>2 DEF ServeTransfer, Serve
    <3>2. \/ \E code \in {425, 550} : replies' = <<Reply(code, k, "chat")>> /\ sending' = None
          \/ replies' = <<Reply(150, k, "chat")>> /\ sending' = k
      BY <1>6, <3>1, ShortQueues DEF ServeTransfer, Answer
    <3> QED
      BY <1>1, <3>1, <3>2 DEF Exchange, Asked, Transferring
  <2>3. Exchange'
    BY <2>1, <2>2
  <2> QED
    BY <1>1, <1>2, <2>3 DEF TurnByTurn, ChannelLeft, NotBegun
<1>7. CASE FinishTransfer
  <2>1. sending # None /\ sending' = None /\ cmds' = cmds
        /\ \E code \in {226, 426} : replies' = Append(replies, Reply(code, sending, "wait"))
    BY <1>7 DEF FinishTransfer
  <2>2. pc \notin {"network_error", "over", "died"} =>
            \/ pc = "retr" /\ cmds = <<>> /\ sending = k /\ replies = <<Reply(150, k, "chat")>>
            \/ /\ pc = "wait" /\ wait[k] \in {"ready", "reading"}
               /\ cmds = <<>> /\ sending = k /\ replies = <<>>
    BY <1>2, <2>1 DEF FtpInv, FtpTyped, TypeOK, Exchange, Rested, Transferring, Asked
  <2>3. CASE pc \in {"network_error", "over", "died"}
    BY <1>1, <1>2, <2>3 DEF TurnByTurn, Exchange, ChannelLeft, NotBegun
  <2>4. CASE pc = "retr"
    <3> DEFINE first == <<Reply(150, k, "chat")>>
    <3>1. /\ cmds' = <<>> /\ sending' = None /\ k' = k
          /\ \E code \in {226, 426} : replies' = Append(first, Reply(code, k, "wait"))
      BY <1>1, <2>1, <2>2, <2>4
    <3>2. first' = first
      BY <1>1 DEF Reply
    <3> HIDE DEF first
    <3>3. Transferring(first)'
      BY <3>1, <3>2 DEF Transferring, Reply
    <3>4. Exchange'
      BY <1>1, <2>4, <3>3 DEF Exchange, first
    <3> QED
      BY <1>1, <1>2, <2>4, <3>4 DEF TurnByTurn, ChannelLeft, NotBegun
  <2>5. CASE pc = "wait"
    <3>1. Transferring(<<>>)'
      BY <1>1, <2>1, <2>2, <2>5 DEF Transferring
    <3> QED
      BY <1>1, <1>2, <2>2, <2>5, <3>1 DEF TurnByTurn, Exchange, ChannelLeft, NotBegun
  <2> QED
    BY <2>2, <2>3, <2>4, <2>5
<1> QED
  BY <1>5, <1>6, <1>7 DEF Server

LEMMA OpenTurn ==
    ASSUME FtpInv, TurnByTurn, NEW kind \in Calls, OpenDataChannel(kind)
    PROVE  TurnByTurn'
<1>1. /\ pc = "idle" /\ k' \in Ids /\ result[k'] = "none" /\ wait[k'] = "none"
      /\ \A i \in Ids : i # k' => call'[i] = call[i]
      /\ UNCHANGED <<wait, lock, replies, server, result, mixed>>
  BY Opens
<1>2. Rested /\ ~mixed /\ lock # Command /\ (ChannelLeft \/ channel = None)
      /\ \A i \in Ids : wait[i] \in {"none", "done"}
  BY <1>1 DEF TurnByTurn, Exchange
<1>3. ASSUME NEW c, Send(c) PROVE cmds' = <<[cmd |-> c, id |-> k']>>
  BY <1>2, <1>3, ShortQueues DEF Send, Rested
<1>4. \/ kind = "vers" /\ pc' = "vers" /\ Send("VERS") /\ channel' = channel
      \/ pc' = "port" /\ Send("PORT")
      \/ pc' = "self" /\ cmds' = cmds
      \/ pc' = "retr" /\ Send("RETR")
  BY DEF OpenDataChannel
<1>5. Exchange'
  BY <1>1, <1>2, <1>3, <1>4 DEF Exchange, Rested, Asked, server
<1>6. ChannelLeft => ChannelLeft'
  BY <1>1 DEF ChannelLeft, NotBegun
<1> QED
  BY <1>1, <1>2, <1>4, <1>5, <1>6 DEF TurnByTurn

LEMMA WaitsOpened ==
    ASSUME FtpInv, NEW kind \in Calls, OpenDataChannel(kind), EachWaits' PROVE EachWaits
<1>1. k' \in Ids /\ result' = result /\ \A i \in Ids : i # k' => call'[i] = call[i]
  BY Opens
<1>2. call[k'] = "none"
  BY FtpAssumption DEF FtpInv, FtpTyped, TypeOK, InOrder, OpenDataChannel, Ids
<1> QED
  BY <1>1, <1>2 DEF EachWaits, NotWaitedFor

LEMMA ApartInit == Init => Apart
<1> SUFFICES ASSUME Init PROVE TurnByTurn
  BY DEF Apart
<1>1. pc = "idle" /\ Rested /\ ~mixed /\ lock = None /\ channel = None
  BY DEF Init, Rested
<1>2. \A i \in Ids : wait[i] = "none"
  BY DEF Init
<1>3. None # Command /\ None \notin Ids
  BY FtpAssumption DEF None, Command, Ids
<1> QED
  BY <1>1, <1>2, <1>3 DEF TurnByTurn, Exchange

LEMMA ApartNext == ASSUME FtpInv, Apart, [Next]_vars PROVE Apart'
<1> SUFFICES ASSUME EachWaits' PROVE TurnByTurn'
  BY DEF Apart
<1> USE DEF Apart
<1>1. ASSUME NEW kind \in Calls, OpenDataChannel(kind) PROVE TurnByTurn'
  BY <1>1, WaitsOpened, OpenTurn
<1>2. CASE PortAnswered
  <2>1. pc = "port" /\ call' = call
    BY <1>2 DEF PortAnswered
  <2>2. result' = result \/ result' = [result EXCEPT ![k] = "false"]
    BY <1>2 DEF PortAnswered, Granted, FallBack, SessionOver, Refusal, Return
  <2>3. EachWaits
    BY <2>1, <2>2, WaitsKept, WaitsReturned
  <2> QED
    BY <1>2, <2>3, PortTurn
<1>3. CASE RetrAnswered
  <2>1. pc = "retr" /\ call' = call
    BY <1>3 DEF RetrAnswered
  <2>2. \/ result' = result \/ result' = [result EXCEPT ![k] = "false"]
        \/ result' = [result EXCEPT ![k] = "true"]
    BY <1>3 DEF RetrAnswered, Return
  <2>3. EachWaits
    BY <2>1, <2>2, WaitsKept, WaitsReturned
  <2> QED
    BY <1>3, <2>3, RetrTurn
<1>4. CASE VersAnswered
  <2>1. pc = "vers" /\ call' = call
    BY <1>4 DEF VersAnswered
  <2>2. result' = result \/ \E v : result' = [result EXCEPT ![k] = v]
    BY <1>4 DEF VersAnswered, Return
  <2>3. EachWaits
    BY <2>1, <2>2, WaitsKept, WaitsReturned
  <2> QED
    BY <1>4, <2>3, VersTurn
<1>5. CASE SemaphoreAcquired
  <2>1. pc = "wait" /\ call' = call
    BY <1>5 DEF SemaphoreAcquired
  <2>2. \E v : result' = [result EXCEPT ![k] = v]
    BY <1>5 DEF SemaphoreAcquired, Return
  <2>3. EachWaits
    BY <2>1, <2>2, WaitsReturned
  <2> QED
    BY <1>5, <2>3, ReturnTurn
<1>6. CASE Interrupted
  <2>1. pc \in {"retr", "wait"} /\ call' = call
    BY <1>6 DEF Interrupted
  <2>2. result' = result \/ result' = [result EXCEPT ![k] = "interrupted"]
    BY <1>6 DEF Interrupted, Return
  <2>3. EachWaits
    BY <2>1, <2>2, WaitsKept, WaitsReturned
  <2> QED
    BY <1>6, <2>3, InterruptTurn
<1>7. CASE ReadInCommandThread \/ ChatEnters
  <2>1. UNCHANGED <<call, result>>
    BY <1>7 DEF ReadInCommandThread, ChatEnters, client
  <2> QED
    BY <1>7, <2>1, WaitsKept, SelfTurn, EnterTurn
<1>8. ASSUME NEW i \in Ids, DataThread(i) \/ AcceptTimesOut(i) PROVE TurnByTurn'
  <2>1. /\ UNCHANGED <<pc, k, call, result, wait, lock, cmds, replies, sending, mixed>>
        /\ channel' \in {channel, None}
    BY <1>8 DEF DataThread, StrayTimeout, threads, Connected, AcceptClosed, TimeoutHandled, ReadEnds, ReadBreaks,
       AcceptTimesOut, CloseDataChannel, client, server
  <2> QED
    BY <2>1, WaitsKept, TurnKept
<1>9. ASSUME NEW i \in Ids, WaitThread(i) PROVE TurnByTurn'
  <2>1. UNCHANGED <<call, result>>
    BY <1>9 DEF WaitThread, CompleteEnters, CompleteAnswered, Completed, client
  <2> QED
    BY <1>9, <2>1, WaitsKept, CompletionTurn
<1>10. CASE Server
  <2>1. UNCHANGED <<call, result>>
    BY <1>10 DEF Server, ServePort, ServeVers, SessionTimesOut, ServeTransfer, FinishTransfer, client
  <2> QED
    BY <1>10, <2>1, WaitsKept, ServerTurn
<1>11. CASE UNCHANGED vars
  <2>1. /\ UNCHANGED <<pc, k, call, result, wait, lock, cmds, replies, sending, mixed>>
        /\ channel' \in {channel, None}
    BY <1>11 DEF vars
  <2> QED
    BY <2>1, WaitsKept, TurnKept
<1> QED
  BY <1>1, <1>2, <1>3, <1>4, <1>5, <1>6, <1>7, <1>8, <1>9, <1>10, <1>11 DEF Next, CommandThread

LEMMA ApartKeepsApart == FtpInv /\ Apart => CallsKeepApart
<1> SUFFICES ASSUME FtpInv, Apart PROVE CallsKeepApart
  OBVIOUS
<1>1. OwnReplies
  BY DEF OwnReplies, Apart, EachWaits, TurnByTurn
<1>2. ASSUME pc = "idle", EachWaits
      PROVE  /\ cmds = <<>> /\ replies = <<>> /\ lock = None /\ sending = None
             /\ channel = None \/ ChannelLeft
  <2>1. TurnByTurn
    BY <1>2 DEF Apart
  <2>2. Rested /\ (channel = None \/ ChannelLeft)
    BY <1>2, <2>1 DEF TurnByTurn, Exchange
  <2>3. lock \notin Ids /\ lock # Command
    BY <1>2, <2>1 DEF TurnByTurn
  <2> QED
    BY <2>2, <2>3 DEF FtpInv, FtpTyped, TypeOK, Rested
<1> QED
  BY <1>1, <1>2 DEF CallsKeepApart, NothingLeft, EachWaits, ChannelLeft

\* While every call waits for its transfer, no thread takes a reply that is meant for
\* another and a call that returns leaves a quiet connection behind, for any number of
\* calls and whatever fails (FtpClient.chat, WaitForComplete.run, downloadFile).
THEOREM CallsAreApart == Spec => []CallsKeepApart
<1>1. Init => FtpInv /\ Apart
  BY FtpInvInit, ApartInit
<1>2. FtpInv /\ Apart /\ [Next]_vars => (FtpInv /\ Apart)'
  BY FtpInvNext, ApartNext
<1>3. FtpInv /\ Apart => CallsKeepApart
  BY ApartKeepsApart
<1> QED
  BY <1>1, <1>2, <1>3, PTL DEF Spec
============================================================================
