-------------------------- MODULE UpdatePackProofs --------------------------
(***************************************************************************)
(* The versions that the client records only grow (UpdatePack.tla), for     *)
(* every number of releases, every history and every number of faults.      *)
(* What the instructions do to the files is left to the model checker: it   *)
(* is the result of folds over lists.                                       *)
(***************************************************************************)
EXTENDS UpdatePack, TLAPS

\* What is recorded was once the latest release, or is null; between SITE VERS and the
\* writing of "ver" the answer, if there was one, is at least as new as the file.
VersionInv ==
    /\ latest \in Nat
    /\ ver \in Nat /\ ver <= latest
    /\ version \in Nat /\ version <= latest
    /\ reg = Torn \/ (reg \in Nat /\ reg <= latest)
    /\ pc = "ver" => lost \/ ver <= version

LEMMA VersionInvInit == Init => VersionInv
  BY DEF Init, VersionInv

\* One instruction leaves the records alone and the client where it is, or stuck.
LEMMA InstructionsLeaveRecords ==
    ASSUME ProcessInstruction
    PROVE  UNCHANGED <<latest, ver, reg, version, lost>> /\ pc' \in {"apply", "failed", "hung"}
<1> DEFINE l == Head(instr)
<1>1. UNCHANGED <<latest, ver, reg, version, lost>> /\ pc = "apply"
  BY DEF ProcessInstruction
<1>2. ASSUME NEW dir, Create(dir, l)
      PROVE  pc' \in {"apply", "failed", "hung"}
  BY <1>1, <1>2 DEF Create, DownloadFile, MakeDir, Proceed, Fail
<1>3. CASE Delete(l)
  BY <1>1, <1>3 DEF Delete, Proceed
<1>4. CASE Add(l)
  BY <1>1, <1>2, <1>4 DEF Add
<1>5. CASE Replace(l)
  BY <1>1, <1>2, <1>5 DEF Replace, Fail
<1> QED
  BY <1>1, <1>3, <1>4, <1>5 DEF ProcessInstruction

LEMMA VersionInvNext ==
    ASSUME VersionInv, [Next]_vars
    PROVE  VersionInv' /\ (lost' \/ (ver' >= ver /\ (pc # "off" => version' >= version)))
<1> USE DEF VersionInv, files, Goto, Torn, Null
<1>1. CASE Publish
  BY <1>1 DEF Publish
<1>2. CASE Initialize
  BY <1>2 DEF Initialize
<1>3. CASE CheckUpdate
  BY <1>3 DEF CheckUpdate
<1>4. CASE FetchInstructions
  BY <1>4 DEF FetchInstructions
<1>5. CASE Cwd
  BY <1>5 DEF Cwd
<1>6. CASE StepFails
  BY <1>6 DEF StepFails
<1>7. CASE TimeoutOnCwd
  BY <1>7 DEF TimeoutOnCwd
<1>8. CASE ProcessInstruction
  BY <1>8, InstructionsLeaveRecords
<1>9. CASE PostDownload
  BY <1>9 DEF PostDownload
<1>10. CASE GetLatestVersion
  BY <1>10 DEF GetLatestVersion
<1>11. CASE WriteVer
  BY <1>11 DEF WriteVer
<1>12. CASE TruncateModpacks
  BY <1>12 DEF TruncateModpacks
<1>13. CASE WriteModpacks
  BY <1>13 DEF WriteModpacks
<1>14. CASE Crash
  BY <1>14 DEF Crash
<1>15. CASE UNCHANGED vars
  BY <1>15 DEF vars
<1> QED
  BY <1>1, <1>2, <1>3, <1>4, <1>5, <1>6, <1>7, <1>8, <1>9, <1>10, <1>11, <1>12, <1>13, <1>14,
     <1>15 DEF Next, Client

\* The recorded versions never go back and are never lost, however often the update
\* fails, the client dies and the maintainer publishes in between, as long as the
\* SITE VERS that ends an update is answered with a version
\* (InstallPanel.updatePack, InstallerWindow.writeFiles).
THEOREM RecordedVersionsGrow == Spec => VersionsGrow
<1>1. VersionInv /\ [Next]_vars => VersionInv'
  BY VersionInvNext
<1>2. VersionInv /\ [Next]_vars =>
        [lost' \/ (ver' >= ver /\ (pc # "off" => version' >= version))]_vars
  BY VersionInvNext
<1> QED
  BY VersionInvInit, <1>1, <1>2, PTL DEF Spec, VersionsGrow
=============================================================================
