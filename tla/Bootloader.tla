----------------------------- MODULE Bootloader -----------------------------
(***************************************************************************)
(* The program a player starts: it looks whether its copy of the installer *)
(* is the one on the web server, downloads it and its artifacts if not,    *)
(* and runs it.  The main thread waits for the event thread to show the    *)
(* console first.  Downloads break off, the program is killed, and new     *)
(* installers are put online at any moment.                                *)
(*                                                                         *)
(* What survives is the install directory, which the player keeps.         *)
(***************************************************************************)
EXTENDS Integers

CONSTANTS
    Installers,    \* bound: releases of the installer
    Artifacts      \* the files the list of artifacts names

Jar == "DUInstaller.jar"
Missing == 0       \* content of a file that is not there
Broken == -1       \* content of a file opened for writing and not completed

VARIABLES
    web,           \* the release of each part on the web server
    have,          \* the install directory: the release each file is of
    place,         \* where the thread that boots is
    edt,           \* the first task of the event thread: "none", "queued", "done"
    opened,        \* the file being written and the release being received
    wanted,        \* artifacts still to be downloaded
    launched,      \* history: web when the program was started
    torn           \* history: the artifacts since the jar was replaced: all of them
                   \* ("no"), not yet all ("open"), or something ended early ("short")

bvars == <<web, have, place, edt, opened, wanted, launched, torn>>

BInit ==
    /\ web = [part \in {"jar", "hash", "list"} |-> 1] /\ launched = web
    /\ have = [f \in {Jar} \cup Artifacts |-> Missing]
    /\ place = "off" /\ edt = "none" /\ opened = <<Jar, Missing>> /\ wanted = {}
    /\ torn = "no"

Go(from, to) == place = from /\ place' = to

\* boot returns: its local variables are gone.
Forget == opened' = <<Jar, Missing>> /\ wanted' = {}

\* The maintainer puts the parts of the next installer online, in any order.
Upload(part) ==
    /\ web[part] < Installers /\ \A other \in DOMAIN web : web[part] <= web[other]
    /\ web' = [web EXCEPT ![part] = @ + 1]
    /\ UNCHANGED <<have, place, edt, opened, wanted, launched, torn>>

-----------------------------------------------------------------------------
(* main                                                                    *)

Launch ==
    /\ Go("off", "main") /\ edt' = "queued" /\ launched' = web
    /\ UNCHANGED <<web, have, opened, wanted, torn>>

\* The event thread: the look and feel, and notifyAll() to whoever waits already.
EdtNotifies ==
    /\ edt = "queued" /\ edt' = "done"
    /\ place' = IF place = "wait" THEN "check" ELSE place
    /\ UNCHANGED <<web, have, opened, wanted, launched, torn>>

MainWaits == Go("main", "wait") /\ UNCHANGED <<web, have, edt, opened, wanted, launched, torn>>

\* Object.wait() may return without a reason.
SpuriousWakeup == Go("wait", "check") /\ UNCHANGED <<web, have, edt, opened, wanted, launched, torn>>

CheckInstall ==
    /\ Go("check", IF have[Jar] = Missing THEN "dialog" ELSE "boot")
    /\ UNCHANGED <<web, have, edt, opened, wanted, launched, torn>>

\* "Proceed" in InitialConfig starts a thread that boots.
Proceed == Go("dialog", "boot") /\ UNCHANGED <<web, have, edt, opened, wanted, launched, torn>>

-----------------------------------------------------------------------------
(* boot                                                                    *)

\* Mutant: without an answer the installer that is there will do.
NeedUpdateOffline == {FALSE, web["hash"] # have[Jar]}
\* The answers needUpdate can give: without one from the server, TRUE.
NeedUpdate == {TRUE, web["hash"] # have[Jar]}

Boot ==
    /\ place = "boot"
    /\ \E update \in IF have[Jar] = Missing THEN {TRUE} ELSE NeedUpdate :
           place' = IF update THEN "connect" ELSE "start"
    /\ UNCHANGED <<web, have, edt, opened, wanted, launched, torn>>

\* FileOutputStream empties the file before the first byte is there.
Open(f, release) ==
    have' = [have EXCEPT ![f] = Broken] /\ opened' = <<f, release>>

ConnectInstaller ==
    /\ Go("connect", "receive") /\ Open(Jar, web["jar"]) /\ torn' = "open"
    /\ UNCHANGED <<web, edt, wanted, launched>>

\* The last byte, of the installer or of an artifact.
Received ==
    /\ Go("receive", IF opened[1] = Jar THEN "list" ELSE "artifacts")
    /\ have' = [have EXCEPT ![opened[1]] = opened[2]]
    /\ UNCHANGED <<web, edt, opened, wanted, launched, torn>>

\* The data end before the last byte: read() reports the end, and nobody compares
\* the length.
EndsEarly ==
    /\ Go("receive", IF opened[1] = Jar THEN "list" ELSE "artifacts")
    /\ torn' = IF opened[1] = Jar THEN torn ELSE "short"
    /\ UNCHANGED <<web, have, edt, opened, wanted, launched>>

\* The list is read with a Scanner, which hides exceptions: a list that breaks off
\* is a shorter list.
GetArtifacts ==
    /\ Go("list", "artifacts") /\ wanted' \in SUBSET Artifacts
    /\ torn' = IF wanted' = Artifacts THEN torn ELSE "short"
    /\ UNCHANGED <<web, have, edt, opened, launched>>

ConnectArtifact(a) ==
    /\ a \in wanted /\ wanted' = wanted \ {a}
    /\ Go("artifacts", "receive") /\ Open(a, web["list"])
    /\ UNCHANGED <<web, edt, launched, torn>>

GotArtifacts ==
    /\ Go("artifacts", "start") /\ wanted = {} /\ Forget
    /\ torn' = IF torn = "open" THEN "no" ELSE torn
    /\ UNCHANGED <<web, have, edt, launched>>

\* return false: a bad proxy, another answer than 200, a timeout, an exception while
\* a file is read or written.  The dialog is shown (again).
BootFails ==
    /\ place \in {"boot", "connect", "receive", "list", "artifacts"}
    /\ place = "artifacts" => wanted # {}
    /\ place' = "dialog" /\ Forget
    /\ UNCHANGED <<web, have, edt, launched, torn>>

\* The class is loaded from the jar, or an exception logged in the console.
StartInstaller ==
    /\ Go("start", IF have[Jar] > 0 THEN "running" ELSE "exception")
    /\ UNCHANGED <<web, have, edt, opened, wanted, launched, torn>>

\* The player leaves, or the process is killed.
Quit ==
    /\ place # "off" /\ place' = "off" /\ edt' = "none" /\ Forget
    /\ UNCHANGED <<web, have, launched, torn>>

BootSteps ==
    \/ MainWaits \/ CheckInstall \/ Boot \/ ConnectInstaller \/ Received \/ EndsEarly
    \/ GetArtifacts
    \/ \E a \in Artifacts : ConnectArtifact(a)
    \/ GotArtifacts \/ BootFails \/ StartInstaller

BNext ==
    \/ Launch \/ EdtNotifies \/ SpuriousWakeup \/ Proceed \/ BootSteps \/ Quit
    \/ \E part \in DOMAIN web : Upload(part)

-----------------------------------------------------------------------------
\* The event thread was faster: its notifyAll() found nobody, and main waits.
Missed == place = "wait" /\ edt = "done"

\* The installer that runs is a whole one and not older than what was online when
\* the program was started, whatever broke off or was killed before; its artifacts
\* are whole too, unless since the jar was replaced a start broke off, an artifact
\* ended early or the list of them did, which no later start notices.  And every
\* start comes to the installer, to the dialog, to its end or to the exception of a
\* jar that ended early, or misses its notifyAll() (boot, needUpdate, getArtifacts,
\* startInstaller, main).
InstallerStartsWhole ==
    /\ [](place = "running" =>
            /\ have[Jar] >= launched["hash"] \/ have[Jar] >= launched["jar"]
            /\ torn = "no" => \A a \in Artifacts : have[a] > 0)
    /\ (place = "main") ~> (place \in {"running", "dialog", "off", "exception"} \/ Missed)
=============================================================================
