---------------------------- MODULE Credentials ----------------------------
(***************************************************************************)
(* vsf_secutil_change_credentials (secutil.c), call by call: how a root     *)
(* process takes the user, the groups, the jail, the limits and the         *)
(* capabilities its caller asks for.  The kernel's rules decide which       *)
(* order of the calls works: each of them gives up something a later one    *)
(* may still need.                                                          *)
(***************************************************************************)
EXTENDS FiniteSets

CONSTANT
    Requests    \* arguments of the four callers: [user, dir, ext, caps, options]

Privileges == {"SETUID", "SETGID", "SYS_CHROOT", "CHOWN", "NET_BIND_SERVICE"}
Options == {"chroot", "use_groups", "no_procs", "no_fds", "change_euid"}
\* What can be wrong with the host: no such user, no such directories, a home
\* directory on NFS that root may not enter, a user with too many processes, a
\* root directory the user can write to.
Faults == {"no_user", "no_dir", "no_ext", "root_squashed", "too_many_processes", "writable_root"}

\* Only common_do_login asks for the change of the effective ids, and it asks for no
\* capabilities.  Nobody asks to become root: that would give nothing up.
ASSUME RequestsFromTheCallers ==
    \A r \in Requests :
        /\ r.options \subseteq Options /\ r.caps \subseteq {"CHOWN", "NET_BIND_SERVICE"}
        /\ "change_euid" \in r.options => r.caps = {}
        /\ r.user # "root"

VARIABLES
    want,       \* the request
    sys,        \* the host: [faults, has_capabilities, as_non_root]
    proc,       \* the process as the kernel sees it
    step,       \* the next call of change_credentials; "done", "dead" or "bug"
    saved       \* saved_euid, saved_egid

cvars == <<want, sys, proc, step, saved>>

Asked(o) == o \in want.options
Home == IF want.dir = "none" THEN "home_directory" ELSE want.dir
Memberships == {want.user, "wheel"}

------------------------------------------------------------------------------
(* The kernel (Linux): which call works, and what it does to the process.    *)

Able(cap) == cap \in proc.effective

\* A change of user ids: leaving root behind drops every capability, unless
\* PR_SET_KEEPCAPS keeps the permitted ones; the effective ones follow euid.
WithUids(uid, euid, suid) ==
    LET ids == {uid, euid, suid}
        leaves == "root" \in {proc.uid, proc.euid, proc.suid} /\ "root" \notin ids
        permitted == IF leaves /\ ~proc.keep THEN {} ELSE proc.permitted
        effective == IF proc.euid = "root" /\ euid # "root" THEN {}
                     ELSE IF proc.euid # "root" /\ euid = "root" THEN permitted
                     ELSE proc.effective \cap permitted
    IN  [proc EXCEPT !.uid = uid, !.euid = euid, !.suid = suid,
                     !.permitted = permitted, !.effective = effective]

CanSetreuid(u) == Able("SETUID") \/ u \in {proc.uid, proc.euid, proc.suid}
Setreuid(u) == WithUids(proc.uid, u, IF u # proc.uid THEN u ELSE proc.suid)
CanSetregid(g) == Able("SETGID") \/ g \in {proc.gid, proc.egid, proc.sgid}
Setregid(g) == [proc EXCEPT !.egid = g, !.sgid = IF g # proc.gid THEN g ELSE @]

CanSetuid(u) == Able("SETUID") \/ u \in {proc.uid, proc.suid}
Setuid(u) == IF Able("SETUID") THEN WithUids(u, u, u) ELSE WithUids(proc.uid, u, proc.suid)
CanSetgid(g) == Able("SETGID") \/ g \in {proc.gid, proc.sgid}
Setgid(g) == IF Able("SETGID") THEN [proc EXCEPT !.gid = g, !.egid = g, !.sgid = g]
             ELSE [proc EXCEPT !.egid = g]

\* Root is refused where it is squashed.
CanEnter == ~("root_squashed" \in sys.faults /\ proc.euid = "root")

------------------------------------------------------------------------------
CInit ==
    /\ want \in Requests
    /\ \E f \in SUBSET Faults, c, n \in BOOLEAN :
         sys = [faults |-> f, has_capabilities |-> c, as_non_root |-> n /\ c]
    /\ proc = [uid |-> "root", euid |-> "root", suid |-> "root",
               gid |-> "root", egid |-> "root", sgid |-> "root", groups |-> {"root"},
               root |-> "/", cwd |-> "/", permitted |-> Privileges, effective |-> Privileges,
               keep |-> FALSE, nofile |-> FALSE, nproc |-> FALSE]
    /\ step = "user" /\ saved = [euid |-> "root", egid |-> "root"]

\* One call: it succeeds and the process goes on, or it fails and die() ends it.
Call(from, works, p, to) ==
    /\ step = from
    /\ IF works THEN proc' = p /\ step' = to ELSE step' = "dead" /\ UNCHANGED proc
    /\ UNCHANGED <<want, sys, saved>>

\* running_as_root and getpwnam
LocateUser ==
    IF proc.uid = "root"
    THEN Call("user", "no_user" \notin sys.faults, proc, "groups")
    ELSE Call("user", TRUE, proc, "bug")

\* initgroups reads /etc/group; where there is none, the user is in his own group only.
Initgroups ==
    IF proc.root = "/" /\ ~proc.nofile THEN Memberships ELSE {want.user}

\* initgroups or clear_supp_groups, before the jail
SupplementaryGroups ==
    Call("groups", Able("SETGID"),
         [proc EXCEPT !.groups = IF Asked("use_groups") THEN Initgroups ELSE {}],
         IF Asked("change_euid") THEN "setegid" ELSE "chdir")

\* The target's effective ids for chdir(): the group first, while euid is still root.
Setegid ==
    /\ step = "setegid" /\ saved' = [euid |-> proc.euid, egid |-> proc.egid]
    /\ IF CanSetregid(want.user)
       THEN proc' = Setregid(want.user) /\ step' = "seteuid"
       ELSE step' = "dead" /\ UNCHANGED proc
    /\ UNCHANGED <<want, sys>>
Seteuid == Call("seteuid", CanSetreuid(want.user), Setreuid(want.user), "chdir")

Chdir ==
    Call("chdir", "no_dir" \notin sys.faults /\ CanEnter, [proc EXCEPT !.cwd = Home],
         IF want.ext # "none" THEN "chdir_ext" ELSE IF Asked("change_euid") THEN "restore_euid" ELSE "chroot")

\* The extra directory has to be there only for a jail.
ChdirExt ==
    LET found == "no_ext" \notin sys.faults
    IN  Call("chdir_ext", found \/ ~Asked("chroot"),
             IF found THEN [proc EXCEPT !.cwd = want.ext] ELSE proc,
             IF Asked("change_euid") THEN "restore_euid" ELSE "chroot")

\* seteuid_numeric(saved_euid), setegid_numeric(saved_egid)
RestoreEuid == Call("restore_euid", CanSetreuid(saved.euid), Setreuid(saved.euid), "restore_egid")
RestoreEgid == Call("restore_egid", CanSetregid(saved.egid), Setregid(saved.egid), "chroot")

Chroot ==
    IF Asked("chroot")
    THEN Call("chroot", Able("SYS_CHROOT") /\ CanEnter, [proc EXCEPT !.root = proc.cwd], "no_fds")
    ELSE Call("chroot", TRUE, proc, "no_fds")

SetNoFds == Call("no_fds", TRUE, [proc EXCEPT !.nofile = @ \/ Asked("no_fds")], "caps")

\* Capabilities to keep: without support for them root is kept; where they last only
\* as root they are adopted at once; otherwise they must survive setuid().
HandleCapabilities ==
    Call("caps", TRUE, proc,
         IF want.caps = {} THEN "setgid"
         ELSE IF ~sys.has_capabilities THEN "done"
         ELSE IF sys.as_non_root THEN "keep" ELSE "adopt_as_root")

\* Mutant: PR_SET_KEEPCAPS is forgotten.
KeepCapabilitiesNot == Call("keep", TRUE, proc, "setgid")
KeepCapabilities == Call("keep", TRUE, [proc EXCEPT !.keep = TRUE], "setgid")

SetgidUser == Call("setgid", CanSetgid(want.user), Setgid(want.user), "setuid")

SetuidUser ==
    Call("setuid", CanSetuid(want.user) /\ "too_many_processes" \notin sys.faults, Setuid(want.user),
         IF want.caps # {} THEN "adopt" ELSE "no_procs")

\* capset: effective and permitted are the asked ones and nothing else.
AdoptCapabilities ==
    \E from \in {"adopt", "adopt_as_root"} :
        Call(from, want.caps \subseteq proc.permitted,
             [proc EXCEPT !.permitted = want.caps, !.effective = want.caps],
             IF from = "adopt" THEN "no_procs" ELSE "done")

SetNoProcs == Call("no_procs", TRUE, [proc EXCEPT !.nproc = @ \/ Asked("no_procs")], "check")

\* access("/", W_OK) with the real ids
RefuseWritableRoot ==
    Call("check", ~(Asked("chroot") /\ "writable_root" \in sys.faults), proc, "done")

CNext ==
    \/ LocateUser \/ SupplementaryGroups \/ Setegid \/ Seteuid \/ Chdir \/ ChdirExt
    \/ RestoreEuid \/ RestoreEgid \/ Chroot \/ SetNoFds \/ HandleCapabilities
    \/ KeepCapabilities \/ SetgidUser \/ SetuidUser \/ AdoptCapabilities \/ SetNoProcs
    \/ RefuseWritableRoot

CSpec == CInit /\ [][CNext]_cvars

------------------------------------------------------------------------------
(* Properties.                                                              *)

\* Root is kept as a whole, or with the asked capabilities only.
KeepsRoot == want.caps # {} /\ ~sys.has_capabilities
KeepsUserRoot == want.caps # {} /\ ~sys.as_non_root
\* The faults that stand in the way of this request.  chdir() is done with the
\* target's ids for directories on NFS; chroot() is not.
InTheWay ==
    LET jail == Asked("chroot")
    IN  {"no_user", "no_dir"}
        \cup (IF want.ext # "none" /\ jail THEN {"no_ext"} ELSE {})
        \cup (IF jail \/ ~Asked("change_euid") THEN {"root_squashed"} ELSE {})
        \cup (IF KeepsUserRoot THEN {} ELSE {"too_many_processes"}
                \cup (IF jail THEN {"writable_root"} ELSE {}))

\* change_credentials gives the process what was asked for or ends it for a reason on
\* the host: the order of its calls never gets in its own way, and a process that
\* goes on has the user's ids in all places, his groups, the jail around its working
\* directory, the limits, and the asked capabilities and no others.
CredentialsAreAsAsked ==
    /\ step # "bug"
    /\ step = "dead" => sys.faults \cap InTheWay # {}
    /\ step = "done" =>
         /\ sys.faults \cap InTheWay = {}
         /\ {proc.uid, proc.euid, proc.suid, proc.gid, proc.egid} \subseteq
              {IF KeepsUserRoot THEN "root" ELSE want.user}
         /\ ~KeepsUserRoot => proc.sgid = want.user
         /\ proc.groups = IF Asked("use_groups") THEN Memberships ELSE {}
         /\ proc.root = IF Asked("chroot") THEN proc.cwd ELSE "/"
         /\ proc.cwd = IF want.ext # "none" /\ "no_ext" \notin sys.faults THEN want.ext ELSE Home
         /\ proc.nofile = Asked("no_fds")
         /\ proc.nproc = (Asked("no_procs") /\ ~KeepsUserRoot)
         /\ ~KeepsRoot => proc.permitted = want.caps /\ proc.effective = want.caps
============================================================================
