----------------------------- MODULE OtaEngine -----------------------------
(***************************************************************************)
(* The Magneto X over-the-air update engine, ota-update.sh: one shell      *)
(* script run in three modes (update, --verify-or-restore at boot,         *)
(* --restore-last by hand) under one flock, over files that survive a      *)
(* killed process and, once they are synced, a power cut.                  *)
(*                                                                         *)
(* The file system is what the kernel shows (files, marker, lastBackup,    *)
(* installed, units, backups) and what a power cut would leave (disk).     *)
(* "dirty" names the files whose data is not written back yet: a metadata  *)
(* commit makes such a file durable with torn content.                     *)
(***************************************************************************)
EXTENDS Naturals, FiniteSets

CONSTANTS
    Path,           \* installable files, named by their payload path
    OtaPath,        \* the payload paths under ota/ (the engine itself)
    UnitPath,       \* the staged systemd unit among them
    Identity,       \* printer.cfg, magneto_device.cfg (DENYLIST_BASENAMES)
    MaxVersion,     \* bound: releases, numbered as sort -V orders them
    Payload,        \* manifest.files of each release
    FactoryFiles,   \* what the printer has before its first update
    Procs,          \* invocations of the script alive at once
    BackupsToKeep,  \* BACKUPS_TO_KEEP
    MaxBackups,     \* bound: update runs that reach the backup phase
    MaxFaults,      \* bound: failing commands and killed processes
    MaxPowerCuts,   \* bound: power cuts
    Manual          \* what the operator may do, a subset of Interventions

Versions == 1 .. MaxVersion
Absent == 0                     \* the file does not exist
Torn == MaxVersion + 1          \* its data never reached the disk
NotSaved == MaxVersion + 2      \* not part of a backup
Content == 0 .. MaxVersion + 1
NoBackup == 0                   \* the file naming a backup does not exist
Empty == MaxBackups + 1         \* it exists and is empty
BackupId == 1 .. MaxBackups
BackupRef == 0 .. MaxBackups + 1
None == "none"
Records == {"marker", "lastBackup", "installed", "units"}

\* "force": OTA_FORCE=1; "restore-last": --restore-last; "rerun": an update
\* started while the previous update or restore is still half done.
Interventions == {"force", "restore-last", "rerun"}

ASSUME OtaAssumption ==
    /\ OtaPath \subseteq Path /\ UnitPath \in OtaPath /\ Identity \subseteq Path
    /\ Path \cap Records = {}
    /\ MaxVersion \in Nat \ {0} /\ Payload \in [Versions -> SUBSET Path]
    /\ FactoryFiles \in [Path -> {Absent} \cup Versions]
    /\ None \notin Procs
    /\ BackupsToKeep \in Nat \ {0} /\ MaxBackups \in Nat
    /\ MaxFaults \in Nat /\ MaxPowerCuts \in Nat
    /\ Manual \subseteq Interventions

VARIABLES
    files,          \* content of every installable file
    marker,         \* $APPLY_MARKER: the backup it names, NoBackup or Empty
    lastBackup,     \* $LAST_BACKUP_FILE, likewise
    installed,      \* $INSTALLED_VERSION_FILE: a version, Absent or Torn
    units,          \* the unit in /etc/systemd/system: a version or Torn
    backups,        \* $BACKUP_ROOT, by the order of the time stamps
    dirty,          \* names whose data only the page cache has
    disk,           \* what a power cut would leave
    lock,           \* the process holding $LOCK_FILE, or None
    run,            \* the program counter and shell variables of each process
    status,         \* the state field of $STATUS_FILE
    verifyDue,      \* systemd has yet to start magneto-ota-verify.service
    stable,         \* history: file sets that were once completely installed
    halfRestored,   \* history: a --restore-last stopped between two files
    faults, cuts    \* faults and power cuts so far

shown == <<files, marker, lastBackup, installed, units, backups>>
fs == <<shown, dirty, disk>>
history == <<stable, halfRestored>>
vars == <<fs, lock, run, status, verifyDue, history, faults, cuts>>

NoDir == [st |-> "none", synced |-> TRUE, saved |-> [f \in Path |-> NotSaved]]
Idle == [pc |-> "idle", mode |-> "update", force |-> FALSE, ver |-> 0,
         bk |-> NoBackup, todo |-> {}]

\* The marker names a backup directory, so the boot-time verify acts on it.
Usable(ref) == ref \in BackupId

----------------------------------------------------------------------------
(* The file system (external: ext4 as the script relies on it).            *)

\* What a metadata commit makes durable while the data of d is unwritten.
Image(d, bs) ==
    [files      |-> [f \in Path |-> IF f \in d THEN Torn ELSE files[f]],
     marker     |-> IF "marker" \in d THEN Empty ELSE marker,
     lastBackup |-> IF "lastBackup" \in d THEN Empty ELSE lastBackup,
     installed  |-> IF "installed" \in d THEN Torn ELSE installed,
     units      |-> IF "units" \in d THEN Torn ELSE units,
     backups    |-> bs]

\* The copies in a backup that was not synced are torn too.
TornCopies(saved) ==
    [f \in Path |-> IF saved[f] = NotSaved THEN NotSaved ELSE Torn]
TornBackups ==
    [b \in BackupId |->
        IF backups[b].synced THEN backups[b]
        ELSE [backups[b] EXCEPT !.saved = TornCopies(backups[b].saved)]]
SyncedBackups == [b \in BackupId |-> [backups[b] EXCEPT !.synced = TRUE]]

\* sync: everything is written back and committed.
SyncAll ==
    /\ dirty' = {}
    /\ backups' = SyncedBackups
    /\ disk' = Image({}, SyncedBackups)

\* sync FILE: its data is written and the journal, hence every earlier
\* metadata change, is committed.
SyncOne(x) ==
    /\ dirty' = dirty \ {x}
    /\ disk' = Image(dirty \ {x}, TornBackups)
    /\ UNCHANGED backups

\* The kernel commits the journal by itself, having written back some data.
Commit ==
    /\ \E d \in SUBSET dirty : dirty' = d /\ disk' = Image(d, TornBackups)
    /\ UNCHANGED <<shown, lock, run, status, verifyDue, history, faults, cuts>>

----------------------------------------------------------------------------
Init ==
    /\ files = FactoryFiles
    /\ marker = NoBackup
    /\ lastBackup = NoBackup
    /\ installed = Absent
    /\ units = FactoryFiles[UnitPath]
    /\ backups = [b \in BackupId |-> NoDir]
    /\ dirty = {}
    /\ disk = Image({}, backups)
    /\ lock = None
    /\ run = [p \in Procs |-> Idle]
    /\ status = None
    /\ verifyDue = TRUE
    /\ stable = {FactoryFiles}
    /\ halfRestored = FALSE
    /\ faults = 0
    /\ cuts = 0

At(p, label) == run[p].pc = label
Goto(p, label) == run' = [run EXCEPT ![p].pc = label]

\* The shell exits: the kernel drops the flock with its descriptor.
Exit(p) ==
    /\ lock' = None
    /\ run' = [run EXCEPT ![p] = Idle]

Die(p) == Exit(p) /\ status' = "failed"

Budget == UNCHANGED <<verifyDue, faults, cuts>>

----------------------------------------------------------------------------
(* Starting: take_lock, then the first phase of the mode.                  *)

\* Mutant: the flock result is ignored.
TakeLock_ignored(p, mode, force) ==
    /\ At(p, "idle")
    /\ lock' = p
    /\ run' = [run EXCEPT ![p] = [Idle EXCEPT !.mode = mode, !.force = force,
                   !.pc = IF mode = "update" THEN "preflight" ELSE "open"]]
    /\ verifyDue' = (verifyDue /\ mode # "verify")
    /\ UNCHANGED <<fs, status, history, faults, cuts>>

\* A refused flock -n exits without touching the status file, so it is no
\* step at all, except that a boot-time verify that is refused is over.
TakeLock(p, mode, force) ==
    /\ At(p, "idle")
    /\ lock = None
    /\ lock' = p
    /\ run' = [run EXCEPT ![p] = [Idle EXCEPT !.mode = mode, !.force = force,
                   !.pc = IF mode = "update" THEN "preflight" ELSE "open"]]
    /\ verifyDue' = (verifyDue /\ mode # "verify")
    /\ UNCHANGED <<fs, status, history, faults, cuts>>

StartUpdate(p) ==
    /\ backups[MaxBackups].st = "none"
    /\ "rerun" \in Manual \/ (~ Usable(marker) /\ ~ halfRestored)
    /\ \E force \in BOOLEAN :
          /\ force => "force" \in Manual
          /\ TakeLock(p, "update", force)

StartVerify(p) == verifyDue /\ TakeLock(p, "verify", FALSE)

VerifyRefused ==
    /\ verifyDue
    /\ lock # None
    /\ verifyDue' = FALSE
    /\ UNCHANGED <<fs, lock, run, status, history, faults, cuts>>

StartRestoreLast(p) ==
    /\ "restore-last" \in Manual
    /\ TakeLock(p, "restore-last", FALSE)

----------------------------------------------------------------------------
(* The update phases before anything on the printer changes.               *)

\* Printing or paused, Moonraker unreachable without OTA_FORCE, a full disk
\* or no network: die.
phase_preflight(p) ==
    /\ At(p, "preflight")
    /\ \E moonraker \in {"printing", "not-printing", "unreachable"},
          reachable \in BOOLEAN :
          IF /\ \/ moonraker = "not-printing"
                \/ moonraker = "unreachable" /\ run[p].force
             /\ reachable
          THEN Goto(p, "resolve") /\ status' = "running" /\ UNCHANGED lock
          ELSE Die(p)
    /\ Budget /\ UNCHANGED <<fs, history>>

\* The version gate.  An empty installed-version counts as none.
GateOpen(force, v) ==
    force \/ installed \notin Versions \/ v > installed

phase_resolve(p) ==
    /\ At(p, "resolve")
    /\ \E v \in Versions :
          IF GateOpen(run[p].force, v)
          THEN /\ run' = [run EXCEPT ![p] = [@ EXCEPT !.pc = "stage", !.ver = v]]
               /\ status' = "running"
               /\ UNCHANGED lock
          ELSE Exit(p) /\ status' = "up-to-date"
    /\ Budget /\ UNCHANGED <<fs, history>>

\* Mutant: the denylist is not consulted.
validate_file_list_open(v) == v \in Versions

\* download and stage: the tarball's checksum and validate_file_list.
validate_file_list(v) == Payload[v] \cap Identity = {}

phase_stage(p) ==
    /\ At(p, "stage")
    /\ \E checksumOk \in BOOLEAN :
          IF checksumOk /\ validate_file_list(run[p].ver)
          THEN Goto(p, "backup") /\ UNCHANGED <<lock, status>>
          ELSE Die(p)
    /\ Budget /\ UNCHANGED <<fs, history>>

----------------------------------------------------------------------------
(* phase_backup *)

\* A new directory, later in time than every other.
BackupOpen(p) ==
    /\ At(p, "backup")
    /\ \E b \in BackupId :
          /\ \A c \in BackupId : c >= b => backups[c].st = "none"
          /\ b > 1 => backups[b - 1].st # "none"
          /\ backups' = [backups EXCEPT ![b] =
                           [NoDir EXCEPT !.st = "partial", !.synced = FALSE]]
          /\ run' = [run EXCEPT ![p] = [@ EXCEPT !.pc = "copy", !.bk = b,
                                !.todo = Payload[run[p].ver]]]
    /\ Budget
    /\ UNCHANGED <<files, marker, lastBackup, installed, units, dirty, disk,
                   lock, status, history>>

\* One file copied to the backup, or (Absent) listed in new-files.list.
BackupFile(p) ==
    /\ At(p, "copy")
    /\ \E f \in run[p].todo :
          /\ backups' = [backups EXCEPT ![run[p].bk].saved[f] = files[f]]
          /\ run' = [run EXCEPT ![p].todo = @ \ {f}]
    /\ Budget
    /\ UNCHANGED <<files, marker, lastBackup, installed, units, dirty, disk,
                   lock, status, history>>

\* touch .backup-complete
BackupComplete(p) ==
    /\ At(p, "copy")
    /\ run[p].todo = {}
    /\ backups' = [backups EXCEPT ![run[p].bk].st = "complete"]
    /\ Goto(p, "backup-sync")
    /\ Budget
    /\ UNCHANGED <<files, marker, lastBackup, installed, units, dirty, disk,
                   lock, status, history>>

BackupSync(p) ==
    /\ At(p, "backup-sync")
    /\ SyncAll
    /\ Goto(p, "last")
    /\ Budget
    /\ UNCHANGED <<files, marker, lastBackup, installed, units, lock, status,
                   history>>

\* Mutant: the version is recorded before the files are applied.
RecordLast_early(p) ==
    /\ At(p, "last")
    /\ lastBackup' = run[p].bk
    /\ installed' = run[p].ver
    /\ dirty' = dirty \cup {"lastBackup", "installed"}
    /\ Goto(p, "mark")
    /\ Budget
    /\ UNCHANGED <<files, marker, units, backups, disk, lock, status, history>>

\* echo "$BACKUP_DIR" > "$LAST_BACKUP_FILE", not synced.
RecordLast(p) ==
    /\ At(p, "last")
    /\ lastBackup' = run[p].bk
    /\ dirty' = dirty \cup {"lastBackup"}
    /\ Goto(p, "mark")
    /\ Budget
    /\ UNCHANGED <<files, marker, installed, units, backups, disk, lock,
                   status, history>>

----------------------------------------------------------------------------
(* phase_apply *)

WriteMarker(p) ==
    /\ At(p, "mark")
    /\ marker' = run[p].bk
    /\ dirty' = dirty \cup {"marker"}
    /\ Goto(p, "mark-sync")
    /\ Budget
    /\ UNCHANGED <<files, lastBackup, installed, units, backups, disk, lock,
                   status, history>>

\* Mutant: the first file is applied before the marker is durable.
SyncMarker_skipped(p) ==
    /\ At(p, "mark-sync")
    /\ run' = [run EXCEPT ![p] = [@ EXCEPT !.pc = "apply",
                                        !.todo = Payload[run[p].ver]]]
    /\ Budget
    /\ UNCHANGED <<fs, lock, status, history>>

SyncMarker(p) ==
    /\ At(p, "mark-sync")
    /\ SyncOne("marker")
    /\ run' = [run EXCEPT ![p] = [@ EXCEPT !.pc = "apply",
                                        !.todo = Payload[run[p].ver]]]
    /\ Budget
    /\ UNCHANGED <<files, marker, lastBackup, installed, units, lock, status,
                   history>>

\* Copy next to the target, fsync the copy, rename it over the target: the
\* name changes in one step and its data is already on the disk.
atomic_install(f, content) ==
    /\ files' = [files EXCEPT ![f] = content]
    /\ dirty' = dirty \ {f}

\* Everything else first, the engine's own files last.
ApplyOrder(todo, f) == f \in OtaPath => todo \subseteq OtaPath

apply_one(p) ==
    /\ At(p, "apply")
    /\ \E f \in run[p].todo :
          /\ ApplyOrder(run[p].todo, f)
          /\ atomic_install(f, run[p].ver)
          /\ run' = [run EXCEPT ![p].todo = @ \ {f}]
    /\ Budget
    /\ UNCHANGED <<marker, lastBackup, installed, units, backups, disk, lock,
                   status, history>>

\* atomic_install returned 1 for some file: restore_from_backup takes over.
ApplyFails(p) ==
    /\ At(p, "apply")
    /\ run[p].todo # {}
    /\ faults < MaxFaults
    /\ faults' = faults + 1
    /\ Goto(p, "open")
    /\ UNCHANGED <<fs, lock, status, verifyDue, history, cuts>>

ApplyDone(p) ==
    /\ At(p, "apply")
    /\ run[p].todo = {}
    /\ marker' = NoBackup
    /\ dirty' = dirty \ {"marker"}
    /\ stable' = stable \cup {files}
    /\ Goto(p, "apply-sync")
    /\ Budget
    /\ UNCHANGED <<files, lastBackup, installed, units, backups, disk, lock,
                   status, halfRestored>>

ApplySync(p) ==
    /\ At(p, "apply-sync")
    /\ SyncAll
    /\ Goto(p, "apt")
    /\ Budget
    /\ UNCHANGED <<files, marker, lastBackup, installed, units, lock, status,
                   history>>

----------------------------------------------------------------------------
(* restore_from_backup, reached from a failed apply, from the boot-time    *)
(* verify (the marker names the backup) and from --restore-last (the       *)
(* last-backup file names it).                                             *)

NamedBackup(p) ==
    CASE run[p].mode = "update"       -> run[p].bk
      [] run[p].mode = "verify"       -> marker
      [] run[p].mode = "restore-last" -> lastBackup

\* Mutant: files that were not in the backup are restored too.
RestoreOpen_everything(p) ==
    /\ At(p, "open")
    /\ LET b == NamedBackup(p) IN
       IF run[p].mode = "verify" /\ b = NoBackup
       THEN Exit(p) /\ UNCHANGED status
       ELSE IF b \in BackupId /\ backups[b].st = "complete"
       THEN /\ run' = [run EXCEPT ![p] = [@ EXCEPT !.pc = "restore", !.bk = b,
                                  !.todo = Path]]
            /\ UNCHANGED <<lock, status>>
       ELSE Die(p)
    /\ Budget /\ UNCHANGED <<fs, history>>

\* Verify with no marker has nothing to do; a missing, empty or dangling
\* name, and a backup without .backup-complete, are refused.
RestoreOpen(p) ==
    /\ At(p, "open")
    /\ LET b == NamedBackup(p) IN
       IF run[p].mode = "verify" /\ b = NoBackup
       THEN Exit(p) /\ UNCHANGED status
       ELSE IF b \in BackupId /\ backups[b].st = "complete"
       THEN /\ run' = [run EXCEPT ![p] = [@ EXCEPT !.pc = "restore", !.bk = b,
                   !.todo = {f \in Path : backups[b].saved[f] # NotSaved}]]
            /\ UNCHANGED <<lock, status>>
       ELSE Die(p)
    /\ Budget /\ UNCHANGED <<fs, history>>

\* Saved files are put back first, then the files listed in new-files.list
\* are removed.
RestoreFile(p) ==
    /\ At(p, "restore")
    /\ LET saved == backups[run[p].bk].saved IN
       \E f \in run[p].todo :
          /\ saved[f] = Absent => \A g \in run[p].todo : saved[g] = Absent
          /\ atomic_install(f, saved[f])
          /\ run' = [run EXCEPT ![p].todo = @ \ {f}]
    /\ Budget
    /\ UNCHANGED <<marker, lastBackup, installed, units, backups, disk, lock,
                   status, history>>

RestoreSync(p) ==
    /\ At(p, "restore")
    /\ run[p].todo = {}
    /\ SyncAll
    /\ Goto(p, "unmark")
    /\ Budget
    /\ UNCHANGED <<files, marker, lastBackup, installed, units, lock, status,
                   history>>

\* Mutant: the marker is left behind.
RestoreDone_keepsMarker(p) ==
    /\ At(p, "unmark")
    /\ halfRestored' = FALSE
    /\ Exit(p)
    /\ status' = "restored"
    /\ Budget
    /\ UNCHANGED <<fs, stable>>

\* rm -f "$APPLY_MARKER" (not synced) and the final status.
RestoreDone(p) ==
    /\ At(p, "unmark")
    /\ marker' = NoBackup
    /\ dirty' = dirty \ {"marker"}
    /\ halfRestored' = FALSE
    /\ Exit(p)
    /\ status' = IF run[p].mode = "update" THEN "rolled-back" ELSE "restored"
    /\ Budget
    /\ UNCHANGED <<files, lastBackup, installed, units, backups, disk, stable>>

----------------------------------------------------------------------------
(* phase_apt and phase_finalize *)

phase_apt(p) ==
    /\ At(p, "apt")
    /\ \E aptOk \in BOOLEAN :
          IF aptOk THEN Goto(p, "version") /\ UNCHANGED <<lock, status>>
                   ELSE Die(p)
    /\ Budget /\ UNCHANGED <<fs, history>>

RecordVersion(p) ==
    /\ At(p, "version")
    /\ installed' = run[p].ver
    /\ dirty' = dirty \cup {"installed"}
    /\ Goto(p, "version-sync")
    /\ Budget
    /\ UNCHANGED <<files, marker, lastBackup, units, backups, disk, lock,
                   status, history>>

SyncVersion(p) ==
    /\ At(p, "version-sync")
    /\ SyncOne("installed")
    /\ Goto(p, "units")
    /\ Budget
    /\ UNCHANGED <<files, marker, lastBackup, installed, units, lock, status,
                   history>>

\* cp of the staged unit when it differs; neither atomic nor synced.
InstallUnits(p) ==
    /\ At(p, "units")
    /\ IF files[UnitPath] \notin {Absent, units}
       THEN units' = files[UnitPath] /\ dirty' = dirty \cup {"units"}
       ELSE UNCHANGED <<units, dirty>>
    /\ Goto(p, "prune")
    /\ Budget
    /\ UNCHANGED <<files, marker, lastBackup, installed, backups, disk, lock,
                   status, history>>

\* Keep the BackupsToKeep most recent directories, complete or not.
Newer(b) == {c \in BackupId : c > b /\ backups[c].st # "none"}

\* Mutant: off by one, the newest directory can go too.
prune_backups_offByOne(p) ==
    /\ At(p, "prune")
    /\ backups' = [b \in BackupId |->
                     IF Cardinality(Newer(b)) + 1 >= BackupsToKeep THEN NoDir
                     ELSE backups[b]]
    /\ Goto(p, "end")
    /\ Budget
    /\ UNCHANGED <<files, marker, lastBackup, installed, units, dirty, disk,
                   lock, status, history>>

prune_backups(p) ==
    /\ At(p, "prune")
    /\ backups' = [b \in BackupId |->
                     IF Cardinality(Newer(b)) >= BackupsToKeep THEN NoDir
                     ELSE backups[b]]
    /\ Goto(p, "end")
    /\ Budget
    /\ UNCHANGED <<files, marker, lastBackup, installed, units, dirty, disk,
                   lock, status, history>>

\* Service restarts are best-effort and change nothing here.
FinishWithRestarts(p) ==
    /\ At(p, "end")
    /\ Exit(p)
    /\ status' = "success"
    /\ Budget /\ UNCHANGED <<fs, history>>

\* requires_reboot: an orderly shutdown writes everything back.
FinishWithReboot(p) ==
    /\ At(p, "end")
    /\ Exit(p)
    /\ status' = "success"
    /\ SyncAll
    /\ verifyDue' = (units # Torn)
    /\ UNCHANGED <<files, marker, lastBackup, installed, units, history,
                   faults, cuts>>

----------------------------------------------------------------------------
(* What can go wrong. *)

\* The history of a --restore-last that stops between two files while no
\* marker asks for the rest to be done at boot.
StopsHalfway(p) ==
    /\ At(p, "restore")
    /\ run[p].mode = "restore-last"
    /\ ~ Usable(marker)

\* A command fails under set -e (the ERR trap writes the status), or the
\* process is killed (nothing is written).  A failed redirection has
\* already truncated its target.
Truncated(p, label, value, torn) == value' \in {value} \cup
    (IF At(p, label) THEN {torn} ELSE {})

Stop(p) ==
    /\ run[p].pc # "idle"
    /\ faults < MaxFaults
    /\ faults' = faults + 1
    /\ halfRestored' = (halfRestored \/ StopsHalfway(p))
    /\ Exit(p)
    /\ status' \in {status, "failed"}
    /\ Truncated(p, "last", lastBackup, Empty)
    /\ Truncated(p, "mark", marker, Empty)
    /\ Truncated(p, "version", installed, Torn)
    /\ UNCHANGED <<files, units, backups, dirty, disk, verifyDue, stable, cuts>>

\* Every process is gone and the page cache with it.  The verify unit runs
\* at the next boot if systemd can still load it.
PowerCut ==
    /\ cuts < MaxPowerCuts
    /\ cuts' = cuts + 1
    /\ halfRestored' = (halfRestored \/ \E p \in Procs : StopsHalfway(p))
    /\ files' = disk.files
    /\ marker' = disk.marker
    /\ lastBackup' = disk.lastBackup
    /\ installed' = disk.installed
    /\ units' = disk.units
    /\ backups' = disk.backups
    /\ dirty' = {}
    /\ disk' = disk
    /\ lock' = None
    /\ run' = [p \in Procs |-> Idle]
    /\ verifyDue' = (disk.units # Torn)
    /\ UNCHANGED <<status, stable, faults>>

----------------------------------------------------------------------------
Start(p) == StartUpdate(p) \/ StartVerify(p) \/ StartRestoreLast(p)

\* What a process does once it has the lock.
Proceed(p) ==
    \/ phase_preflight(p) \/ phase_resolve(p) \/ phase_stage(p)
    \/ BackupOpen(p) \/ BackupFile(p) \/ BackupComplete(p) \/ BackupSync(p)
    \/ RecordLast(p) \/ WriteMarker(p) \/ SyncMarker(p)
    \/ apply_one(p) \/ ApplyDone(p) \/ ApplySync(p)
    \/ RestoreOpen(p) \/ RestoreFile(p) \/ RestoreSync(p) \/ RestoreDone(p)
    \/ phase_apt(p) \/ RecordVersion(p) \/ SyncVersion(p) \/ InstallUnits(p)
    \/ prune_backups(p) \/ FinishWithRestarts(p) \/ FinishWithReboot(p)

Next ==
    \/ \E p \in Procs : Start(p) \/ Proceed(p) \/ ApplyFails(p) \/ Stop(p)
    \/ VerifyRefused
    \/ Commit
    \/ PowerCut

Spec == Init /\ [][Next]_vars

\* A shell that is not stopped goes on to its next command, and systemd
\* starts the enabled verify unit at boot.
Fairness == \A p \in Procs : WF_vars(Proceed(p)) /\ WF_vars(StartVerify(p))
FairSpec == Spec /\ Fairness
----------------------------------------------------------------------------
(* Properties *)

Label == {"idle", "preflight", "resolve", "stage", "backup", "copy",
          "backup-sync", "last", "mark", "mark-sync", "apply", "apply-sync",
          "open", "restore", "unmark", "apt", "version", "version-sync",
          "units", "prune", "end"}
RunState == [pc : Label, mode : {"update", "verify", "restore-last"},
             force : BOOLEAN, ver : 0 .. MaxVersion, bk : BackupRef,
             todo : SUBSET Path]
Backup == [st : {"none", "partial", "complete"}, synced : BOOLEAN,
           saved : [Path -> 0 .. MaxVersion + 2]]
FileSystem == [files : [Path -> Content], marker : BackupRef,
               lastBackup : BackupRef, installed : Content, units : Content,
               backups : [BackupId -> Backup]]

\* The values the engine's files, variables and durable image can take.
TypeOK ==
    /\ files \in [Path -> Content]
    /\ marker \in BackupRef
    /\ lastBackup \in BackupRef
    /\ installed \in Content
    /\ units \in Content
    /\ backups \in [BackupId -> Backup]
    /\ dirty \subseteq Path \cup Records
    /\ disk \in FileSystem
    /\ lock \in Procs \cup {None}
    /\ run \in [Procs -> RunState]
    /\ status \in {None, "running", "failed", "up-to-date", "rolled-back",
                   "restored", "success"}
    /\ verifyDue \in BOOLEAN
    /\ stable \subseteq [Path -> Content]
    /\ halfRestored \in BOOLEAN
    /\ faults \in 0 .. MaxFaults
    /\ cuts \in 0 .. MaxPowerCuts

\* README "any apply failure restores the pre-update backup": once no run
\* holds the lock and no marker is left for the next boot, the installed
\* files are one complete set, never some files of one update and some of
\* another.
AllOrNothing ==
    lock = None /\ ~ Usable(marker) /\ ~ halfRestored => files \in stable

\* What restore_from_backup would leave of the files fl.
Undo(fl, saved) ==
    [f \in Path |-> IF saved[f] = NotSaved THEN fl[f] ELSE saved[f]]

HandRestoring == \E p \in Procs : StopsHalfway(p)

\* "Power-loss recovery": at every moment, what a power cut would leave is
\* either a complete file set, or is turned into one by the restore that the
\* durable marker asks for at boot, from a backup that is itself complete.
PowerCutRecoverable ==
    ~ halfRestored /\ ~ HandRestoring =>
        IF Usable(disk.marker)
        THEN /\ disk.backups[disk.marker].st = "complete"
             /\ Undo(disk.files, disk.backups[disk.marker].saved) \in stable
        ELSE disk.files \in stable

\* Every file of the release that installed-version names is that release's
\* or a later one's: the version gate never skips an update that is needed.
GateTruthful ==
    lock = None /\ ~ Usable(marker) /\ installed \in Versions =>
        \A f \in Payload[installed] : files[f] >= installed

\* A name in last-backup or in the marker is a backup that restore accepts,
\* also after pruning and after a power cut.
NamedBackupsComplete ==
    /\ \A ref \in {marker, lastBackup} :
          Usable(ref) => backups[ref].st = "complete"
    /\ \A ref \in {disk.marker, disk.lastBackup} :
          Usable(ref) => disk.backups[ref].st = "complete"

\* printer.cfg and magneto_device.cfg are never written, also when a release
\* names them ("per-printer identity is never touched").
IdentityUntouched ==
    \A f \in Identity : files[f] = FactoryFiles[f] /\ disk.files[f] = FactoryFiles[f]

\* A power loss mid-apply "is restored at next boot": with no further fault,
\* a usable marker found at boot does not stay.
BootRecovery ==
    (verifyDue /\ lock = None /\ Usable(marker) /\ faults = MaxFaults)
        ~> ~ Usable(marker)

====
