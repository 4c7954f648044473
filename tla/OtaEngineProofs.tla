-------------------------- MODULE OtaEngineProofs ---------------------------
(***************************************************************************)
(* Proofs about OtaEngine, for every set of files and releases and every   *)
(* bound: the types, and that with a disciplined operator (no "rerun") an  *)
(* update is all or nothing and a power cut is recoverable at any moment.  *)
(*                                                                         *)
(* Then, for every operator, the per-printer files are never written; and  *)
(* without OTA_FORCE and --restore-last the recorded version never runs    *)
(* ahead of the files.                                                     *)
(*                                                                         *)
(* First the inductive invariant, the types and what the steps have in     *)
(* common: the holder of the lock moves, the metadata is committed or      *)
(* synced; then the steps that write no file, the update and the theorems. *)
(***************************************************************************)
EXTENDS OtaEngine, Integers, TLAPS

\* A process that is not idle holds the lock.
LockInv == \A p \in Procs : run[p].pc # "idle" => lock = p

\* An image of the file system that is complete, or that the backup its
\* marker names makes complete.  "hand" exempts a --restore-last that is half
\* done, for which no marker exists.
SafeImage(fl, mk, lb, bs, hand) ==
    /\ Usable(mk) => /\ bs[mk].st = "complete" /\ bs[mk].synced
                     /\ Undo(fl, bs[mk].saved) \in stable
                     /\ lb \in {mk, Empty}
    /\ Usable(lb) => /\ bs[lb].st = "complete" /\ bs[lb].synced
                     /\ Undo(fl, bs[lb].saved) \in stable
    /\ ~ Usable(mk) /\ ~ hand => fl \in stable

Hand == halfRestored \/ HandRestoring

SafeShown == SafeImage(files, marker, lastBackup, backups, Hand)
SafeDisk ==
    SafeImage(disk.files, disk.marker, disk.lastBackup, disk.backups, Hand)

\* No installed file has unwritten data, and a marker that has names a backup
\* of exactly the files there are.
DirtyInv ==
    /\ dirty \cap Path = {}
    /\ "marker" \in dirty =>
          /\ Usable(marker)
          /\ files = Undo(files, backups[marker].saved)

Before == {"preflight", "resolve", "stage", "backup"}
Saving == {"copy", "backup-sync", "last"}
Applied == {"apply-sync", "apt", "version", "version-sync", "units", "prune",
            "end"}

Newest(b) == \A c \in BackupId : c > b => backups[c].st = "none"

\* The backup of the running update holds every file of its release that
\* todo does not list.
Covers(r) ==
    LET saved == backups[r.bk].saved IN
    \A f \in Path : IF f \in Payload[r.ver] \ r.todo
                    THEN saved[f] = files[f] ELSE saved[f] = NotSaved

\* What holds at each point of a run.
RunInv(r) ==
    /\ r.pc \in Before \cup Saving \cup Applied \cup {"mark", "mark-sync", "apply"}
          => r.mode = "update"
    /\ r.pc \in Before \cup Saving \cup {"mark"} =>
          ~ Usable(marker) /\ ~ halfRestored /\ files \in stable
    /\ r.pc \in Saving \cup Applied \cup {"mark", "mark-sync", "apply"} =>
          r.ver \in Versions /\ r.bk \in BackupId /\ Newest(r.bk)
    /\ r.pc \in {"stage", "backup"} => r.ver \in Versions
    /\ r.pc = "copy" => /\ backups[r.bk].st = "partial" /\ Covers(r)
                        /\ r.todo \subseteq Payload[r.ver]
    /\ r.pc \in {"backup-sync", "last", "mark", "mark-sync"} =>
          backups[r.bk].st = "complete" /\ r.todo = {} /\ Covers(r)
    /\ r.pc \in {"last", "mark", "mark-sync"} => backups[r.bk].synced
    /\ r.pc \in Applied \cup {"mark", "mark-sync", "apply"} => lastBackup = r.bk
    /\ r.pc \in {"mark-sync", "apply"} => marker = r.bk /\ ~ halfRestored
    /\ r.pc = "apply" =>
          /\ "marker" \notin dirty
          /\ r.todo \subseteq Payload[r.ver]
          /\ \A f \in Payload[r.ver] : backups[r.bk].saved[f] # NotSaved
    /\ r.pc \in Applied =>
          marker = NoBackup /\ ~ halfRestored /\ files \in stable
    /\ r.pc = "open" /\ r.mode = "update" =>
          r.bk \in BackupId /\ marker = r.bk /\ lastBackup = r.bk
    /\ r.pc \in {"restore", "unmark"} =>
          /\ r.bk \in BackupId
          /\ IF r.mode = "restore-last" THEN lastBackup = r.bk ELSE marker = r.bk
    /\ r.pc = "restore" =>
          LET saved == backups[r.bk].saved IN
          /\ r.todo \subseteq {f \in Path : saved[f] # NotSaved}
          /\ \A f \in Path : saved[f] # NotSaved /\ f \notin r.todo
                                => files[f] = saved[f]
    /\ r.pc = "unmark" => files \in stable /\ disk.files \in stable

Inv ==
    /\ LockInv
    /\ SafeShown
    /\ SafeDisk
    /\ DirtyInv
    /\ \A p \in Procs : RunInv(run[p])

----------------------------------------------------------------------------
(* Types *)

LEMMA NoneCounted == Cardinality({}) = 0
  <1> DEFINE F(CS) == [T \in SUBSET {} |-> IF T = {} THEN 0 ELSE 1 + CS[T \ {CHOOSE x : x \in T}]]
             g == [T \in SUBSET {} |-> 0]
  <1>1. \A T \in SUBSET {} : T = {} OBVIOUS
  <1>2. \A h : F(h) = g BY <1>1
  <1> HIDE DEF F, g
  <1>3. g = F(g) BY <1>2
  <1>4. (CHOOSE h : h = F(h)) = g BY Zenon, <1>2, <1>3
  <1>5. g[{}] = 0 BY DEF g
  <1> QED BY <1>4, <1>5 DEF Cardinality, F

LEMMA ConstantTypes ==
    /\ Versions \subseteq Nat /\ Versions \subseteq Content
    /\ Absent \in Content /\ Torn \in Content /\ NotSaved \notin Content
    /\ NoBackup \in BackupRef /\ Empty \in BackupRef
    /\ BackupId \subseteq BackupRef
    /\ NoBackup \notin BackupId /\ Empty \notin BackupId
    /\ Idle \in RunState /\ NoDir \in Backup
  BY OtaAssumption DEF Versions, Content, Absent, Torn, NotSaved, NoBackup,
     Empty, BackupRef, BackupId, Idle, RunState, Label, NoDir, Backup

\* A metadata commit of a well-typed file system is one.
LEMMA SavedContent == \A v \in 0 .. MaxVersion + 2 : v # NotSaved => v \in Content
  BY OtaAssumption DEF NotSaved, Content

LEMMA ImageType ==
    ASSUME TypeOK, NEW d, NEW bs \in [BackupId -> Backup]
    PROVE  Image(d, bs) \in FileSystem
  BY Zenon, ConstantTypes DEF TypeOK, Image, FileSystem

LEMMA BackupsType ==
    ASSUME TypeOK
    PROVE  TornBackups \in [BackupId -> Backup]
           /\ SyncedBackups \in [BackupId -> Backup]
  <1>1. ASSUME NEW b \in BackupId PROVE TornCopies(backups[b].saved)
                                          \in [Path -> 0 .. MaxVersion + 2]
    BY <1>1, OtaAssumption, ConstantTypes DEF TypeOK, Backup, TornCopies, Content, NotSaved, Torn
  <1>2. ASSUME NEW b \in BackupId
        PROVE [backups[b] EXCEPT !.saved = TornCopies(backups[b].saved)] \in Backup
    BY ZenonT(60), <1>1, <1>2 DEF TypeOK, Backup
  <1>3. QED
    BY ZenonT(60), <1>2 DEF TypeOK, Backup, TornBackups, SyncedBackups

LEMMA InitType == Init => TypeOK
  <1> SUFFICES ASSUME Init PROVE TypeOK BY Zenon
  <1>1. /\ files \in [Path -> Content] /\ backups \in [BackupId -> Backup]
        /\ installed \in Content /\ units \in Content
    BY Zenon, OtaAssumption, ConstantTypes DEF Init
  <1>2. disk \in FileSystem
    BY Zenon, <1>1, OtaAssumption, ConstantTypes DEF Init, Image, FileSystem
  <1>3. run \in [Procs -> RunState]
    BY Zenon, ConstantTypes DEF Init
  <1>4. faults \in 0 .. MaxFaults /\ cuts \in 0 .. MaxPowerCuts
    BY OtaAssumption DEF Init
  <1>5. stable \subseteq [Path -> Content]
    BY Zenon, <1>1 DEF Init
  <1>6. QED BY Zenon, <1>1, <1>2, <1>3, <1>4, <1>5, ConstantTypes DEF Init, TypeOK

LEMMA GotoType ==
    ASSUME TypeOK, NEW p \in Procs, NEW l \in Label, Goto(p, l)
    PROVE  run' \in [Procs -> RunState]
  BY SMTT(60) DEF TypeOK, Goto, RunState

LEMMA RunWithBackup ==
    ASSUME TypeOK, NEW p \in Procs, NEW l \in Label, NEW b \in BackupRef,
           NEW S \in SUBSET Path
    PROVE  [run[p] EXCEPT !.pc = l, !.bk = b, !.todo = S] \in RunState
  BY ZenonT(60) DEF TypeOK, RunState

LEMMA RunWithTodo ==
    ASSUME TypeOK, NEW p \in Procs, NEW l \in Label, NEW S \in SUBSET Path
    PROVE  [run[p] EXCEPT !.pc = l, !.todo = S] \in RunState
  BY ZenonT(60) DEF TypeOK, RunState

LEMMA RunWithVersion ==
    ASSUME TypeOK, NEW p \in Procs, NEW l \in Label, NEW v \in Versions
    PROVE  [run[p] EXCEPT !.pc = l, !.ver = v] \in RunState
  <1>1. v \in 0 .. MaxVersion BY OtaAssumption DEF Versions
  <1>2. QED BY ZenonT(60), <1>1 DEF TypeOK, RunState

LEMMA RunUpdate ==
    ASSUME TypeOK, NEW p \in Procs, NEW r \in RunState
    PROVE  [run EXCEPT ![p] = r] \in [Procs -> RunState]
  BY Zenon DEF TypeOK

LEMMA ExitType ==
    ASSUME TypeOK, NEW p \in Procs, Exit(p)
    PROVE  run' \in [Procs -> RunState] /\ lock' \in Procs \cup {None}
  BY Zenon, ConstantTypes DEF TypeOK, Exit

LEMMA SyncAllType ==
    ASSUME TypeOK, SyncAll
    PROVE  /\ dirty' \subseteq Path \cup Records
           /\ backups' \in [BackupId -> Backup]
           /\ disk' \in FileSystem
  BY Zenon, ImageType, BackupsType DEF SyncAll

LEMMA SyncOneType ==
    ASSUME TypeOK, NEW x, SyncOne(x)
    PROVE  /\ dirty' \subseteq Path \cup Records
           /\ backups' \in [BackupId -> Backup]
           /\ disk' \in FileSystem
  BY Zenon, ImageType, BackupsType DEF SyncOne, TypeOK

\* The type invariant is not inductive alone: the release of a run and the
\* files a restore goes through come from RunInv.
LEMMA TypeStep ==
    TypeOK /\ (\A p \in Procs : RunInv(run[p])) /\ [Next]_vars => TypeOK'
  <1> SUFFICES ASSUME TypeOK, \A p \in Procs : RunInv(run[p]), [Next]_vars
               PROVE  TypeOK'
    BY Zenon
  <1> USE ConstantTypes
  <1>1. ASSUME NEW p \in Procs, NEW mode \in {"update", "verify", "restore-last"},
               NEW force \in BOOLEAN, TakeLock(p, mode, force)
        PROVE  TypeOK'
    <2>1. run' \in [Procs -> RunState]
      BY ZenonT(60), <1>1 DEF TakeLock, TypeOK, RunState, Label, Idle
    <2>2. QED BY Zenon, <2>1, <1>1 DEF TakeLock, TypeOK, fs, shown, history
  <1>2. ASSUME NEW p \in Procs, phase_preflight(p) PROVE TypeOK'
    BY Zenon, <1>2, GotoType, ExitType
       DEF phase_preflight, Die, Budget, TypeOK, fs, shown, history, Label
  <1>3. ASSUME NEW p \in Procs, phase_resolve(p) PROVE TypeOK'
    <2>1. run' \in [Procs -> RunState]
      <3>1. PICK v \in Versions :
               \/ run' = [run EXCEPT ![p] = [@ EXCEPT !.pc = "stage", !.ver = v]]
               \/ Exit(p)
        BY Zenon, <1>3 DEF phase_resolve
      <3>2. [run[p] EXCEPT !.pc = "stage", !.ver = v] \in RunState
        BY ZenonT(60), RunWithVersion DEF Label
      <3>3. QED BY <3>1, <3>2, ExitType, RunUpdate
    <2>2. QED BY Zenon, <2>1, <1>3, ExitType DEF phase_resolve, Budget, TypeOK, fs, shown, history
  <1>4. ASSUME NEW p \in Procs, phase_stage(p) PROVE TypeOK'
    BY Zenon, <1>4, GotoType, ExitType
       DEF phase_stage, Die, Budget, TypeOK, fs, shown, history, Label
  <1>5. ASSUME NEW p \in Procs, BackupOpen(p) PROVE TypeOK'
    <2>1. Payload[run[p].ver] \in SUBSET Path
      BY ZenonT(60), <1>5, OtaAssumption DEF BackupOpen, At, RunInv
    <2>2. PICK b \in BackupId :
             /\ backups' = [backups EXCEPT ![b] =
                           [NoDir EXCEPT !.st = "partial", !.synced = FALSE]]
             /\ run' = [run EXCEPT ![p] = [@ EXCEPT !.pc = "copy", !.bk = b,
                                   !.todo = Payload[run[p].ver]]]
      BY Zenon, <1>5 DEF BackupOpen
    <2>3. run' \in [Procs -> RunState]
      <3>1. [run[p] EXCEPT !.pc = "copy", !.bk = b, !.todo = Payload[run[p].ver]]
              \in RunState
        BY ZenonT(60), <2>1, RunWithBackup DEF Label
      <3>2. QED BY Zenon, <2>2, <3>1, RunUpdate
    <2>4. backups' \in [BackupId -> Backup]
      BY ZenonT(60), <2>2 DEF TypeOK, Backup
    <2>5. QED BY Zenon, <2>3, <2>4, <1>5 DEF BackupOpen, Budget, TypeOK, history
  <1>6. ASSUME NEW p \in Procs, BackupFile(p) PROVE TypeOK'
    <2>1. PICK f \in run[p].todo :
             /\ backups' = [backups EXCEPT ![run[p].bk].saved[f] = files[f]]
             /\ run' = [run EXCEPT ![p].todo = @ \ {f}]
      BY ZenonT(60), <1>6 DEF BackupFile
    <2>2. f \in Path /\ files[f] \in 0 .. MaxVersion + 2
      BY SMTT(60), ZenonT(60), <2>1, OtaAssumption DEF TypeOK, RunState, Content
    <2>3. run' \in [Procs -> RunState]
      <3>1. run[p] \in RunState BY Zenon DEF TypeOK
      <3>2. run[p].todo \ {f} \in SUBSET Path BY Zenon, <3>1 DEF RunState
      <3>3. [run[p] EXCEPT !.todo = run[p].todo \ {f}] \in RunState
        BY Zenon, <3>1, <3>2 DEF RunState
      <3> QED BY SMTT(60), <2>1, <3>3 DEF TypeOK
    <2>4. backups' \in [BackupId -> Backup]
      BY ZenonT(60), <2>1, <2>2 DEF TypeOK, Backup
    <2>5. QED BY Zenon, <2>3, <2>4, <1>6 DEF BackupFile, Budget, TypeOK, history
  <1>7. ASSUME NEW p \in Procs, BackupComplete(p) PROVE TypeOK'
    <2>1. backups' \in [BackupId -> Backup]
      BY ZenonT(60), <1>7 DEF BackupComplete, TypeOK, Backup
    <2>2. QED
      BY Zenon, <2>1, <1>7, GotoType DEF BackupComplete, Budget, TypeOK, history, Label
  <1>8. ASSUME NEW p \in Procs, BackupSync(p) PROVE TypeOK'
    BY Zenon, <1>8, GotoType, SyncAllType DEF BackupSync, Budget, TypeOK, history, Label
  <1>9. ASSUME NEW p \in Procs, RecordLast(p) PROVE TypeOK'
    BY SMTT(60), ZenonT(60), <1>9, GotoType
       DEF RecordLast, Budget, TypeOK, history, Label, RunState, Records
  <1>10. ASSUME NEW p \in Procs, WriteMarker(p) PROVE TypeOK'
    BY SMTT(60), ZenonT(60), <1>10, GotoType
       DEF WriteMarker, Budget, TypeOK, history, Label, RunState, Records
  <1>11. ASSUME NEW p \in Procs, SyncMarker(p) PROVE TypeOK'
    <2>1. Payload[run[p].ver] \in SUBSET Path
      BY Zenon, <1>11, OtaAssumption DEF SyncMarker, At, RunInv
    <2>2. run' \in [Procs -> RunState]
      <3>1. [run[p] EXCEPT !.pc = "apply", !.todo = Payload[run[p].ver]] \in RunState
        BY Zenon, <2>1, RunWithTodo DEF Label
      <3>2. QED BY Zenon, <1>11, <3>1, RunUpdate DEF SyncMarker
    <2>3. QED
      BY Zenon, <2>2, <1>11, SyncOneType DEF SyncMarker, Budget, TypeOK, history
  <1>12. ASSUME NEW p \in Procs, apply_one(p) PROVE TypeOK'
    <2>1. run[p].ver \in Content
      BY SMTT(60), OtaAssumption DEF TypeOK, RunState, Content
    <2>2. run' \in [Procs -> RunState]
      BY SMTT(60), <1>12 DEF apply_one, TypeOK, RunState
    <2>3. QED
      BY ZenonT(60), <2>1, <2>2, <1>12
         DEF apply_one, atomic_install, Budget, TypeOK, history
  <1>13. ASSUME NEW p \in Procs, ApplyFails(p) PROVE TypeOK'
    <2>1. faults' \in 0 .. MaxFaults
      <3>1. faults < MaxFaults /\ faults' = faults + 1 BY Zenon, <1>13 DEF ApplyFails
      <3>2. faults \in 0 .. MaxFaults BY Zenon DEF TypeOK
      <3>3. QED BY <3>1, <3>2, OtaAssumption
    <2>2. QED
      BY Zenon, <2>1, <1>13, GotoType
         DEF ApplyFails, TypeOK, fs, shown, history, Label
  <1>14. ASSUME NEW p \in Procs, ApplyDone(p) PROVE TypeOK'
    BY Zenon, <1>14, GotoType DEF ApplyDone, Budget, TypeOK, Label
  <1>15. ASSUME NEW p \in Procs, ApplySync(p) PROVE TypeOK'
    BY Zenon, <1>15, GotoType, SyncAllType DEF ApplySync, Budget, TypeOK, history, Label
  <1>16. ASSUME NEW p \in Procs, RestoreOpen(p) PROVE TypeOK'
    <2> DEFINE b == NamedBackup(p)
               todo == {f \in Path : backups[b].saved[f] # NotSaved}
    <2>2. \/ Exit(p) /\ status' \in {status, "failed"}
          \/ /\ b \in BackupId
             /\ run' = [run EXCEPT ![p] = [@ EXCEPT !.pc = "restore", !.bk = b,
                                                   !.todo = todo]]
             /\ UNCHANGED <<lock, status>>
      BY Zenon, <1>16 DEF RestoreOpen, Die
    <2>3. run' \in [Procs -> RunState] /\ lock' \in Procs \cup {None}
          /\ status' \in {status, "failed"}
      <3>1. todo \in SUBSET Path BY Zenon
      <3> HIDE DEF b, todo
      <3>2. CASE b \in BackupId
        <4>1. [run[p] EXCEPT !.pc = "restore", !.bk = b, !.todo = todo] \in RunState
          BY ZenonT(60), <3>1, <3>2, RunWithBackup DEF Label
        <4>2. QED BY SMTT(60), ZenonT(60), <2>2, <4>1, ExitType, RunUpdate DEF TypeOK
      <3>3. QED BY Zenon, <2>2, <3>2, ExitType DEF TypeOK
    <2>4. QED
      BY Zenon, <2>3, <1>16 DEF RestoreOpen, Budget, TypeOK, fs, shown, history
  <1>17. ASSUME NEW p \in Procs, RestoreFile(p) PROVE TypeOK'
    <2>1. PICK f \in run[p].todo :
             /\ atomic_install(f, backups[run[p].bk].saved[f])
             /\ run' = [run EXCEPT ![p].todo = @ \ {f}]
      BY ZenonT(60), <1>17 DEF RestoreFile
    <2>2. f \in Path /\ backups[run[p].bk].saved[f] \in Content
      <3>1. run[p].bk \in BackupId /\ f \in Path
            /\ backups[run[p].bk].saved[f] # NotSaved
        BY ZenonT(60), <1>17, <2>1 DEF RestoreFile, At, RunInv
      <3>2. backups[run[p].bk].saved[f] \in 0 .. MaxVersion + 2
        <4>1. backups[run[p].bk] \in Backup BY Zenon, <3>1 DEF TypeOK
        <4>2. backups[run[p].bk].saved \in [Path -> 0 .. MaxVersion + 2]
          BY Zenon, <4>1 DEF Backup
        <4>3. QED BY Zenon, <3>1, <4>2
      <3>3. QED BY Zenon, <3>1, <3>2, SavedContent
    <2>3. run' \in [Procs -> RunState]
      BY SMTT(60), <2>1 DEF TypeOK, RunState
    <2>4. QED
      BY Zenon, <2>1, <2>2, <2>3, <1>17
         DEF RestoreFile, atomic_install, Budget, TypeOK, history
  <1>18. ASSUME NEW p \in Procs, RestoreSync(p) PROVE TypeOK'
    BY ZenonT(40), <1>18, GotoType, SyncAllType DEF RestoreSync, Budget, TypeOK, history, Label
  <1>19. ASSUME NEW p \in Procs, RestoreDone(p) PROVE TypeOK'
    BY ZenonT(60), <1>19, ExitType DEF RestoreDone, Budget, TypeOK
  <1>20. ASSUME NEW p \in Procs, phase_apt(p) PROVE TypeOK'
    BY Zenon, <1>20, GotoType, ExitType
       DEF phase_apt, Die, Budget, TypeOK, fs, shown, history, Label
  <1>21. ASSUME NEW p \in Procs, RecordVersion(p) PROVE TypeOK'
    <2>1. run[p].ver \in Content
      BY OtaAssumption DEF TypeOK, RunState, Content
    <2>2. QED BY Zenon, <2>1, <1>21, GotoType
       DEF RecordVersion, Budget, TypeOK, history, Label, Records
  <1>22. ASSUME NEW p \in Procs, SyncVersion(p) PROVE TypeOK'
    BY Zenon, <1>22, GotoType, SyncOneType DEF SyncVersion, Budget, TypeOK, history, Label
  <1>23. ASSUME NEW p \in Procs, InstallUnits(p) PROVE TypeOK'
    <2>1. files[UnitPath] \in Content
      BY Zenon, OtaAssumption DEF TypeOK
    <2>2. QED BY Zenon, <2>1, <1>23, GotoType
       DEF InstallUnits, Budget, TypeOK, history, Label, Records
  <1>24. ASSUME NEW p \in Procs, prune_backups(p) PROVE TypeOK'
    <2>1. backups' \in [BackupId -> Backup]
      BY Zenon, <1>24 DEF prune_backups, TypeOK
    <2>2. QED
      BY Zenon, <2>1, <1>24, GotoType DEF prune_backups, Budget, TypeOK, history, Label
  <1>25. ASSUME NEW p \in Procs, FinishWithRestarts(p) PROVE TypeOK'
    BY Zenon, <1>25, ExitType DEF FinishWithRestarts, Budget, TypeOK, fs, shown, history
  <1>26. ASSUME NEW p \in Procs, FinishWithReboot(p) PROVE TypeOK'
    BY Zenon, <1>26, ExitType, SyncAllType DEF FinishWithReboot, TypeOK, history
  <1>27. ASSUME NEW p \in Procs, Stop(p) PROVE TypeOK'
    <2>1. faults' \in 0 .. MaxFaults
      BY SMTT(60), ZenonT(60), <1>27, OtaAssumption DEF Stop, TypeOK
    <2>2. /\ lastBackup' \in BackupRef /\ marker' \in BackupRef
          /\ installed' \in Content
      BY Zenon, <1>27 DEF Stop, Truncated, TypeOK
    <2>3. halfRestored' \in BOOLEAN
      BY Zenon, <1>27 DEF Stop, TypeOK, StopsHalfway, At
    <2>4. QED
      BY Zenon, <2>1, <2>2, <2>3, <1>27, ExitType DEF Stop, TypeOK
  <1>28. CASE VerifyRefused
    BY ZenonT(60), <1>28 DEF VerifyRefused, TypeOK, fs, shown, history
  <1>29. CASE Commit
    <2>1. PICK d \in SUBSET dirty : dirty' = d /\ disk' = Image(d, TornBackups)
      BY Zenon, <1>29 DEF Commit
    <2>2. disk' \in FileSystem BY Zenon, <2>1, ImageType, BackupsType
    <2>3. dirty' \subseteq Path \cup Records BY Zenon, <2>1 DEF TypeOK
    <2>4. QED BY ZenonT(60), <1>29, <2>2, <2>3 DEF Commit, TypeOK, shown, history
  <1>30. CASE PowerCut
    <2>1. cuts' \in 0 .. MaxPowerCuts
      BY SMTT(60), ZenonT(60), <1>30, OtaAssumption DEF PowerCut, TypeOK
    <2>2. QED BY Zenon, <2>1, <1>30 DEF PowerCut, TypeOK, FileSystem, StopsHalfway, At
  <1>31. CASE UNCHANGED vars
    BY Zenon, <1>31 DEF vars, TypeOK, fs, shown, history
  <1>32. QED
    BY ZenonT(60), <1>1, <1>2, <1>3, <1>4, <1>5, <1>6, <1>7, <1>8, <1>9, <1>10, <1>11,
       <1>12, <1>13, <1>14, <1>15, <1>16, <1>17, <1>18, <1>19, <1>20, <1>21,
       <1>22, <1>23, <1>24, <1>25, <1>26, <1>27, <1>28, <1>29, <1>30, <1>31
       DEF Next, Start, StartUpdate, StartVerify, StartRestoreLast, Proceed

-----------------------------------------------------------------------------
(* What the steps have in common, and those that write no file. *)

LEMMA OnlyHolder ==
    ASSUME LockInv, NEW p \in Procs, run[p].pc # "idle"
    PROVE  /\ lock = p
           /\ \A q \in Procs \ {p} : run[q].pc = "idle"
           /\ HandRestoring <=> StopsHalfway(p)
  BY Zenon DEF LockInv, HandRestoring, StopsHalfway, At

\* A step of the process that holds the lock.
HolderMoves(p) ==
    /\ run[p].pc # "idle"
    /\ \A q \in Procs \ {p} : run'[q] = run[q]
    /\ lock' = lock \/ run'[p].pc = "idle"

LEMMA HolderStep ==
    ASSUME LockInv, NEW p \in Procs, HolderMoves(p)
    PROVE  /\ LockInv'
           /\ \A q \in Procs \ {p} : run'[q].pc = "idle"
           /\ HandRestoring' <=> StopsHalfway(p)'
  <1>1. \A q \in Procs \ {p} : run'[q].pc = "idle"
    BY Zenon, OnlyHolder DEF HolderMoves
  <1>2. HandRestoring' <=> StopsHalfway(p)'
    BY Zenon, <1>1 DEF HandRestoring, StopsHalfway, At
  <1>3. LockInv'
    BY Zenon, <1>1, OnlyHolder DEF LockInv, HolderMoves
  <1>4. QED BY Zenon, <1>1, <1>2, <1>3

\* What any commit makes durable is as safe as what is shown.
LEMMA CommitSafe ==
    ASSUME TypeOK, DirtyInv, NEW h,
           SafeImage(files, marker, lastBackup, backups, h),
           NEW d \in SUBSET dirty, NEW bs \in {TornBackups, SyncedBackups}
    PROVE  LET i == Image(d, bs) IN
           /\ SafeImage(i.files, i.marker, i.lastBackup, i.backups, h)
           /\ i.files = files
  <1> DEFINE i == Image(d, bs)
  <1>1. i.files = files
    BY Zenon DEF Image, DirtyInv, TypeOK
  <1>2. i.backups = bs /\ i.lastBackup \in {lastBackup, Empty}
        /\ i.marker = IF "marker" \in d THEN Empty ELSE marker
    BY Zenon DEF Image
  <1>3. \A b \in BackupId : backups[b].synced => bs[b].st = backups[b].st /\ bs[b].synced
                                 /\ bs[b].saved = backups[b].saved
    <2>1. CASE bs = TornBackups BY Zenon, <2>1 DEF TornBackups
    <2>2. CASE bs = SyncedBackups BY Zenon, <2>2 DEF SyncedBackups, TypeOK, Backup
    <2>3. QED BY Zenon, <2>1, <2>2
  <1>4. ~ Usable(Empty)
    BY Zenon, ConstantTypes DEF Usable
  <1>5. "marker" \in d => files \in stable
    BY Zenon DEF DirtyInv, SafeImage
  <1> HIDE DEF i
  <1>6. SafeImage(i.files, i.marker, i.lastBackup, i.backups, h)
    BY SMTT(60), <1>1, <1>2, <1>3, <1>4, <1>5 DEF SafeImage, Usable
  <1>7. QED BY Zenon, <1>1, <1>6 DEF i

LEMMA SafeSynced ==
    ASSUME TypeOK, NEW h, SafeImage(files, marker, lastBackup, backups, h)
    PROVE  SafeImage(files, marker, lastBackup, SyncedBackups, h)
  <1>1. \A b \in BackupId : /\ SyncedBackups[b].st = backups[b].st
                            /\ SyncedBackups[b].synced
                            /\ SyncedBackups[b].saved = backups[b].saved
    BY Zenon DEF SyncedBackups, TypeOK, Backup
  <1>2. QED BY Zenon, <1>1 DEF SafeImage, Usable

LEMMA InitInv == Init => Inv
  <1> SUFFICES ASSUME Init PROVE Inv BY Zenon
  <1>1. ~ Usable(NoBackup) BY Zenon, ConstantTypes DEF Usable
  <1>2. disk.files = files /\ disk.marker = NoBackup /\ disk.lastBackup = NoBackup
    BY Zenon, OtaAssumption DEF Init, Image
  <1>3. \A p \in Procs : run[p].pc = "idle" BY Zenon DEF Init, Idle
  <1>4. LockInv BY Zenon, <1>3 DEF LockInv
  <1>5. SafeShown /\ SafeDisk
    BY Zenon, <1>1, <1>2 DEF Init, SafeShown, SafeDisk, SafeImage
  <1>6. \A p \in Procs : RunInv(run[p])
    BY ZenonT(60), <1>3 DEF RunInv, Before, Saving, Applied
  <1>7. QED BY Zenon, <1>4, <1>5, <1>6 DEF Inv, DirtyInv, Init

\* The holder's own part of the invariant is all that concerns runs.
LEMMA RunsInv ==
    ASSUME LockInv, NEW p \in Procs, HolderMoves(p), RunInv(run[p])'
    PROVE  \A q \in Procs : RunInv(run[q])'
  <1> SUFFICES ASSUME NEW q \in Procs PROVE RunInv(run[q])' BY Zenon
  <1>1. CASE q = p BY Zenon, <1>1
  <1>2. CASE q # p
    <2>1. run'[q].pc = "idle" BY Zenon, <1>2, HolderStep
    <2>2. QED BY ZenonT(30), <2>1 DEF RunInv, Before, Saving, Applied
  <1>3. QED BY Zenon, <1>1, <1>2

\* Steps of the holder that leave the file system and its history alone.
LEMMA QuietStep ==
    ASSUME Inv, NEW p \in Procs, HolderMoves(p), UNCHANGED <<fs, history>>,
           run[p].pc # "restore", RunInv(run[p])'
    PROVE  Inv'
  <1>1. LockInv' /\ (HandRestoring' <=> StopsHalfway(p)')
    BY Zenon, HolderStep DEF Inv
  <1>2. Hand => Hand'
    BY Zenon, <1>1, OnlyHolder DEF Inv, Hand, history, StopsHalfway, At, HolderMoves
  <1>3. SafeShown' /\ SafeDisk'
    BY Zenon, <1>2 DEF Inv, SafeShown, SafeDisk, SafeImage, fs, shown, history, Undo, Usable
  <1>4. DirtyInv'
    BY Zenon DEF Inv, DirtyInv, fs, shown, Undo, Usable
  <1>5. QED BY ZenonT(60), <1>1, <1>3, <1>4, RunsInv DEF Inv

LEMMA TakeLockInv ==
    ASSUME TypeOK, Inv, NEW p \in Procs,
           NEW mode \in {"update", "verify", "restore-last"}, NEW force \in BOOLEAN,
           mode = "update" => ~ Usable(marker) /\ ~ halfRestored,
           TakeLock(p, mode, force)
    PROVE  Inv'
  <1>1. \A q \in Procs : run[q].pc = "idle"
    BY Zenon, OtaAssumption DEF TakeLock, Inv, LockInv, At
  <1>2. \A q \in Procs \ {p} : run'[q].pc = "idle"
    BY Zenon, <1>1 DEF TakeLock, TypeOK
  <1>3. /\ run'[p].pc = IF mode = "update" THEN "preflight" ELSE "open"
        /\ run'[p].mode = mode
    BY Zenon DEF TakeLock, TypeOK, Idle
  <1>4. ~ HandRestoring /\ ~ HandRestoring'
    BY Zenon, <1>1, <1>2, <1>3 DEF HandRestoring, StopsHalfway, At
  <1>5. UNCHANGED <<fs, history>> BY Zenon DEF TakeLock
  <1>6. SafeShown' /\ SafeDisk'
    BY ZenonT(60), <1>4, <1>5 DEF Inv, SafeShown, SafeDisk, SafeImage, fs, shown, history,
                      Undo, Usable, Hand
  <1>7. DirtyInv'
    BY Zenon, <1>5 DEF Inv, DirtyInv, fs, shown, Undo, Usable
  <1>8. LockInv' BY Zenon, <1>2 DEF LockInv, TakeLock
  <1>9. RunInv(run[p])'
    BY ZenonT(60), <1>3, <1>4, <1>5 DEF RunInv, Before, Saving, Applied, Inv, SafeShown,
       SafeImage, Hand, fs, shown, history, Usable
  <1>10. ASSUME NEW q \in Procs \ {p} PROVE RunInv(run[q])'
    BY Zenon, <1>2 DEF RunInv, Before, Saving, Applied
  <1>11. QED BY Zenon, <1>6, <1>7, <1>8, <1>9, <1>10 DEF Inv

LEMMA GotoMoves ==
    ASSUME TypeOK, NEW p \in Procs, NEW l, Goto(p, l)
    PROVE  /\ \A q \in Procs \ {p} : run'[q] = run[q]
           /\ run'[p] = [run[p] EXCEPT !.pc = l]
           /\ run'[p].pc = l /\ run'[p].mode = run[p].mode
           /\ run'[p].ver = run[p].ver /\ run'[p].bk = run[p].bk
           /\ run'[p].todo = run[p].todo
  BY Zenon DEF TypeOK, Goto, RunState

LEMMA ExitMoves ==
    ASSUME TypeOK, NEW p \in Procs, Exit(p)
    PROVE  /\ \A q \in Procs \ {p} : run'[q] = run[q]
           /\ run'[p].pc = "idle"
           /\ RunInv(run[p])'
  <1>1. /\ \A q \in Procs \ {p} : run'[q] = run[q]
        /\ run'[p].pc = "idle"
    BY Zenon DEF TypeOK, Exit, Idle
  <1>2. QED BY Zenon, <1>1 DEF RunInv, Before, Saving, Applied

LEMMA ExitInv ==
    ASSUME TypeOK, Inv, NEW p \in Procs, run[p].pc \notin {"idle", "restore"},
           Exit(p), UNCHANGED <<fs, history>>
    PROVE  Inv'
  BY Zenon, ExitMoves, QuietStep DEF HolderMoves

LEMMA PreflightInv ==
    ASSUME TypeOK, Inv, NEW p \in Procs, phase_preflight(p) PROVE Inv'
  <1>1. UNCHANGED <<fs, history>> /\ run[p].pc = "preflight"
    BY Zenon DEF phase_preflight, At
  <1>2. CASE Exit(p) BY Zenon, <1>1, <1>2, ExitInv
  <1>3. CASE Goto(p, "resolve") /\ UNCHANGED lock
    <2>0. run'[p].pc = "resolve" /\ run'[p].mode = run[p].mode
          /\ run'[p].ver = run[p].ver /\ run'[p].bk = run[p].bk
      BY Zenon, <1>3, GotoMoves
    <2>1. RunInv(run[p])'
      BY Zenon, <1>1, <2>0
         DEF Inv, RunInv, Before, Saving, Applied, fs, shown, history, Usable
    <2>2. QED BY ZenonT(60), <1>1, <1>3, <2>1, GotoMoves, QuietStep DEF HolderMoves
  <1>4. QED BY Zenon, <1>2, <1>3 DEF phase_preflight, Die

LEMMA ResolveInv ==
    ASSUME TypeOK, Inv, NEW p \in Procs, phase_resolve(p) PROVE Inv'
  <1>1. UNCHANGED <<fs, history>> /\ run[p].pc = "resolve"
    BY Zenon DEF phase_resolve, At
  <1>2. CASE Exit(p) BY Zenon, <1>1, <1>2, ExitInv
  <1>3. ASSUME NEW v \in Versions, UNCHANGED lock,
               run' = [run EXCEPT ![p] = [@ EXCEPT !.pc = "stage", !.ver = v]]
        PROVE  Inv'
    <2>1. /\ \A q \in Procs \ {p} : run'[q] = run[q]
          /\ run'[p].pc = "stage" /\ run'[p].mode = run[p].mode
          /\ run'[p].ver = v
      BY Zenon, <1>3 DEF TypeOK, RunState
    <2>2. RunInv(run[p])'
      BY Zenon, <1>1, <2>1
         DEF Inv, RunInv, Before, Saving, Applied, fs, shown, history, Usable
    <2>3. QED BY ZenonT(60), <1>1, <1>3, <2>1, <2>2, QuietStep DEF HolderMoves
  <1>4. QED BY Zenon, <1>2, <1>3 DEF phase_resolve

LEMMA StageInv ==
    ASSUME TypeOK, Inv, NEW p \in Procs, phase_stage(p) PROVE Inv'
  <1>1. UNCHANGED <<fs, history>> /\ run[p].pc = "stage"
    BY ZenonT(30) DEF phase_stage, At
  <1>2. CASE Exit(p) BY Zenon, <1>1, <1>2, ExitInv
  <1>3. CASE Goto(p, "backup") /\ UNCHANGED lock
    <2>0. run'[p].pc = "backup" /\ run'[p].mode = run[p].mode
          /\ run'[p].ver = run[p].ver /\ run'[p].bk = run[p].bk
      BY Zenon, <1>3, GotoMoves
    <2>1. RunInv(run[p])'
      BY ZenonT(60), <1>1, <2>0
         DEF Inv, RunInv, Before, Saving, Applied, fs, shown, history, Usable
    <2>2. QED BY Zenon, <1>1, <1>3, <2>1, GotoMoves, QuietStep DEF HolderMoves
  <1>4. QED BY Zenon, <1>2, <1>3 DEF phase_stage, Die

LEMMA ApplyFailsInv ==
    ASSUME TypeOK, Inv, NEW p \in Procs, ApplyFails(p) PROVE Inv'
  <1>1. UNCHANGED <<fs, history, lock>> /\ run[p].pc = "apply" /\ Goto(p, "open")
    BY Zenon DEF ApplyFails, At
  <1>0. run'[p].pc = "open" /\ run'[p].mode = run[p].mode
        /\ run'[p].bk = run[p].bk
    BY Zenon, <1>1, GotoMoves
  <1>2. RunInv(run[p])'
    BY Zenon, <1>0, <1>1
       DEF Inv, RunInv, Before, Saving, Applied, fs, shown, history, Usable
  <1>3. QED BY ZenonT(60), <1>1, <1>2, GotoMoves, QuietStep DEF HolderMoves

LEMMA AptInv ==
    ASSUME TypeOK, Inv, NEW p \in Procs, phase_apt(p) PROVE Inv'
  <1>1. UNCHANGED <<fs, history>> /\ run[p].pc = "apt"
    BY Zenon DEF phase_apt, At
  <1>2. CASE Exit(p) BY Zenon, <1>1, <1>2, ExitInv
  <1>3. CASE Goto(p, "version") /\ UNCHANGED lock
    <2>0. run'[p].pc = "version" /\ run'[p].mode = run[p].mode
          /\ run'[p].ver = run[p].ver /\ run'[p].bk = run[p].bk
      BY ZenonT(60), <1>3, GotoMoves
    <2>1. RunInv(run[p])'
      BY Zenon, <1>1, <2>0
         DEF Inv, RunInv, Before, Saving, Applied, fs, shown, history, Newest
    <2>2. QED BY Zenon, <1>1, <1>3, <2>1, GotoMoves, QuietStep DEF HolderMoves
  <1>4. QED BY Zenon, <1>2, <1>3 DEF phase_apt, Die

LEMMA RestoreOpenInv ==
    ASSUME TypeOK, Inv, NEW p \in Procs, RestoreOpen(p) PROVE Inv'
  <1> DEFINE b == NamedBackup(p)
             todo == {f \in Path : backups[b].saved[f] # NotSaved}
  <1>1. UNCHANGED <<fs, history>> /\ run[p].pc = "open"
    BY Zenon DEF RestoreOpen, At
  <1>2. CASE Exit(p) BY Zenon, <1>1, <1>2, ExitInv
  <1>3. CASE /\ b \in BackupId
             /\ run' = [run EXCEPT ![p] = [@ EXCEPT !.pc = "restore", !.bk = b,
                                                    !.todo = todo]]
             /\ UNCHANGED lock
    <2>1. /\ \A q \in Procs \ {p} : run'[q] = run[q]
          /\ run'[p].pc = "restore" /\ run'[p].mode = run[p].mode
          /\ run'[p].bk = b /\ run'[p].todo = todo
      BY Zenon, <1>3 DEF TypeOK, RunState
    <2>2. IF run[p].mode = "restore-last" THEN b = lastBackup ELSE b = marker
      BY Zenon, <1>1 DEF NamedBackup, Inv, RunInv, TypeOK, RunState
    <2>3. RunInv(run[p])'
      BY Zenon, <1>1, <1>3, <2>1, <2>2
         DEF RunInv, Before, Saving, Applied, fs, shown
    <2>4. QED BY Zenon, <1>1, <1>3, <2>1, <2>3, QuietStep DEF HolderMoves
  <1>4. QED BY Zenon, <1>2, <1>3 DEF RestoreOpen, Die

\* The parts of the invariant that a step of the holder has to re-establish.
LEMMA HolderInv ==
    ASSUME Inv, NEW p \in Procs, HolderMoves(p),
           SafeShown', SafeDisk', DirtyInv', RunInv(run[p])'
    PROVE  Inv'
  BY Zenon, HolderStep, RunsInv DEF Inv

LEMMA HandKept ==
    ASSUME Inv, NEW p \in Procs, HolderMoves(p), run[p].pc # "restore",
           halfRestored' = halfRestored
    PROVE  Hand => Hand'
  BY Zenon, OnlyHolder DEF Inv, Hand, StopsHalfway, At, HolderMoves

\* sync leaves what is shown safe and makes it durable.
LEMMA SyncAllSafe ==
    ASSUME TypeOK, DirtyInv, NEW h,
           SafeImage(files, marker, lastBackup, backups, h), SyncAll,
           UNCHANGED <<files, marker, lastBackup, stable>>
    PROVE  /\ SafeImage(files, marker, lastBackup, backups, h)'
           /\ SafeImage(disk.files, disk.marker, disk.lastBackup, disk.backups, h)'
           /\ DirtyInv' /\ disk'.files = files
           /\ \A b \in BackupId : /\ backups'[b].st = backups[b].st
                                  /\ backups'[b].synced
                                  /\ backups'[b].saved = backups[b].saved
  <1>1. SafeImage(files, marker, lastBackup, backups, h)'
    BY Zenon, SafeSynced DEF SyncAll, SafeImage, Undo, Usable
  <1>2. LET i == Image({}, SyncedBackups) IN
        /\ SafeImage(i.files, i.marker, i.lastBackup, i.backups, h)
        /\ i.files = files
    BY Zenon, CommitSafe
  <1>3. SafeImage(disk.files, disk.marker, disk.lastBackup, disk.backups, h)'
    BY ZenonT(60), <1>2 DEF SyncAll, SafeImage, Undo, Usable
  <1>4. DirtyInv' /\ disk'.files = files
    BY Zenon, <1>2 DEF SyncAll, DirtyInv
  <1>5. \A b \in BackupId : /\ backups'[b].st = backups[b].st
                            /\ backups'[b].synced
                            /\ backups'[b].saved = backups[b].saved
    BY Zenon DEF SyncAll, SyncedBackups, TypeOK, Backup
  <1>6. QED BY Zenon, <1>1, <1>3, <1>4, <1>5

\* A sync of the holder outside a restore.
LEMMA SyncAllInv ==
    ASSUME TypeOK, Inv, NEW p \in Procs, HolderMoves(p), run[p].pc # "restore",
           SyncAll, UNCHANGED <<files, marker, lastBackup, history>>,
           RunInv(run[p])'
    PROVE  Inv'
  <1>1. SafeImage(files, marker, lastBackup, backups, Hand')
    BY Zenon, HandKept DEF Inv, SafeShown, SafeImage, history
  <1>2. SafeShown' /\ SafeDisk' /\ DirtyInv'
    BY ZenonT(60), <1>1, SyncAllSafe DEF Inv, SafeShown, SafeDisk, SafeImage, history
  <1>3. QED BY Zenon, <1>2, HolderInv

LEMMA SyncOneInv ==
    ASSUME TypeOK, Inv, NEW p \in Procs, HolderMoves(p), run[p].pc # "restore",
           NEW x, SyncOne(x), UNCHANGED <<files, marker, lastBackup, history>>,
           RunInv(run[p])'
    PROVE  Inv'
  <1>1. SafeImage(files, marker, lastBackup, backups, Hand')
    BY ZenonT(60), HandKept DEF Inv, SafeShown, SafeImage, history
  <1>2. SafeShown'
    BY Zenon, <1>1 DEF SafeShown, SafeImage, SyncOne, history, Undo, Usable
  <1>3. LET i == Image(dirty \ {x}, TornBackups) IN
        SafeImage(i.files, i.marker, i.lastBackup, i.backups, Hand')
    BY Zenon, <1>1, CommitSafe DEF Inv
  <1>4. SafeDisk'
    BY ZenonT(60), <1>3 DEF SafeDisk, SafeImage, SyncOne, history, Undo, Usable
  <1>5. DirtyInv'
    BY Zenon DEF Inv, DirtyInv, SyncOne, Undo, Usable
  <1>6. QED BY ZenonT(60), <1>2, <1>4, <1>5, HolderInv

\* A step that changes one incomplete backup only: no name refers to it.
LEMMA OtherBackupInv ==
    ASSUME TypeOK, Inv, NEW p \in Procs, HolderMoves(p), run[p].pc # "restore",
           NEW b \in BackupId, backups[b].st # "complete",
           \A c \in BackupId \ {b} : backups'[c] = backups[c],
           UNCHANGED <<files, marker, lastBackup, dirty, disk, history>>,
           RunInv(run[p])'
    PROVE  Inv'
  <1>1. Usable(marker) => marker # b
    BY Zenon DEF Inv, SafeShown, SafeImage
  <1>2. Usable(lastBackup) => lastBackup # b
    BY Zenon DEF Inv, SafeShown, SafeImage
  <1>3. SafeShown'
    BY Zenon, <1>1, <1>2, HandKept
       DEF Inv, SafeShown, SafeImage, history, Undo, Usable
  <1>4. SafeDisk'
    BY ZenonT(60), HandKept DEF Inv, SafeDisk, SafeImage, history, Undo, Usable
  <1>5. DirtyInv'
    BY <1>1 DEF Inv, DirtyInv, Undo, Usable
  <1>6. QED BY Zenon, <1>3, <1>4, <1>5, HolderInv

-----------------------------------------------------------------------------
(* An update up to the files: the backup, the names of it that recovery  *)
(* uses, and the files of the release.                                   *)

LEMMA BackupOpenInv ==
    ASSUME TypeOK, Inv, NEW p \in Procs, BackupOpen(p) PROVE Inv'
  <1>1. PICK b \in BackupId :
          /\ \A c \in BackupId : c >= b => backups[c].st = "none"
          /\ backups' = [backups EXCEPT ![b] =
                           [NoDir EXCEPT !.st = "partial", !.synced = FALSE]]
          /\ run' = [run EXCEPT ![p] = [@ EXCEPT !.pc = "copy", !.bk = b,
                                !.todo = Payload[run[p].ver]]]
    BY Zenon DEF BackupOpen
  <1>2. /\ UNCHANGED <<files, marker, lastBackup, dirty, disk, lock, history>>
        /\ run[p].pc = "backup"
    BY Zenon DEF BackupOpen, At
  <1>3. /\ \A q \in Procs \ {p} : run'[q] = run[q]
        /\ run'[p].pc = "copy" /\ run'[p].mode = run[p].mode
        /\ run'[p].ver = run[p].ver /\ run'[p].bk = b
        /\ run'[p].todo = Payload[run[p].ver]
    BY Zenon, <1>1 DEF TypeOK, RunState
  <1>4. HolderMoves(p) BY Zenon, <1>2, <1>3 DEF HolderMoves
  <1>5. /\ \A c \in BackupId \ {b} : backups'[c] = backups[c]
        /\ backups'[b].st = "partial"
        /\ \A f \in Path : backups'[b].saved[f] = NotSaved
    BY Zenon, <1>1 DEF TypeOK, NoDir
  <1>6. backups[b].st = "none" BY <1>1 DEF BackupId
  <1>7. \A c \in BackupId : c > b => backups'[c].st = "none"
    BY SMTT(60), <1>1, <1>5, OtaAssumption DEF BackupId
  <1>8. /\ run[p].mode = "update" /\ ~ Usable(marker) /\ ~ halfRestored
        /\ files \in stable /\ run[p].ver \in Versions
    BY ZenonT(60), <1>2 DEF Inv, RunInv, Before
  <1>9. Covers(run[p])'
    BY ZenonT(60), <1>3, <1>5 DEF Covers
  <1>10. RunInv(run[p])'
    BY ZenonT(60), <1>2, <1>3, <1>5, <1>7, <1>8, <1>9
       DEF RunInv, Before, Saving, Applied, Newest, history, Usable
  <1>11. QED BY Zenon, <1>2, <1>4, <1>5, <1>6, <1>10, OtherBackupInv

LEMMA BackupFileInv ==
    ASSUME TypeOK, Inv, NEW p \in Procs, BackupFile(p) PROVE Inv'
  <1> DEFINE b == run[p].bk
  <1>1. PICK f \in run[p].todo :
          /\ backups' = [backups EXCEPT ![b].saved[f] = files[f]]
          /\ run' = [run EXCEPT ![p].todo = @ \ {f}]
    BY ZenonT(60) DEF BackupFile
  <1>2. /\ UNCHANGED <<files, marker, lastBackup, dirty, disk, lock, history>>
        /\ run[p].pc = "copy"
    BY Zenon DEF BackupFile, At
  <1>3. /\ \A q \in Procs \ {p} : run'[q] = run[q]
        /\ run'[p].pc = "copy" /\ run'[p].mode = run[p].mode
        /\ run'[p].ver = run[p].ver /\ run'[p].bk = b
        /\ run'[p].todo = run[p].todo \ {f}
    BY Zenon, <1>1, <1>2 DEF TypeOK, RunState
  <1>4. HolderMoves(p) BY Zenon, <1>2, <1>3 DEF HolderMoves
  <1>5. /\ run[p].ver \in Versions /\ b \in BackupId /\ Newest(b)
        /\ backups[b].st = "partial" /\ Covers(run[p])
        /\ run[p].todo \subseteq Payload[run[p].ver] /\ f \in Path
    BY Zenon, <1>2 DEF Inv, RunInv, Saving, TypeOK, RunState
  <1>6. /\ \A c \in BackupId \ {b} : backups'[c] = backups[c]
        /\ backups'[b].st = backups[b].st
        /\ \A g \in Path : backups'[b].saved[g] =
                             IF g = f THEN files[f] ELSE backups[b].saved[g]
    BY SMTT(60), ZenonT(60), <1>1, <1>5 DEF TypeOK, Backup
  <1> HIDE DEF b
  <1>7. \A c \in BackupId : c > b => backups'[c].st = "none"
    BY ZenonT(60), <1>5, <1>6, OtaAssumption DEF Newest, BackupId
  <1>8. Covers(run[p])'
    BY SMTT(60), ZenonT(60), <1>1, <1>2, <1>3, <1>5, <1>6 DEF Covers, b
  <1>9. RunInv(run[p])'
    BY ZenonT(60), <1>2, <1>3, <1>5, <1>6, <1>7, <1>8
       DEF Inv, RunInv, Before, Saving, Applied, Newest, history, Usable
  <1>10. QED BY ZenonT(60), <1>2, <1>4, <1>5, <1>6, <1>9, OtherBackupInv

LEMMA BackupCompleteInv ==
    ASSUME TypeOK, Inv, NEW p \in Procs, BackupComplete(p) PROVE Inv'
  <1> DEFINE b == run[p].bk
  <1>1. /\ UNCHANGED <<files, marker, lastBackup, dirty, disk, lock, history>>
        /\ run[p].pc = "copy" /\ run[p].todo = {} /\ Goto(p, "backup-sync")
        /\ backups' = [backups EXCEPT ![b].st = "complete"]
    BY Zenon DEF BackupComplete, At
  <1>2. /\ \A q \in Procs \ {p} : run'[q] = run[q]
        /\ run'[p].pc = "backup-sync" /\ run'[p].mode = run[p].mode
        /\ run'[p].ver = run[p].ver /\ run'[p].bk = b /\ run'[p].todo = {}
    BY ZenonT(60), <1>1, GotoMoves
  <1>3. HolderMoves(p) BY Zenon, <1>1, <1>2 DEF HolderMoves
  <1>4. /\ run[p].ver \in Versions /\ b \in BackupId /\ Newest(b)
        /\ backups[b].st = "partial" /\ Covers(run[p])
    BY Zenon, <1>1 DEF Inv, RunInv, Saving
  <1>5. /\ \A c \in BackupId \ {b} : backups'[c] = backups[c]
        /\ backups'[b].st = "complete"
        /\ backups'[b].saved = backups[b].saved
    BY SMTT(60), <1>1, <1>4 DEF TypeOK, Backup
  <1> HIDE DEF b
  <1>6. \A c \in BackupId : c > b => backups'[c].st = "none"
    BY Zenon, <1>4, <1>5, OtaAssumption DEF Newest, BackupId
  <1>7. Covers(run[p])'
    <2>1. \A f \in Path : IF f \in Payload[run[p].ver] \ run[p].todo
                          THEN backups[b].saved[f] = files[f]
                          ELSE backups[b].saved[f] = NotSaved
      BY Zenon, <1>4 DEF Covers, b
    <2>2. /\ run'[p].bk = b /\ run'[p].ver = run[p].ver /\ run'[p].todo = run[p].todo
          /\ files' = files /\ backups'[b].saved = backups[b].saved
      BY Zenon, <1>1, <1>2, <1>5
    <2>3. QED BY ZenonT(60), <2>1, <2>2 DEF Covers
  <1>8. RunInv(run[p])'
    BY ZenonT(60), <1>1, <1>2, <1>4, <1>5, <1>6, <1>7
       DEF Inv, RunInv, Before, Saving, Applied, Newest, history, Usable
  <1>9. QED BY Zenon, <1>1, <1>3, <1>4, <1>5, <1>8, OtherBackupInv

LEMMA BackupSyncInv ==
    ASSUME TypeOK, Inv, NEW p \in Procs, BackupSync(p) PROVE Inv'
  <1>1. /\ UNCHANGED <<files, marker, lastBackup, lock, history>>
        /\ run[p].pc = "backup-sync" /\ Goto(p, "last") /\ SyncAll
    BY Zenon DEF BackupSync, At
  <1>2. /\ \A q \in Procs \ {p} : run'[q] = run[q]
        /\ run'[p].pc = "last" /\ run'[p].mode = run[p].mode
        /\ run'[p].ver = run[p].ver /\ run'[p].bk = run[p].bk
        /\ run'[p].todo = run[p].todo
    BY ZenonT(60), <1>1, GotoMoves
  <1>3. HolderMoves(p) BY Zenon, <1>1, <1>2 DEF HolderMoves
  <1>4. \A b \in BackupId : /\ backups'[b].st = backups[b].st
                            /\ backups'[b].synced
                            /\ backups'[b].saved = backups[b].saved
    BY Zenon, <1>1, SyncAllSafe DEF Inv, SafeShown, history
  <1>5. /\ run[p].mode = "update" /\ ~ Usable(marker) /\ ~ halfRestored
        /\ files \in stable /\ run[p].ver \in Versions /\ run[p].bk \in BackupId
        /\ Newest(run[p].bk) /\ backups[run[p].bk].st = "complete"
        /\ run[p].todo = {} /\ Covers(run[p])
    BY ZenonT(60), <1>1 DEF Inv, RunInv, Saving
  <1>6. Covers(run[p])' /\ Newest(run[p].bk)'
    <2>1. run'[p].bk = run[p].bk /\ run'[p].ver = run[p].ver
          /\ run'[p].todo = run[p].todo /\ files' = files
      BY Zenon, <1>1, <1>2
    <2>2. Newest(run[p].bk)'
      BY Zenon, <1>4, <1>5, <2>1 DEF Newest
    <2>3. backups'[run[p].bk].saved = backups[run[p].bk].saved
      BY Zenon, <1>4, <1>5
    <2>4. Covers(run[p])'
      BY Zenon, <1>5, <2>1, <2>3 DEF Covers
    <2>5. QED BY Zenon, <2>2, <2>4
  <1>7. RunInv(run[p])'
    BY ZenonT(60), <1>1, <1>2, <1>4, <1>5, <1>6
       DEF RunInv, Before, Saving, Applied, history, Usable
  <1>8. QED BY ZenonT(60), <1>1, <1>3, <1>7, SyncAllInv

\* Restoring a backup of exactly the files there are changes nothing.
LEMMA UndoSelf ==
    ASSUME TypeOK, NEW p \in Procs, run[p].bk \in BackupId, Covers(run[p])
    PROVE  Undo(files, backups[run[p].bk].saved) = files
  BY Zenon, ConstantTypes DEF TypeOK, Covers, Undo

LEMMA RecordLastInv ==
    ASSUME TypeOK, Inv, NEW p \in Procs, RecordLast(p) PROVE Inv'
  <1>1. /\ UNCHANGED <<files, marker, backups, disk, lock, history>>
        /\ run[p].pc = "last" /\ Goto(p, "mark")
        /\ lastBackup' = run[p].bk /\ dirty' = dirty \cup {"lastBackup"}
    BY Zenon DEF RecordLast, At
  <1>2. /\ \A q \in Procs \ {p} : run'[q] = run[q]
        /\ run'[p].pc = "mark" /\ run'[p].mode = run[p].mode
        /\ run'[p].ver = run[p].ver /\ run'[p].bk = run[p].bk
        /\ run'[p].todo = run[p].todo
    BY ZenonT(60), <1>1, GotoMoves
  <1>3. HolderMoves(p) BY Zenon, <1>1, <1>2 DEF HolderMoves
  <1>4. /\ ~ Usable(marker) /\ files \in stable /\ run[p].bk \in BackupId
        /\ backups[run[p].bk].st = "complete" /\ backups[run[p].bk].synced
        /\ Covers(run[p]) /\ run[p].mode = "update" /\ ~ halfRestored
        /\ run[p].todo = {} /\ run[p].ver \in Versions /\ Newest(run[p].bk)
    BY ZenonT(60), <1>1 DEF Inv, RunInv, Saving
  <1>5. SafeShown'
    BY Zenon, <1>1, <1>4, UndoSelf DEF SafeShown, SafeImage, history, Undo, Usable
  <1>6. SafeDisk'
    BY ZenonT(60), <1>1, <1>3, HandKept DEF Inv, SafeDisk, SafeImage, history, Undo, Usable
  <1>7. DirtyInv'
    BY Zenon, <1>1, <1>4, OtaAssumption DEF Inv, DirtyInv, Records
  <1>8. RunInv(run[p])'
    BY ZenonT(60), <1>1, <1>2, <1>4
       DEF RunInv, Before, Saving, Applied, Newest, Covers, history, Usable
  <1>9. QED BY Zenon, <1>3, <1>5, <1>6, <1>7, <1>8, HolderInv

LEMMA WriteMarkerInv ==
    ASSUME TypeOK, Inv, NEW p \in Procs, WriteMarker(p) PROVE Inv'
  <1>1. /\ UNCHANGED <<files, lastBackup, backups, disk, lock, history>>
        /\ run[p].pc = "mark" /\ Goto(p, "mark-sync")
        /\ marker' = run[p].bk /\ dirty' = dirty \cup {"marker"}
    BY Zenon DEF WriteMarker, At
  <1>2. /\ \A q \in Procs \ {p} : run'[q] = run[q]
        /\ run'[p].pc = "mark-sync" /\ run'[p].mode = run[p].mode
        /\ run'[p].ver = run[p].ver /\ run'[p].bk = run[p].bk
        /\ run'[p].todo = run[p].todo
    BY Zenon, <1>1, GotoMoves
  <1>3. HolderMoves(p) BY Zenon, <1>1, <1>2 DEF HolderMoves
  <1>4. /\ files \in stable /\ run[p].bk \in BackupId
        /\ backups[run[p].bk].st = "complete" /\ backups[run[p].bk].synced
        /\ Covers(run[p]) /\ lastBackup = run[p].bk
        /\ run[p].mode = "update" /\ ~ halfRestored /\ run[p].todo = {}
        /\ run[p].ver \in Versions /\ Newest(run[p].bk)
    BY ZenonT(60), <1>1 DEF Inv, RunInv
  <1>5. SafeShown'
    BY Zenon, <1>1, <1>4, UndoSelf DEF SafeShown, SafeImage, history, Undo, Usable
  <1>6. SafeDisk'
    BY ZenonT(60), <1>1, <1>3, HandKept DEF Inv, SafeDisk, SafeImage, history, Undo, Usable
  <1>7. DirtyInv'
    <2>1. dirty' \cap Path = {}
      <3>1. dirty \cap Path = {} BY Zenon DEF Inv, DirtyInv
      <3>2. "marker" \notin Path BY Zenon, OtaAssumption DEF Records
      <3>3. QED BY Zenon, <1>1, <3>1, <3>2
    <2>2. Usable(marker)' BY ZenonT(60), <1>1, <1>4 DEF Usable
    <2>3. files' = Undo(files', backups'[marker'].saved)
      BY ZenonT(60), <1>1, <1>4, UndoSelf
    <2>4. QED BY Zenon, <2>1, <2>2, <2>3 DEF DirtyInv
  <1>8. RunInv(run[p])'
    BY ZenonT(60), <1>1, <1>2, <1>4
       DEF RunInv, Before, Saving, Applied, Newest, Covers, history
  <1>9. QED BY Zenon, <1>3, <1>5, <1>6, <1>7, <1>8, HolderInv

LEMMA SyncMarkerInv ==
    ASSUME TypeOK, Inv, NEW p \in Procs, SyncMarker(p) PROVE Inv'
  <1>1. /\ UNCHANGED <<files, marker, lastBackup, backups, lock, history>>
        /\ run[p].pc = "mark-sync" /\ SyncOne("marker")
        /\ run' = [run EXCEPT ![p] = [@ EXCEPT !.pc = "apply",
                                        !.todo = Payload[run[p].ver]]]
    BY Zenon DEF SyncMarker, At, SyncOne
  <1>2. /\ \A q \in Procs \ {p} : run'[q] = run[q]
        /\ run'[p].pc = "apply" /\ run'[p].mode = run[p].mode
        /\ run'[p].ver = run[p].ver /\ run'[p].bk = run[p].bk
        /\ run'[p].todo = Payload[run[p].ver]
    BY Zenon, <1>1 DEF TypeOK, RunState
  <1>3. HolderMoves(p) BY Zenon, <1>1, <1>2 DEF HolderMoves
  <1>4. "marker" \notin dirty' BY Zenon, <1>1 DEF SyncOne
  <1>5. \A f \in Payload[run[p].ver] : backups[run[p].bk].saved[f] # NotSaved
    <2>1. run[p].todo = {} /\ Covers(run[p]) /\ run[p].ver \in Versions
      BY Zenon, <1>1 DEF Inv, RunInv
    <2>2. Payload[run[p].ver] \subseteq Path
      BY Zenon, <2>1, OtaAssumption
    <2>3. QED BY SMTT(60), ZenonT(60), <2>1, <2>2, ConstantTypes DEF Covers, TypeOK
  <1>6. /\ run[p].mode = "update" /\ run[p].ver \in Versions
        /\ run[p].bk \in BackupId /\ Newest(run[p].bk)
        /\ marker = run[p].bk /\ lastBackup = run[p].bk /\ ~ halfRestored
    BY Zenon, <1>1 DEF Inv, RunInv
  <1>7. RunInv(run[p])'
    BY Zenon, <1>1, <1>2, <1>4, <1>5, <1>6
       DEF RunInv, Before, Saving, Applied, Newest, history
  <1>8. QED BY ZenonT(30), <1>1, <1>3, <1>7, SyncOneInv

\* Writing a file that the backup has changes nothing that restoring it
\* would leave.
LEMMA UndoInstall ==
    ASSUME TypeOK, NEW saved, NEW f \in Path, saved[f] # NotSaved, NEW c,
           files' = [files EXCEPT ![f] = c]
    PROVE  Undo(files', saved) = Undo(files, saved)
  BY Zenon DEF Undo, TypeOK

LEMMA ApplyOneInv ==
    ASSUME TypeOK, Inv, NEW p \in Procs, apply_one(p) PROVE Inv'
  <1>1. /\ UNCHANGED <<marker, lastBackup, backups, disk, lock, history>>
        /\ run[p].pc = "apply"
    BY Zenon DEF apply_one, At
  <1>2. PICK f \in run[p].todo :
          /\ atomic_install(f, run[p].ver)
          /\ run' = [run EXCEPT ![p].todo = @ \ {f}]
    BY ZenonT(60) DEF apply_one
  <1>3. /\ \A q \in Procs \ {p} : run'[q] = run[q]
        /\ run'[p].pc = "apply" /\ run'[p].mode = run[p].mode
        /\ run'[p].ver = run[p].ver /\ run'[p].bk = run[p].bk
        /\ run'[p].todo = run[p].todo \ {f}
    BY Zenon, <1>1, <1>2 DEF TypeOK, RunState
  <1>4. HolderMoves(p) BY Zenon, <1>1, <1>3 DEF HolderMoves
  <1>5. /\ marker = run[p].bk /\ lastBackup = run[p].bk /\ run[p].bk \in BackupId
        /\ backups[run[p].bk].saved[f] # NotSaved /\ f \in Path
        /\ "marker" \notin dirty /\ run[p].mode = "update" /\ ~ halfRestored
        /\ run[p].ver \in Versions /\ Newest(run[p].bk)
        /\ run[p].todo \subseteq Payload[run[p].ver]
        /\ \A g \in Payload[run[p].ver] : backups[run[p].bk].saved[g] # NotSaved
    BY SMTT(60), ZenonT(60), <1>1, <1>2 DEF Inv, RunInv, TypeOK, RunState
  <1>6. Undo(files', backups[marker].saved) = Undo(files, backups[marker].saved)
    BY ZenonT(60), <1>2, <1>5, UndoInstall DEF atomic_install
  <1>7. SafeShown'
    BY ZenonT(60), <1>1, <1>5, <1>6 DEF Inv, SafeShown, SafeImage, history, Usable
  <1>8. SafeDisk'
    BY ZenonT(60), <1>1, <1>4, HandKept DEF Inv, SafeDisk, SafeImage, history, Undo, Usable
  <1>9. DirtyInv'
    BY Zenon, <1>2, <1>5 DEF Inv, DirtyInv, atomic_install
  <1>10. RunInv(run[p])'
    BY Zenon, <1>1, <1>2, <1>3, <1>5
       DEF RunInv, Before, Saving, Applied, Newest, history, atomic_install
  <1>11. QED BY Zenon, <1>4, <1>7, <1>8, <1>9, <1>10, HolderInv

LEMMA ApplyDoneInv ==
    ASSUME TypeOK, Inv, NEW p \in Procs, ApplyDone(p) PROVE Inv'
  <1>1. /\ UNCHANGED <<files, lastBackup, backups, disk, lock, halfRestored>>
        /\ run[p].pc = "apply" /\ Goto(p, "apply-sync")
        /\ marker' = NoBackup /\ dirty' = dirty \ {"marker"}
        /\ stable' = stable \cup {files}
    BY Zenon DEF ApplyDone, At
  <1>2. /\ \A q \in Procs \ {p} : run'[q] = run[q]
        /\ run'[p].pc = "apply-sync" /\ run'[p].mode = run[p].mode
        /\ run'[p].ver = run[p].ver /\ run'[p].bk = run[p].bk
    BY Zenon, <1>1, GotoMoves
  <1>3. HolderMoves(p) BY Zenon, <1>1, <1>2 DEF HolderMoves
  <1>4. ~ Usable(NoBackup) BY Zenon, ConstantTypes DEF Usable
  <1>5. SafeShown'
    BY Zenon, <1>1, <1>4 DEF Inv, SafeShown, SafeImage, Usable, Undo
  <1>6. SafeDisk'
    BY Zenon, <1>1, <1>3, HandKept DEF Inv, SafeDisk, SafeImage, Undo, Usable
  <1>7. DirtyInv' BY Zenon, <1>1 DEF Inv, DirtyInv
  <1>8. RunInv(run[p])'
    BY ZenonT(60), <1>1, <1>2
       DEF Inv, RunInv, Before, Saving, Applied, Newest
  <1>9. QED BY Zenon, <1>3, <1>5, <1>6, <1>7, <1>8, HolderInv

\* What the invariant says of a run that has applied its files.
AppliedRun(p) ==
    /\ run[p].mode = "update" /\ run[p].ver \in Versions
    /\ run[p].bk \in BackupId /\ Newest(run[p].bk) /\ lastBackup = run[p].bk
    /\ marker = NoBackup /\ ~ halfRestored /\ files \in stable

LEMMA AppliedRunInv ==
    ASSUME NEW p \in Procs
    PROVE  /\ RunInv(run[p]) /\ run[p].pc \in Applied => AppliedRun(p)
           /\ AppliedRun(p) /\ run[p].pc \in Applied => RunInv(run[p])
  BY Zenon DEF AppliedRun, RunInv, Applied, Before, Saving

\* It only depends on these parts of the state.
LEMMA AppliedRunKept ==
    ASSUME NEW p \in Procs, AppliedRun(p),
           UNCHANGED <<files, marker, lastBackup, history>>,
           \A b \in BackupId : backups'[b].st \in {backups[b].st, "none"},
           run'[p].mode = run[p].mode, run'[p].ver = run[p].ver,
           run'[p].bk = run[p].bk, run'[p].pc \in Applied
    PROVE  RunInv(run[p])'
  <1>1. Newest(run[p].bk)'
    BY Zenon DEF AppliedRun, Newest
  <1>2. AppliedRun(p)'
    BY ZenonT(30), <1>1 DEF AppliedRun, history
  <1>3. QED BY ZenonT(60), <1>2 DEF AppliedRun, RunInv, Applied, Before, Saving

-----------------------------------------------------------------------------
(* What follows the files, restoring, and the theorems. *)

LEMMA ApplySyncInv ==
    ASSUME TypeOK, Inv, NEW p \in Procs, ApplySync(p) PROVE Inv'
  <1>1. /\ UNCHANGED <<files, marker, lastBackup, lock, history>>
        /\ run[p].pc = "apply-sync" /\ Goto(p, "apt") /\ SyncAll
    BY Zenon DEF ApplySync, At
  <1>2. /\ \A q \in Procs \ {p} : run'[q] = run[q]
        /\ run'[p].pc = "apt" /\ run'[p].mode = run[p].mode
        /\ run'[p].ver = run[p].ver /\ run'[p].bk = run[p].bk
    BY ZenonT(60), <1>1, GotoMoves
  <1>3. HolderMoves(p) BY Zenon, <1>1, <1>2 DEF HolderMoves
  <1>4. \A b \in BackupId : backups'[b].st = backups[b].st
    BY ZenonT(60), <1>1, SyncAllSafe DEF Inv, SafeShown, history
  <1>5. AppliedRun(p) BY Zenon, <1>1, AppliedRunInv DEF Inv, Applied
  <1>6. RunInv(run[p])'
    BY Zenon, <1>1, <1>2, <1>4, <1>5, AppliedRunKept DEF Applied
  <1>7. QED BY Zenon, <1>1, <1>3, <1>6, SyncAllInv

\* A step that writes records the invariant does not read.
LEMMA RecordInv ==
    ASSUME TypeOK, Inv, NEW p \in Procs, HolderMoves(p), run[p].pc # "restore",
           UNCHANGED <<files, marker, lastBackup, backups, disk, history>>,
           dirty' \subseteq dirty \cup {"installed", "units"},
           RunInv(run[p])'
    PROVE  Inv'
  <1>1. SafeShown' /\ SafeDisk'
    BY ZenonT(60), HandKept
       DEF Inv, SafeShown, SafeDisk, SafeImage, history, Undo, Usable
  <1>2. DirtyInv'
    BY Zenon, OtaAssumption DEF Inv, DirtyInv, Records, Undo, Usable
  <1>3. QED BY Zenon, <1>1, <1>2, HolderInv

LEMMA RecordVersionInv ==
    ASSUME TypeOK, Inv, NEW p \in Procs, RecordVersion(p) PROVE Inv'
  <1>1. /\ UNCHANGED <<files, marker, lastBackup, backups, disk, lock, history>>
        /\ run[p].pc = "version" /\ Goto(p, "version-sync")
        /\ dirty' = dirty \cup {"installed"}
    BY Zenon DEF RecordVersion, At
  <1>2. /\ \A q \in Procs \ {p} : run'[q] = run[q]
        /\ run'[p].pc = "version-sync" /\ run'[p].mode = run[p].mode
        /\ run'[p].ver = run[p].ver /\ run'[p].bk = run[p].bk
    BY ZenonT(60), <1>1, GotoMoves
  <1>3. HolderMoves(p) BY Zenon, <1>1, <1>2 DEF HolderMoves
  <1>4. AppliedRun(p) BY Zenon, <1>1, AppliedRunInv DEF Inv, Applied
  <1>5. RunInv(run[p])'
    BY Zenon, <1>1, <1>2, <1>4, AppliedRunKept DEF Applied
  <1>6. QED BY Zenon, <1>1, <1>3, <1>5, RecordInv

LEMMA SyncVersionInv ==
    ASSUME TypeOK, Inv, NEW p \in Procs, SyncVersion(p) PROVE Inv'
  <1>1. /\ UNCHANGED <<files, marker, lastBackup, backups, lock, history>>
        /\ run[p].pc = "version-sync" /\ Goto(p, "units")
        /\ SyncOne("installed")
    BY Zenon DEF SyncVersion, At, SyncOne
  <1>2. /\ \A q \in Procs \ {p} : run'[q] = run[q]
        /\ run'[p].pc = "units" /\ run'[p].mode = run[p].mode
        /\ run'[p].ver = run[p].ver /\ run'[p].bk = run[p].bk
    BY ZenonT(60), <1>1, GotoMoves
  <1>3. HolderMoves(p) BY Zenon, <1>1, <1>2 DEF HolderMoves
  <1>4. AppliedRun(p) BY Zenon, <1>1, AppliedRunInv DEF Inv, Applied
  <1>5. RunInv(run[p])'
    BY ZenonT(60), <1>1, <1>2, <1>4, AppliedRunKept DEF Applied
  <1>6. QED BY ZenonT(60), <1>1, <1>3, <1>5, SyncOneInv

LEMMA InstallUnitsInv ==
    ASSUME TypeOK, Inv, NEW p \in Procs, InstallUnits(p) PROVE Inv'
  <1>1. /\ UNCHANGED <<files, marker, lastBackup, backups, disk, lock, history>>
        /\ run[p].pc = "units" /\ Goto(p, "prune")
        /\ dirty' \subseteq dirty \cup {"units"}
    BY Zenon DEF InstallUnits, At
  <1>2. /\ \A q \in Procs \ {p} : run'[q] = run[q]
        /\ run'[p].pc = "prune" /\ run'[p].mode = run[p].mode
        /\ run'[p].ver = run[p].ver /\ run'[p].bk = run[p].bk
    BY ZenonT(60), <1>1, GotoMoves
  <1>3. HolderMoves(p) BY Zenon, <1>1, <1>2 DEF HolderMoves
  <1>4. AppliedRun(p) BY Zenon, <1>1, AppliedRunInv DEF Inv, Applied
  <1>5. RunInv(run[p])'
    BY ZenonT(60), <1>1, <1>2, <1>4, AppliedRunKept DEF Applied
  <1>6. QED BY ZenonT(60), <1>1, <1>3, <1>5, RecordInv

\* Pruning never removes the newest backup, the only one that is named.
LEMMA PruneInv ==
    ASSUME TypeOK, Inv, NEW p \in Procs, prune_backups(p) PROVE Inv'
  <1>1. /\ UNCHANGED <<files, marker, lastBackup, dirty, disk, lock, history>>
        /\ run[p].pc = "prune" /\ Goto(p, "end")
        /\ backups' = [b \in BackupId |->
                         IF Cardinality(Newer(b)) >= BackupsToKeep THEN NoDir
                         ELSE backups[b]]
    BY Zenon DEF prune_backups, At
  <1>2. /\ \A q \in Procs \ {p} : run'[q] = run[q]
        /\ run'[p].pc = "end" /\ run'[p].mode = run[p].mode
        /\ run'[p].ver = run[p].ver /\ run'[p].bk = run[p].bk
    BY ZenonT(60), <1>1, GotoMoves
  <1>3. HolderMoves(p) BY Zenon, <1>1, <1>2 DEF HolderMoves
  <1>4. AppliedRun(p) BY Zenon, <1>1, AppliedRunInv DEF Inv, Applied
  <1>5. backups'[lastBackup] = backups[lastBackup]
    <2>1. Newer(lastBackup) = {}
      BY Zenon, <1>4 DEF AppliedRun, Newest, Newer
    <2>2. Cardinality(Newer(lastBackup)) = 0
      BY Zenon, <2>1, NoneCounted
    <2>3. ~ (Cardinality(Newer(lastBackup)) >= BackupsToKeep)
      BY SMTT(60), <2>2, OtaAssumption
    <2>4. lastBackup \in BackupId BY Zenon, <1>4 DEF AppliedRun
    <2>5. QED BY Zenon, <1>1, <2>3, <2>4
  <1>6. \A b \in BackupId : backups'[b].st \in {backups[b].st, "none"}
    BY ZenonT(60), <1>1 DEF NoDir
  <1>7. RunInv(run[p])'
    BY Zenon, <1>1, <1>2, <1>4, <1>6, AppliedRunKept DEF Applied
  <1>8. ~ Usable(marker)
    BY Zenon, <1>4, ConstantTypes DEF AppliedRun, Usable
  <1>9. SafeShown'
    BY ZenonT(60), <1>1, <1>3, <1>5, <1>8, HandKept
       DEF Inv, SafeShown, SafeImage, history, Undo, Usable
  <1>10. SafeDisk'
    BY ZenonT(60), <1>1, <1>3, HandKept DEF Inv, SafeDisk, SafeImage, history, Undo, Usable
  <1>11. DirtyInv'
    BY ZenonT(60), <1>1, <1>8 DEF Inv, DirtyInv
  <1>12. QED BY Zenon, <1>3, <1>7, <1>9, <1>10, <1>11, HolderInv

LEMMA FinishWithRebootInv ==
    ASSUME TypeOK, Inv, NEW p \in Procs, FinishWithReboot(p) PROVE Inv'
  <1>1. /\ UNCHANGED <<files, marker, lastBackup, history>>
        /\ run[p].pc = "end" /\ Exit(p) /\ SyncAll
    BY Zenon DEF FinishWithReboot, At
  <1>2. HolderMoves(p) /\ RunInv(run[p])'
    BY Zenon, <1>1, ExitMoves DEF HolderMoves
  <1>3. QED BY ZenonT(60), <1>1, <1>2, SyncAllInv

\* The backup a restore works from, whichever name led to it.
LEMMA RestoredBackup ==
    ASSUME Inv, NEW p \in Procs, run[p].pc = "restore"
    PROVE  /\ run[p].bk \in BackupId
           /\ Usable(marker) => marker = run[p].bk
           /\ Usable(lastBackup) /\ (Usable(marker) \/ run[p].mode = "restore-last")
                 => lastBackup = run[p].bk
           /\ Usable(marker) \/ run[p].mode = "restore-last"
           /\ Undo(files, backups[run[p].bk].saved) \in stable
  <1>1. /\ run[p].bk \in BackupId
        /\ IF run[p].mode = "restore-last" THEN lastBackup = run[p].bk
                                           ELSE marker = run[p].bk
    BY ZenonT(60) DEF Inv, RunInv
  <1>2. ~ Usable(Empty) BY Zenon, ConstantTypes DEF Usable
  <1>3. Usable(marker) => lastBackup \in {marker, Empty}
    BY ZenonT(60) DEF Inv, SafeShown, SafeImage
  <1>4. QED
    BY Zenon, <1>1, <1>2, <1>3 DEF Inv, SafeShown, SafeImage, Usable

LEMMA RestoreFileInv ==
    ASSUME TypeOK, Inv, NEW p \in Procs, RestoreFile(p) PROVE Inv'
  <1> DEFINE saved == backups[run[p].bk].saved
  <1>1. /\ UNCHANGED <<marker, lastBackup, backups, disk, lock, history>>
        /\ run[p].pc = "restore"
    BY Zenon DEF RestoreFile, At
  <1>2. PICK f \in run[p].todo :
          /\ atomic_install(f, saved[f])
          /\ run' = [run EXCEPT ![p].todo = @ \ {f}]
    BY ZenonT(60) DEF RestoreFile
  <1>3. /\ \A q \in Procs \ {p} : run'[q] = run[q]
        /\ run'[p].pc = "restore" /\ run'[p].mode = run[p].mode
        /\ run'[p].bk = run[p].bk /\ run'[p].todo = run[p].todo \ {f}
    BY Zenon, <1>1, <1>2 DEF TypeOK, RunState
  <1>4. HolderMoves(p) BY Zenon, <1>1, <1>3 DEF HolderMoves
  <1>5. /\ run[p].bk \in BackupId
        /\ IF run[p].mode = "restore-last" THEN lastBackup = run[p].bk
                                           ELSE marker = run[p].bk
        /\ run[p].todo \subseteq {g \in Path : saved[g] # NotSaved}
        /\ \A g \in Path : saved[g] # NotSaved /\ g \notin run[p].todo
                              => files[g] = saved[g]
    BY ZenonT(60), <1>1 DEF Inv, RunInv
  <1>6. /\ f \in Path /\ saved[f] # NotSaved
        /\ files' = [files EXCEPT ![f] = saved[f]]
    BY Zenon, <1>2, <1>5 DEF atomic_install
  <1>7. Undo(files', saved) = Undo(files, saved)
    BY ZenonT(60), <1>6, UndoInstall
  <1>8. Hand <=> Hand'
    BY Zenon, <1>1, <1>3, <1>4, OnlyHolder, HolderStep
       DEF Inv, Hand, history, StopsHalfway, At, Usable
  <1>9. SafeShown'
    BY ZenonT(60), <1>1, <1>7, <1>8, RestoredBackup, OnlyHolder
       DEF Inv, SafeShown, SafeImage, history, Usable, Hand, StopsHalfway, At
  <1>10. SafeDisk'
    BY ZenonT(60), <1>1, <1>8 DEF Inv, SafeDisk, SafeImage, history, Undo, Usable
  <1>11. DirtyInv'
    <2>1. dirty' = dirty \ {f} BY Zenon, <1>2 DEF atomic_install
    <2>2. ASSUME "marker" \in dirty'
          PROVE  Usable(marker) /\ files' = Undo(files', backups[marker].saved)
      <3>1. Usable(marker) /\ files = Undo(files, saved) /\ marker = run[p].bk
        BY ZenonT(60), <1>1, <2>1, <2>2, RestoredBackup DEF Inv, DirtyInv
      <3>2. saved[f] = files[f]
        BY Zenon, <1>6, <3>1 DEF Undo
      <3>3. files' = files
        BY Zenon, <1>6, <3>2 DEF TypeOK
      <3>4. QED BY Zenon, <3>1, <3>3
    <2>3. QED BY Zenon, <1>1, <2>1, <2>2 DEF Inv, DirtyInv, Undo, Usable
  <1>12. \A g \in Path : saved[g] # NotSaved /\ g \notin run'[p].todo
                              => files'[g] = saved[g]
    BY ZenonT(60), <1>3, <1>5, <1>6 DEF TypeOK
  <1> HIDE DEF saved
  <1>13. RunInv(run[p])'
    BY ZenonT(60), <1>1, <1>3, <1>5, <1>12
       DEF RunInv, Before, Saving, Applied, saved
  <1>14. QED BY Zenon, <1>4, <1>9, <1>10, <1>11, <1>13, HolderInv

LEMMA RestoreSyncInv ==
    ASSUME TypeOK, Inv, NEW p \in Procs, RestoreSync(p) PROVE Inv'
  <1> DEFINE saved == backups[run[p].bk].saved
  <1>1. /\ UNCHANGED <<files, marker, lastBackup, lock, history>>
        /\ run[p].pc = "restore" /\ run[p].todo = {}
        /\ Goto(p, "unmark") /\ SyncAll
    BY Zenon DEF RestoreSync, At
  <1>2. /\ \A q \in Procs \ {p} : run'[q] = run[q]
        /\ run'[p].pc = "unmark" /\ run'[p].mode = run[p].mode
        /\ run'[p].bk = run[p].bk
    BY ZenonT(60), <1>1, GotoMoves
  <1>3. HolderMoves(p) BY ZenonT(60), <1>1, <1>2 DEF HolderMoves
  <1>4. files \in stable
    <2>1. \A f \in Path : saved[f] # NotSaved => files[f] = saved[f]
      BY ZenonT(60), <1>1 DEF Inv, RunInv
    <2>2. Undo(files, saved) = files BY Zenon, <2>1 DEF Undo, TypeOK
    <2>3. QED BY ZenonT(60), <1>1, <2>2, RestoredBackup
  <1>5. \A h : SafeImage(files, marker, lastBackup, backups, h)
    BY ZenonT(60), <1>4 DEF Inv, SafeShown, SafeImage
  <1>6. SafeShown' /\ SafeDisk' /\ DirtyInv' /\ disk'.files = files
    <2>1. SafeImage(files, marker, lastBackup, backups, FALSE) BY Zenon, <1>5
    <2>2. /\ SafeImage(files, marker, lastBackup, backups, FALSE)'
          /\ SafeImage(disk.files, disk.marker, disk.lastBackup, disk.backups, FALSE)'
          /\ DirtyInv' /\ disk'.files = files
      BY ZenonT(60), <1>1, <2>1, SyncAllSafe DEF Inv, history
    <2>3. QED BY Zenon, <2>2 DEF SafeShown, SafeDisk, SafeImage
  <1>7. RunInv(run[p])'
    <2>1. /\ run[p].bk \in BackupId
          /\ IF run[p].mode = "restore-last" THEN lastBackup = run[p].bk
                                             ELSE marker = run[p].bk
      BY ZenonT(60), <1>1 DEF Inv, RunInv
    <2>2. QED BY ZenonT(60), <1>1, <1>2, <1>4, <1>6, <2>1
              DEF RunInv, Before, Saving, Applied, history
  <1>8. QED BY Zenon, <1>3, <1>6, <1>7, HolderInv

LEMMA RestoreDoneInv ==
    ASSUME TypeOK, Inv, NEW p \in Procs, RestoreDone(p) PROVE Inv'
  <1>1. /\ UNCHANGED <<files, lastBackup, backups, disk, stable>>
        /\ run[p].pc = "unmark" /\ Exit(p)
        /\ marker' = NoBackup /\ dirty' = dirty \ {"marker"}
    BY Zenon DEF RestoreDone, At
  <1>2. HolderMoves(p) /\ RunInv(run[p])'
    BY ZenonT(60), <1>1, ExitMoves DEF HolderMoves
  <1>3. files \in stable /\ disk.files \in stable
    BY ZenonT(60), <1>1 DEF Inv, RunInv
  <1>4. ~ Usable(NoBackup) BY Zenon, ConstantTypes DEF Usable
  <1>5. SafeShown'
    BY Zenon, <1>1, <1>3, <1>4 DEF Inv, SafeShown, SafeImage, Undo, Usable
  <1>6. SafeDisk'
    BY ZenonT(60), <1>1, <1>3 DEF Inv, SafeDisk, SafeImage, Undo, Usable
  <1>7. DirtyInv' BY Zenon, <1>1 DEF Inv, DirtyInv
  <1>8. QED BY Zenon, <1>2, <1>5, <1>6, <1>7, HolderInv

LEMMA StopInv ==
    ASSUME TypeOK, Inv, NEW p \in Procs, Stop(p) PROVE Inv'
  <1>1. /\ UNCHANGED <<files, backups, dirty, disk, stable>>
        /\ run[p].pc # "idle" /\ Exit(p)
        /\ halfRestored' = (halfRestored \/ StopsHalfway(p))
        /\ lastBackup' = lastBackup \/ (lastBackup' = Empty /\ run[p].pc = "last")
        /\ marker' = marker \/ (marker' = Empty /\ run[p].pc = "mark")
    <2>1. Truncated(p, "last", lastBackup, Empty) /\ Truncated(p, "mark", marker, Empty)
      BY Zenon DEF Stop
    <2>2. lastBackup' = lastBackup \/ (lastBackup' = Empty /\ run[p].pc = "last")
      BY Zenon, <2>1 DEF Truncated, At
    <2>3. marker' = marker \/ (marker' = Empty /\ run[p].pc = "mark")
      BY Zenon, <2>1 DEF Truncated, At
    <2>4. QED BY Zenon, <2>2, <2>3 DEF Stop
  <1>2. HolderMoves(p) /\ RunInv(run[p])'
    BY Zenon, <1>1, ExitMoves DEF HolderMoves
  <1>3. Hand => Hand'
    BY ZenonT(60), <1>1, OnlyHolder DEF Inv, Hand
  <1>4. ~ Usable(Empty) BY Zenon, ConstantTypes DEF Usable
  <1>5. run[p].pc \in {"last", "mark"} => files \in stable /\ ~ Usable(marker)
    BY ZenonT(60) DEF Inv, RunInv, Saving
  <1>6. SafeShown'
    BY ZenonT(60), <1>1, <1>3, <1>4, <1>5 DEF Inv, SafeShown, SafeImage, Undo, Usable
  <1>7. SafeDisk'
    BY ZenonT(60), <1>1, <1>3 DEF Inv, SafeDisk, SafeImage, Undo, Usable
  <1>8. DirtyInv'
    BY Zenon, <1>1, <1>5 DEF Inv, DirtyInv, Undo, Usable
  <1>9. QED BY Zenon, <1>2, <1>6, <1>7, <1>8, HolderInv

LEMMA PowerCutInv ==
    ASSUME TypeOK, Inv, PowerCut PROVE Inv'
  <1>1. \A p \in Procs : run'[p].pc = "idle" BY Zenon DEF PowerCut, Idle
  <1>2. LockInv' BY Zenon, <1>1 DEF LockInv
  <1>3. Hand => Hand' BY ZenonT(60) DEF PowerCut, Hand, HandRestoring
  <1>4. SafeShown' /\ SafeDisk'
    BY ZenonT(60), <1>3 DEF PowerCut, Inv, SafeShown, SafeDisk, SafeImage, Undo, Usable
  <1>5. DirtyInv' BY Zenon DEF PowerCut, DirtyInv
  <1>6. \A p \in Procs : RunInv(run[p])'
    BY ZenonT(60), <1>1 DEF RunInv, Before, Saving, Applied
  <1>7. QED BY Zenon, <1>2, <1>4, <1>5, <1>6 DEF Inv

LEMMA CommitInv ==
    ASSUME TypeOK, Inv, Commit PROVE Inv'
  <1>1. PICK d \in SUBSET dirty : dirty' = d /\ disk' = Image(d, TornBackups)
    BY Zenon DEF Commit
  <1>2. UNCHANGED <<shown, lock, run, history>> BY Zenon DEF Commit
  <1>3. LET i == Image(d, TornBackups) IN
        /\ SafeImage(i.files, i.marker, i.lastBackup, i.backups, Hand)
        /\ i.files = files
    BY Zenon, CommitSafe DEF Inv, SafeShown
  <1>4. Hand <=> Hand'
    BY Zenon, <1>2 DEF Hand, HandRestoring, StopsHalfway, At, shown, history
  <1>5. SafeShown'
    BY Zenon, <1>2, <1>4 DEF Inv, SafeShown, SafeImage, shown, history, Undo, Usable
  <1>6. SafeDisk' /\ disk'.files = files
    BY ZenonT(60), <1>1, <1>2, <1>3, <1>4 DEF SafeDisk, SafeImage, history, Undo, Usable
  <1>7. DirtyInv'
    BY Zenon, <1>1, <1>2 DEF Inv, DirtyInv, shown, Undo, Usable
  <1>8. LockInv' BY ZenonT(60), <1>2 DEF Inv, LockInv
  <1>9. ASSUME NEW p \in Procs PROVE RunInv(run[p])'
    <2>1. RunInv(run[p]) BY Zenon DEF Inv
    <2>2. "marker" \notin dirty => "marker" \notin dirty' BY Zenon, <1>1
    <2>3. QED BY ZenonT(60), <1>2, <1>6, <2>1, <2>2
              DEF RunInv, Newest, Covers, shown, history, Usable
  <1>10. QED BY Zenon, <1>5, <1>6, <1>7, <1>8, <1>9 DEF Inv

LEMMA FrameInv ==
    ASSUME Inv, UNCHANGED <<fs, lock, run, history>> PROVE Inv'
  <1>1. LockInv' BY Zenon DEF Inv, LockInv
  <1>2. Hand <=> Hand'
    BY Zenon DEF Hand, HandRestoring, StopsHalfway, At, fs, shown, history
  <1>3. SafeShown' /\ SafeDisk'
    BY ZenonT(60), <1>2 DEF Inv, SafeShown, SafeDisk, SafeImage, fs, shown, history, Undo,
                Usable
  <1>4. DirtyInv' BY Zenon DEF Inv, DirtyInv, fs, shown, Undo, Usable
  <1>5. ASSUME NEW p \in Procs PROVE RunInv(run[p])'
    <2>1. RunInv(run[p]) BY Zenon DEF Inv
    <2>2. QED BY ZenonT(60), <2>1 DEF RunInv, Newest, Covers, fs, shown, history, Usable
  <1>6. QED BY Zenon, <1>1, <1>3, <1>4, <1>5 DEF Inv

LEMMA InvStep ==
    ASSUME "rerun" \notin Manual, TypeOK, Inv, [Next]_vars
    PROVE  Inv'
  <1>1. ASSUME NEW p \in Procs, Start(p) PROVE Inv'
    BY Zenon, <1>1, TakeLockInv DEF Start, StartUpdate, StartVerify, StartRestoreLast
  <1>2. ASSUME NEW p \in Procs, Proceed(p) PROVE Inv'
    <2>1. ASSUME FinishWithRestarts(p) PROVE Inv'
      BY Zenon, <2>1, ExitInv DEF FinishWithRestarts, At
    <2>2. QED
      BY Zenon, <1>2, <2>1, PreflightInv, ResolveInv, StageInv, BackupOpenInv,
         BackupFileInv, BackupCompleteInv, BackupSyncInv, RecordLastInv,
         WriteMarkerInv, SyncMarkerInv, ApplyOneInv, ApplyDoneInv,
         ApplySyncInv, RestoreOpenInv, RestoreFileInv, RestoreSyncInv,
         RestoreDoneInv, AptInv, RecordVersionInv, SyncVersionInv,
         InstallUnitsInv, PruneInv, FinishWithRebootInv
         DEF Proceed
  <1>3. ASSUME NEW p \in Procs, ApplyFails(p) \/ Stop(p) PROVE Inv'
    BY Zenon, <1>3, ApplyFailsInv, StopInv
  <1>4. ASSUME VerifyRefused PROVE Inv'
    BY Zenon, <1>4, FrameInv DEF VerifyRefused
  <1>5. ASSUME UNCHANGED vars PROVE Inv'
    BY Zenon, <1>5, FrameInv DEF vars
  <1>6. QED
    BY Zenon, <1>1, <1>2, <1>3, <1>4, <1>5, PowerCutInv, CommitInv DEF Next

\* Types and invariant hold together throughout.
LEMMA Invariance ==
    ASSUME "rerun" \notin Manual
    PROVE  Spec => [](TypeOK /\ Inv)
  <1>1. Init => TypeOK /\ Inv BY Zenon, InitType, InitInv
  <1>2. TypeOK /\ Inv /\ [Next]_vars => (TypeOK /\ Inv)'
    <2> SUFFICES ASSUME TypeOK, Inv, [Next]_vars PROVE TypeOK' /\ Inv' BY Zenon
    <2>1. TypeOK' BY Zenon, TypeStep DEF Inv
    <2>2. Inv' BY Zenon, InvStep
    <2>3. QED BY Zenon, <2>1, <2>2
  <1>3. QED BY <1>1, <1>2, PTL DEF Spec

\* Every variable of the engine keeps its type, whatever fails, provided no
\* update is started over one that is half done (--restore-last and OTA_FORCE
\* are allowed).
THEOREM TypeCorrect ==
    ASSUME "rerun" \notin Manual
    PROVE  Spec => []TypeOK
  BY Invariance, PTL

\* phase_apply and restore_from_backup are all or nothing: with no run active,
\* no marker left and no --restore-last cut short, the installed files are one
\* complete set, for every release and under any number of faults.
THEOREM UpdateIsAllOrNothing ==
    ASSUME "rerun" \notin Manual
    PROVE  Spec => []AllOrNothing
  <1>1. TypeOK /\ Inv => AllOrNothing
    <2> SUFFICES ASSUME TypeOK, Inv, lock = None, ~ Usable(marker), ~ halfRestored
                 PROVE  files \in stable
      BY Zenon DEF AllOrNothing
    <2>1. \A p \in Procs : run[p].pc = "idle"
      BY Zenon, OtaAssumption DEF Inv, LockInv
    <2>2. ~ Hand
      BY Zenon, <2>1 DEF Hand, HandRestoring, StopsHalfway, At
    <2>3. QED BY Zenon, <2>2 DEF Inv, SafeShown, SafeImage
  <1>2. QED BY <1>1, Invariance, PTL

\* A power cut at any instant leaves a complete file set, or a durable marker
\* naming a complete backup whose restore at boot yields one.
THEOREM PowerCutsAreRecoverable ==
    ASSUME "rerun" \notin Manual
    PROVE  Spec => []PowerCutRecoverable
  <1>1. Inv => PowerCutRecoverable
    BY Zenon DEF Inv, SafeDisk, SafeImage, Hand, PowerCutRecoverable
  <1>2. QED BY <1>1, Invariance, PTL

\* The names in last-backup and in the marker, on the disk as well, always
\* refer to a backup that restore_from_backup accepts: pruning, crashes and
\* power cuts never leave a dangling name.
THEOREM NamesAreComplete ==
    ASSUME "rerun" \notin Manual
    PROVE  Spec => []NamedBackupsComplete
  <1>1. Inv => NamedBackupsComplete
    BY Zenon DEF Inv, SafeShown, SafeDisk, SafeImage, NamedBackupsComplete
  <1>2. QED BY <1>1, Invariance, PTL

-----------------------------------------------------------------------------
\* The points of an update after validate_file_list accepted its release and
\* before all of its files are applied.
Vetted == {"backup"} \cup Saving \cup {"mark", "mark-sync", "apply"}

\* The per-printer files are as delivered and in no backup.
Spared(fl, bs) ==
    /\ \A f \in Identity : fl[f] = FactoryFiles[f]
    /\ \A b \in BackupId, f \in Identity : bs[b].saved[f] = NotSaved

IdentityInv ==
    /\ Spared(files, backups)
    /\ Spared(disk.files, disk.backups)
    /\ \A p \in Procs :
          run[p].pc \in Vetted => Payload[run[p].ver] \cap Identity = {}

\* The files fl are those of release v or later ones.
Reaches(fl, v) == v \in Versions => \A f \in Payload[v] : fl[f] >= v

\* So are the files, and the copies the marker asks to put back.
Truthful(v, fl, mk, bs) ==
    /\ Reaches(fl, v)
    /\ Usable(mk) => Reaches(bs[mk].saved, v)

\* What the gate established and the run has applied since.
Gated(r) ==
    /\ r.pc # "idle" => ~ r.force /\ r.mode # "restore-last"
    /\ r.pc \in Vetted \cup {"stage"} => installed \notin Versions \/ r.ver > installed
    /\ r.pc = "apply" => \A f \in Payload[r.ver] \ r.todo : files[f] = r.ver
    /\ r.pc \in Applied => \A f \in Payload[r.ver] : files[f] = r.ver

GateInv ==
    /\ Truthful(installed, files, marker, backups)
    /\ Truthful(disk.installed, disk.files, disk.marker, disk.backups)
    /\ \A p \in Procs : Gated(run[p])

----------------------------------------------------------------------------
(* What the steps have in common. *)

LEMMA ImageFields ==
    ASSUME TypeOK, DirtyInv, NEW d \in SUBSET dirty, NEW bs
    PROVE  /\ Image(d, bs).files = files /\ Image(d, bs).backups = bs
           /\ Image(d, bs).installed \in {installed, Torn}
           /\ Image(d, bs).marker \in {marker, Empty}
  <1>1. Image(d, bs).files = files BY DEF Image, DirtyInv, TypeOK
  <1>2. Image(d, bs).backups = bs BY DEF Image
  <1>3. Image(d, bs).installed \in {installed, Torn} BY DEF Image
  <1>4. Image(d, bs).marker \in {marker, Empty} BY DEF Image
  <1> QED BY Zenon, <1>1, <1>2, <1>3, <1>4

\* A commit or a sync keeps every copy of a backup or tears it.
LEMMA CopiesKept ==
    ASSUME TypeOK, NEW bs \in {TornBackups, SyncedBackups}, NEW b \in BackupId,
           NEW f \in Path
    PROVE  \/ bs[b].saved[f] = backups[b].saved[f]
           \/ bs[b].saved[f] = Torn /\ backups[b].saved[f] # NotSaved
  <1>1. CASE bs = SyncedBackups BY <1>1 DEF SyncedBackups, TypeOK, Backup
  <1>2. CASE bs = TornBackups /\ backups[b].synced BY <1>2 DEF TornBackups
  <1>3. CASE bs = TornBackups /\ ~ backups[b].synced
    <2>1. bs[b].saved = TornCopies(backups[b].saved)
      BY <1>3 DEF TornBackups, TypeOK, Backup
    <2> QED BY <2>1 DEF TornCopies
  <1> QED BY <1>1, <1>2, <1>3

\* The steps that write the disk: a commit of some of the shown state.
Synced(bs) ==
    /\ \E d \in SUBSET dirty : disk' = Image(d, bs)
    /\ backups' \in {backups, SyncedBackups}

LEMMA SyncAllSynced == ASSUME SyncAll PROVE Synced(SyncedBackups)
  BY DEF SyncAll, Synced

LEMMA SyncOneSynced == ASSUME NEW x, SyncOne(x) PROVE Synced(TornBackups)
  <1>1. dirty \ {x} \in SUBSET dirty OBVIOUS
  <1> QED BY Zenon, <1>1 DEF SyncOne, Synced

LEMMA CommitSynced == ASSUME Commit PROVE Synced(TornBackups)
  BY Zenon DEF Commit, Synced, shown
----------------------------------------------------------------------------
(* The per-printer files. *)

LEMMA IdentityPath == ASSUME NEW f \in Identity PROVE f \in Path /\ Torn # NotSaved
  BY OtaAssumption DEF Torn, NotSaved

LEMMA SparedSynced ==
    ASSUME TypeOK, DirtyInv, Spared(files, backups), UNCHANGED files,
           NEW bs \in {TornBackups, SyncedBackups}, Synced(bs)
    PROVE  Spared(files', backups') /\ Spared(disk'.files, disk'.backups)
  <1>1. disk'.files = files /\ disk'.backups = bs
    <2>1. PICK d \in SUBSET dirty : disk' = Image(d, bs) BY Zenon DEF Synced
    <2>2. Image(d, bs).files = files /\ Image(d, bs).backups = bs
      BY ZenonT(60), ImageFields
    <2> QED BY Zenon, <2>1, <2>2
  <1>2. ASSUME NEW bt \in {TornBackups, SyncedBackups} PROVE Spared(files, bt)
    <2>1. ASSUME NEW b \in BackupId, NEW f \in Identity
          PROVE  bt[b].saved[f] = NotSaved
      <3>1. backups[b].saved[f] = NotSaved /\ f \in Path
        BY Zenon, IdentityPath DEF Spared
      <3> QED BY Zenon, <3>1, CopiesKept
    <2> QED BY Zenon, <2>1 DEF Spared
  <1>3. backups' = backups \/ backups' = SyncedBackups BY DEF Synced
  <1>4. Spared(files, SyncedBackups) /\ Spared(files, bs) BY <1>2
  <1> QED BY Zenon, <1>1, <1>3, <1>4

\* What a step of p has to re-establish.
LEMMA IdentityHolder ==
    ASSUME IdentityInv, NEW p \in Procs, \A q \in Procs \ {p} : run'[q] = run[q],
           run'[p].pc \in Vetted => Payload[run'[p].ver] \cap Identity = {},
           Spared(files', backups'), Spared(disk'.files, disk'.backups)
    PROVE  IdentityInv'
  <1>1. ASSUME NEW q \in Procs, run'[q].pc \in Vetted
        PROVE  Payload[run'[q].ver] \cap Identity = {}
    BY Zenon, <1>1 DEF IdentityInv
  <1>2. Spared(files, backups)' /\ Spared(disk.files, disk.backups)'
    BY Zenon DEF Spared
  <1> QED BY Zenon, <1>1, <1>2 DEF IdentityInv, Vetted, Saving

\* Steps that write neither a file nor a backup.
LEMMA IdentityFrame ==
    ASSUME TypeOK, IdentityInv, NEW p \in Procs,
           \A q \in Procs \ {p} : run'[q] = run[q],
           run'[p].pc \in Vetted => Payload[run'[p].ver] \cap Identity = {},
           UNCHANGED <<files, backups, disk>>
    PROVE  IdentityInv'
  <1>1. Spared(files', backups') /\ Spared(disk'.files, disk'.backups)
    BY Zenon DEF IdentityInv
  <1> QED BY Zenon, <1>1, IdentityHolder

LEMMA IdentityGoto ==
    ASSUME TypeOK, IdentityInv, NEW p \in Procs, NEW l, Goto(p, l),
           run[p].pc \in Vetted \/ l \notin Vetted
    PROVE  /\ \A q \in Procs \ {p} : run'[q] = run[q]
           /\ run'[p].pc \in Vetted => Payload[run'[p].ver] \cap Identity = {}
  <1>1. /\ \A q \in Procs \ {p} : run'[q] = run[q]
        /\ run'[p].pc = l /\ run'[p].ver = run[p].ver
    BY Zenon, GotoMoves
  <1> QED BY Zenon, <1>1 DEF IdentityInv

LEMMA IdentityExit ==
    ASSUME TypeOK, NEW p \in Procs, Exit(p)
    PROVE  /\ \A q \in Procs \ {p} : run'[q] = run[q]
           /\ run'[p].pc \in Vetted => Payload[run'[p].ver] \cap Identity = {}
  <1>1. (\A q \in Procs \ {p} : run'[q] = run[q]) /\ run'[p].pc = "idle"
    BY Zenon, ExitMoves
  <1> QED BY <1>1 DEF Vetted, Saving

LEMMA IdentityTakeLock ==
    ASSUME TypeOK, IdentityInv, NEW p \in Procs,
           NEW mode \in {"update", "verify", "restore-last"},
           NEW force \in BOOLEAN, TakeLock(p, mode, force)
    PROVE  IdentityInv'
  <1>1. /\ \A q \in Procs \ {p} : run'[q] = run[q]
        /\ run'[p].pc \in {"preflight", "open"}
    BY DEF TakeLock, TypeOK, Idle
  <1>2. UNCHANGED <<files, backups, disk>> BY DEF TakeLock, fs, shown
  <1>3. run'[p].pc \notin Vetted BY <1>1 DEF Vetted, Saving
  <1> QED BY Zenon, <1>1, <1>2, <1>3, IdentityFrame

\* Before the download is validated the run is not vetted; validate_file_list
\* makes it so.
LEMMA IdentityEarly ==
    ASSUME TypeOK, IdentityInv, NEW p \in Procs,
           phase_preflight(p) \/ phase_resolve(p) \/ phase_stage(p)
    PROVE  IdentityInv'
  <1>0. UNCHANGED <<files, backups, disk>>
    BY DEF phase_preflight, phase_resolve, phase_stage, fs, shown
  <1>1. CASE Exit(p) BY Zenon, <1>0, <1>1, IdentityExit, IdentityFrame
  <1>2. CASE Goto(p, "resolve")
    <2>1. "resolve" \notin Vetted BY DEF Vetted, Saving
    <2> QED BY Zenon, <1>0, <1>2, <2>1, IdentityGoto, IdentityFrame
  <1>3. CASE \E v \in Versions :
               run' = [run EXCEPT ![p] = [@ EXCEPT !.pc = "stage", !.ver = v]]
    <2>1. (\A q \in Procs \ {p} : run'[q] = run[q]) /\ run'[p].pc = "stage"
      BY <1>3 DEF TypeOK, RunState
    <2>2. run'[p].pc \notin Vetted BY <2>1 DEF Vetted, Saving
    <2> QED BY Zenon, <1>0, <2>1, <2>2, IdentityFrame
  <1>4. CASE Goto(p, "backup") /\ validate_file_list(run[p].ver)
    <2>1. /\ \A q \in Procs \ {p} : run'[q] = run[q]
          /\ run'[p].ver = run[p].ver
      BY Zenon, <1>4, GotoMoves
    <2>2. Payload[run'[p].ver] \cap Identity = {}
      BY <1>4, <2>1 DEF validate_file_list
    <2> QED BY Zenon, <1>0, <2>1, <2>2, IdentityFrame
  <1> QED BY Zenon, <1>1, <1>2, <1>3, <1>4
          DEF phase_preflight, phase_resolve, phase_stage, Die

\* A backup only takes files of the vetted release.
LEMMA IdentityBackup ==
    ASSUME TypeOK, Inv, IdentityInv, NEW p \in Procs,
           BackupOpen(p) \/ BackupFile(p) \/ BackupComplete(p) \/ prune_backups(p)
    PROVE  IdentityInv'
  <1>0. UNCHANGED <<files, disk>> /\ Spared(files, backups)
        /\ Spared(disk.files, disk.backups)
    BY Zenon DEF BackupOpen, BackupFile, BackupComplete, prune_backups, IdentityInv
  <1>1. ASSUME \A q \in Procs \ {p} : run'[q] = run[q],
               run'[p].pc \in Vetted => Payload[run'[p].ver] \cap Identity = {},
               \A b \in BackupId, f \in Identity : backups'[b].saved[f] = NotSaved
        PROVE  IdentityInv'
    <2>1. Spared(files', backups') /\ Spared(disk'.files, disk'.backups)
      BY Zenon, <1>0, <1>1 DEF Spared
    <2> QED BY Zenon, <1>1, <2>1, IdentityHolder
  <1>2. \A f \in Identity : NoDir.saved[f] = NotSaved
    BY IdentityPath DEF NoDir
  <1>3. CASE BackupOpen(p)
    <2>1. PICK b \in BackupId :
            /\ backups' = [backups EXCEPT ![b] =
                             [NoDir EXCEPT !.st = "partial", !.synced = FALSE]]
            /\ run' = [run EXCEPT ![p] = [@ EXCEPT !.pc = "copy", !.bk = b,
                                  !.todo = Payload[run[p].ver]]]
      BY Zenon, <1>3 DEF BackupOpen
    <2>2. (\A q \in Procs \ {p} : run'[q] = run[q]) /\ run'[p].ver = run[p].ver
      BY <2>1 DEF TypeOK, RunState
    <2>3. run[p].pc \in Vetted BY <1>3 DEF BackupOpen, At, Vetted
    <2>4. [NoDir EXCEPT !.st = "partial", !.synced = FALSE].saved = NoDir.saved
      BY DEF NoDir
    <2>5. \A c \in BackupId : backups'[c] = backups[c]
                              \/ backups'[c].saved = NoDir.saved
      BY Zenon, <2>1, <2>4 DEF TypeOK
    <2>6. Payload[run'[p].ver] \cap Identity = {}
      BY Zenon, <2>2, <2>3 DEF IdentityInv
    <2>7. \A c \in BackupId, f \in Identity : backups'[c].saved[f] = NotSaved
      BY ZenonT(60), <1>0, <1>2, <2>5 DEF Spared
    <2> QED BY Zenon, <1>1, <2>2, <2>6, <2>7
  <1>4. CASE BackupFile(p)
    <2>1. PICK f \in run[p].todo :
            /\ backups' = [backups EXCEPT ![run[p].bk].saved[f] = files[f]]
            /\ run' = [run EXCEPT ![p].todo = @ \ {f}]
      BY Zenon, <1>4 DEF BackupFile
    <2>2. (\A q \in Procs \ {p} : run'[q] = run[q]) /\ run'[p].ver = run[p].ver
      BY <2>1 DEF TypeOK, RunState
    <2>3. run[p].pc = "copy" BY Zenon, <1>4 DEF BackupFile, At
    <2>4. run[p].pc \in Vetted BY <2>3 DEF Vetted, Saving
    <2>5. run[p].todo \subseteq Payload[run[p].ver] /\ run[p].bk \in BackupId
      BY Zenon, <2>3 DEF Inv, RunInv, Saving
    <2>6. f \notin Identity BY Zenon, <2>4, <2>5 DEF IdentityInv
    <2>7. \A c \in BackupId, g \in Path \ {f} :
             backups'[c].saved[g] = backups[c].saved[g]
      BY <2>1, <2>5 DEF TypeOK, Backup
    <2>8. Payload[run'[p].ver] \cap Identity = {}
      BY Zenon, <2>2, <2>4 DEF IdentityInv
    <2>9. ASSUME NEW c \in BackupId, NEW g \in Identity
          PROVE  backups'[c].saved[g] = NotSaved
      <3>1. g \in Path \ {f} BY Zenon, <2>6, IdentityPath
      <3> QED BY ZenonT(60), <1>0, <2>7, <3>1 DEF Spared
    <2> QED BY Zenon, <1>1, <2>2, <2>8, <2>9
  <1>5. CASE BackupComplete(p)
    <2>1. /\ Goto(p, "backup-sync") /\ run[p].pc = "copy"
          /\ backups' = [backups EXCEPT ![run[p].bk].st = "complete"]
      BY Zenon, <1>5 DEF BackupComplete, At
    <2>2. run[p].pc \in Vetted BY <2>1 DEF Vetted, Saving
    <2>3. \A c \in BackupId : backups'[c].saved = backups[c].saved
      BY <2>1 DEF TypeOK, Backup
    <2> QED BY ZenonT(60), <1>0, <1>1, <2>1, <2>2, <2>3, IdentityGoto DEF Spared
  <1>6. CASE prune_backups(p)
    <2>1. Goto(p, "end") /\ \A c \in BackupId : backups'[c] \in {backups[c], NoDir}
      BY Zenon, <1>6 DEF prune_backups
    <2>2. "end" \notin Vetted BY DEF Vetted, Saving
    <2>3. /\ \A q \in Procs \ {p} : run'[q] = run[q]
          /\ run'[p].pc \in Vetted => Payload[run'[p].ver] \cap Identity = {}
      BY Zenon, <2>1, <2>2, IdentityGoto
    <2>4. ASSUME NEW c \in BackupId, NEW g \in Identity
          PROVE  backups'[c].saved[g] = NotSaved
      <3>1. backups[c].saved[g] = NotSaved BY Zenon, <1>0 DEF Spared
      <3>2. backups'[c] = backups[c] \/ backups'[c] = NoDir BY Zenon, <2>1
      <3> QED BY Zenon, <1>2, <3>1, <3>2
    <2> QED BY Zenon, <1>1, <2>3, <2>4
  <1> QED BY <1>3, <1>4, <1>5, <1>6

\* Syncs and commits.
LEMMA IdentitySync ==
    ASSUME TypeOK, Inv, IdentityInv, NEW p \in Procs,
           \/ BackupSync(p) \/ SyncMarker(p) \/ ApplySync(p) \/ RestoreSync(p)
           \/ SyncVersion(p) \/ FinishWithReboot(p)
    PROVE  IdentityInv'
  <1>1. UNCHANGED files
        /\ (Synced(TornBackups) \/ Synced(SyncedBackups))
    BY Zenon, SyncAllSynced, SyncOneSynced
       DEF BackupSync, SyncMarker, ApplySync, RestoreSync, SyncVersion,
           FinishWithReboot
  <1>2. Spared(files', backups') /\ Spared(disk'.files, disk'.backups)
    BY Zenon, <1>1, SparedSynced DEF IdentityInv, Inv
  <1>3. CASE SyncMarker(p)
    <2>1. /\ run[p].pc = "mark-sync"
          /\ run' = [run EXCEPT ![p] = [@ EXCEPT !.pc = "apply",
                                          !.todo = Payload[run[p].ver]]]
      BY Zenon, <1>3 DEF SyncMarker, At
    <2>2. (\A q \in Procs \ {p} : run'[q] = run[q]) /\ run'[p].ver = run[p].ver
      BY <2>1 DEF TypeOK, RunState
    <2>3. run[p].pc \in Vetted BY <2>1 DEF Vetted
    <2>4. Payload[run'[p].ver] \cap Identity = {}
      BY Zenon, <2>2, <2>3 DEF IdentityInv
    <2> QED BY Zenon, <1>2, <2>2, <2>4, IdentityHolder
  <1>4. CASE FinishWithReboot(p)
    BY Zenon, <1>2, <1>4, IdentityExit, IdentityHolder DEF FinishWithReboot
  <1>5. CASE BackupSync(p)
    <2>1. run[p].pc \in Vetted BY <1>5 DEF BackupSync, At, Vetted, Saving
    <2> QED BY Zenon, <1>2, <1>5, <2>1, IdentityGoto, IdentityHolder DEF BackupSync
  <1>6. CASE ApplySync(p) \/ RestoreSync(p) \/ SyncVersion(p)
    <2>1. PICK l \in {"apt", "unmark", "units"} : Goto(p, l)
      BY <1>6 DEF ApplySync, RestoreSync, SyncVersion
    <2>2. l \notin Vetted BY DEF Vetted, Saving
    <2> QED BY Zenon, <1>2, <2>1, <2>2, IdentityGoto, IdentityHolder
  <1> QED BY Zenon, <1>3, <1>4, <1>5, <1>6

\* Steps that write a record, or nothing.
LEMMA IdentityRecord ==
    ASSUME TypeOK, IdentityInv, NEW p \in Procs,
           \/ RecordLast(p) \/ WriteMarker(p) \/ ApplyFails(p) \/ ApplyDone(p)
           \/ RestoreOpen(p) \/ RestoreDone(p) \/ phase_apt(p)
           \/ RecordVersion(p) \/ InstallUnits(p) \/ FinishWithRestarts(p)
           \/ Stop(p)
    PROVE  IdentityInv'
  <1>0. UNCHANGED <<files, backups, disk>>
    BY Zenon DEF RecordLast, WriteMarker, ApplyFails, ApplyDone, RestoreOpen,
       RestoreDone, phase_apt, RecordVersion, InstallUnits, FinishWithRestarts,
       Stop, fs, shown
  <1>1. CASE Exit(p) BY Zenon, <1>0, <1>1, IdentityExit, IdentityFrame
  <1>2. CASE \E l \in {"open", "apply-sync", "version", "version-sync", "prune"} :
                Goto(p, l)
    <2>1. PICK l \in {"open", "apply-sync", "version", "version-sync", "prune"} :
                Goto(p, l)
      BY Zenon, <1>2
    <2>2. l \notin Vetted BY DEF Vetted, Saving
    <2> QED BY Zenon, <1>0, <2>1, <2>2, IdentityGoto, IdentityFrame
  <1>3. CASE RecordLast(p) \/ WriteMarker(p)
    <2>1. run[p].pc \in Vetted
      BY <1>3 DEF RecordLast, WriteMarker, At, Vetted, Saving
    <2>2. \E l : Goto(p, l) BY Zenon, <1>3 DEF RecordLast, WriteMarker
    <2> QED BY Zenon, <1>0, <2>1, <2>2, IdentityGoto, IdentityFrame
  <1>4. CASE \E b, S : run' = [run EXCEPT ![p] =
                                 [@ EXCEPT !.pc = "restore", !.bk = b, !.todo = S]]
    <2>1. (\A q \in Procs \ {p} : run'[q] = run[q]) /\ run'[p].pc = "restore"
      BY <1>4 DEF TypeOK, RunState
    <2>2. run'[p].pc \notin Vetted BY <2>1 DEF Vetted, Saving
    <2> QED BY Zenon, <1>0, <2>1, <2>2, IdentityFrame
  <1>5. RestoreOpen(p) => Exit(p) \/
          \E b, S : run' = [run EXCEPT ![p] =
                              [@ EXCEPT !.pc = "restore", !.bk = b, !.todo = S]]
    BY DEF RestoreOpen, Die
  <1>6. ApplyFails(p) \/ ApplyDone(p) \/ RecordVersion(p) \/ InstallUnits(p)
        \/ phase_apt(p) => Exit(p) \/
          \E l \in {"open", "apply-sync", "version", "version-sync", "prune"} :
             Goto(p, l)
    BY DEF ApplyFails, ApplyDone, RecordVersion, InstallUnits, phase_apt, Die
  <1>7. RestoreDone(p) \/ FinishWithRestarts(p) \/ Stop(p) => Exit(p)
    BY Zenon DEF RestoreDone, FinishWithRestarts, Stop
  <1> QED BY Zenon, <1>1, <1>2, <1>3, <1>4, <1>5, <1>6, <1>7

\* apply_one writes files of a vetted release, RestoreFile files of a backup.
LEMMA IdentityWrite ==
    ASSUME TypeOK, Inv, IdentityInv, NEW p \in Procs,
           apply_one(p) \/ RestoreFile(p)
    PROVE  IdentityInv'
  <1>1. PICK f, v :
          /\ f \in run[p].todo
          /\ files' = [files EXCEPT ![f] = v]
          /\ run' = [run EXCEPT ![p].todo = @ \ {f}]
    BY DEF apply_one, RestoreFile, atomic_install
  <1>2. UNCHANGED <<backups, disk>> BY Zenon DEF apply_one, RestoreFile
  <1>3. /\ \A q \in Procs \ {p} : run'[q] = run[q]
        /\ run'[p].pc = run[p].pc /\ run'[p].ver = run[p].ver
    BY <1>1 DEF TypeOK, RunState
  <1>4. f \notin Identity
    <2>1. CASE apply_one(p)
      <3>1. run[p].pc = "apply" BY Zenon, <2>1 DEF apply_one, At
      <3>2. run[p].todo \subseteq Payload[run[p].ver] BY Zenon, <3>1 DEF Inv, RunInv
      <3>3. run[p].pc \in Vetted BY <3>1 DEF Vetted
      <3>4. Payload[run[p].ver] \cap Identity = {} BY Zenon, <3>3 DEF IdentityInv
      <3>5. f \in Payload[run[p].ver] BY Zenon, <1>1, <3>2
      <3> QED BY Zenon, <3>4, <3>5
    <2>2. CASE RestoreFile(p)
      <3>1. run[p].pc = "restore" BY Zenon, <2>2 DEF RestoreFile, At
      <3>2. run[p].bk \in BackupId
            /\ run[p].todo \subseteq
                  {g \in Path : backups[run[p].bk].saved[g] # NotSaved}
        BY Zenon, <3>1 DEF Inv, RunInv
      <3>3. backups[run[p].bk].saved[f] # NotSaved BY Zenon, <1>1, <3>2
      <3>4. \A g \in Identity : backups[run[p].bk].saved[g] = NotSaved
        BY Zenon, <3>2 DEF IdentityInv, Spared
      <3> QED BY Zenon, <3>3, <3>4
    <2> QED BY Zenon, <2>1, <2>2
  <1>5. \A g \in Identity : files'[g] = files[g]
    BY <1>1, <1>4, IdentityPath DEF TypeOK
  <1>6. Spared(files', backups') /\ Spared(disk'.files, disk'.backups)
    BY Zenon, <1>2, <1>5 DEF IdentityInv, Spared
  <1> QED BY Zenon, <1>3, <1>6, IdentityHolder DEF IdentityInv

LEMMA IdentityStep ==
    ASSUME TypeOK, Inv, IdentityInv, [Next]_vars
    PROVE  IdentityInv'
  <1>1. ASSUME NEW p \in Procs, Start(p) PROVE IdentityInv'
    BY Zenon, <1>1, IdentityTakeLock DEF Start, StartUpdate, StartVerify, StartRestoreLast
  <1>2. ASSUME NEW p \in Procs, Proceed(p) \/ ApplyFails(p) \/ Stop(p)
        PROVE  IdentityInv'
    BY Zenon, <1>2, IdentityEarly, IdentityBackup, IdentitySync, IdentityRecord,
       IdentityWrite DEF Proceed
  <1>3. CASE VerifyRefused \/ UNCHANGED vars
    <2>1. UNCHANGED <<files, backups, disk, run>>
      BY Zenon, <1>3 DEF VerifyRefused, vars, fs, shown
    <2> QED BY Zenon, <2>1 DEF IdentityInv, Spared
  <1>4. CASE Commit
    <2>1. UNCHANGED <<files, run>> /\ Synced(TornBackups)
      BY Zenon, <1>4, CommitSynced DEF Commit, shown
    <2>2. Spared(files', backups') /\ Spared(disk'.files, disk'.backups)
      BY Zenon, <2>1, SparedSynced DEF IdentityInv, Inv
    <2> QED BY Zenon, <2>1, <2>2 DEF IdentityInv, Spared
  <1>5. CASE PowerCut
    <2>1. \A p \in Procs : run'[p].pc = "idle" BY <1>5 DEF PowerCut, Idle
    <2>2. "idle" \notin Vetted BY DEF Vetted, Saving
    <2>3. files' = disk.files /\ backups' = disk.backups /\ disk' = disk
      BY Zenon, <1>5 DEF PowerCut
    <2>4. Spared(files, backups)' /\ Spared(disk.files, disk.backups)'
      BY Zenon, <2>3 DEF IdentityInv, Spared
    <2> QED BY Zenon, <2>1, <2>2, <2>4 DEF IdentityInv, Vetted, Saving
  <1> QED BY Zenon, <1>1, <1>2, <1>3, <1>4, <1>5 DEF Next

LEMMA IdentityInit == Init => IdentityInv
  <1> SUFFICES ASSUME Init PROVE IdentityInv OBVIOUS
  <1>1. \A p \in Procs : run[p].pc = "idle" BY DEF Init, Idle
  <1>2. "idle" \notin Vetted BY DEF Vetted, Saving
  <1>3. disk.files = files /\ disk.backups = backups
    BY OtaAssumption DEF Init, Image
  <1>4. Spared(files, backups) BY IdentityPath DEF Init, Spared, NoDir
  <1> QED BY Zenon, <1>1, <1>2, <1>3, <1>4 DEF IdentityInv

\* No update, restore, fault or power cut ever changes a per-printer file, on
\* the running system or on the disk, also when a release lists one:
\* validate_file_list turns the release down, so no backup holds a copy that a
\* restore could put back.
THEOREM IdentityIsUntouched ==
    ASSUME "rerun" \notin Manual
    PROVE  Spec => []IdentityUntouched
  <1>1. Init => IdentityInv BY IdentityInit
  <1>2. IdentityInv /\ (TypeOK /\ Inv) /\ [Next]_vars => IdentityInv'
    BY IdentityStep
  <1>3. IdentityInv => IdentityUntouched
    BY Zenon DEF IdentityInv, Spared, IdentityUntouched
  <1> QED BY <1>1, <1>2, <1>3, Invariance, PTL DEF Spec

----------------------------------------------------------------------------
(* The version gate. *)

LEMMA VersionBounds ==
    /\ \A v \in Versions : v \in Nat /\ Torn >= v /\ NotSaved >= v /\ v >= v
    /\ Torn \notin Versions /\ ~ Usable(NoBackup) /\ ~ Usable(Empty)
    /\ \A v \in Versions : Payload[v] \subseteq Path
  <1>1. ~ Usable(NoBackup) /\ ~ Usable(Empty) BY ConstantTypes DEF Usable
  <1>2. \A v \in Versions : Payload[v] \subseteq Path BY OtaAssumption
  <1> QED BY <1>1, <1>2, OtaAssumption DEF Versions, Torn, NotSaved

LEMMA TruthfulSynced ==
    ASSUME TypeOK, DirtyInv, Truthful(installed, files, marker, backups),
           UNCHANGED <<files, marker, installed>>,
           NEW bs \in {TornBackups, SyncedBackups}, Synced(bs)
    PROVE  /\ Truthful(installed', files', marker', backups')
           /\ Truthful(disk'.installed, disk'.files, disk'.marker, disk'.backups)
  <1>1. /\ disk'.files = files /\ disk'.backups = bs
        /\ disk'.installed \in {installed, Torn}
        /\ disk'.marker \in {marker, Empty}
    <2>1. PICK d \in SUBSET dirty : disk' = Image(d, bs) BY Zenon DEF Synced
    <2> QED BY ZenonT(60), <2>1, ImageFields
  <1>2. ASSUME NEW bt \in {TornBackups, SyncedBackups}
        PROVE  Truthful(installed, files, marker, bt)
    <2>1. ASSUME Usable(marker), installed \in Versions, NEW f \in Payload[installed]
          PROVE  bt[marker].saved[f] >= installed
      <3>1. backups[marker].saved[f] >= installed BY Zenon, <2>1 DEF Truthful, Reaches
      <3>2. f \in Path /\ marker \in BackupId
        BY Zenon, <2>1, VersionBounds DEF Usable
      <3>3. bt[marker].saved[f] = backups[marker].saved[f] \/ bt[marker].saved[f] = Torn
        BY Zenon, <3>2, CopiesKept
      <3> QED BY Zenon, <2>1, <3>1, <3>3, VersionBounds
    <2> QED BY Zenon, <2>1 DEF Truthful, Reaches
  <1>3. backups' = backups \/ backups' = SyncedBackups BY DEF Synced
  <1>4. Truthful(installed, files, marker, SyncedBackups)
        /\ Truthful(installed, files, marker, bs)
    BY <1>2
  <1>5. Truthful(disk'.installed, disk'.files, disk'.marker, disk'.backups)
    BY Zenon, <1>1, <1>4, VersionBounds DEF Truthful, Reaches
  <1> QED BY Zenon, <1>3, <1>4, <1>5

\* What a step of the holder has to re-establish.
LEMMA GateHolder ==
    ASSUME Inv, NEW p \in Procs, run[p].pc # "idle",
           \A q \in Procs \ {p} : run'[q] = run[q], Gated(run[p])',
           Truthful(installed', files', marker', backups'),
           Truthful(disk'.installed, disk'.files, disk'.marker, disk'.backups)
    PROVE  GateInv'
  <1>1. ASSUME NEW q \in Procs \ {p} PROVE Gated(run[q])'
    <2>1. run'[q].pc = "idle" BY Zenon, OnlyHolder DEF Inv
    <2>2. "idle" \notin Vetted \cup {"stage"} \cup Applied
      BY DEF Vetted, Saving, Applied
    <2> QED BY Zenon, <2>1, <2>2 DEF Gated, Vetted, Saving, Applied
  <1>2. Truthful(installed, files, marker, backups)'
        /\ Truthful(disk.installed, disk.files, disk.marker, disk.backups)'
    BY Zenon DEF Truthful, Reaches, Usable
  <1> QED BY Zenon, <1>1, <1>2 DEF GateInv

LEMMA GateFrame ==
    ASSUME Inv, GateInv, NEW p \in Procs, run[p].pc # "idle",
           \A q \in Procs \ {p} : run'[q] = run[q], Gated(run[p])',
           UNCHANGED <<files, marker, installed, backups, disk>>
    PROVE  GateInv'
  <1>1. /\ Truthful(installed', files', marker', backups')
        /\ Truthful(disk'.installed, disk'.files, disk'.marker, disk'.backups)
    BY Zenon DEF GateInv
  <1> QED BY Zenon, <1>1, GateHolder

LEMMA GateExit ==
    ASSUME TypeOK, NEW p \in Procs, Exit(p)
    PROVE  (\A q \in Procs \ {p} : run'[q] = run[q]) /\ Gated(run[p])'
  <1>1. (\A q \in Procs \ {p} : run'[q] = run[q]) /\ run'[p].pc = "idle"
    BY Zenon, ExitMoves
  <1>2. "idle" \notin Vetted \cup {"stage"} \cup Applied
    BY DEF Vetted, Saving, Applied
  <1> QED BY Zenon, <1>1, <1>2 DEF Gated, Vetted, Saving, Applied

\* A run goes on within the part of the update the gate covers, within the
\* part after the apply, or leaves both.
LEMMA GateGoto ==
    ASSUME TypeOK, GateInv, NEW p \in Procs, NEW l, Goto(p, l), run[p].pc # "idle",
           UNCHANGED <<files, installed>>,
           \/ run[p].pc \in Vetted \cup {"stage"} /\ l \in Vetted \ {"apply"}
           \/ run[p].pc \in Applied /\ l \in Applied
           \/ l \notin Vetted \cup {"stage"} \cup Applied
    PROVE  (\A q \in Procs \ {p} : run'[q] = run[q]) /\ Gated(run[p])'
  <1>1. /\ \A q \in Procs \ {p} : run'[q] = run[q]
        /\ run'[p].pc = l /\ run'[p].mode = run[p].mode
        /\ run'[p].ver = run[p].ver
    BY Zenon, GotoMoves
  <1>2. run'[p].force = run[p].force BY DEF TypeOK, Goto, RunState
  <1>3. "apply" \notin Applied /\ "stage" \notin Applied /\ Vetted \cap Applied = {}
        /\ "stage" \notin Vetted /\ "idle" \notin Vetted \cup Applied
        /\ "apply" \in Vetted
    BY DEF Vetted, Saving, Applied
  <1>4. Gated(run[p]) BY Zenon DEF GateInv
  <1>5. CASE l \in Vetted
    BY Zenon, <1>1, <1>2, <1>3, <1>4, <1>5 DEF Gated
  <1>6. CASE l \in Applied
    BY Zenon, <1>1, <1>2, <1>3, <1>4, <1>6 DEF Gated
  <1>7. CASE l \notin Vetted \cup {"stage"} \cup Applied
    BY Zenon, <1>1, <1>2, <1>3, <1>4, <1>7 DEF Gated
  <1> QED BY Zenon, <1>1, <1>5, <1>6, <1>7

LEMMA GateTakeLock ==
    ASSUME TypeOK, Inv, GateInv, NEW p \in Procs, NEW mode \in {"update", "verify"},
           TakeLock(p, mode, FALSE)
    PROVE  GateInv'
  <1>1. \A q \in Procs : run[q].pc = "idle"
    BY OtaAssumption DEF TakeLock, Inv, LockInv, At
  <1>2. /\ \A q \in Procs \ {p} : run'[q].pc = "idle"
        /\ run'[p].pc \in {"preflight", "open"}
        /\ run'[p].force = FALSE /\ run'[p].mode = mode
    BY <1>1 DEF TakeLock, TypeOK, Idle
  <1>3. UNCHANGED <<files, marker, installed, backups, disk>>
    BY DEF TakeLock, fs, shown
  <1>4. \A l \in {"preflight", "open", "idle"} : l \notin Vetted \cup {"stage"} \cup Applied
                                                  /\ l # "apply"
    BY DEF Vetted, Saving, Applied
  <1>5. Gated(run[p])'
    BY Zenon, <1>2, <1>4 DEF Gated, Vetted, Saving, Applied
  <1>6. ASSUME NEW q \in Procs \ {p} PROVE Gated(run[q])'
    BY Zenon, <1>2, <1>4 DEF Gated, Vetted, Saving, Applied
  <1>7. Truthful(installed, files, marker, backups)'
        /\ Truthful(disk.installed, disk.files, disk.marker, disk.backups)'
    BY Zenon, <1>3 DEF GateInv, Truthful, Reaches, Usable
  <1> QED BY Zenon, <1>5, <1>6, <1>7 DEF GateInv

\* The gate itself: the release is later than the recorded version.
LEMMA GateEarly ==
    ASSUME TypeOK, Inv, GateInv, NEW p \in Procs,
           phase_preflight(p) \/ phase_resolve(p) \/ phase_stage(p)
    PROVE  GateInv'
  <1>0. UNCHANGED <<files, marker, installed, backups, disk>>
        /\ run[p].pc \in {"preflight", "resolve", "stage"}
    BY DEF phase_preflight, phase_resolve, phase_stage, fs, shown, At
  <1>1. CASE Exit(p) BY <1>0, <1>1, GateExit, GateFrame
  <1>2. CASE Goto(p, "resolve")
    <2>1. "resolve" \notin Vetted \cup {"stage"} \cup Applied
      BY DEF Vetted, Saving, Applied
    <2>2. Gated(run[p])' /\ \A q \in Procs \ {p} : run'[q] = run[q]
      BY <1>0, <1>2, <2>1, GateGoto
    <2> QED BY <1>0, <2>2, GateFrame
  <1>3. ASSUME NEW v \in Versions, GateOpen(run[p].force, v),
               run' = [run EXCEPT ![p] = [@ EXCEPT !.pc = "stage", !.ver = v]]
        PROVE  GateInv'
    <2>1. /\ \A q \in Procs \ {p} : run'[q] = run[q]
          /\ run'[p].pc = "stage" /\ run'[p].ver = v
          /\ run'[p].mode = run[p].mode /\ run'[p].force = run[p].force
      BY <1>3 DEF TypeOK, RunState
    <2>2. ~ run[p].force /\ run[p].mode # "restore-last"
      BY <1>0 DEF GateInv, Gated
    <2>3. installed \notin Versions \/ v > installed
      BY Zenon, <1>3, <2>2 DEF GateOpen
    <2>4. "stage" # "apply" /\ "stage" \notin Applied BY DEF Applied
    <2>5. Gated(run[p])'
      BY Zenon, <1>0, <2>1, <2>2, <2>3, <2>4 DEF Gated, Applied
    <2> QED BY <1>0, <2>1, <2>5, GateFrame
  <1>4. CASE Goto(p, "backup") /\ run[p].pc = "stage"
    <2>1. "backup" \in Vetted \ {"apply"} BY DEF Vetted
    <2>2. Gated(run[p])' /\ \A q \in Procs \ {p} : run'[q] = run[q]
      BY <1>0, <1>4, <2>1, GateGoto
    <2> QED BY <1>0, <2>2, GateFrame
  <1> QED BY Zenon, <1>1, <1>2, <1>3, <1>4
          DEF phase_preflight, phase_resolve, phase_stage, Die, At

\* While a backup is taken or pruned no marker names one.
LEMMA GateBackup ==
    ASSUME TypeOK, Inv, GateInv, NEW p \in Procs,
           BackupOpen(p) \/ BackupFile(p) \/ BackupComplete(p) \/ prune_backups(p)
    PROVE  GateInv'
  <1>0. UNCHANGED <<files, marker, installed, disk>>
        /\ run[p].pc \in {"backup", "copy", "prune"}
    BY DEF BackupOpen, BackupFile, BackupComplete, prune_backups, At
  <1>1. ~ Usable(marker)
    <2>1. run[p].pc \in Before \cup Saving \cup Applied
      BY <1>0 DEF Before, Saving, Applied
    <2>2. ~ Usable(marker) \/ marker = NoBackup
      BY Zenon, <2>1 DEF Inv, RunInv
    <2> QED BY Zenon, <2>2, VersionBounds
  <1>2. /\ Truthful(installed', files', marker', backups')
        /\ Truthful(disk'.installed, disk'.files, disk'.marker, disk'.backups)
    BY Zenon, <1>0, <1>1 DEF GateInv, Truthful
  <1>3. CASE BackupComplete(p) \/ prune_backups(p)
    <2>1. PICK l : Goto(p, l) /\ (\/ run[p].pc = "copy" /\ l = "backup-sync"
                                  \/ run[p].pc = "prune" /\ l = "end")
      BY <1>3 DEF BackupComplete, prune_backups, At
    <2>2. \/ run[p].pc \in Vetted \cup {"stage"} /\ l \in Vetted \ {"apply"}
          \/ run[p].pc \in Applied /\ l \in Applied
      BY <2>1 DEF Vetted, Saving, Applied
    <2>3. Gated(run[p])' /\ \A q \in Procs \ {p} : run'[q] = run[q]
      BY <1>0, <2>1, <2>2, GateGoto
    <2> QED BY <1>0, <1>2, <2>3, GateHolder
  <1>4. CASE BackupOpen(p) \/ BackupFile(p)
    <2>1. /\ \A q \in Procs \ {p} : run'[q] = run[q]
          /\ run'[p].pc = "copy" /\ run'[p].ver = run[p].ver
          /\ run'[p].mode = run[p].mode /\ run'[p].force = run[p].force
      <3>1. CASE BackupOpen(p)
        <4>1. \E b : run' = [run EXCEPT ![p] = [@ EXCEPT !.pc = "copy", !.bk = b,
                                      !.todo = Payload[run[p].ver]]]
          BY Zenon, <3>1 DEF BackupOpen
        <4> QED BY <4>1 DEF TypeOK, RunState
      <3>2. CASE BackupFile(p)
        <4>1. run[p].pc = "copy"
              /\ \E f : run' = [run EXCEPT ![p].todo = @ \ {f}]
          BY Zenon, <3>2 DEF BackupFile, At
        <4> QED BY <4>1 DEF TypeOK, RunState
      <3> QED BY Zenon, <1>4, <3>1, <3>2
    <2>2. Gated(run[p]) BY Zenon DEF GateInv
    <2>3. run[p].pc \in {"backup", "copy"} BY <1>4 DEF BackupOpen, BackupFile, At
    <2>4. /\ run[p].pc \in Vetted \cup {"stage"} /\ run[p].pc # "idle"
          /\ "copy" \notin Applied
      BY <2>3 DEF Vetted, Saving, Applied
    <2>5. Gated(run[p])'
      BY Zenon, <1>0, <2>1, <2>2, <2>4 DEF Gated, Applied
    <2> QED BY <1>0, <1>2, <2>1, <2>5, GateHolder
  <1> QED BY Zenon, <1>3, <1>4

LEMMA GateSync ==
    ASSUME TypeOK, Inv, GateInv, NEW p \in Procs,
           \/ BackupSync(p) \/ SyncMarker(p) \/ ApplySync(p) \/ RestoreSync(p)
           \/ SyncVersion(p) \/ FinishWithReboot(p)
    PROVE  GateInv'
  <1>1. UNCHANGED <<files, marker, installed>>
        /\ (Synced(TornBackups) \/ Synced(SyncedBackups))
    BY Zenon, SyncAllSynced, SyncOneSynced
       DEF BackupSync, SyncMarker, ApplySync, RestoreSync, SyncVersion,
           FinishWithReboot
  <1>2. /\ Truthful(installed', files', marker', backups')
        /\ Truthful(disk'.installed, disk'.files, disk'.marker, disk'.backups)
    BY Zenon, <1>1, TruthfulSynced DEF GateInv, Inv
  <1>3. CASE SyncMarker(p)
    <2>1. /\ run[p].pc = "mark-sync"
          /\ run' = [run EXCEPT ![p] = [@ EXCEPT !.pc = "apply",
                                          !.todo = Payload[run[p].ver]]]
      BY Zenon, <1>3 DEF SyncMarker, At
    <2>2. /\ \A q \in Procs \ {p} : run'[q] = run[q]
          /\ run'[p].pc = "apply" /\ run'[p].ver = run[p].ver
          /\ run'[p].mode = run[p].mode /\ run'[p].force = run[p].force
          /\ run'[p].todo = Payload[run[p].ver]
      BY <2>1 DEF TypeOK, RunState
    <2>3. Gated(run[p]) BY Zenon DEF GateInv
    <2>4. /\ run[p].pc \in Vetted \cup {"stage"} /\ run[p].pc # "idle"
          /\ "apply" \notin Applied
      BY <2>1 DEF Vetted, Applied
    <2>5. Gated(run[p])'
      BY Zenon, <1>1, <2>2, <2>3, <2>4 DEF Gated, Applied
    <2> QED BY <1>2, <2>2, <2>4, <2>5, GateHolder
  <1>4. CASE FinishWithReboot(p)
    <2>1. Exit(p) /\ run[p].pc = "end" BY Zenon, <1>4 DEF FinishWithReboot, At
    <2> QED BY <1>2, <2>1, GateExit, GateHolder
  <1>5. CASE BackupSync(p) \/ ApplySync(p) \/ RestoreSync(p) \/ SyncVersion(p)
    <2>1. PICK l : Goto(p, l) /\ (\/ run[p].pc = "backup-sync" /\ l = "last"
                                  \/ run[p].pc = "apply-sync" /\ l = "apt"
                                  \/ run[p].pc = "restore" /\ l = "unmark"
                                  \/ run[p].pc = "version-sync" /\ l = "units")
      BY <1>5 DEF BackupSync, ApplySync, RestoreSync, SyncVersion, At
    <2>2. \/ run[p].pc \in Vetted \cup {"stage"} /\ l \in Vetted \ {"apply"}
          \/ run[p].pc \in Applied /\ l \in Applied
          \/ l \notin Vetted \cup {"stage"} \cup Applied
      BY <2>1 DEF Vetted, Saving, Applied
    <2>3. run[p].pc # "idle" BY <2>1
    <2>4. Gated(run[p])' /\ \A q \in Procs \ {p} : run'[q] = run[q]
      BY Zenon, <1>1, <2>1, <2>2, <2>3, GateGoto
    <2> QED BY Zenon, <1>2, <2>3, <2>4, GateHolder
  <1> QED BY Zenon, <1>3, <1>4, <1>5

\* The marker is written when the backup it names holds the present files.
LEMMA GateMark ==
    ASSUME TypeOK, Inv, GateInv, NEW p \in Procs, WriteMarker(p)
    PROVE  GateInv'
  <1>1. /\ UNCHANGED <<files, installed, backups, disk>> /\ run[p].pc = "mark"
        /\ marker' = run[p].bk /\ Goto(p, "mark-sync")
    BY Zenon DEF WriteMarker, At
  <1>2. Covers(run[p]) BY Zenon, <1>1 DEF Inv, RunInv
  <1>3. ASSUME installed \in Versions, NEW f \in Payload[installed]
        PROVE  backups[run[p].bk].saved[f] >= installed
    <2>1. f \in Path /\ files[f] >= installed
      BY Zenon, <1>3, VersionBounds DEF GateInv, Truthful, Reaches
    <2>2. backups[run[p].bk].saved[f] \in {files[f], NotSaved}
      BY <1>2, <2>1 DEF Covers
    <2> QED BY Zenon, <1>3, <2>1, <2>2, VersionBounds
  <1>4. /\ Truthful(installed', files', marker', backups')
        /\ Truthful(disk'.installed, disk'.files, disk'.marker, disk'.backups)
    BY Zenon, <1>1, <1>3 DEF GateInv, Truthful, Reaches
  <1>5. run[p].pc \in Vetted \cup {"stage"} /\ "mark-sync" \in Vetted \ {"apply"}
        /\ run[p].pc # "idle"
    BY <1>1 DEF Vetted
  <1>6. Gated(run[p])' /\ \A q \in Procs \ {p} : run'[q] = run[q]
    BY Zenon, <1>1, <1>5, GateGoto
  <1> QED BY Zenon, <1>4, <1>5, <1>6, GateHolder

\* Every file is the release's when the marker goes.
LEMMA GateApplyDone ==
    ASSUME TypeOK, Inv, GateInv, NEW p \in Procs, ApplyDone(p)
    PROVE  GateInv'
  <1>1. /\ UNCHANGED <<files, installed, backups, disk>> /\ run[p].pc = "apply"
        /\ run[p].todo = {} /\ marker' = NoBackup /\ Goto(p, "apply-sync")
    BY Zenon DEF ApplyDone, At
  <1>2. /\ Truthful(installed', files', marker', backups')
        /\ Truthful(disk'.installed, disk'.files, disk'.marker, disk'.backups)
    BY Zenon, <1>1, VersionBounds DEF GateInv, Truthful
  <1>3. /\ \A q \in Procs \ {p} : run'[q] = run[q]
        /\ run'[p].pc = "apply-sync" /\ run'[p].mode = run[p].mode
        /\ run'[p].ver = run[p].ver
    BY Zenon, <1>1, GotoMoves
  <1>4. run'[p].force = run[p].force BY <1>1 DEF TypeOK, Goto, RunState
  <1>5. run[p].pc # "idle" /\ "apply-sync" \notin Vetted \cup {"stage"}
        /\ "apply-sync" # "apply"
    BY <1>1 DEF Vetted, Saving
  <1>6. \A f \in Payload[run[p].ver] : files[f] = run[p].ver
    BY Zenon, <1>1 DEF GateInv, Gated
  <1>7. Gated(run[p]) BY Zenon DEF GateInv
  <1>8. Gated(run[p])'
    BY Zenon, <1>1, <1>3, <1>4, <1>5, <1>6, <1>7 DEF Gated, Vetted, Saving
  <1> QED BY Zenon, <1>2, <1>3, <1>5, <1>8, GateHolder

\* The version is recorded when every file of the release is in place.
LEMMA GateRecord ==
    ASSUME TypeOK, Inv, GateInv, NEW p \in Procs, RecordVersion(p)
    PROVE  GateInv'
  <1>1. /\ UNCHANGED <<files, marker, backups, disk>> /\ run[p].pc = "version"
        /\ installed' = run[p].ver /\ Goto(p, "version-sync")
    BY Zenon DEF RecordVersion, At
  <1>2. run[p].pc \in Applied /\ run[p].pc # "idle" BY <1>1 DEF Applied
  <1>3. marker = NoBackup BY Zenon, <1>2 DEF Inv, RunInv
  <1>4. \A f \in Payload[run[p].ver] : files[f] = run[p].ver
    BY Zenon, <1>2 DEF GateInv, Gated
  <1>5. /\ Truthful(installed', files', marker', backups')
        /\ Truthful(disk'.installed, disk'.files, disk'.marker, disk'.backups)
    BY Zenon, <1>1, <1>3, <1>4, VersionBounds DEF GateInv, Truthful, Reaches
  <1>6. /\ \A q \in Procs \ {p} : run'[q] = run[q]
        /\ run'[p].pc = "version-sync" /\ run'[p].mode = run[p].mode
        /\ run'[p].ver = run[p].ver
    BY Zenon, <1>1, GotoMoves
  <1>7. run'[p].force = run[p].force BY <1>1 DEF TypeOK, Goto, RunState
  <1>8. "version-sync" \notin Vetted \cup {"stage"} /\ "version-sync" # "apply"
    BY DEF Vetted, Saving
  <1>9. Gated(run[p]) BY Zenon DEF GateInv
  <1>10. Gated(run[p])'
    BY Zenon, <1>1, <1>2, <1>4, <1>6, <1>7, <1>8, <1>9 DEF Gated, Vetted, Saving
  <1> QED BY Zenon, <1>2, <1>5, <1>6, <1>10, GateHolder

\* The other steps that write a record, or nothing.
LEMMA GateQuiet ==
    ASSUME TypeOK, Inv, GateInv, NEW p \in Procs,
           \/ RecordLast(p) \/ ApplyFails(p) \/ phase_apt(p) \/ InstallUnits(p)
           \/ RestoreOpen(p) \/ FinishWithRestarts(p)
    PROVE  GateInv'
  <1>0. UNCHANGED <<files, marker, installed, backups, disk>>
    BY Zenon DEF RecordLast, ApplyFails, phase_apt, InstallUnits, RestoreOpen,
       FinishWithRestarts, fs, shown
  <1>1. run[p].pc \in {"last", "apply", "apt", "units", "open", "end"}
    BY DEF RecordLast, ApplyFails, phase_apt, InstallUnits, RestoreOpen,
       FinishWithRestarts, At
  <1>2. run[p].pc # "idle" BY <1>1
  <1>3. CASE Exit(p) BY Zenon, <1>0, <1>2, <1>3, GateExit, GateFrame
  <1>4. CASE \E l : Goto(p, l) /\ (\/ run[p].pc = "last" /\ l = "mark"
                                   \/ run[p].pc = "apply" /\ l = "open"
                                   \/ run[p].pc = "apt" /\ l = "version"
                                   \/ run[p].pc = "units" /\ l = "prune")
    <2>1. PICK l : Goto(p, l) /\ (\/ run[p].pc = "last" /\ l = "mark"
                                  \/ run[p].pc = "apply" /\ l = "open"
                                  \/ run[p].pc = "apt" /\ l = "version"
                                  \/ run[p].pc = "units" /\ l = "prune")
      BY <1>4
    <2>2. \/ run[p].pc \in Vetted \cup {"stage"} /\ l \in Vetted \ {"apply"}
          \/ run[p].pc \in Applied /\ l \in Applied
          \/ l \notin Vetted \cup {"stage"} \cup Applied
      BY <2>1 DEF Vetted, Saving, Applied
    <2>3. Gated(run[p])' /\ \A q \in Procs \ {p} : run'[q] = run[q]
      BY Zenon, <1>0, <1>2, <2>1, <2>2, GateGoto
    <2> QED BY Zenon, <1>0, <1>2, <2>3, GateFrame
  <1>5. CASE \E b, S : run' = [run EXCEPT ![p] =
                                 [@ EXCEPT !.pc = "restore", !.bk = b, !.todo = S]]
    <2>1. /\ \A q \in Procs \ {p} : run'[q] = run[q]
          /\ run'[p].pc = "restore" /\ run'[p].mode = run[p].mode
          /\ run'[p].force = run[p].force
      BY <1>5 DEF TypeOK, RunState
    <2>2. "restore" \notin Vetted \cup {"stage"} \cup Applied /\ "restore" # "apply"
      BY DEF Vetted, Saving, Applied
    <2>3. Gated(run[p]) BY Zenon DEF GateInv
    <2>4. Gated(run[p])'
      BY Zenon, <1>2, <2>1, <2>2, <2>3 DEF Gated, Vetted, Saving, Applied
    <2> QED BY Zenon, <1>0, <1>2, <2>1, <2>4, GateFrame
  <1>6. RestoreOpen(p) => Exit(p) \/
          \E b, S : run' = [run EXCEPT ![p] =
                              [@ EXCEPT !.pc = "restore", !.bk = b, !.todo = S]]
    BY DEF RestoreOpen, Die
  <1>7. RecordLast(p) \/ ApplyFails(p) \/ phase_apt(p) \/ InstallUnits(p)
        \/ FinishWithRestarts(p) => Exit(p) \/
          \E l : Goto(p, l) /\ (\/ run[p].pc = "last" /\ l = "mark"
                                \/ run[p].pc = "apply" /\ l = "open"
                                \/ run[p].pc = "apt" /\ l = "version"
                                \/ run[p].pc = "units" /\ l = "prune")
    BY Zenon DEF RecordLast, ApplyFails, phase_apt, InstallUnits,
       FinishWithRestarts, Die, At
  <1> QED BY Zenon, <1>3, <1>4, <1>5, <1>6, <1>7

\* A restore that is done or a run that stops leaves the files and at most
\* empties a record.
LEMMA GateStop ==
    ASSUME TypeOK, Inv, GateInv, NEW p \in Procs, RestoreDone(p) \/ Stop(p)
    PROVE  GateInv'
  <1>1. /\ UNCHANGED <<files, backups, disk>> /\ Exit(p) /\ run[p].pc # "idle"
        /\ marker' \in {marker, Empty, NoBackup} /\ installed' \in {installed, Torn}
    <2>1. CASE RestoreDone(p) BY <2>1 DEF RestoreDone, At
    <2>2. CASE Stop(p)
      <3>1. Truncated(p, "mark", marker, Empty) /\ Truncated(p, "version", installed, Torn)
        BY Zenon, <2>2 DEF Stop
      <3>2. marker' \in {marker, Empty} /\ installed' \in {installed, Torn}
        BY <3>1 DEF Truncated
      <3> QED BY Zenon, <2>2, <3>2 DEF Stop
    <2> QED BY Zenon, <2>1, <2>2
  <1>2. /\ Truthful(installed', files', marker', backups')
        /\ Truthful(disk'.installed, disk'.files, disk'.marker, disk'.backups)
    BY Zenon, <1>1, VersionBounds DEF GateInv, Truthful, Reaches
  <1> QED BY Zenon, <1>1, <1>2, GateExit, GateHolder

\* apply_one installs a later release, RestoreFile copies no older than the
\* recorded version.
LEMMA GateWrite ==
    ASSUME TypeOK, Inv, GateInv, NEW p \in Procs, apply_one(p) \/ RestoreFile(p)
    PROVE  GateInv'
  <1>1. PICK f, v :
          /\ f \in run[p].todo
          /\ files' = [files EXCEPT ![f] = v]
          /\ run' = [run EXCEPT ![p].todo = @ \ {f}]
          /\ v = IF run[p].pc = "apply" THEN run[p].ver
                 ELSE backups[run[p].bk].saved[f]
          /\ run[p].pc \in {"apply", "restore"}
    BY DEF apply_one, RestoreFile, atomic_install, At
  <1>2. UNCHANGED <<marker, installed, backups, disk>>
    BY Zenon DEF apply_one, RestoreFile
  <1>3. /\ \A q \in Procs \ {p} : run'[q] = run[q]
        /\ run'[p].pc = run[p].pc /\ run'[p].ver = run[p].ver
        /\ run'[p].mode = run[p].mode /\ run'[p].force = run[p].force
        /\ run'[p].todo = run[p].todo \ {f}
    BY <1>1 DEF TypeOK, RunState
  <1>4. f \in Path BY <1>1 DEF TypeOK, RunState
  <1>5. files'[f] = v /\ \A g \in Path \ {f} : files'[g] = files[g]
    BY <1>1, <1>4 DEF TypeOK
  <1>6. Gated(run[p]) BY Zenon DEF GateInv
  <1>7. /\ run[p].pc # "idle" /\ "apply" \in Vetted /\ "apply" \notin Applied
        /\ "restore" \notin Vetted \cup {"stage"} \cup Applied
    BY <1>1 DEF Vetted, Saving, Applied
  <1>8. ASSUME installed \in Versions, f \in Payload[installed] PROVE v >= installed
    <2>1. CASE run[p].pc = "apply"
      <3>1. run[p].ver > installed BY Zenon, <1>6, <1>7, <1>8, <2>1 DEF Gated
      <3>2. run[p].ver \in Versions BY Zenon, <2>1 DEF Inv, RunInv
      <3>3. v = run[p].ver BY <1>1, <2>1
      <3>4. run[p].ver \in Nat /\ installed \in Nat
        BY Zenon, <1>8, <3>2, VersionBounds
      <3> QED BY <3>1, <3>3, <3>4
    <2>2. CASE run[p].pc = "restore"
      <3>1. run[p].mode # "restore-last" BY Zenon, <1>6, <1>7 DEF Gated
      <3>2. run[p].bk \in BackupId /\ marker = run[p].bk
        BY <2>2, <3>1 DEF Inv, RunInv
      <3>3. backups[run[p].bk].saved[f] >= installed
        BY Zenon, <1>8, <3>2 DEF GateInv, Truthful, Reaches, Usable
      <3> QED BY <1>1, <2>2, <3>3
    <2> QED BY <1>1, <2>1, <2>2
  <1>9. ASSUME installed \in Versions, NEW g \in Payload[installed]
        PROVE  files'[g] >= installed
    <2>1. g \in Path /\ files[g] >= installed
      BY Zenon, <1>9, VersionBounds DEF GateInv, Truthful, Reaches
    <2> QED BY Zenon, <1>5, <1>8, <1>9, <2>1
  <1>10. /\ Truthful(installed', files', marker', backups')
         /\ Truthful(disk'.installed, disk'.files, disk'.marker, disk'.backups)
    BY Zenon, <1>2, <1>9 DEF GateInv, Truthful, Reaches
  <1>11. Gated(run[p])'
    <2>1. CASE run[p].pc = "apply"
      <3>1. Payload[run[p].ver] \subseteq Path
        BY Zenon, <2>1, VersionBounds DEF Inv, RunInv
      <3>2. v = run[p].ver BY <1>1, <2>1
      <3>3. \A g \in Payload[run[p].ver] \ run[p].todo : files[g] = run[p].ver
        BY Zenon, <1>6, <2>1 DEF Gated
      <3>4. \A g \in Payload[run[p].ver] \ (run[p].todo \ {f}) : files'[g] = run[p].ver
        BY Zenon, <1>5, <3>1, <3>2, <3>3
      <3> QED BY Zenon, <1>2, <1>3, <1>6, <1>7, <2>1, <3>4
              DEF Gated, Vetted, Saving, Applied
    <2>2. CASE run[p].pc = "restore"
      BY Zenon, <1>3, <1>6, <1>7, <2>2 DEF Gated, Vetted, Saving, Applied
    <2> QED BY <1>1, <2>1, <2>2
  <1> QED BY Zenon, <1>3, <1>7, <1>10, <1>11, GateHolder

LEMMA GateStep ==
    ASSUME Manual = {}, TypeOK, Inv, GateInv, [Next]_vars
    PROVE  GateInv'
  <1>1. ASSUME NEW p \in Procs, Start(p) PROVE GateInv'
    <2>1. PICK mode \in {"update", "verify"} : TakeLock(p, mode, FALSE)
      <3>1. "force" \notin Manual /\ "restore-last" \notin Manual OBVIOUS
      <3>2. CASE StartUpdate(p)
        <4>1. PICK force \in BOOLEAN : ~ force /\ TakeLock(p, "update", force)
          BY Zenon, <3>1, <3>2 DEF StartUpdate
        <4>2. force = FALSE BY Zenon, <4>1
        <4> QED BY Zenon, <4>1, <4>2
      <3> QED BY Zenon, <1>1, <3>1, <3>2 DEF Start, StartVerify, StartRestoreLast
    <2> QED BY Zenon, <2>1, GateTakeLock
  <1>2. ASSUME NEW p \in Procs, Proceed(p) \/ ApplyFails(p) \/ Stop(p)
        PROVE  GateInv'
    BY Zenon, <1>2, GateEarly, GateBackup, GateSync, GateMark, GateApplyDone,
       GateRecord, GateQuiet, GateStop, GateWrite DEF Proceed
  <1>3. CASE VerifyRefused \/ UNCHANGED vars
    <2>1. UNCHANGED <<files, marker, installed, backups, disk, run>>
      BY Zenon, <1>3 DEF VerifyRefused, vars, fs, shown
    <2> QED BY Zenon, <2>1 DEF GateInv, Truthful, Reaches, Gated, Usable
  <1>4. CASE Commit
    <2>1. UNCHANGED <<files, marker, installed, run>> /\ Synced(TornBackups)
      BY Zenon, <1>4, CommitSynced DEF Commit, shown
    <2>2. /\ Truthful(installed', files', marker', backups')
          /\ Truthful(disk'.installed, disk'.files, disk'.marker, disk'.backups)
      BY Zenon, <2>1, TruthfulSynced DEF GateInv, Inv
    <2>3. \A p \in Procs : Gated(run[p])' BY Zenon, <2>1 DEF GateInv, Gated
    <2> QED BY Zenon, <2>2, <2>3 DEF GateInv, Truthful, Reaches, Usable
  <1>5. CASE PowerCut
    <2>1. \A p \in Procs : run'[p].pc = "idle" BY <1>5 DEF PowerCut, Idle
    <2>2. "idle" \notin Vetted \cup {"stage"} \cup Applied
      BY DEF Vetted, Saving, Applied
    <2>3. \A p \in Procs : Gated(run[p])'
      BY Zenon, <2>1, <2>2 DEF Gated, Vetted, Saving, Applied
    <2>4. files' = disk.files /\ backups' = disk.backups /\ disk' = disk
          /\ marker' = disk.marker /\ installed' = disk.installed
      BY Zenon, <1>5 DEF PowerCut
    <2>5. /\ Truthful(installed, files, marker, backups)'
          /\ Truthful(disk.installed, disk.files, disk.marker, disk.backups)'
      BY Zenon, <2>4 DEF GateInv, Truthful, Reaches, Usable
    <2> QED BY Zenon, <2>3, <2>5 DEF GateInv
  <1> QED BY Zenon, <1>1, <1>2, <1>3, <1>4, <1>5 DEF Next

LEMMA GateInit == Init => GateInv
  <1> SUFFICES ASSUME Init PROVE GateInv OBVIOUS
  <1>1. \A p \in Procs : run[p].pc = "idle" BY DEF Init, Idle
  <1>2. "idle" \notin Vetted \cup {"stage"} \cup Applied
    BY DEF Vetted, Saving, Applied
  <1>3. \A p \in Procs : Gated(run[p]) BY Zenon, <1>1, <1>2 DEF Gated
  <1>4. Absent \notin Versions BY DEF Absent, Versions
  <1>5. installed = Absent /\ marker = NoBackup /\ disk.installed = Absent
        /\ disk.marker = NoBackup
    BY DEF Init, Image
  <1> QED BY Zenon, <1>3, <1>4, <1>5, VersionBounds DEF GateInv, Truthful, Reaches

\* The version gate can be trusted: with no run active and no marker left,
\* every file of the release that installed-version names is that release's or
\* a later one's, whatever failed on the way, as long as the operator neither
\* forces a release, nor restores by hand, nor updates over a half-done run.
THEOREM GateIsTruthful ==
    ASSUME Manual = {}
    PROVE  Spec => []GateTruthful
  <1>0. "rerun" \notin Manual OBVIOUS
  <1>1. Init => GateInv BY GateInit
  <1>2. GateInv /\ (TypeOK /\ Inv) /\ [Next]_vars => GateInv' BY GateStep
  <1>3. GateInv => GateTruthful
    BY Zenon DEF GateInv, Truthful, Reaches, GateTruthful
  <1>4. Spec => [](TypeOK /\ Inv) BY <1>0, Invariance
  <1> QED BY <1>1, <1>2, <1>3, <1>4, PTL DEF Spec
=============================================================================
