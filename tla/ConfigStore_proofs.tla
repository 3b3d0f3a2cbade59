------------------------- MODULE ConfigStore_proofs -------------------------
(***************************************************************************)
(* The administrator's settings survive, a reload ends with what the files *)
(* say, and a discovery keeps the administrator's edits, for every set of  *)
(* names and directories, any number of edits, scans and restarts.         *)
(*                                                                         *)
(* SettingsRecoverable is not inductive: that config set may remove its    *)
(* backup in the end needs that the new main file is then in place and     *)
(* was computed from the one that was put aside.  BackupInv says where the *)
(* settings are in each phase of saveSplit, CliInv what the command knows. *)
(* WatchInv and SettleInv say which event is still to come for a file that *)
(* differs from what the daemon has read, KeepInv what a discovery carries *)
(* from its merge to its save.                                             *)
(***************************************************************************)
EXTENDS ConfigStore, TLAPS

\* The administrator's own main file, not the provisioned default.
Own(m) == m.ok /\ m.g # "default"

\* While there is a backup the settings are in it, else in the main file.
BackupInv ==
    \/ raced \/ left
    \/ IF cli.bakMain.ok THEN Own(cli.bakMain) ELSE Own(main)

\* Before the main file is put aside it is there, afterwards its backup is; and
\* unless the start has interfered, what is saved stems from it.
CliInv ==
    /\ cli.pc \in {"newMain", "bakAuto", "newAuto", "done", "undoAuto", "undoMain"}
         <=> cli.bakMain.ok
    /\ cli.pc \in {"names", "stat", "bakMain"} =>
         main.ok /\ (raced \/ (Own(main) => cli.cfg.g # "default"))
    /\ cli.pc = "newMain" =>
         raced \/ (Own(cli.bakMain) => cli.cfg.g # "default")
    /\ cli.pc \in {"bakAuto", "newAuto", "done"} =>
         main.ok /\ (raced \/ (Own(cli.bakMain) => Own(main)))

-----------------------------------------------------------------------------
\* The constants of the module have their types.
LEMMA ConstantTypes ==
  /\ NoServers \in [Names -> Entry] /\ NoKeys \in [Keys -> Entry]
  /\ NoMain \in MainFile /\ NoAuto \in AutoFile /\ DefaultConfig \in Config
  /\ NoCli \in CliState /\ NoLoad \in LoadState /\ NoScan \in ScanState
<1>1. NoServers \in [Names -> Entry] /\ NoKeys \in [Keys -> Entry]
  BY DEF NoServers, NoKeys, Entry
<1>2. NoMain \in MainFile /\ NoAuto \in AutoFile /\ DefaultConfig \in Config
  BY <1>1 DEF NoMain, NoAuto, DefaultConfig, MainFile, AutoFile, Config, Setting
<1>3. NoCli \in CliState
  BY <1>1, <1>2 DEF NoCli, CliState, CliPCs
<1>4. NoScan \in ScanState
  BY <1>1 DEF NoScan, ScanState, ScanPCs
<1>5. NoLoad \in LoadState
  BY <1>1 DEF NoLoad, LoadState, LoadPCs
<1>6. QED
  BY <1>1, <1>2, <1>3, <1>4, <1>5

\* Loading yields a configuration with the main file's setting.
LEMMA LoadedType ==
  ASSUME NEW a, NEW m \in MainFile, NEW c \in Loaded(a, m)
  PROVE  c \in Config /\ c.g = m.g
BY DEF Loaded, Config, MainFile

\* config set changes a configuration into one and never sets the default.
LEMMA EditedType ==
  ASSUME NEW c \in Config, NEW e \in Edited(c)
  PROVE  e \in Config /\ (c.g # "default" => e.g # "default")
<1>1. CASE e = [c EXCEPT !.g = "new"]
  BY <1>1 DEF Config, Setting
<1>2. ASSUME NEW n \in Names, NEW v \in {"off", "on"},
             e = [c EXCEPT !.srv[n] = v]
      PROVE  e \in Config /\ e.g = c.g
  BY <1>2 DEF Config, Entry
<1>3. QED
  BY <1>1, <1>2 DEF Edited

\* The names of a sidecar are names.
LEMMA AutoNamesType ==
  ASSUME NEW a
  PROVE  AutoNames(a) \subseteq Names
BY LowerAssumption DEF AutoNames

\* What config set writes.
LEMMA NewFilesType ==
  ASSUME cli \in CliState
  PROVE  /\ NewMain \in MainFile /\ NewMain.ok /\ NewMain.g = cli.cfg.g
         /\ NewAuto \in [Keys -> Entry]
<1>1. cli.cfg.g \in Setting /\ cli.cfg.srv \in [Names -> Entry]
  BY DEF CliState, Config
<1>2. cli.names \subseteq Names
  BY DEF CliState
<1>3. NewAuto \in [Keys -> Entry]
  BY <1>1, <1>2 DEF NewAuto, Entry
<1>4. QED
  BY <1>1, <1>2, <1>3 DEF NewMain, MainFile, Entry

\* Every step keeps the types.
LEMMA TypeStep ==
  ASSUME TypeOK, [Next]_vars
  PROVE  TypeOK'
<1>1. CASE CliBegin
  <2>1. cli' \in CliState
    BY <1>1, ConstantTypes DEF CliBegin, TypeOK, CliState, CliPCs, AutoFile
  <2>2. edits' \in 0..MaxEdits
    BY <1>1, EditBounds DEF CliBegin, TypeOK
  <2>3. QED
    BY <1>1, <2>1, <2>2 DEF CliBegin, TypeOK, daemon, seen
<1>2. CASE CliMain
  <2>1. cli' \in CliState
    <3>1. CASE cli' = NoCli
      BY <3>1, ConstantTypes
    <3>2. ASSUME NEW c \in Loaded(cli.raw, main), NEW e \in Edited(c),
                 cli' = [cli EXCEPT !.pc = "names", !.cfg = e, !.raw = NoKeys]
          PROVE  cli' \in CliState
      <4>1. e \in Config
        BY LoadedType, EditedType DEF TypeOK
      <4>2. QED
        BY <3>2, <4>1, ConstantTypes DEF TypeOK, CliState, CliPCs
    <3>3. QED
      BY <1>2, <3>1, <3>2 DEF CliMain
  <2>2. UNCHANGED <<main, auto, left, seen, edits, daemon>>
    BY <1>2 DEF CliMain, CliUnchanged
  <2>3. QED
    BY <2>1, <2>2 DEF TypeOK, daemon, seen
<1>3. CASE CliNames
  BY <1>3, AutoNamesType
     DEF CliNames, CliState, CliPCs, CliUnchanged, TypeOK, Changed, seen,
         daemon
<1>4. CASE CliStat
  BY <1>4
     DEF CliStat, CliState, CliPCs, AutoFile, CliUnchanged, TypeOK, Changed,
         seen, daemon
<1>5. CASE CliAbort
  BY <1>5, ConstantTypes
     DEF CliAbort, CliUnchanged, TypeOK, Changed, seen, daemon
<1>6. CASE CliBakMain
  BY <1>6, ConstantTypes
     DEF CliBakMain, CliState, CliPCs, CliUnchanged, MainChanged, TypeOK,
         Changed, seen, daemon
<1>7. CASE CliNewMain
  BY <1>7, NewFilesType
     DEF CliNewMain, CliState, CliPCs, CliUnchanged, MainChanged, TypeOK,
         Changed, seen, daemon
<1>8. CASE CliBakAuto
  BY <1>8, ConstantTypes
     DEF CliBakAuto, CliState, CliPCs, CliUnchanged, AutoChanged, TypeOK,
         Changed, seen, daemon
<1>9. CASE CliNewAuto
  BY <1>9, NewFilesType
     DEF CliNewAuto, CliState, CliPCs, AutoFile, CliUnchanged, AutoChanged,
         TypeOK, Changed, seen, daemon
<1>10. CASE CliDone
  BY <1>10, ConstantTypes
     DEF CliDone, CliUnchanged, TypeOK, Changed, seen, daemon
<1>11. CASE CliFail
  BY <1>11
     DEF CliFail, CliState, CliPCs, CliUnchanged, TypeOK, Changed, seen, daemon
<1>12. CASE CliUndoAuto
  BY <1>12
     DEF CliUndoAuto, CliState, CliPCs, CliUnchanged, AutoChanged, TypeOK,
         Changed, seen, daemon
<1>13. CASE CliUndoMain
  BY <1>13, ConstantTypes
     DEF CliUndoMain, CliState, CliUnchanged, MainChanged, TypeOK, Changed,
         seen, daemon
<1>14. CASE CliCrash
  BY <1>14, ConstantTypes
     DEF CliCrash, CliUnchanged, TypeOK, Changed, seen, daemon
<1>15. CASE Start
  BY <1>15
     DEF Start, LoadState, LoadPCs, LoadUnchanged, TypeOK, Changed, seen,
         daemon
<1>16. CASE Stop
  <2>1. load' \in LoadState
    BY <1>16, ConstantTypes DEF Stop
  <2>2. scan' \in [Scans -> ScanState]
    BY <1>16, ConstantTypes DEF Stop
  <2>3. stops' \in 0..MaxStops
    BY <1>16, EditBounds DEF Stop, TypeOK
  <2>4. QED
    BY <1>16, <2>1, <2>2, <2>3, ConstantTypes DEF Stop, TypeOK
<1>17. CASE WatchEvent
  BY <1>17
     DEF WatchEvent, LoadState, LoadPCs, LoadUnchanged, TypeOK, Changed, seen,
         daemon
<1>18. CASE LoadAuto
  BY <1>18
     DEF LoadAuto, LoadState, LoadPCs, AutoFile, LoadUnchanged, TypeOK,
         Changed, seen, daemon
<1>19. CASE LoadMain
  BY <1>19, ConstantTypes, LoadedType
     DEF LoadMain, LoadState, LoadPCs, LoadUnchanged, TypeOK, Changed, seen,
         daemon
<1>20. CASE StartStat
  BY <1>20
     DEF StartStat, LoadState, LoadPCs, LoadUnchanged, TypeOK, Changed, seen,
         daemon
<1>21. CASE StartDefault
  BY <1>21, ConstantTypes
     DEF StartDefault, DefaultMain, DefaultConfig, LoadState, LoadPCs,
         MainFile, Setting, LoadUnchanged, MainChanged, TypeOK, Changed, seen,
         daemon
<1>22. CASE StartNew
  BY <1>22, AutoNamesType
     DEF StartNew, LoadState, LoadPCs, Keys, LoadUnchanged, TypeOK, Changed,
         seen, daemon
<1>23. CASE StartWatch
  BY <1>23
     DEF StartWatch, LoadState, LoadPCs, LoadUnchanged, TypeOK, Changed, seen,
         daemon
<1>24. ASSUME NEW d \in Dirs, NewDir(d)
      PROVE  TypeOK'
  BY <1>24
     DEF NewDir, TypeOK, Changed, seen, daemon
<1>25. ASSUME NEW p \in Scans, ScanList(p)
      PROVE  TypeOK'
  BY <1>25, ConstantTypes
     DEF ScanList, ScanState, ScanPCs, Config, Fresh, ScanUnchanged, TypeOK,
         Changed, seen, daemon
<1>26. ASSUME NEW p \in Scans, ScanMerge(p)
      PROVE  TypeOK'
  <2>1. scan[p] \in ScanState
    BY DEF TypeOK
  <2>2. /\ scan[p].fresh \subseteq Dirs
        /\ scan[p].cfg \in [Names -> Entry]
    BY <2>1 DEF ScanState
  <2>3. Provisioned(p) \in [Keys -> Entry]
    BY <2>2 DEF Provisioned, Entry
  <2>4. [scan[p] EXCEPT !.pc = "save", !.out = Provisioned(p)] \in ScanState
    BY <2>1, <2>3 DEF ScanState, ScanPCs
  <2>5. scan' = [scan EXCEPT ![p] =
                   [scan[p] EXCEPT !.pc = "save", !.out = Provisioned(p)]]
    BY <1>26, <2>1 DEF ScanMerge, TypeOK, ScanState
  <2>6. scan' \in [Scans -> ScanState]
    BY <2>4, <2>5 DEF TypeOK
  <2>7. autoServers' \subseteq Keys
    BY <1>26, <2>2 DEF ScanMerge, TypeOK, Keys
  <2>8. QED
    BY <1>26, <2>6, <2>7 DEF ScanMerge, ScanUnchanged, TypeOK, seen
<1>27. ASSUME NEW p \in Scans, ScanSave(p)
      PROVE  TypeOK'
  BY <1>27, ConstantTypes
     DEF ScanSave, ScanState, AutoFile, ScanUnchanged, AutoChanged, TypeOK,
         Changed, seen, daemon
<1>28. ASSUME NEW p \in Scans, ScanSaveFail(p)
      PROVE  TypeOK'
  BY <1>28, ConstantTypes
     DEF ScanSaveFail, ScanUnchanged, TypeOK, Changed, seen, daemon
<1>29. CASE UNCHANGED vars
  BY <1>29
     DEF vars, daemon, TypeOK, seen
<1>30. QED
  BY <1>1, <1>2, <1>3, <1>4, <1>5, <1>6, <1>7, <1>8, <1>9, <1>10, <1>11, <1>12,
      <1>13, <1>14, <1>15, <1>16, <1>17, <1>18, <1>19, <1>20, <1>21, <1>22,
      <1>23, <1>24, <1>25, <1>26, <1>27, <1>28, <1>29 DEF Next, CliStep,
      LoadStep, ScanStep

\* Every step keeps the settings where they can be found.
LEMMA SafeStep ==
  ASSUME TypeOK, BackupInv, CliInv, [Next]_vars
  PROVE  BackupInv' /\ CliInv'
<1>1. CASE CliBegin
  BY <1>1
     DEF CliBegin, NoCli, NoMain, daemon, TypeOK, BackupInv, CliInv, Own
<1>2. CASE CliMain
  <2>1. CASE main.ok
    <3>1. PICK c \in Loaded(cli.raw, main) : \E e \in Edited(c) :
             cli' = [cli EXCEPT !.pc = "names", !.cfg = e, !.raw = NoKeys]
      BY <1>2, <2>1 DEF CliMain
    <3>2. PICK e \in Edited(c) :
             cli' = [cli EXCEPT !.pc = "names", !.cfg = e, !.raw = NoKeys]
      BY <3>1
    <3>3. main.g # "default" => e.g # "default"
      BY <3>1, <3>2, LoadedType, EditedType DEF TypeOK
    <3>4. /\ cli.pc = "main"
          /\ cli'.pc = "names" /\ cli'.cfg = e /\ cli'.bakMain = cli.bakMain
          /\ UNCHANGED <<main, left, raced>>
      BY <1>2, <3>2 DEF CliMain, CliUnchanged, daemon, TypeOK, CliState
    <3>5. QED
      BY <2>1, <3>3, <3>4 DEF BackupInv, CliInv, Own
  <2>2. CASE ~main.ok
    <3>1. /\ cli.pc = "main" /\ cli' = NoCli
          /\ UNCHANGED <<main, left, raced>>
      BY <1>2, <2>2 DEF CliMain, CliUnchanged, daemon
    <3>2. QED
      BY <3>1 DEF NoCli, NoMain, BackupInv, CliInv, Own
  <2>3. QED
    BY <2>1, <2>2
<1>3. CASE CliNames
  BY <1>3
     DEF CliNames, CliState, CliUnchanged, daemon, TypeOK, BackupInv, CliInv,
         Own
<1>4. CASE CliStat
  BY <1>4
     DEF CliStat, CliState, CliUnchanged, daemon, TypeOK, BackupInv, CliInv,
         Own
<1>5. CASE CliAbort
  BY <1>5
     DEF CliAbort, NoCli, NoMain, CliUnchanged, daemon, TypeOK, BackupInv,
         CliInv, Own
<1>6. CASE CliBakMain
  BY <1>6
     DEF CliBakMain, CliState, NoMain, MainFile, CliUnchanged, daemon, TypeOK,
         BackupInv, CliInv, Own
<1>7. CASE CliNewMain
  BY <1>7, NewFilesType
     DEF CliNewMain, CliState, CliUnchanged, daemon, TypeOK, BackupInv, CliInv,
         Own
<1>8. CASE CliBakAuto
  BY <1>8
     DEF CliBakAuto, CliState, CliUnchanged, daemon, TypeOK, BackupInv, CliInv,
         Own
<1>9. CASE CliNewAuto
  BY <1>9
     DEF CliNewAuto, CliState, CliUnchanged, daemon, TypeOK, BackupInv, CliInv,
         Own
<1>10. CASE CliDone
  BY <1>10
     DEF CliDone, NoCli, NoMain, CliUnchanged, daemon, TypeOK, BackupInv,
         CliInv, Own
<1>11. CASE CliFail
  BY <1>11
     DEF CliFail, CliState, CliUnchanged, daemon, TypeOK, BackupInv, CliInv,
         Own
<1>12. CASE CliUndoAuto
  BY <1>12
     DEF CliUndoAuto, CliState, CliUnchanged, daemon, TypeOK, BackupInv,
         CliInv, Own
<1>13. CASE CliUndoMain
  BY <1>13
     DEF CliUndoMain, NoCli, NoMain, CliUnchanged, daemon, TypeOK, BackupInv,
         CliInv, Own
<1>14. CASE CliCrash
  BY <1>14
     DEF CliCrash, NoCli, NoMain, CliUnchanged, daemon, TypeOK, BackupInv,
         CliInv, Own
<1>15. CASE Start
  BY <1>15
     DEF Start, LoadUnchanged, TypeOK, BackupInv, CliInv, Own
<1>16. CASE Stop
  BY <1>16
     DEF Stop, TypeOK, BackupInv, CliInv, Own
<1>17. CASE WatchEvent
  BY <1>17
     DEF WatchEvent, LoadUnchanged, TypeOK, BackupInv, CliInv, Own
<1>18. CASE LoadAuto
  BY <1>18
     DEF LoadAuto, LoadUnchanged, TypeOK, BackupInv, CliInv, Own
<1>19. CASE LoadMain
  BY <1>19
     DEF LoadMain, LoadUnchanged, TypeOK, BackupInv, CliInv, Own
<1>20. CASE StartStat
  BY <1>20
     DEF StartStat, LoadUnchanged, TypeOK, BackupInv, CliInv, Own
<1>21. CASE StartDefault
  BY <1>21
     DEF StartDefault, DefaultMain, LoadUnchanged, TypeOK, BackupInv, CliInv,
         Own
<1>22. CASE StartNew
  BY <1>22
     DEF StartNew, LoadUnchanged, TypeOK, BackupInv, CliInv, Own
<1>23. CASE StartWatch
  BY <1>23
     DEF StartWatch, LoadUnchanged, TypeOK, BackupInv, CliInv, Own
<1>24. ASSUME NEW d \in Dirs, NewDir(d)
      PROVE  BackupInv' /\ CliInv'
  BY <1>24
     DEF NewDir, TypeOK, BackupInv, CliInv, Own
<1>25. ASSUME NEW p \in Scans, ScanList(p)
      PROVE  BackupInv' /\ CliInv'
  BY <1>25
     DEF ScanList, ScanUnchanged, TypeOK, BackupInv, CliInv, Own
<1>26. ASSUME NEW p \in Scans, ScanMerge(p)
      PROVE  BackupInv' /\ CliInv'
  BY <1>26
     DEF ScanMerge, ScanUnchanged, TypeOK, BackupInv, CliInv, Own
<1>27. ASSUME NEW p \in Scans, ScanSave(p)
      PROVE  BackupInv' /\ CliInv'
  BY <1>27
     DEF ScanSave, ScanUnchanged, TypeOK, BackupInv, CliInv, Own
<1>28. ASSUME NEW p \in Scans, ScanSaveFail(p)
      PROVE  BackupInv' /\ CliInv'
  BY <1>28
     DEF ScanSaveFail, ScanUnchanged, TypeOK, BackupInv, CliInv, Own
<1>29. CASE UNCHANGED vars
  BY <1>29
     DEF vars, daemon, TypeOK, BackupInv, CliInv, Own
<1>30. QED
  BY <1>1, <1>2, <1>3, <1>4, <1>5, <1>6, <1>7, <1>8, <1>9, <1>10, <1>11, <1>12,
      <1>13, <1>14, <1>15, <1>16, <1>17, <1>18, <1>19, <1>20, <1>21, <1>22,
      <1>23, <1>24, <1>25, <1>26, <1>27, <1>28, <1>29 DEF Next, CliStep,
      LoadStep, ScanStep

-----------------------------------------------------------------------------
\* The types hold initially.
LEMMA TypeInit == Init => TypeOK
<1>1. ASSUME Init
      PROVE  TypeOK
  <2>1. main \in MainFile /\ auto \in AutoFile
    BY <1>1, ConstantTypes DEF Init, MainFile, Setting
  <2>2. load \in LoadState
    BY <1>1, ConstantTypes DEF Init
  <2>3. scan \in [Scans -> ScanState]
    BY <1>1, ConstantTypes DEF Init
  <2>4. edits \in 0..MaxEdits /\ stops \in 0..MaxStops
    BY <1>1, EditBounds DEF Init
  <2>5. QED
    BY <1>1, <2>1, <2>2, <2>3, <2>4, ConstantTypes DEF Init, TypeOK
<1>2. QED
  BY <1>1

IInv == TypeOK /\ BackupInv /\ CliInv

\* The strengthened invariant holds throughout.
LEMMA Invariance == Spec => []IInv
<1>1. Init => IInv
  BY TypeInit DEF Init, IInv, BackupInv, CliInv, Own, NoCli, NoMain
<1>2. IInv /\ [Next]_vars => IInv'
  BY TypeStep, SafeStep DEF IInv
<1>3. QED
  BY <1>1, <1>2, PTL DEF Spec

\* Type correctness of the configuration model.
THEOREM TypeCorrect == Spec => []TypeOK
<1>1. IInv => TypeOK
  BY DEF IInv
<1>2. QED
  BY <1>1, Invariance, PTL

\* Whatever rename or rollback fails and whoever is killed, the administrator's
\* main file is in place or in a backup that saveSplit keeps, but for the start
\* that races with config set (config.go:478-553, main.go:416-421).
THEOREM SettingsAreRecoverable == Spec => []SettingsRecoverable
<1>1. IInv => SettingsRecoverable
  BY DEF IInv, BackupInv, SettingsRecoverable, Own
<1>2. QED
  BY <1>1, Invariance, PTL

-----------------------------------------------------------------------------
(***************************************************************************)
(* The watcher catches up with the files                                   *)
(***************************************************************************)

\* Only a started daemon watches, and only a watching one discovers.
WatchInv ==
    /\ watch => load.pc \in {"idle", "auto", "main"}
    /\ \A p \in Scans : scan[p].pc # "idle" => watch

\* A load that is under way has the sidecar of this moment, and one that is over
\* the configuration of this moment, unless a change is still to be seen.
SettleInv ==
    /\ load.pc = "main" => pending \/ blind \/ load.raw = auto.srv
    /\ load.pc \in {"new", "watch", "idle"} =>
         pending \/ blind \/ ~main.ok \/ ac \in Loaded(auto.srv, main)

\* A step outside the daemon: of config set, or of the administrator.
Outside ==
    /\ UNCHANGED <<ac, load, watch, autoServers, scan>>
    /\ UNCHANGED <<main, auto, seen>> \/ Changed

\* Which steps these are.
LEMMA OutsideSteps ==
  ASSUME CliBegin \/ CliStep \/ CliCrash \/ (\E d \in Dirs : NewDir(d)) \/ UNCHANGED vars
  PROVE  Outside
<1>1. CASE CliBegin \/ CliCrash \/ UNCHANGED vars
  BY <1>1 DEF CliBegin, CliCrash, CliUnchanged, vars, daemon, Outside
<1>2. CASE CliStep
  <2>1. UNCHANGED daemon
    BY <1>2 DEF CliStep, CliMain, CliNames, CliStat, CliAbort, CliBakMain, CliNewMain, CliBakAuto,
         CliNewAuto, CliDone, CliFail, CliUndoAuto, CliUndoMain, CliUnchanged
  <2>2. UNCHANGED <<main, auto, seen>> \/ Changed
    BY <1>2 DEF CliStep, CliMain, CliNames, CliStat, CliAbort, CliBakMain, CliNewMain, CliBakAuto,
         CliNewAuto, CliDone, CliFail, CliUndoAuto, CliUndoMain, MainChanged, AutoChanged
  <2> QED
    BY <2>1, <2>2 DEF daemon, Outside
<1>3. ASSUME NEW d \in Dirs, NewDir(d) PROVE Outside
  BY <1>3 DEF NewDir, Outside
<1> QED
  BY <1>1, <1>2, <1>3

\* Every step keeps the watcher to a started daemon.
LEMMA WatchStep ==
  ASSUME TypeOK, WatchInv, [Next]_vars
  PROVE  WatchInv'
<1>1. CASE UNCHANGED <<load, watch, scan>>
  BY <1>1 DEF WatchInv
<1>2. CASE Outside
  BY <1>1, <1>2 DEF Outside
<1>3. CASE Start \/ LoadStep
  <2>1. UNCHANGED scan /\ (watch => watch')
    BY <1>3 DEF Start, LoadStep, WatchEvent, LoadAuto, LoadMain, StartStat, StartDefault, StartNew,
         StartWatch, LoadUnchanged
  <2>2. watch' => load'.pc \in {"idle", "auto", "main"}
    BY <1>3 DEF Start, LoadStep, WatchEvent, LoadAuto, LoadMain, StartStat, StartDefault, StartNew,
         StartWatch, LoadUnchanged, WatchInv, TypeOK, LoadState, NoLoad
  <2> QED
    BY <2>1, <2>2 DEF WatchInv
<1>4. CASE Stop
  BY <1>4 DEF Stop, NoLoad, NoScan, WatchInv
<1>5. ASSUME NEW p \in Scans, ScanStep(p) \/ ScanSaveFail(p) PROVE WatchInv'
  <2>1. UNCHANGED <<load, watch>> /\ watch
    BY <1>5 DEF ScanStep, ScanList, ScanMerge, ScanSave, ScanSaveFail, ScanUnchanged, WatchInv
  <2> QED
    BY <2>1 DEF WatchInv
<1> QED
  BY <1>2, <1>3, <1>4, <1>5, OutsideSteps DEF Next

\* A file that is replaced is a change the daemon still has to see.
LEMMA ChangedSeen ==
  ASSUME TypeOK, Changed, load.pc # "off"
  PROVE  pending' \/ blind'
BY DEF Changed, TypeOK

\* Every step keeps the daemon abreast of the files.
LEMMA SettleStep ==
  ASSUME TypeOK, WatchInv, SettleInv, [Next]_vars
  PROVE  SettleInv'
<1>1. CASE UNCHANGED <<main, auto, seen, ac, load>>
  BY <1>1 DEF seen, SettleInv
<1>2. CASE Changed /\ UNCHANGED <<ac, load>>
  <2>1. CASE load.pc = "off"
    BY <1>2, <2>1 DEF SettleInv
  <2>2. CASE load.pc # "off"
    BY <1>2, <2>2, ChangedSeen DEF SettleInv
  <2> QED
    BY <2>1, <2>2
<1>3. CASE Outside
  BY <1>1, <1>2, <1>3 DEF Outside
<1>4. CASE Start \/ WatchEvent \/ StartStat \/ StartDefault
  <2>1. load'.pc \in {"auto", "off", "default"}
    BY <1>4 DEF Start, WatchEvent, StartStat, StartDefault, TypeOK, LoadState
  <2> QED
    BY <2>1 DEF SettleInv
<1>5. CASE LoadAuto
  BY <1>5 DEF LoadAuto, LoadUnchanged, SettleInv, TypeOK, LoadState
<1>6. CASE LoadMain
  <2>1. load.pc = "main" /\ UNCHANGED <<main, auto, pending, blind>> /\ load'.pc # "main"
    BY <1>6 DEF LoadMain, LoadUnchanged, seen, NoLoad
  <2>2. ~main.ok \/ ac' \in Loaded(load.raw, main)
    BY <1>6 DEF LoadMain
  <2>3. pending \/ blind \/ load.raw = auto.srv
    BY <2>1 DEF SettleInv
  <2> QED
    BY <2>1, <2>2, <2>3 DEF SettleInv
<1>7. CASE StartNew \/ StartWatch
  <2>1. /\ load.pc \in {"new", "watch"} /\ load'.pc \in {"watch", "idle"}
        /\ UNCHANGED <<main, auto, ac, seen>>
    BY <1>7 DEF StartNew, StartWatch, LoadUnchanged, TypeOK, LoadState
  <2> QED
    BY <2>1 DEF SettleInv, seen
<1>8. CASE Stop
  BY <1>8 DEF Stop, NoLoad, SettleInv
<1>9. ASSUME NEW p \in Scans, ScanStep(p) \/ ScanSaveFail(p) PROVE SettleInv'
  <2>1. /\ UNCHANGED <<main, ac, load>>
        /\ UNCHANGED <<auto, seen>> \/ Changed
    BY <1>9 DEF ScanStep, ScanList, ScanMerge, ScanSave, ScanSaveFail, ScanUnchanged, AutoChanged
  <2> QED
    BY <1>1, <1>2, <2>1
<1> QED
  BY <1>3, <1>4, <1>5, <1>6, <1>7, <1>8, <1>9, OutsideSteps DEF Next, LoadStep

\* Nobody watches or loads at first.
LEMMA SettleInit == Init => WatchInv /\ SettleInv
BY DEF Init, WatchInv, SettleInv, NoLoad, NoScan

\* Once the watcher has handled its events, the daemon's configuration is what the
\* two files say, for any number of servers, edits, discoveries and restarts
\* (config.go:891-941, 519-548).
THEOREM ReloadsSettle == Spec => []ReloadSettles
<1>1. SettleInv => ReloadSettles
  BY DEF SettleInv, ReloadSettles
<1>2. QED
  BY <1>1, TypeInit, TypeStep, SettleInit, WatchStep, SettleStep, PTL DEF Spec

-----------------------------------------------------------------------------
(***************************************************************************)
(* A discovery keeps what it knows                                         *)
(***************************************************************************)

\* A new directory is one the configuration does not have; a merged discovery
\* writes what its configuration says of the servers it knows to be in the sidecar.
KeepInv ==
    \A p \in Scans : \A n \in Names :
        /\ scan[p].pc = "merge" /\ n \in scan[p].fresh => scan[p].cfg[n] = "none"
        /\ scan[p].pc = "save" /\ n \in autoServers /\ scan[p].cfg[n] = "on" =>
             scan[p].out[n] = "on"

\* Where discoveries do not overlap, every step keeps this.
LEMMA KeepStep ==
  ASSUME \A p, q \in Scans : p = q, TypeOK, WatchInv, KeepInv, [Next]_vars
  PROVE  KeepInv'
<1>1. CASE UNCHANGED <<autoServers, scan>>
  BY <1>1 DEF KeepInv
<1>2. CASE Outside
  BY <1>1, <1>2 DEF Outside
<1>3. CASE Start \/ WatchEvent \/ LoadAuto \/ LoadMain \/ StartStat \/ StartDefault \/ StartWatch
  BY <1>1, <1>3 DEF Start, WatchEvent, LoadAuto, LoadMain, StartStat, StartDefault, StartWatch,
       LoadUnchanged
<1>4. CASE StartNew
  <2>1. UNCHANGED scan /\ \A p \in Scans : scan[p].pc = "idle"
    BY <1>4 DEF StartNew, LoadUnchanged, WatchInv
  <2> QED
    BY <2>1 DEF KeepInv
<1>5. CASE Stop
  BY <1>5 DEF Stop, NoScan, KeepInv
<1>6. ASSUME NEW p \in Scans, ScanStep(p) \/ ScanSaveFail(p) PROVE KeepInv'
  <2>1. scan[p] \in ScanState
    BY DEF TypeOK
  <2>2. \A q \in Scans : q = p
    OBVIOUS
  <2>3. CASE ScanList(p)
    <3>1. scan'[p] = [NoScan EXCEPT !.pc = "merge", !.cfg = ac.srv, !.fresh = Fresh]
      BY <2>3 DEF ScanList, TypeOK
    <3>2. scan'[p].pc = "merge" /\ scan'[p].cfg = ac.srv /\ scan'[p].fresh = Fresh
      BY <3>1 DEF NoScan
    <3>3. \A n \in Names : n \in Fresh => ac.srv[n] = "none"
      BY DEF Fresh, Known
    <3> QED
      BY <2>2, <3>2, <3>3 DEF KeepInv
  <2>4. CASE ScanMerge(p)
    <3>1. scan'[p] = [scan[p] EXCEPT !.pc = "save", !.out = Provisioned(p)]
      BY <2>1, <2>4 DEF ScanMerge, TypeOK, ScanState
    <3>2. /\ scan'[p].pc = "save" /\ scan'[p].cfg = scan[p].cfg
          /\ scan'[p].out = Provisioned(p)
      BY <2>1, <3>1 DEF ScanState
    <3>3. scan[p].pc = "merge" /\ autoServers' = autoServers \cup scan[p].fresh
      BY <2>4 DEF ScanMerge
    <3>4. ASSUME NEW n \in Names, n \in autoServers', scan[p].cfg[n] = "on"
          PROVE  Provisioned(p)[n] = "on"
      <4>1. n \notin scan[p].fresh
        BY <3>3, <3>4 DEF KeepInv
      <4>2. n \in autoServers \cap Names
        BY <3>3, <3>4, <4>1
      <4>3. n \in Keys
        BY DEF Keys
      <4> QED
        BY <3>4, <4>1, <4>2, <4>3 DEF Provisioned
    <3> QED
      BY <2>2, <3>2, <3>4 DEF KeepInv
  <2>5. CASE ScanSave(p) \/ ScanSaveFail(p)
    <3>1. scan'[p] = NoScan
      BY <2>5 DEF ScanSave, ScanSaveFail, TypeOK
    <3> QED
      BY <2>2, <3>1 DEF KeepInv, NoScan
  <2> QED
    BY <1>6, <2>3, <2>4, <2>5 DEF ScanStep
<1> QED
  BY <1>2, <1>3, <1>4, <1>5, <1>6, OutsideSteps DEF Next, LoadStep

\* Where discoveries do not overlap, one undoes the enabling of a server only if it
\* started before the daemon had loaded that edit, or if the daemon does not know
\* that the server is in the sidecar (daemon.go:64, 265-290).
THEOREM ScansKeepEdits ==
  ASSUME \A p, q \in Scans : p = q
  PROVE  Spec => ScanKeepsEdits
<1>1. Init => KeepInv
  BY DEF Init, KeepInv, NoScan
<1>2. ASSUME TypeOK, WatchInv, KeepInv, [Next]_vars PROVE KeepInv'
  BY <1>2, KeepStep
<1>3. ASSUME TypeOK, KeepInv
      PROVE  \A p \in Scans, n \in Names :
               ScanSave(p) /\ OnDisk(n) = "on" /\ OnDisk(n)' # "on" =>
                 scan[p].cfg[n] # "on" \/ n \notin autoServers
  <2> SUFFICES ASSUME NEW p \in Scans, NEW n \in Names, ScanSave(p),
                      OnDisk(n) = "on", OnDisk(n)' # "on",
                      scan[p].cfg[n] = "on", n \in autoServers
               PROVE  FALSE
    OBVIOUS
  <2>1. main' = main /\ auto'.srv = scan[p].out /\ scan[p].pc = "save"
    BY DEF ScanSave, ScanUnchanged
  <2>2. scan[p].out[n] = "on"
    BY <1>3, <2>1 DEF KeepInv
  <2> QED
    BY <2>1, <2>2 DEF OnDisk
<1>4. QED
  BY <1>1, <1>2, <1>3, TypeInit, TypeStep, SettleInit, WatchStep, PTL DEF Spec, ScanKeepsEdits

-----------------------------------------------------------------------------
(***************************************************************************)
(* Overlapping discoveries                                                 *)
(***************************************************************************)

\* However many discoveries overlap, what one writes of a server its configuration
\* has is what that configuration says, or nothing.
FaithfulInv ==
    \A p \in Scans : \A n \in Names :
        /\ scan[p].pc = "merge" /\ n \in scan[p].fresh => scan[p].cfg[n] = "none"
        /\ scan[p].pc = "save" /\ scan[p].cfg[n] # "none" =>
             scan[p].out[n] \in {scan[p].cfg[n], "none"}

\* Every step keeps this: a discovery's picture of the servers is its own.
LEMMA FaithfulStep ==
  ASSUME TypeOK, FaithfulInv, [Next]_vars
  PROVE  FaithfulInv'
<1>1. CASE UNCHANGED scan
  BY <1>1 DEF FaithfulInv
<1>2. CASE Outside
  BY <1>1, <1>2 DEF Outside
<1>3. CASE Start \/ LoadStep
  BY <1>1, <1>3 DEF Start, LoadStep, WatchEvent, LoadAuto, LoadMain, StartStat, StartDefault,
       StartNew, StartWatch, LoadUnchanged
<1>4. CASE Stop
  BY <1>4 DEF Stop, NoScan, FaithfulInv
<1>5. ASSUME NEW p \in Scans, ScanStep(p) \/ ScanSaveFail(p) PROVE FaithfulInv'
  <2>1. scan[p] \in ScanState /\ \A q \in Scans : q # p => scan'[q] = scan[q]
    BY <1>5 DEF TypeOK, ScanStep, ScanList, ScanMerge, ScanSave, ScanSaveFail
  <2>2. CASE ScanList(p)
    <3>1. scan'[p] = [NoScan EXCEPT !.pc = "merge", !.cfg = ac.srv, !.fresh = Fresh]
      BY <2>2 DEF ScanList, TypeOK
    <3>2. scan'[p].pc = "merge" /\ scan'[p].cfg = ac.srv /\ scan'[p].fresh = Fresh
      BY <3>1 DEF NoScan
    <3>3. \A n \in Names : n \in Fresh => ac.srv[n] = "none"
      BY DEF Fresh, Known
    <3> QED
      BY <2>1, <3>2, <3>3 DEF FaithfulInv
  <2>3. CASE ScanMerge(p)
    <3>1. scan'[p] = [scan[p] EXCEPT !.pc = "save", !.out = Provisioned(p)]
      BY <2>1, <2>3 DEF ScanMerge, TypeOK, ScanState
    <3>2. /\ scan'[p].pc = "save" /\ scan'[p].cfg = scan[p].cfg
          /\ scan'[p].out = Provisioned(p)
      BY <2>1, <3>1 DEF ScanState
    <3>3. scan[p].pc = "merge"
      BY <2>3 DEF ScanMerge
    <3>4. ASSUME NEW n \in Names, scan[p].cfg[n] # "none"
          PROVE  Provisioned(p)[n] \in {scan[p].cfg[n], "none"}
      <4>1. n \notin scan[p].fresh /\ n \in Keys
        BY <3>3, <3>4 DEF FaithfulInv, Keys
      <4> QED
        BY <4>1 DEF Provisioned
    <3> QED
      BY <2>1, <3>2, <3>4 DEF FaithfulInv
  <2>4. CASE ScanSave(p) \/ ScanSaveFail(p)
    <3>1. scan'[p] = NoScan
      BY <2>4 DEF ScanSave, ScanSaveFail, TypeOK
    <3> QED
      BY <2>1, <3>1 DEF FaithfulInv, NoScan
  <2> QED
    BY <1>5, <2>2, <2>3, <2>4 DEF ScanStep
<1> QED
  BY <1>2, <1>3, <1>4, <1>5, OutsideSteps DEF Next

\* A discovery undoes an enabling only if it started before the daemon had loaded
\* it, or by dropping the server from the sidecar; it never disables a server that it
\* knows to be enabled.
ScanNeverDisables ==
    [][\A p \in Scans, n \in Names :
         ScanSave(p) /\ OnDisk(n) = "on" /\ OnDisk(n)' # "on" =>
            scan[p].cfg[n] # "on" \/ OnDisk(n)' = "none"]_vars

\* This holds for any number of discoveries at once, although each saves after it
\* has released autoMu, in an order the lock does not fix (daemon.go:274-286).
THEOREM OverlappingScansNeverDisable == Spec => ScanNeverDisables
<1>1. Init => FaithfulInv
  BY DEF Init, FaithfulInv, NoScan
<1>2. ASSUME FaithfulInv
      PROVE  \A p \in Scans, n \in Names :
               ScanSave(p) /\ OnDisk(n) = "on" /\ OnDisk(n)' # "on" =>
                 scan[p].cfg[n] # "on" \/ OnDisk(n)' = "none"
  <2> SUFFICES ASSUME NEW p \in Scans, NEW n \in Names, ScanSave(p),
                      OnDisk(n) = "on", OnDisk(n)' # "on", scan[p].cfg[n] = "on"
               PROVE  OnDisk(n)' = "none"
    OBVIOUS
  <2>1. main' = main /\ auto'.srv = scan[p].out /\ scan[p].pc = "save"
    BY DEF ScanSave, ScanUnchanged
  <2>2. scan[p].out[n] \in {"on", "none"}
    BY <1>2, <2>1 DEF FaithfulInv
  <2> QED
    BY <2>1, <2>2 DEF OnDisk
<1>3. QED
  BY <1>1, <1>2, FaithfulStep, TypeInit, TypeStep, PTL DEF Spec, ScanNeverDisables

=============================================================================
