---------------------------- MODULE ConfigStore -----------------------------
(***************************************************************************)
(* The two configuration files and who writes them: `mc-backup config set` *)
(* (one at a time), which rewrites the main file and the sidecar of        *)
(* auto-provisioned servers through backups and renames; the daemon's      *)
(* discovery, which rewrites the sidecar; and the daemon's start, which    *)
(* provisions a default main file when it finds none.  The daemon learns   *)
(* of changes through a watcher and reloads.                               *)
(*                                                                         *)
(* A configuration is one setting of the main file and, per server, absent *)
(* ("none"), disabled ("off") or enabled ("on").  A file changes only by   *)
(* rename, so a reader finds it whole or missing.                          *)
(***************************************************************************)
EXTENDS Naturals, FiniteSets

CONSTANTS
    Names,      \* server names as the configuration keys them: lower case
    Dirs,       \* names of the directories under the watch path
    Lower,      \* Lower[d]: the name d has in lower case
    Scans,      \* goroutines that may run a discovery at the same time
    MaxEdits,   \* bound: calls of config set
    MaxStops    \* bound: stops of the daemon

Keys == Names \cup Dirs

ASSUME LowerAssumption ==
    Lower \in [Keys -> Names] /\ \A n \in Names : Lower[n] = n
ASSUME EditBounds == MaxEdits \in Nat /\ MaxStops \in Nat

Entry == {"none", "off", "on"}
Setting == {"default", "old", "new"}    \* "default": not the administrator's

MainFile == [ok : BOOLEAN, g : Setting, srv : [Names -> Entry]]
AutoFile == [ok : BOOLEAN, srv : [Keys -> Entry]]
Config == [g : Setting, srv : [Names -> Entry]]

NoServers == [n \in Names |-> "none"]
NoKeys == [k \in Keys |-> "none"]
NoMain == [ok |-> FALSE, g |-> "default", srv |-> NoServers]
NoAuto == [ok |-> FALSE, srv |-> NoKeys]
DefaultConfig == [g |-> "default", srv |-> NoServers]

\* What SaveConfig writes of it.
DefaultMain == [ok |-> TRUE, g |-> DefaultConfig.g, srv |-> DefaultConfig.srv]

VARIABLES
    main, auto, \* the main file and the sidecar
    left,       \* a backup of an administrator's main file was left behind
    cli,        \* the running config set
    edits,      \* calls of config set so far
    ac,         \* the daemon's configuration
    load,       \* its start and its reloads
    watch,      \* is the watcher running
    pending,    \* has the watcher events to handle
    autoServers,\* Daemon.autoServers
    scan,       \* the discoveries
    present,    \* directories that exist
    stops,      \* stops of the daemon so far
    blind,      \* a file changed after the start read it, before the watcher ran
    raced       \* the default was written over a main file that was back

daemon == <<ac, load, watch, autoServers, scan, present, stops, raced>>
seen == <<pending, blind>>
vars == <<main, auto, left, cli, edits, daemon, seen>>

CliPCs == {"idle", "main", "names", "stat", "bakMain", "newMain", "bakAuto",
           "newAuto", "done", "undoAuto", "undoMain"}
LoadPCs == {"off", "auto", "main", "stat", "default", "new", "watch", "idle"}
ScanPCs == {"idle", "merge", "save"}

CliState == [pc : CliPCs, raw : [Keys -> Entry], cfg : Config,
             names : SUBSET Names, autoWas : BOOLEAN,
             bakMain : MainFile, bakAuto : AutoFile]
LoadState == [pc : LoadPCs, raw : [Keys -> Entry], again : BOOLEAN]
ScanState == [pc : ScanPCs, cfg : [Names -> Entry],
              fresh : SUBSET Dirs, out : [Keys -> Entry]]

NoCli == [pc |-> "idle", raw |-> NoKeys, cfg |-> DefaultConfig, names |-> {},
          autoWas |-> FALSE, bakMain |-> NoMain, bakAuto |-> NoAuto]
NoLoad == [pc |-> "off", raw |-> NoKeys, again |-> FALSE]
NoScan == [pc |-> "idle", cfg |-> NoServers, fresh |-> {}, out |-> NoKeys]

TypeOK ==
    /\ main \in MainFile /\ auto \in AutoFile
    /\ left \in BOOLEAN
    /\ cli \in CliState
    /\ edits \in 0..MaxEdits
    /\ ac \in Config
    /\ load \in LoadState
    /\ watch \in BOOLEAN /\ pending \in BOOLEAN
    /\ autoServers \subseteq Keys
    /\ scan \in [Scans -> ScanState]
    /\ present \subseteq Dirs
    /\ stops \in 0..MaxStops
    /\ blind \in BOOLEAN /\ raced \in BOOLEAN

Init ==
    /\ main = [ok |-> TRUE, g |-> "old", srv |-> NoServers]
    /\ auto = NoAuto
    /\ left = FALSE
    /\ cli = NoCli
    /\ edits = 0
    /\ ac = DefaultConfig
    /\ load = NoLoad
    /\ watch = FALSE
    /\ pending = FALSE
    /\ autoServers = {}
    /\ scan = [p \in Scans |-> NoScan]
    /\ present = {}
    /\ stops = 0
    /\ blind = FALSE
    /\ raced = FALSE

-----------------------------------------------------------------------------
(***************************************************************************)
(* Reading                                                                 *)
(***************************************************************************)

\* The main file is decoded over the sidecar.
Raw(a, m) ==
    [k \in Keys |-> IF k \in Names /\ m.srv[k] # "none" THEN m.srv[k] ELSE a[k]]

\* loadConfigFile: keys are lower-cased; of two keys that become equal either wins.
Loaded(a, m) ==
    LET raw == Raw(a, m)
        Found(n) == {raw[k] : k \in {j \in Keys : Lower[j] = n /\ raw[j] # "none"}}
        Merged == {c \in [Names -> Entry] :
                     \A n \in Names :
                        IF Found(n) = {} THEN c[n] = "none" ELSE c[n] \in Found(n)}
    IN  {[g |-> m.g, srv |-> c] : c \in Merged}

\* loadAutoServerNames
AutoNames(a) == {Lower[k] : k \in {j \in Keys : a.srv[j] # "none"}}

\* A watched file is renamed or replaced: the watcher, if it runs, gets an event.
Changed ==
    /\ pending' = (pending \/ watch)
    /\ blind' = (blind \/ (~watch /\ load.pc # "off"))

MainChanged == Changed

\* mutant: the watcher looks at the main file only
AutoChangedUnseen == UNCHANGED seen

AutoChanged == Changed

-----------------------------------------------------------------------------
(***************************************************************************)
(* mc-backup config set: SetConfigValue and saveSplit                      *)
(***************************************************************************)

CliUnchanged == UNCHANGED <<edits, daemon>>

CliBegin ==
    /\ cli.pc = "idle" /\ edits < MaxEdits
    /\ edits' = edits + 1
    /\ cli' = [NoCli EXCEPT !.pc = "main", !.raw = auto.srv]
    /\ UNCHANGED <<main, auto, left, daemon, seen>>

\* One value is changed: the setting, or enabled of a server.
Edited(c) ==
    {[c EXCEPT !.g = "new"]} \cup
    {[c EXCEPT !.srv[n] = e] : n \in Names, e \in {"off", "on"}}

\* The main file is read (an error when it is missing) and the value changed.
CliMain ==
    /\ cli.pc = "main"
    /\ \/ /\ main.ok
          /\ \E c \in Loaded(cli.raw, main) : \E e \in Edited(c) :
               cli' = [cli EXCEPT !.pc = "names", !.cfg = e, !.raw = NoKeys]
       \/ ~main.ok /\ cli' = NoCli
    /\ UNCHANGED <<main, auto, left, seen>> /\ CliUnchanged

CliNames ==
    /\ cli.pc = "names"
    /\ cli' = [cli EXCEPT !.pc = "stat", !.names = AutoNames(auto)]
    /\ UNCHANGED <<main, auto, left, seen>> /\ CliUnchanged

\* Which files exist; the new contents are written to temporary files.  The main
\* file was read before and nobody else removes it.
CliStat ==
    /\ cli.pc = "stat"
    /\ cli' = [cli EXCEPT !.pc = "bakMain", !.autoWas = auto.ok]
    /\ UNCHANGED <<main, auto, left, seen>> /\ CliUnchanged

\* Validation, a temporary file or the first rename fails: nothing has changed.
CliAbort ==
    /\ cli.pc \in {"names", "stat", "bakMain"}
    /\ cli' = NoCli
    /\ UNCHANGED <<main, auto, left, seen>> /\ CliUnchanged

CliBakMain ==
    /\ cli.pc = "bakMain"
    /\ cli' = [cli EXCEPT !.pc = "newMain", !.bakMain = main]
    /\ main' = NoMain
    /\ MainChanged
    /\ UNCHANGED <<auto, left>> /\ CliUnchanged

\* What goes to the sidecar: the servers that it had when its names were read.
NewAuto ==
    [k \in Keys |-> IF k \in cli.names THEN cli.cfg.srv[k] ELSE "none"]

NewMain ==
    [ok |-> TRUE, g |-> cli.cfg.g,
     srv |-> [n \in Names |-> IF n \in cli.names THEN "none" ELSE cli.cfg.srv[n]]]

\* Without an old sidecar no names were read from it, so there is none to write.
CliNewMain ==
    /\ cli.pc = "newMain"
    /\ main' = NewMain
    /\ MainChanged
    /\ cli' = [cli EXCEPT !.pc = IF cli.autoWas THEN "bakAuto" ELSE "done"]
    /\ UNCHANGED <<auto, left>> /\ CliUnchanged

\* The old sidecar is put aside, for good when no server is left for it.
CliBakAuto ==
    /\ cli.pc = "bakAuto"
    /\ cli' = [cli EXCEPT !.pc = IF NewAuto = NoKeys THEN "done" ELSE "newAuto",
                          !.bakAuto = auto]
    /\ auto' = NoAuto
    /\ AutoChanged
    /\ UNCHANGED <<main, left>> /\ CliUnchanged

CliNewAuto ==
    /\ cli.pc = "newAuto"
    /\ auto' = [ok |-> TRUE, srv |-> NewAuto]
    /\ AutoChanged
    /\ cli' = [cli EXCEPT !.pc = "done"]
    /\ UNCHANGED <<main, left>> /\ CliUnchanged

\* The backups are removed.
CliDone ==
    /\ cli.pc = "done"
    /\ cli' = NoCli
    /\ UNCHANGED <<main, auto, left, seen>> /\ CliUnchanged

\* A rename fails, or the chmod after the last one.
CliFail ==
    /\ \/ cli.pc \in {"newMain", "bakAuto", "newAuto"}
       \/ cli.pc = "done" /\ NewAuto # NoKeys
    /\ cli' = [cli EXCEPT !.pc = "undoAuto"]
    /\ UNCHANGED <<main, auto, left, seen>> /\ CliUnchanged

\* rollback: the sidecar first, then the main file; each rename may fail too.
CliUndoAuto ==
    /\ cli.pc = "undoAuto"
    /\ cli' = [cli EXCEPT !.pc = "undoMain"]
    /\ \/ cli.bakAuto.ok /\ auto' = cli.bakAuto /\ AutoChanged
       \/ UNCHANGED <<auto, seen>>
    /\ UNCHANGED <<main, left>> /\ CliUnchanged

\* mutant: the backups are removed after a failed rollback as well
CliUndoMainClean ==
    /\ cli.pc = "undoMain"
    /\ cli' = NoCli
    /\ \/ main' = cli.bakMain /\ MainChanged /\ UNCHANGED left
       \/ UNCHANGED <<main, seen, left>>
    /\ UNCHANGED auto /\ CliUnchanged

\* A backup that could not be renamed back stays.
CliUndoMain ==
    /\ cli.pc = "undoMain"
    /\ cli' = NoCli
    /\ \/ main' = cli.bakMain /\ MainChanged /\ UNCHANGED left
       \/ UNCHANGED <<main, seen>> /\ left' = (left \/ cli.bakMain.g # "default")
    /\ UNCHANGED auto /\ CliUnchanged

\* The command is killed; its backups stay.
CliCrash ==
    /\ cli.pc # "idle"
    /\ cli' = NoCli
    /\ left' = (left \/ (cli.bakMain.ok /\ cli.bakMain.g # "default"))
    /\ UNCHANGED <<main, auto, seen>> /\ CliUnchanged

CliStep ==
    \/ CliMain \/ CliNames \/ CliStat \/ CliAbort
    \/ CliBakMain \/ CliNewMain \/ CliBakAuto \/ CliNewAuto \/ CliDone
    \/ CliFail \/ CliUndoAuto \/ CliUndoMain

-----------------------------------------------------------------------------
(***************************************************************************)
(* The daemon's start and its reloads                                      *)
(***************************************************************************)

LoadUnchanged == UNCHANGED <<auto, left, cli, edits, scan, present, stops>>

Start ==
    /\ load.pc = "off"
    /\ load' = [load EXCEPT !.pc = "auto"]
    /\ UNCHANGED <<main, ac, watch, autoServers, seen, raced>> /\ LoadUnchanged

\* The watcher takes an event: LoadConfig is called.
WatchEvent ==
    /\ load.pc = "idle" /\ pending
    /\ pending' = FALSE
    /\ load' = [load EXCEPT !.pc = "auto"]
    /\ UNCHANGED <<main, ac, watch, autoServers, blind, raced>> /\ LoadUnchanged

LoadAuto ==
    /\ load.pc = "auto"
    /\ load' = [load EXCEPT !.pc = "main", !.raw = auto.srv]
    /\ blind' = FALSE
    /\ UNCHANGED <<main, ac, watch, autoServers, pending, raced>> /\ LoadUnchanged

\* mutant: the result of a reload is stored although it failed
LoadMainNil ==
    /\ load.pc = "main"
    /\ IF main.ok THEN ac' \in Loaded(load.raw, main)
       ELSE ac' = [g |-> "nil", srv |-> NoServers]
    /\ load' = [NoLoad EXCEPT !.pc = IF watch THEN "idle" ELSE "new"]
    /\ UNCHANGED <<main, watch, autoServers, seen, raced>> /\ LoadUnchanged

\* A missing main file: a reload keeps the old configuration; a start looks why,
\* once, and the second time gives up.  Every content written here is valid: that
\* a reload may be refused is in Service (Reload).
LoadMain ==
    /\ load.pc = "main"
    /\ \/ /\ main.ok
          /\ ac' \in Loaded(load.raw, main)
          /\ load' = [NoLoad EXCEPT !.pc = IF watch THEN "idle" ELSE "new"]
       \/ /\ ~main.ok
          /\ load' = [NoLoad EXCEPT !.pc = IF watch THEN "idle"
                                          ELSE IF load.again THEN "off" ELSE "stat"]
          /\ UNCHANGED ac
    /\ UNCHANGED <<main, watch, autoServers, seen, raced>> /\ LoadUnchanged

\* A main file that is back by now was unreadable: the start fails.
StartStat ==
    /\ load.pc = "stat"
    /\ load' = [load EXCEPT !.pc = IF main.ok THEN "off" ELSE "default"]
    /\ UNCHANGED <<main, ac, watch, autoServers, seen, raced>> /\ LoadUnchanged

\* ensureDefaultConfig writes over whatever is there by now; then LoadConfig again.
StartDefault ==
    /\ load.pc = "default"
    /\ main' = DefaultMain
    /\ raced' = (raced \/ main.ok)
    /\ MainChanged
    /\ load' = [load EXCEPT !.pc = "auto", !.again = TRUE]
    /\ UNCHANGED <<ac, watch, autoServers>> /\ LoadUnchanged

\* NewDaemon
StartNew ==
    /\ load.pc = "new"
    /\ autoServers' = AutoNames(auto)
    /\ load' = [load EXCEPT !.pc = "watch"]
    /\ UNCHANGED <<main, ac, watch, seen, raced>> /\ LoadUnchanged

StartWatch ==
    /\ load.pc = "watch"
    /\ watch' = TRUE
    /\ load' = [load EXCEPT !.pc = "idle"]
    /\ UNCHANGED <<main, ac, autoServers, seen, raced>> /\ LoadUnchanged

\* The daemon ends, by a signal or a crash.
Stop ==
    /\ load.pc # "off" /\ stops < MaxStops
    /\ stops' = stops + 1
    /\ ac' = DefaultConfig
    /\ load' = NoLoad
    /\ watch' = FALSE /\ pending' = FALSE /\ blind' = FALSE
    /\ autoServers' = {}
    /\ scan' = [p \in Scans |-> NoScan]
    /\ UNCHANGED <<main, auto, left, cli, edits, present, raced>>

LoadStep ==
    \/ WatchEvent \/ LoadAuto \/ LoadMain
    \/ StartStat \/ StartDefault \/ StartNew \/ StartWatch

-----------------------------------------------------------------------------
(***************************************************************************)
(* Discovery                                                               *)
(***************************************************************************)

ScanUnchanged ==
    UNCHANGED <<main, left, cli, edits, ac, load, watch, present, stops, raced>>

\* The administrator creates a server's directory.
NewDir(d) ==
    /\ d \notin present
    /\ present' = present \cup {d}
    /\ UNCHANGED <<main, auto, left, cli, edits, ac, load, watch, autoServers, scan,
                   stops, raced, seen>>

\* A directory is looked up in the configuration under its own name.
Known(cfg, d) == d \in Names /\ cfg[d] # "none"

\* discoverServersWithWarning, with the configuration of this moment.
Fresh == {d \in present : ~Known(ac.srv, d)}

ScanList(p) ==
    /\ watch /\ scan[p].pc = "idle"
    /\ Fresh # {}
    /\ scan' = [scan EXCEPT ![p] = [NoScan EXCEPT !.pc = "merge", !.cfg = ac.srv,
                                                  !.fresh = Fresh]]
    /\ UNCHANGED <<auto, autoServers, seen>> /\ ScanUnchanged

\* mutant: every server of the sidecar is provisioned anew
ProvisionedAnew(p) ==
    [k \in Keys |-> IF k \in autoServers \cup scan[p].fresh THEN "off" ELSE "none"]

\* provisionServers under autoMu: new servers disabled, the other auto servers as
\* the configuration that discovery started with has them.
Provisioned(p) ==
    [k \in Keys |->
        IF k \in scan[p].fresh THEN "off"
        ELSE IF k \in autoServers \cap Names THEN scan[p].cfg[k]
        ELSE "none"]

ScanMerge(p) ==
    /\ scan[p].pc = "merge"
    /\ autoServers' = autoServers \cup scan[p].fresh
    /\ scan' = [scan EXCEPT ![p].pc = "save", ![p].out = Provisioned(p)]
    /\ UNCHANGED <<auto, seen>> /\ ScanUnchanged

\* SaveAutoServers
ScanSave(p) ==
    /\ scan[p].pc = "save"
    /\ auto' = [ok |-> TRUE, srv |-> scan[p].out]
    /\ AutoChanged
    /\ scan' = [scan EXCEPT ![p] = NoScan]
    /\ UNCHANGED autoServers /\ ScanUnchanged

\* It fails: an error is logged and the discovery ends.
ScanSaveFail(p) ==
    /\ scan[p].pc = "save"
    /\ scan' = [scan EXCEPT ![p] = NoScan]
    /\ UNCHANGED <<auto, autoServers, seen>> /\ ScanUnchanged

ScanStep(p) == ScanList(p) \/ ScanMerge(p) \/ ScanSave(p)

-----------------------------------------------------------------------------
Next ==
    \/ CliBegin \/ CliStep \/ CliCrash
    \/ Start \/ Stop \/ LoadStep
    \/ \E d \in Dirs : NewDir(d)
    \/ \E p \in Scans : ScanStep(p) \/ ScanSaveFail(p)

Spec == Init /\ [][Next]_vars

\* Commands and goroutines keep running; the discovery ticker fires every minute;
\* writing the sidecar does not fail for ever.  Nobody has to start the daemon.
Fairness ==
    /\ WF_vars(CliStep) /\ WF_vars(LoadStep)
    /\ \A p \in Scans : WF_vars(ScanStep(p)) /\ SF_vars(ScanSave(p))

FairSpec == Spec /\ Fairness

-----------------------------------------------------------------------------
(***************************************************************************)
(* Properties                                                              *)
(***************************************************************************)

\* The administrator's main file is never lost: whatever rename fails or whoever
\* is killed, it is in place or in a backup that is kept (config.go:478-553).  The
\* exception is a start that found it missing while config set had it put aside,
\* and writes the default over the file that is back (main.go:416-421).
SettingsRecoverable ==
    \/ raced \/ left
    \/ main.ok /\ main.g # "default"
    \/ cli.bakMain.ok /\ cli.bakMain.g # "default"

\* Once the watcher has handled its events, the daemon's configuration is what the
\* two files say, although they are read and replaced one after the other and the
\* main file is missing for a moment (config.go:891-941, 519-548).
ReloadSettles ==
    watch /\ load.pc = "idle" /\ ~pending /\ ~blind /\ main.ok =>
        ac \in Loaded(auto.srv, main)

\* The value of a server's entry in the files.
OnDisk(n) == IF main.srv[n] # "none" THEN main.srv[n] ELSE auto.srv[n]

\* Where discoveries do not overlap (they save in an order their lock does not fix),
\* one undoes the enabling of a server only if it started before the daemon had
\* loaded that edit, or if the daemon does not know that the server is in the
\* sidecar: it reads its names at the start only, and misses those of a sidecar
\* that config set has put aside at that moment (daemon.go:64, 265-290).
ScanKeepsEdits ==
    [][\A p \in Scans, n \in Names :
         ScanSave(p) /\ OnDisk(n) = "on" /\ OnDisk(n)' # "on" =>
            scan[p].cfg[n] # "on" \/ n \notin autoServers]_vars

\* Every server directory ends up in the daemon's configuration and stays there:
\* what config set drops from the sidecar because it read it earlier is provisioned
\* again (README.md:309-311; daemon.go:786-797).
DirectoriesConfigured ==
    \A d \in Dirs :
        <>[](d \in present /\ watch /\ main.ok => ac.srv[Lower[d]] # "none")

\* README.md:305: "Server names are case-insensitive."  A directory is provisioned
\* as a new server only if the configuration has no server of that name.
NamesCaseInsensitive ==
    [][\A p \in Scans :
         ScanList(p) => \A d \in Fresh : ac.srv[Lower[d]] = "none"]_vars

=============================================================================
