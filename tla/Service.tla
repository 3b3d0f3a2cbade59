------------------------------ MODULE Service -------------------------------
(***************************************************************************)
(* The daemon as a systemd service over a long time: the start with its    *)
(* wait for the containers and its decision about the first cycle, the     *)
(* backup ticker, live reload, the stop with its time limit, crashes and   *)
(* restarts, `config set`, and `mc-backup update`, which replaces the      *)
(* program under the running service.                                      *)
(*                                                                         *)
(* Time passes in units of the 5 s poll, by the action Pass, and only when *)
(* nothing is due.  Ages are counted up to a ceiling above which no rule   *)
(* tells them apart.  Inside a cycle only what matters here is left: which *)
(* servers are visited, and that autosave is off meanwhile (Autosave and   *)
(* BackupPipeline look inside).                                            *)
(***************************************************************************)
EXTENDS ConfigRules, FiniteSets

CONSTANTS
    Setups,         \* the configuration file at the beginning, and the environment
    Edits,          \* <<key, value>> pairs somebody may set
    MaxInterval,    \* bound: the longest interval configured
    MaxDelay,       \* bound: the longest initial delay configured
    MaxPass,        \* bound: time a server's backup takes
    RestartSec, TimeoutStopSec,
    MaxEdits,       \* bound: changes of the configuration
    Scenarios       \* sets of events that may happen in one behaviour

EventKinds ==
    {"crash",       \* the daemon dies
     "backup",      \* a backup fails, or its save-off or its save-on
     "skip",        \* a container is down, or nobody plays
     "container",   \* a container restarts
     "inspect",     \* docker inspect fails
     "directory",   \* a watched directory is not in the configuration yet
     "set",         \* config set
     "hand",        \* the file is edited by hand
     "stop",        \* the administrator stops and starts the service
     "update"}      \* an update is run

ASSUME BoundsAssumption ==
    /\ MaxInterval \in Nat \ {0} /\ MaxDelay \in Nat /\ MaxPass \in 0..MaxInterval
    /\ RestartSec \in Nat /\ TimeoutStopSec \in Nat /\ MaxEdits \in Nat
ASSUME ScenariosAssumption == Scenarios \subseteq SUBSET EventKinds
ASSUME ServersFinite == IsFiniteSet(Servers)

\* Intervals and delays are numbers, and no longer than the bounds.
Bounded(k, v) ==
    /\ k = <<"global", "backup_interval">> => v \in Int /\ v <= MaxInterval
    /\ k = <<"global", "initial_delay">> => v \in Int /\ v <= MaxDelay

\* At the beginning the file is one that `config` could have written; what the
\* environment makes of it is not restricted, nor what edits may ask for.
ASSUME SetupsAssumption ==
    \A setup \in Setups :
        /\ DOMAIN setup[1] = Keys
        /\ Validate(loadConfigFile(setup[1]))
        /\ \A k \in Keys : Bounded(k, setup[1][k])
        /\ \A k \in DOMAIN setup[2] : Bounded(k, setup[2][k])
ASSUME EditsAssumption == \A e \in Edits : e[1] \in Keys /\ Bounded(e[1], e[2])

Never == MaxInterval + 1        \* no entry in .last-backup

\* Longest wait for containers: the last poll before the deadline may still find
\* none that can be inspected.  Longest cycle.
BootTime(delay) == 6 * delay
CycleTime == Cardinality(Servers) * MaxPass

LifeCap == BootTime(MaxDelay) + MaxInterval + CycleTime + 1
SinceCap == 2 * MaxInterval + BootTime(MaxDelay) + CycleTime + 1
StaleCap == MaxInterval + CycleTime + 1

VARIABLES
    scenario,   \* what may happen
    file, env,  \* the configuration file and the environment
    edits,      \* number of edits so far
    hand,       \* the file was edited by hand
    unit,       \* systemd's view of the service
    timer,      \* time left of RestartSec or TimeoutStopSec
    pc,         \* the main goroutine, "off" without a process
    ac, cfg,    \* configuration in force, and the one RunContext goes by
    waited,     \* time since waitForContainers began
    nap,        \* time left to sleep
    todo, at,   \* servers left in the cycle; the one being backed up
    busy,       \* time spent on it
    booted,     \* the ticker exists
    period, left, tick,     \* backupTicker: its period, time left, a tick is due
    rec,        \* age of the entry in .last-backup
    autosave, reported,     \* autosave of each server; save-on failures logged
    up,         \* uptime of each container
    skipped,    \* servers this process's last cycle has not switched on again: not enabled,
                \* skipped, or save-off given up
    since,      \* time since a cycle visited the server, or it was enabled
    life,       \* age of the process
    stale,      \* time the ticker has had another period than ac says
    upd, tmp, bin, outcome  \* the update: step, downloaded file, program, result

conf == <<scenario, file, env, edits, hand>>
sysd == <<unit, timer>>
daemon == <<pc, ac, cfg, waited, nap, todo, at, busy>>
ticker == <<booted, period, left, tick>>
world == <<rec, autosave, reported, up, skipped>>
ages == <<since, life, stale>>
update == <<upd, tmp, bin, outcome>>
vars == <<conf, sysd, daemon, ticker, world, ages, update>>

PCs == {"off", "load", "poll", "sleep", "fallback", "decide", "cycle", "backup",
        "after", "loop"}

UpdateSteps == {"none", "download", "verify", "stop", "install", "start", "status"}

\* The wait for containers and a server's backup are bounded in it.
TypeOK ==
    /\ scenario \in Scenarios /\ edits \in 0..MaxEdits /\ hand \in BOOLEAN
    /\ unit \in {"active", "stopping", "inactive", "restarting"}
    /\ timer \in Nat /\ pc \in PCs
    /\ DOMAIN file = Keys /\ DOMAIN ac = Keys /\ DOMAIN cfg = Keys
    /\ waited \in 0..BootTime(MaxDelay) /\ nap \in 0..MaxDelay
    /\ todo \subseteq Servers /\ at \subseteq Servers /\ busy \in 0..MaxPass
    /\ booted \in BOOLEAN /\ tick \in BOOLEAN
    /\ period \in 0..MaxInterval /\ left \in 0..MaxInterval
    /\ rec \in [Servers -> 0..Never]
    /\ autosave \in [Servers -> BOOLEAN] /\ reported \subseteq Servers
    /\ up \in [Servers -> 0..MaxDelay] /\ skipped \subseteq Servers
    /\ since \in [Servers -> 0..SinceCap] /\ life \in 0..LifeCap /\ stale \in 0..StaleCap
    /\ upd \in UpdateSteps /\ tmp \in {"none", "torn", "new", "bad"}
    /\ bin \in {"old", "new", "torn", "bad", "none"}
    /\ outcome \in {"none", "stopped", "failed", "updated"}

Init ==
    /\ scenario \in Scenarios
    /\ \E setup \in Setups : file = setup[1] /\ env = setup[2]
    /\ edits = 0 /\ hand = FALSE
    /\ unit = "active" /\ timer = 0
    /\ pc = "load" /\ ac = file /\ cfg = file
    /\ waited = 0 /\ nap = 0 /\ todo = {} /\ at = {} /\ busy = 0
    /\ booted = FALSE /\ period = 0 /\ left = 0 /\ tick = FALSE
    /\ rec = [s \in Servers |-> Never]
    /\ autosave = [s \in Servers |-> TRUE] /\ reported = {}
    /\ up = [s \in Servers |-> 0] /\ skipped = {}
    /\ since = [s \in Servers |-> 0] /\ life = 0 /\ stale = 0
    /\ upd = "none" /\ tmp = "none" /\ bin = "old" /\ outcome = "none"

Alive == pc # "off"
Sigterm == unit = "stopping"

-----------------------------------------------------------------------------
(***************************************************************************)
(* The daemon's main goroutine                                             *)
(***************************************************************************)

\* The process is gone.  A save-on that was still to come does not come.
ProcessGone ==
    /\ pc' = "off"
    /\ waited' = 0 /\ nap' = 0 /\ todo' = {} /\ at' = {} /\ busy' = 0
    /\ booted' = FALSE /\ period' = 0 /\ left' = 0 /\ tick' = FALSE
    /\ life' = 0 /\ stale' = 0
    /\ UNCHANGED <<ac, cfg, since>>

\* A copy that is there when the process dies is found by the next boot scan and
\* recorded under the time it was begun.
CopyFound == rec' \in {rec} \cup {[rec EXCEPT ![s] = busy] : s \in at}

\* Restart=on-failure: the daemon's exit code is never zero.
Exits ==
    /\ ProcessGone
    /\ CopyFound
    /\ IF Sigterm THEN unit' = "inactive" /\ timer' = 0
                  ELSE unit' = "restarting" /\ timer' = RestartSec
    /\ skipped' = {}
    /\ UNCHANGED <<conf, autosave, reported, up, update>>

\* A configuration comes into force: a server it does not enable is not waiting
\* for a visit, and a ticker that agrees with it is not late.
InForce(c) ==
    /\ ac' = c
    /\ since' = [s \in Servers |-> IF Enabled(c, s) THEN since[s] ELSE 0]
    /\ stale' = IF period = Interval(c) THEN 0 ELSE stale
    /\ UNCHANGED life

\* runCmd: the configuration is loaded, or the process ends with an error.
Load ==
    /\ pc = "load" /\ Loads(file, env)
    /\ InForce(LoadConfig(file, env)) /\ cfg' = ac'
    /\ pc' = "poll"
    /\ UNCHANGED <<conf, sysd, waited, nap, todo, at, busy, ticker, world, update>>

\* mutant: the error is printed and the exit code is zero
LoadFailsQuietly ==
    /\ pc = "load" /\ ~Loads(file, env)
    /\ ProcessGone
    /\ unit' = "inactive" /\ timer' = 0
    /\ UNCHANGED <<conf, world, update>>

LoadFails == pc = "load" /\ ~Loads(file, env) /\ Exits

\* mutant: the new configuration is not validated
ReloadBlindly ==
    /\ Alive /\ pc # "load"
    /\ ac # LoadConfig(file, env)
    /\ InForce(LoadConfig(file, env))
    /\ UNCHANGED <<conf, sysd, pc, cfg, waited, nap, todo, at, busy, ticker, world, update>>

ReloadDue == Alive /\ pc # "load" /\ Loads(file, env) /\ ac # LoadConfig(file, env)

\* The watcher stores a changed configuration if it is valid.
Reload ==
    /\ ReloadDue
    /\ InForce(LoadConfig(file, env))
    /\ UNCHANGED <<conf, sysd, pc, cfg, waited, nap, todo, at, busy, ticker, world, update>>

Watched == {s \in Servers : Enabled(cfg, s)}

Inspected == IF "inspect" \in scenario THEN SUBSET Watched ELSE {Watched}

\* The container of a directory that is not in the configuration yet is waited for
\* too: there is none, it cannot be inspected, it is up long enough, or too young.
Strangers ==
    IF "directory" \notin scenario THEN {"none"}
    ELSE {"none", "unknown", "up"} \cup {y \in {"young"} : Delay(cfg) > 0}

NobodyThere(other) == Watched = {} /\ other = "none"
NoneKnown(C, other) == C = {} /\ other \in {"none", "unknown"}
AllUp(C, other) ==
    ~NoneKnown(C, other) /\ other # "young" /\ \A s \in C : up[s] >= Delay(cfg)

\* mutant: no deadline
PollForEver ==
    /\ pc = "poll"
    /\ \E C \in Inspected, other \in Strangers :
         IF NobodyThere(other) \/ AllUp(C, other)
         THEN pc' = "decide" /\ nap' = 0
         ELSE IF NoneKnown(C, other) THEN pc' = "fallback" /\ nap' = Delay(cfg)
                                     ELSE pc' = "sleep" /\ nap' = 1
    /\ UNCHANGED <<conf, sysd, ac, cfg, waited, todo, at, busy, ticker, world, ages, update>>

\* waitForContainers: proceed after the deadline, without servers, or when every
\* container that can be inspected is up long enough; fall back to one delay when
\* none can be; else look again after a nap.
Poll ==
    /\ pc = "poll"
    /\ \E C \in Inspected, other \in Strangers :
         IF NobodyThere(other) \/ waited > 5 * Delay(cfg) \/ AllUp(C, other)
         THEN pc' = "decide" /\ nap' = 0
         ELSE IF NoneKnown(C, other) THEN pc' = "fallback" /\ nap' = Delay(cfg)
                                     ELSE pc' = "sleep" /\ nap' = 1
    /\ UNCHANGED <<conf, sysd, ac, cfg, waited, todo, at, busy, ticker, world, ages, update>>

\* Both naps end early when the process is to stop.
Wake ==
    /\ pc \in {"sleep", "fallback"} /\ (nap = 0 \/ Sigterm)
    /\ pc' = IF pc = "sleep" /\ ~Sigterm THEN "poll" ELSE "decide"
    /\ nap' = 0
    /\ UNCHANGED <<conf, sysd, ac, cfg, waited, todo, at, busy, ticker, world, ages, update>>

\* The entries of .last-backup that count at the start.
Recent == {s \in Servers : Enabled(cfg, s) /\ rec[s] < Interval(cfg)}
Due == {s \in Servers : Enabled(cfg, s) /\ rec[s] # Never /\ rec[s] >= Interval(cfg)}

\* runBackupCycle takes the configuration in force now.
StartCycle ==
    /\ pc' = "cycle" /\ todo' = {s \in Servers : Enabled(ac, s)}
    /\ skipped' = skipped \cup {s \in Servers : ~Enabled(ac, s)}

StartTicker ==
    /\ booted' = TRUE /\ period' = Interval(cfg) /\ left' = Interval(cfg) /\ tick' = FALSE

\* mutant: any recent server is reason enough
DecideAnyRecent ==
    /\ pc = "decide"
    /\ waited' = 0
    /\ IF Recent # {}
       THEN pc' = "loop" /\ StartTicker /\ UNCHANGED <<todo, skipped>>
       ELSE StartCycle /\ UNCHANGED ticker
    /\ UNCHANGED <<conf, sysd, ac, cfg, nap, at, busy, rec, autosave, reported, up,
                   ages, update>>

\* The first cycle is left out when some server is recent and none is due.
Decide ==
    /\ pc = "decide"
    /\ waited' = 0
    /\ IF Due = {} /\ Recent # {}
       THEN pc' = "loop" /\ StartTicker /\ UNCHANGED <<todo, skipped>>
       ELSE StartCycle /\ UNCHANGED ticker
    /\ UNCHANGED <<conf, sysd, ac, cfg, nap, at, busy, rec, autosave, reported, up,
                   ages, update>>

Visit(s) == since' = [since EXCEPT ![s] = 0] /\ UNCHANGED <<life, stale>>

\* A server of the cycle is reached: container down, no players.
SkipServer(s) ==
    /\ pc = "cycle" /\ s \in todo /\ ~Sigterm /\ "skip" \in scenario
    /\ todo' = todo \ {s}
    /\ skipped' = skipped \cup {s}
    /\ Visit(s)
    /\ UNCHANGED <<conf, sysd, pc, ac, cfg, waited, nap, at, busy, ticker,
                   rec, autosave, reported, up, update>>

\* A server of the cycle is reached: save-off is sent, and takes effect or not.
BackupServer(s) ==
    /\ pc = "cycle" /\ s \in todo /\ ~Sigterm
    /\ todo' = todo \ {s} /\ at' = {s} /\ busy' = 0 /\ pc' = "backup"
    /\ autosave' \in {autosave, [autosave EXCEPT ![s] = FALSE]}
    /\ skipped' = skipped \ {s}
    /\ Visit(s)
    /\ UNCHANGED <<conf, sysd, ac, cfg, waited, nap, ticker, rec, reported, up, update>>

\* A failing save-off is given up, or a stop cancels it: the backup ends before its
\* save-on is promised.
SaveOffGivenUp(s) ==
    /\ "backup" \in scenario \/ Sigterm
    /\ skipped' = skipped \cup {s}
    /\ UNCHANGED <<autosave, reported, rec>>

\* mutant: save-on only after a backup that worked
BackupEndsUnsaved(s) ==
    /\ pc = "backup" /\ at = {s}
    /\ \/ SaveOffGivenUp(s)
       \/ /\ \/ /\ rec' = [rec EXCEPT ![s] = 0]
                /\ autosave' = [autosave EXCEPT ![s] = TRUE]
             \/ /\ "backup" \in scenario \/ Sigterm
                /\ UNCHANGED <<rec, autosave>>
          /\ reported' = reported \ {s}
          /\ UNCHANGED skipped
    /\ pc' = "cycle" /\ at' = {} /\ busy' = 0
    /\ UNCHANGED <<conf, sysd, ac, cfg, waited, nap, todo, ticker, up, ages, update>>

\* Save-off failed; or the backup worked and is recorded, or failed, and save-on
\* follows in either case; or save-on fails, which is logged, and the backup is not
\* recorded.  A stop cancels the rsync, unless it is over.
BackupEnds(s) ==
    /\ pc = "backup" /\ at = {s}
    /\ \/ SaveOffGivenUp(s)
       \/ /\ \/ rec' = [rec EXCEPT ![s] = 0]
             \/ ("backup" \in scenario \/ Sigterm) /\ UNCHANGED rec
          /\ autosave' = [autosave EXCEPT ![s] = TRUE]
          /\ reported' = reported \ {s}
          /\ UNCHANGED skipped
       \/ /\ "backup" \in scenario
          /\ reported' = reported \cup {s}
          /\ UNCHANGED <<autosave, rec, skipped>>
    /\ pc' = "cycle" /\ at' = {} /\ busy' = 0
    /\ UNCHANGED <<conf, sysd, ac, cfg, waited, nap, todo, ticker, up, ages, update>>

\* All servers done, or the context ended.
CycleEnds ==
    /\ pc = "cycle" /\ (todo = {} \/ Sigterm)
    /\ todo' = {}
    /\ pc' = IF booted THEN "after" ELSE "loop"
    /\ IF booted THEN UNCHANGED ticker ELSE StartTicker
    /\ UNCHANGED <<conf, sysd, ac, cfg, waited, nap, at, busy, world, ages, update>>

\* mutant: the ticker is not reset
AfterCycleNoReset ==
    /\ pc = "after"
    /\ pc' = "loop"
    /\ cfg' = ac
    /\ UNCHANGED <<conf, sysd, ac, waited, nap, todo, at, busy, ticker, world, ages, update>>

\* After a cycle of the ticker a changed interval is noticed; a tick that came
\* during the cycle stays.
AfterCycle ==
    /\ pc = "after"
    /\ pc' = "loop"
    /\ IF Interval(ac) # Interval(cfg)
       THEN cfg' = ac /\ period' = Interval(ac) /\ left' = Interval(ac) /\ stale' = 0
       ELSE UNCHANGED <<cfg, period, left, stale>>
    /\ UNCHANGED <<conf, sysd, ac, waited, nap, todo, at, busy, booted, tick,
                   world, since, life, update>>

TakeTick ==
    /\ pc = "loop" /\ tick
    /\ tick' = FALSE
    /\ StartCycle
    /\ UNCHANGED <<conf, sysd, ac, cfg, waited, nap, at, busy, booted, period, left,
                   rec, autosave, reported, up, ages, update>>

ShutDown == pc = "loop" /\ Sigterm /\ Exits

-----------------------------------------------------------------------------
(***************************************************************************)
(* systemd, crashes, containers                                            *)
(***************************************************************************)

Crash == Alive /\ "crash" \in scenario /\ Exits

\* TimeoutStopSec is over: SIGKILL.
Kill == unit = "stopping" /\ timer = 0 /\ Exits

StartsProcess == unit' = "active" /\ timer' = 0 /\ pc' = "load"

Restart ==
    /\ unit = "restarting" /\ timer = 0
    /\ StartsProcess
    /\ UNCHANGED <<conf, ac, cfg, waited, nap, todo, at, busy, ticker, world, ages, update>>

\* systemctl stop: SIGTERM, unless there is no process.
StopUnit ==
    IF unit = "active" THEN unit' = "stopping" /\ timer' = TimeoutStopSec
    ELSE unit' = "inactive" /\ timer' = 0

\* The administrator stops the service, and starts it again.
AdminStop ==
    /\ "stop" \in scenario /\ upd = "none" /\ unit \in {"active", "restarting"}
    /\ StopUnit
    /\ outcome' = "stopped"
    /\ UNCHANGED <<conf, daemon, ticker, world, ages, upd, tmp, bin>>

AdminStart ==
    /\ unit = "inactive" /\ upd = "none"
    /\ StartsProcess
    /\ outcome' = "none"
    /\ UNCHANGED <<conf, ac, cfg, waited, nap, todo, at, busy, ticker, world, ages,
                   upd, tmp, bin>>

\* A server that starts has autosave on.
ContainerRestart(s) ==
    /\ "container" \in scenario /\ up[s] > 0
    /\ up' = [up EXCEPT ![s] = 0]
    /\ autosave' = [autosave EXCEPT ![s] = TRUE]
    /\ reported' = reported \ {s}
    /\ UNCHANGED <<conf, sysd, daemon, ticker, rec, skipped, ages, update>>

-----------------------------------------------------------------------------
(***************************************************************************)
(* The configuration                                                       *)
(***************************************************************************)

\* SetConfigValue: refused by the setter or by the validation, or written.  The
\* environment is not looked at.
SetConfigValue(k, v) ==
    /\ "set" \in scenario /\ edits < MaxEdits /\ edits' = edits + 1
    /\ Accepts(k, v)
    /\ file' = [loadConfigFile(file) EXCEPT ![k] = Stored(k, v)]
    /\ Validate(file')
    /\ UNCHANGED <<scenario, env, hand, sysd, daemon, ticker, world, ages, update>>

HandEdit(k, v) ==
    /\ "hand" \in scenario /\ edits < MaxEdits /\ edits' = edits + 1
    /\ file' = [file EXCEPT ![k] = v]
    /\ hand' = TRUE
    /\ UNCHANGED <<scenario, env, sysd, daemon, ticker, world, ages, update>>

-----------------------------------------------------------------------------
(***************************************************************************)
(* The update.  tmp is the file <program>.new: absent, being written,      *)
(* the release, or something else under the same name.                     *)
(***************************************************************************)

UpdateUnchanged == UNCHANGED <<conf, daemon, ticker, world, ages>>

UpdateBegin ==
    /\ "update" \in scenario /\ upd = "none" /\ bin = "old" /\ outcome = "none"
    /\ upd' = "download" /\ tmp' = "torn"
    /\ UNCHANGED <<sysd, bin, outcome>> /\ UpdateUnchanged

\* The download is complete, whatever was downloaded.
Downloaded ==
    /\ upd = "download"
    /\ upd' = "verify" /\ tmp' \in {"new", "bad"}
    /\ UNCHANGED <<sysd, bin, outcome>> /\ UpdateUnchanged

\* mutant: a wrong checksum is only reported
VerifiedAnyway ==
    /\ upd = "verify"
    /\ upd' = "stop"
    /\ UNCHANGED <<sysd, tmp, bin, outcome>> /\ UpdateUnchanged

Verified ==
    /\ upd = "verify" /\ tmp = "new"
    /\ upd' = "stop"
    /\ UNCHANGED <<sysd, tmp, bin, outcome>> /\ UpdateUnchanged

\* The command fails; a download that failed or is wrong is removed.
UpdateFails ==
    /\ upd # "none"
    /\ upd' = "none" /\ outcome' = "failed"
    /\ tmp' = IF upd \in {"download", "verify"} THEN "none" ELSE tmp
    /\ UNCHANGED <<sysd, bin>> /\ UpdateUnchanged

\* The command is killed; whoever killed it knows that it has not finished.
UpdateKilled ==
    /\ upd # "none"
    /\ upd' = "none" /\ outcome' = "failed"
    /\ UNCHANGED <<sysd, tmp, bin>> /\ UpdateUnchanged

\* systemctl stop is sent once and waited for.
UpdateStop ==
    /\ upd = "stop" /\ unit \in {"active", "restarting"}
    /\ StopUnit
    /\ UNCHANGED update /\ UpdateUnchanged

UpdateStopped ==
    /\ upd = "stop" /\ unit = "inactive"
    /\ upd' = "install"
    /\ UNCHANGED <<sysd, tmp, bin, outcome>> /\ UpdateUnchanged

\* mv within one directory.
Install ==
    /\ upd = "install"
    /\ bin' = tmp /\ tmp' = "none"
    /\ upd' = "start"
    /\ UNCHANGED <<sysd, outcome>> /\ UpdateUnchanged

UpdateStart ==
    /\ upd = "start"
    /\ upd' = "status"
    /\ StartsProcess
    /\ UNCHANGED <<conf, ac, cfg, waited, nap, todo, at, busy, ticker, world, ages,
                   tmp, bin, outcome>>

\* systemctl status succeeds while the service is active.
UpdateDone ==
    /\ upd = "status" /\ unit = "active"
    /\ upd' = "none" /\ outcome' = "updated"
    /\ UNCHANGED <<sysd, tmp, bin>> /\ UpdateUnchanged

-----------------------------------------------------------------------------
(***************************************************************************)
(* Time                                                                    *)
(***************************************************************************)

\* Nothing is due: the goroutine sleeps, waits for a tick or for rsync, systemd's
\* timers run, and no reload is outstanding.
Waiting ==
    /\ \/ pc = "off"
       \/ pc \in {"sleep", "fallback"} /\ nap > 0 /\ ~Sigterm
       \/ pc = "loop" /\ ~tick /\ ~Sigterm
       \/ pc = "backup" /\ busy < MaxPass
    /\ unit \in {"restarting", "stopping"} => timer > 0
    /\ ~ReloadDue

Down(n) == IF n > 0 THEN n - 1 ELSE 0
Capped(n, cap) == IF n < cap THEN n + 1 ELSE cap

Ageing(s) == IF rec[s] < MaxInterval THEN rec[s] + 1 ELSE rec[s]

\* The ticker keeps its rhythm and drops a tick that finds one waiting.
TickerPass ==
    /\ left' = IF left = 1 THEN period ELSE Down(left)
    /\ tick' = (tick \/ left = 1)
    /\ UNCHANGED <<booted, period>>

Pass ==
    /\ Waiting
    /\ timer' = Down(timer)
    /\ nap' = Down(nap)
    /\ waited' = IF pc \in {"sleep", "fallback"} THEN waited + 1 ELSE waited
    /\ busy' = IF pc = "backup" THEN busy + 1 ELSE busy
    /\ TickerPass
    /\ rec' = [s \in Servers |-> Ageing(s)]
    /\ up' = [s \in Servers |-> IF up[s] < MaxDelay THEN up[s] + 1 ELSE up[s]]
    /\ since' = [s \in Servers |-> IF Enabled(ac, s) THEN Capped(since[s], SinceCap) ELSE 0]
    /\ life' = IF Alive THEN Capped(life, LifeCap) ELSE 0
    /\ stale' = IF booted /\ period # Interval(ac) THEN Capped(stale, StaleCap) ELSE 0
    /\ UNCHANGED <<conf, unit, pc, ac, cfg, todo, at, autosave, reported, skipped, update>>

-----------------------------------------------------------------------------
Daemon ==
    \/ Load \/ LoadFails \/ Reload \/ Poll \/ Wake \/ Decide
    \/ \E s \in Servers : SkipServer(s) \/ BackupServer(s) \/ BackupEnds(s)
    \/ CycleEnds \/ AfterCycle \/ TakeTick \/ ShutDown

Systemd ==
    \/ Crash \/ Kill \/ Restart \/ AdminStop \/ AdminStart
    \/ \E s \in Servers : ContainerRestart(s)

Configure == \E e \in Edits : SetConfigValue(e[1], e[2]) \/ HandEdit(e[1], e[2])

Update ==
    \/ UpdateBegin \/ Downloaded \/ Verified \/ UpdateFails \/ UpdateKilled
    \/ UpdateStop \/ UpdateStopped \/ Install \/ UpdateStart \/ UpdateDone

Next == Pass \/ Daemon \/ Systemd \/ Configure \/ Update

Spec == Init /\ [][Next]_vars

-----------------------------------------------------------------------------
(***************************************************************************)
(* Properties                                                              *)
(***************************************************************************)

\* Once the daemon has been up long enough for its wait and one cycle, no enabled
\* server with an entry in .last-backup has gone without a visit for more than two
\* intervals, the longest wait and one cycle, however often the daemon was stopped,
\* killed or restarted, whatever backups failed and however the configuration was
\* edited meanwhile (daemon.go:345-391).  A server without an entry is left out: it
\* does not count in the decision about the first cycle.
VisitedInTime ==
    \A s \in Servers :
        life > BootTime(Delay(cfg)) + CycleTime /\ Enabled(ac, s) /\ rec[s] # Never
            => since[s] <= 2 * MaxInterval + BootTime(MaxDelay) + CycleTime

\* A process that was killed between save-off and save-on leaves autosave off.  The
\* next process that lives for its wait, one interval and one cycle switches it on
\* again, although it may leave out its first cycle because the server looks
\* recent (backup.go:192-209, daemon.go:353-356).  Only a server that the last cycle
\* skipped or found not enabled, whose last backup failed with its save-off
\* (backup.go:192-194 returns before save-on is deferred), or whose save-on failed
\* and was logged, may still have it off.
AutosaveHealed ==
    \A s \in Servers :
        Enabled(ac, s) /\ ~autosave[s] /\ s \notin at \cup reported \cup skipped
            => life <= BootTime(MaxDelay) + MaxInterval + CycleTime

\* A cycle never meets an enabled server whose target cannot be used, whatever is
\* written into the file while the daemon runs; and as long as nobody edits the
\* file by hand and no variable overrides it, the service can start with it
\* (config.go:189-256, 302-353, 920-930, 973-1018).
ConfigInForce ==
    /\ Alive /\ pc # "load" =>
         \A s \in Servers : Enabled(ac, s) => resolveBackupTarget(ac, s) # "error"
    /\ ~hand /\ DOMAIN env = {} => Loads(file, env)

\* The service is down only because the administrator stopped it, while an update
\* has stopped it, or after an update that reported its failure or was killed: a
\* failed start or a crash is always followed by another start (main.go:364-381,
\* 416-434).
ServiceAccounted ==
    unit = "inactive" =>
        outcome \in {"stopped", "failed"} \/ upd \in {"stop", "install", "start"}

\* Whatever step of an update fails or is killed, the installed program is the old
\* one or the verified new one, also when systemd restarts it in the middle; and
\* an update reported as done has installed the new one (main.go:342-381).
ProgramWhole ==
    /\ bin \in {"old", "new"}
    /\ outcome = "updated" => bin = "new"

\* A changed backup_interval is the ticker's period after one old interval and one
\* cycle at the latest (daemon.go:380-386).
IntervalCaughtUp == stale <= MaxInterval + CycleTime

\* README.md:212: "Changes take effect within seconds through inotify, except
\* `listen_addr`".
IntervalWithinSeconds == stale <= 1

=============================================================================
