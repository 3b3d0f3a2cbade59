--------------------------- MODULE Service_proofs ----------------------------
(***************************************************************************)
(* Theorems about Service: the update never leaves a broken program or an  *)
(* unexplained stop, the configuration in force is always usable, and the  *)
(* three time limits of the daemon (a changed interval is taken over, a    *)
(* server is visited, autosave is switched on again) hold for every number *)
(* of servers, every configuration and every number of edits.              *)
(*                                                                         *)
(* The limits rest on one idea: a clock that runs up is paid for by one    *)
(* that runs down.  In the main loop that is what is left of the ticker's  *)
(* period, in a cycle the Work left: what the servers still to come and    *)
(* the one being backed up may take.                                       *)
(***************************************************************************)
EXTENDS Service, FiniteSetTheorems, TLAPS

-----------------------------------------------------------------------------
(***************************************************************************)
(* The update                                                              *)
(***************************************************************************)

\* What the steps of an update have established.
UpdateInv ==
    /\ upd \in UpdateSteps
    /\ bin \in {"old", "new"}
    /\ upd \in {"stop", "install"} => tmp = "new"
    /\ upd \in {"start", "status"} => bin = "new"
    /\ upd # "none" => outcome = "none"
    /\ outcome = "updated" => bin = "new"

\* A stop is explained from the moment it is asked for, and while the update holds
\* the service down nothing else starts it.
StopInv ==
    /\ unit \in {"active", "stopping", "inactive", "restarting"}
    /\ unit \in {"inactive", "stopping"} =>
         outcome \in {"stopped", "failed"} \/ upd \in {"stop", "install", "start"}
    /\ upd \in {"install", "start"} => unit = "inactive"
    /\ Alive <=> unit \in {"active", "stopping"}

-----------------------------------------------------------------------------
(***************************************************************************)
(* The configuration                                                       *)
(***************************************************************************)

\* A configuration the ticker and the wait can go by.
Usable(c) ==
    /\ DOMAIN c = Keys
    /\ Interval(c) \in 1..MaxInterval /\ Delay(c) \in 0..MaxDelay

ConfigInv ==
    /\ DOMAIN file = Keys /\ Usable(ac) /\ Usable(cfg)
    /\ \A k \in Keys : Bounded(k, file[k])
    /\ \A k \in DOMAIN env : Bounded(k, env[k])
    /\ hand \in BOOLEAN
    /\ ~hand => Validate(loadConfigFile(file))
    /\ pc \notin {"off", "load"} => Validate(ac)

-----------------------------------------------------------------------------
(***************************************************************************)
(* The process                                                             *)
(***************************************************************************)

Booting == {"poll", "sleep", "fallback", "decide"}
InCycle == {"cycle", "backup"}

\* Time the backups of some servers may take, and time left of the cycle.
Work(T) == Cardinality(T) * MaxPass
ToCome == Work(todo) + (IF pc = "backup" THEN MaxPass - busy ELSE 0)

\* Time until the main loop takes a tick.
NextTick == IF tick THEN 0 ELSE left

\* What is set in which phase of the process.
Shape ==
    /\ pc \in PCs /\ booted \in BOOLEAN /\ tick \in BOOLEAN
    /\ waited \in Nat /\ nap \in Nat /\ busy \in 0..MaxPass
    /\ life \in Nat /\ stale \in Nat
    /\ todo \subseteq Servers /\ at \subseteq Servers \ todo
    /\ pc \notin Booting => waited = 0
    /\ pc \notin {"sleep", "fallback"} => nap = 0
    /\ pc \notin InCycle => todo = {}
    /\ pc # "backup" => at = {} /\ busy = 0
    /\ pc \in {"off", "load"} => life = 0
    /\ pc \in {"off", "load"} \cup Booting => ~booted
    /\ pc \in {"after", "loop"} => booted
    /\ booted => period = Interval(cfg) /\ left \in 1..MaxInterval
    /\ ~booted => period = 0 /\ left = 0 /\ ~tick /\ stale = 0

\* The wait for containers is bounded, and so is the process's age until its
\* ticker runs.
BootInv ==
    /\ waited + nap <= BootTime(Delay(cfg)) /\ nap <= Delay(cfg)
    /\ pc \in Booting => life = waited
    /\ pc \in InCycle /\ ~booted => life + ToCome <= BootTime(Delay(cfg)) + CycleTime

\* The variables of no phase.
WorldOK ==
    /\ scenario \in Scenarios /\ edits \in 0..MaxEdits /\ timer \in Nat
    /\ rec \in [Servers -> 0..Never]
    /\ autosave \in [Servers -> BOOLEAN] /\ reported \subseteq Servers
    /\ up \in [Servers -> 0..MaxDelay] /\ skipped \subseteq Servers
    /\ since \in [Servers -> 0..SinceCap] /\ life \in 0..LifeCap /\ stale \in 0..StaleCap
    /\ tmp \in {"none", "torn", "new", "bad"}
    /\ outcome \in {"none", "stopped", "failed", "updated"}

-----------------------------------------------------------------------------
(***************************************************************************)
(* The time limits                                                         *)
(***************************************************************************)

\* The ticker is late only until the end of the cycle after its next tick.
LateInv ==
    /\ stale # 0 => booted /\ period # Interval(ac)
    /\ pc = "loop" => stale + NextTick <= MaxInterval
    /\ pc \in InCycle => stale + ToCome <= MaxInterval + CycleTime
    /\ stale <= MaxInterval + CycleTime

LongestWait == 2 * MaxInterval + BootTime(MaxDelay)

\* Time without a visit: of a server that is not enabled, that has been backed up,
\* that is being backed up, that was not enabled when the process started, and
\* that has had its turn in the cycle.
GapInv(s) ==
    /\ since[s] \in Nat /\ rec[s] \in Nat
    /\ pc \notin {"off", "load"} /\ ~Enabled(ac, s) => since[s] = 0
    /\ rec[s] < MaxInterval => since[s] <= rec[s] + MaxPass
    /\ s \in at => since[s] <= busy
    /\ pc \in Booting /\ ~Enabled(cfg, s) => since[s] <= waited
    /\ pc \in InCycle /\ s \notin todo => since[s] + ToCome <= CycleTime

\* A server with an entry, once the ticker runs.
VisitInv(s) ==
    booted /\ rec[s] # Never =>
      /\ pc = "loop" /\ ~Sigterm =>
           since[s] + NextTick <= LongestWait + MaxPass
      /\ pc \in InCycle /\ s \in todo /\ ~(pc = "cycle" /\ Sigterm) =>
           since[s] + ToCome <= LongestWait + MaxPass + CycleTime
      /\ pc = "after" /\ ~Sigterm => since[s] <= CycleTime
      /\ \/ since[s] <= LongestWait + CycleTime
         \/ /\ Sigterm /\ pc = "loop" /\ ~tick
            /\ life <= BootTime(Delay(cfg)) + CycleTime

\* Autosave is off and nothing says why.
LeftOff(s) == ~autosave[s] /\ s \notin at \cup reported \cup skipped

HealInv(s) ==
    LeftOff(s) =>
      /\ pc \in InCycle => s \in todo
      /\ pc = "after" => Sigterm
      /\ booted =>
           /\ pc = "loop" /\ ~Sigterm =>
                life + NextTick <= BootTime(MaxDelay) + MaxInterval
           /\ pc \in InCycle /\ ~(pc = "cycle" /\ Sigterm) =>
                life + ToCome <= BootTime(MaxDelay) + MaxInterval + CycleTime
           /\ life <= BootTime(MaxDelay) + MaxInterval + CycleTime

-----------------------------------------------------------------------------
(***************************************************************************)
(* The update: proofs                                                      *)
(***************************************************************************)

\* The initial state of the service and of the update.
LEMMA UpdateInit == Init => UpdateInv /\ StopInv
BY DEF Init, UpdateInv, StopInv, UpdateSteps, Alive

\* What the daemon, systemd and the configuration leave alone.
LEMMA NoUpdate ==
  ASSUME Next, ~Update, ~AdminStop, ~AdminStart
  PROVE  UNCHANGED update
<1>1. CASE Pass
  BY <1>1 DEF Pass
<1>2. CASE Daemon
  BY <1>2 DEF Daemon, Load, LoadFails, Reload, Poll, Wake, Decide, SkipServer, BackupServer,
         BackupEnds, CycleEnds, AfterCycle, TakeTick, ShutDown, Exits
<1>3. CASE Systemd
  BY <1>3 DEF Systemd, Crash, Kill, Restart, ContainerRestart, Exits
<1>4. CASE Configure
  BY <1>4 DEF Configure, SetConfigValue, HandEdit
<1> QED
  BY <1>1, <1>2, <1>3, <1>4 DEF Next

\* Every step keeps what the update has established.
LEMMA UpdateStep ==
  ASSUME UpdateInv, [Next]_vars
  PROVE  UpdateInv'
<1>1. CASE UNCHANGED update
  BY <1>1 DEF update, UpdateInv
<1>2. CASE AdminStop
  BY <1>2 DEF AdminStop, UpdateInv
<1>3. CASE AdminStart
  BY <1>3 DEF AdminStart, UpdateInv
<1>4. CASE Update
  <2>1. CASE UpdateBegin
    BY <2>1 DEF UpdateBegin, UpdateInv, UpdateSteps
  <2>2. CASE Downloaded
    BY <2>2 DEF Downloaded, UpdateInv, UpdateSteps
  <2>3. CASE Verified
    BY <2>3 DEF Verified, UpdateInv, UpdateSteps
  <2>4. CASE UpdateFails \/ UpdateKilled
    BY <2>4 DEF UpdateFails, UpdateKilled, UpdateInv, UpdateSteps
  <2>5. CASE UpdateStop
    BY <2>5, <1>1 DEF UpdateStop
  <2>6. CASE UpdateStopped
    BY <2>6 DEF UpdateStopped, UpdateInv, UpdateSteps
  <2>7. CASE Install
    BY <2>7 DEF Install, UpdateInv, UpdateSteps
  <2>8. CASE UpdateStart
    BY <2>8 DEF UpdateStart, UpdateInv, UpdateSteps
  <2>9. CASE UpdateDone
    BY <2>9 DEF UpdateDone, UpdateInv, UpdateSteps
  <2> QED
    BY <1>4, <2>1, <2>2, <2>3, <2>4, <2>5, <2>6, <2>7, <2>8, <2>9 DEF Update
<1> QED
  BY <1>1, <1>2, <1>3, <1>4, NoUpdate DEF vars

\* The end of a process leaves the stop explained.
LEMMA ExitsStep ==
  ASSUME StopInv, Alive \/ Sigterm, Exits
  PROVE  StopInv'
BY DEF StopInv, Exits, ProcessGone, Sigterm, Alive, update

\* Every step keeps a stop explained.
LEMMA StopStep ==
  ASSUME StopInv, UpdateInv, [Next]_vars
  PROVE  StopInv'
<1>1. CASE UNCHANGED <<unit, pc, update>>
  BY <1>1 DEF update, StopInv, Alive
<1>2. CASE (Alive \/ Sigterm) /\ Exits
  BY <1>2, ExitsStep
<1>3. CASE Daemon
  <2>1. CASE LoadFails \/ ShutDown
    BY <2>1, <1>2 DEF LoadFails, ShutDown, Alive
  <2> SUFFICES ASSUME ~LoadFails, ~ShutDown PROVE StopInv'
    BY <2>1
  <2>2. UNCHANGED <<sysd, update>> /\ pc # "off" /\ pc' # "off"
    BY <1>3 DEF Daemon, Load, Reload, ReloadDue, Alive, Poll, Wake, Decide, StartCycle, StartTicker,
         SkipServer, BackupServer, BackupEnds, CycleEnds, AfterCycle, TakeTick
  <2> QED
    BY <2>2 DEF sysd, update, StopInv, Alive
<1>4. CASE Systemd
  <2>1. CASE Crash \/ Kill
    BY <2>1, <1>2 DEF Crash, Kill, Sigterm
  <2>2. CASE Restart
    BY <2>2 DEF Restart, StartsProcess, update, StopInv, Alive
  <2>3. CASE AdminStop
    BY <2>3 DEF AdminStop, StopUnit, daemon, StopInv, Alive
  <2>4. CASE AdminStart
    BY <2>4 DEF AdminStart, StartsProcess, StopInv, Alive
  <2>5. ASSUME NEW s \in Servers, ContainerRestart(s) PROVE StopInv'
    BY <2>5, <1>1 DEF ContainerRestart, sysd, daemon
  <2> QED
    BY <1>4, <2>1, <2>2, <2>3, <2>4, <2>5 DEF Systemd
<1>5. CASE Configure
  BY <1>5, <1>1 DEF Configure, SetConfigValue, HandEdit, sysd, daemon
<1>6. CASE Update
  <2>1. CASE UpdateStop
    BY <2>1 DEF UpdateStop, StopUnit, UpdateUnchanged, daemon, update, StopInv, Alive
  <2>2. CASE UpdateStart
    BY <2>2 DEF UpdateStart, StartsProcess, StopInv, Alive
  <2>3. CASE UpdateBegin \/ Downloaded \/ Verified
    BY <2>3 DEF UpdateBegin, Downloaded, Verified, UpdateUnchanged, daemon, sysd, StopInv, Alive
  <2>4. CASE UpdateFails \/ UpdateKilled
    BY <2>4 DEF UpdateFails, UpdateKilled, UpdateUnchanged, daemon, sysd, StopInv, Alive
  <2>5. CASE UpdateStopped \/ Install \/ UpdateDone
    BY <2>5 DEF UpdateStopped, Install, UpdateDone, UpdateUnchanged, daemon, sysd, StopInv,
         UpdateInv, Alive
  <2> QED
    BY <1>6, <2>1, <2>2, <2>3, <2>4, <2>5 DEF Update
<1>7. CASE Pass
  BY <1>7, <1>1 DEF Pass
<1> QED
  BY <1>1, <1>3, <1>4, <1>5, <1>6, <1>7 DEF Next, vars, sysd, daemon

\* The installed program is the old one or the verified new one whatever step of
\* an update fails or is killed, and an update reported as done has installed the
\* new one (main.go:342-381).
THEOREM ProgramIsWhole == Spec => []ProgramWhole
<1>1. UpdateInv => ProgramWhole
  BY DEF UpdateInv, ProgramWhole
<1> QED
  BY <1>1, UpdateInit, UpdateStep, PTL DEF Spec

\* The service is down only because the administrator stopped it, while an update
\* holds it down, or after an update that failed (main.go:364-381, 416-434).
THEOREM ServiceIsAccounted == Spec => []ServiceAccounted
<1>1. StopInv => ServiceAccounted
  BY DEF StopInv, ServiceAccounted
<1> QED
  BY <1>1, UpdateInit, UpdateStep, StopStep, PTL DEF Spec

-----------------------------------------------------------------------------
(***************************************************************************)
(* The kinds of steps: besides the daemon's own and the passing of time    *)
(* there are steps that leave the daemon alone, starts and ends of it.     *)
(***************************************************************************)

Quiet == UNCHANGED <<daemon, ticker, world, ages>> /\ (Sigterm => Sigterm')

Starts ==
    /\ pc = "off" /\ pc' = "load" /\ unit' = "active"
    /\ UNCHANGED <<conf, ac, cfg, waited, nap, todo, at, busy, ticker, world, ages>>

Gone == ProcessGone /\ CopyFound /\ skipped' = {} /\ UNCHANGED <<conf, autosave, reported, up>>

\* A step of the daemon that is neither its end nor its load.
Works ==
    \/ Poll \/ Wake \/ Decide \/ CycleEnds \/ AfterCycle \/ TakeTick
    \/ \E s \in Servers : SkipServer(s) \/ BackupServer(s) \/ BackupEnds(s)

\* Every step is of one of these kinds.
LEMMA Moves ==
  ASSUME StopInv, [Next]_vars
  PROVE  \/ Quiet /\ (UNCHANGED conf \/ Configure)
         \/ Starts \/ Gone \/ Pass \/ Load \/ Reload \/ Works
         \/ \E s \in Servers : ContainerRestart(s)
<1>1. CASE UNCHANGED vars
  BY <1>1 DEF vars, Quiet, sysd, Sigterm
<1>2. CASE Exits
  BY <1>2 DEF Exits, Gone
<1>3. CASE Daemon
  BY <1>3, <1>2 DEF Daemon, Works, LoadFails, ShutDown
<1>4. CASE Systemd
  <2>1. CASE Crash \/ Kill
    BY <2>1, <1>2 DEF Crash, Kill
  <2>2. CASE Restart \/ AdminStart
    BY <2>2 DEF Restart, AdminStart, StartsProcess, Starts, StopInv, Alive
  <2>3. CASE AdminStop
    BY <2>3 DEF AdminStop, Quiet, StopUnit, Sigterm
  <2> QED
    BY <1>4, <2>1, <2>2, <2>3 DEF Systemd
<1>5. CASE Configure
  BY <1>5 DEF Configure, SetConfigValue, HandEdit, Quiet, sysd, Sigterm
<1>6. CASE Update
  <2>1. CASE UpdateStart
    BY <2>1 DEF UpdateStart, StartsProcess, Starts, StopInv, Alive
  <2>2. CASE UpdateStop
    BY <2>2 DEF UpdateStop, StopUnit, UpdateUnchanged, Quiet, Sigterm
  <2> QED
    BY <1>6, <2>1, <2>2 DEF Update, UpdateBegin, Downloaded, Verified, UpdateFails,
         UpdateKilled, UpdateStopped, Install, UpdateDone, UpdateUnchanged, Quiet, sysd, Sigterm
<1> QED
  BY <1>1, <1>3, <1>4, <1>5, <1>6 DEF Next

\* What the daemon's work leaves alone, and that it goes on.
LEMMA WorksLeaves ==
  ASSUME Works
  PROVE  /\ UNCHANGED <<conf, sysd, ac, up>>
         /\ pc \notin {"off", "load"} /\ pc' \notin {"off", "load"}
         /\ cfg' \in {cfg, ac}
BY DEF Works, Poll, Wake, Decide, StartCycle, StartTicker, CycleEnds, AfterCycle, TakeTick,
       SkipServer, BackupServer, BackupEnds, world

-----------------------------------------------------------------------------
(***************************************************************************)
(* The configuration: proofs                                               *)
(***************************************************************************)

\* What is normalised once is normalised.
LEMMA StoredTwice ==
  ASSUME NEW k, NEW v
  PROVE  Stored(k, Stored(k, v)) = Stored(k, v)
BY DEF Stored, normalizeDestRoot

\* Normalising leaves numbers alone.
LEMMA StoredBounded ==
  ASSUME NEW k \in Keys, NEW v, Bounded(k, v)
  PROVE  Bounded(k, Stored(k, v))
BY DEF Bounded, Stored, IsRoot

\* A configuration that loads is one to go by.
LEMMA LoadedUsable ==
  ASSUME ConfigInv, Loads(file, env)
  PROVE  Usable(LoadConfig(file, env)) /\ Validate(LoadConfig(file, env))
<1> DEFINE c == LoadConfig(file, env)
           i == <<"global", "backup_interval">>
           d == <<"global", "initial_delay">>
<1>1. Validate(c)
  BY DEF Loads
<1>2. i \in Keys /\ d \in Keys
  BY DEF Keys, GlobalKeys
<1>3. DOMAIN c = Keys
  BY DEF LoadConfig, applyEnvOverrides
<1>4. Stored(i, file[i]) = file[i] /\ Stored(d, file[d]) = file[d]
  BY DEF Stored, IsRoot
<1>5. Stored(i, env[i]) = env[i] /\ Stored(d, env[d]) = env[d]
  BY DEF Stored, IsRoot
<1>6. c[i] = file[i] \/ (i \in DOMAIN env /\ c[i] = env[i])
  BY <1>2, <1>4, <1>5 DEF LoadConfig, applyEnvOverrides, loadConfigFile
<1>7. c[d] = file[d] \/ (d \in DOMAIN env /\ c[d] = env[d])
  BY <1>2, <1>4, <1>5 DEF LoadConfig, applyEnvOverrides, loadConfigFile
<1>8. c[i] \in Int /\ c[i] <= MaxInterval
  BY <1>6, <1>2 DEF ConfigInv, Bounded
<1>9. c[d] \in Int /\ c[d] <= MaxDelay
  BY <1>7, <1>2 DEF ConfigInv, Bounded
<1>10. c[i] > 0 /\ c[d] >= 0
  BY <1>1 DEF Validate, Interval, Delay
<1> HIDE DEF c
<1> QED
  BY <1>1, <1>3, <1>8, <1>9, <1>10, BoundsAssumption DEF Usable, Interval, Delay, c

\* The file at the beginning is valid.
LEMMA ConfigInit == Init => ConfigInv
<1> SUFFICES ASSUME Init PROVE ConfigInv
  OBVIOUS
<1> DEFINE i == <<"global", "backup_interval">>
           d == <<"global", "initial_delay">>
<1>1. /\ DOMAIN file = Keys /\ Validate(loadConfigFile(file))
      /\ \A k \in Keys : Bounded(k, file[k])
      /\ \A k \in DOMAIN env : Bounded(k, env[k])
  BY SetupsAssumption DEF Init
<1>2. i \in Keys /\ d \in Keys
  BY DEF Keys, GlobalKeys
<1>3. Stored(i, file[i]) = file[i] /\ Stored(d, file[d]) = file[d]
  BY DEF Stored, IsRoot
<1>4. file[i] > 0 /\ file[d] >= 0
  BY <1>1, <1>2, <1>3 DEF Validate, loadConfigFile, Interval, Delay
<1>5. file[i] \in 1..MaxInterval /\ file[d] \in 0..MaxDelay
  BY <1>1, <1>2, <1>4, BoundsAssumption DEF Bounded
<1>6. Usable(file)
  BY <1>1, <1>5 DEF Usable, Interval, Delay
<1> QED
  BY <1>1, <1>6 DEF Init, ConfigInv

\* An edit, by config set or by hand, keeps the file in bounds; config set keeps it
\* valid.
LEMMA ConfigureStep ==
  ASSUME ConfigInv, Quiet, Configure
  PROVE  ConfigInv'
<1>1. PICK e \in Edits : SetConfigValue(e[1], e[2]) \/ HandEdit(e[1], e[2])
  BY DEF Configure
<1>2. e[1] \in Keys /\ Bounded(e[1], e[2])
  BY EditsAssumption
<1>3. UNCHANGED <<pc, ac, cfg, env>>
  BY <1>1 DEF SetConfigValue, HandEdit, Quiet, daemon
<1>4. CASE SetConfigValue(e[1], e[2])
  <2>1. file' = [loadConfigFile(file) EXCEPT ![e[1]] = Stored(e[1], e[2])]
    BY <1>4 DEF SetConfigValue
  <2>2. DOMAIN file' = Keys
    BY <2>1 DEF loadConfigFile
  <2>3. \A k \in Keys : file'[k] = IF k = e[1] THEN Stored(e[1], e[2]) ELSE Stored(k, file[k])
    BY <2>1, <1>2 DEF loadConfigFile
  <2>4. \A k \in Keys : Bounded(k, file'[k])
    BY <2>3, <1>2, StoredBounded DEF ConfigInv
  <2>5. \A k \in Keys : Stored(k, file'[k]) = file'[k]
    BY <2>3, StoredTwice
  <2>6. file' = [k \in Keys |-> file'[k]]
    BY <2>1 DEF loadConfigFile
  <2>7. loadConfigFile(file') = file'
    BY <2>5, <2>6 DEF loadConfigFile
  <2>8. Validate(loadConfigFile(file'))
    BY <2>7, <1>4 DEF SetConfigValue
  <2> QED
    BY <1>3, <1>4, <2>2, <2>4, <2>8 DEF ConfigInv, SetConfigValue, Usable, Validate, Interval,
         Delay, Enabled, resolveBackupTarget, loadConfigFile
<1>5. CASE HandEdit(e[1], e[2])
  BY <1>5, <1>2, <1>3 DEF HandEdit, ConfigInv, Usable, Validate, Interval, Delay, Enabled,
         resolveBackupTarget
<1> QED
  BY <1>1, <1>4, <1>5

\* Every step keeps the configuration usable.
LEMMA ConfigStep ==
  ASSUME ConfigInv, StopInv, [Next]_vars
  PROVE  ConfigInv'
<1>1. CASE UNCHANGED <<conf, ac, cfg>> /\ (pc \in {"off", "load"} => pc' \in {"off", "load"})
  BY <1>1 DEF conf, ConfigInv
<1>2. CASE Quiet /\ UNCHANGED conf
  BY <1>2, <1>1 DEF Quiet, daemon
<1>3. CASE Quiet /\ Configure
  BY <1>3, ConfigureStep
<1>4. CASE Starts \/ Gone
  BY <1>4, <1>1 DEF Starts, Gone, ProcessGone
<1>5. CASE Pass
  BY <1>5, <1>1 DEF Pass
<1>6. CASE Load \/ Reload
  <2>1. Usable(LoadConfig(file, env)) /\ Validate(LoadConfig(file, env))
    BY <1>6, LoadedUsable DEF Load, Reload, ReloadDue
  <2>2. UNCHANGED conf /\ ac' = LoadConfig(file, env) /\ cfg' \in {cfg, LoadConfig(file, env)}
    BY <1>6 DEF Load, Reload, InForce
  <2> HIDE DEF LoadConfig, Usable, Validate
  <2> QED
    BY <2>1, <2>2 DEF conf, ConfigInv
<1>7. CASE Works
  BY <1>7, WorksLeaves DEF conf, ConfigInv
<1>8. CASE \E s \in Servers : ContainerRestart(s)
  BY <1>8, <1>1 DEF ContainerRestart, daemon
<1> QED
  BY <1>2, <1>3, <1>4, <1>5, <1>6, <1>7, <1>8, Moves

\* A cycle never meets an enabled server whose target cannot be used, and a file
\* that only config set has written can always be started with (config.go:189-256,
\* 302-353, 920-930, 973-1018).
THEOREM ConfigIsInForce == Spec => []ConfigInForce
<1>1. ASSUME ConfigInv PROVE ConfigInForce
  <2>1. DOMAIN env = {} => LoadConfig(file, env) = loadConfigFile(file)
    BY DEF LoadConfig, applyEnvOverrides, loadConfigFile
  <2>2. ~hand /\ DOMAIN env = {} => Loads(file, env)
    BY <2>1, <1>1 DEF ConfigInv, Loads
  <2>3. Alive /\ pc # "load" =>
          \A s \in Servers : Enabled(ac, s) => resolveBackupTarget(ac, s) # "error"
    BY <1>1 DEF ConfigInv, Validate, Alive
  <2> QED
    BY <2>2, <2>3 DEF ConfigInForce
<1> QED
  BY <1>1, ConfigInit, ConfigStep, UpdateInit, UpdateStep, StopStep, PTL DEF Spec

-----------------------------------------------------------------------------
(***************************************************************************)
(* The process and its boot: proofs                                        *)
(***************************************************************************)

\* The time the backups of some servers may take: no more than the cycle's, and
\* one pass less when one of them is done.
LEMMA WorkFacts ==
  /\ CycleTime \in Nat /\ MaxPass <= CycleTime
  /\ Work({}) = 0
  /\ \A T \in SUBSET Servers : Work(T) \in Nat /\ Work(T) <= CycleTime
  /\ \A T \in SUBSET Servers : \A s \in T : Work(T) = Work(T \ {s}) + MaxPass
<1> USE BoundsAssumption
<1>1. MaxPass \in Nat
  OBVIOUS
<1>2. \A m, n \in Nat : m <= n => m * MaxPass \in Nat /\ m * MaxPass <= n * MaxPass
  BY <1>1
<1>3. Cardinality(Servers) \in Nat /\ Cardinality(Servers) >= 1
  BY ServersAssumption, ServersFinite, FS_CardinalityType, FS_EmptySet
<1>4. ASSUME NEW T \in SUBSET Servers
      PROVE  IsFiniteSet(T) /\ Cardinality(T) \in Nat /\ Cardinality(T) <= Cardinality(Servers)
  BY ServersFinite, FS_Subset, FS_CardinalityType
<1>5. ASSUME NEW T \in SUBSET Servers PROVE Work(T) \in Nat /\ Work(T) <= CycleTime
  BY <1>2, <1>3, <1>4 DEF Work, CycleTime
<1>6. ASSUME NEW T \in SUBSET Servers, NEW s \in T PROVE Work(T) = Work(T \ {s}) + MaxPass
  <2>1. Cardinality(T \ {s}) = Cardinality(T) - 1
    BY <1>4, FS_RemoveElement
  <2>2. \A n \in Nat : n * MaxPass = (n - 1) * MaxPass + MaxPass
    BY <1>1
  <2> QED
    BY <2>1, <2>2, <1>4 DEF Work
<1>7. Work({}) = 0
  BY <1>1, FS_EmptySet DEF Work
<1>8. CycleTime \in Nat /\ MaxPass <= CycleTime
  <2>1. 1 * MaxPass <= Cardinality(Servers) * MaxPass
    BY <1>2, <1>3
  <2> QED
    BY <2>1, <1>1, <1>3, <1>5 DEF CycleTime, Work
<1> QED
  BY <1>5, <1>6, <1>7, <1>8

\* A server to come takes its pass.
LEMMA WorkLeft ==
  ASSUME NEW T \in SUBSET Servers, NEW s \in T
  PROVE  Work(T) >= MaxPass
<1>1. Work(T) = Work(T \ {s}) + MaxPass /\ Work(T \ {s}) \in Nat
  BY WorkFacts
<1> QED
  BY <1>1, BoundsAssumption

\* A fresh process.
LEMMA ShapeInit == Init => Shape
<1> SUFFICES ASSUME Init PROVE Shape
  OBVIOUS
<1>1. ~booted /\ ~tick /\ booted \in BOOLEAN /\ tick \in BOOLEAN
  BY DEF Init
<1>2. /\ pc = "load" /\ waited = 0 /\ nap = 0 /\ busy = 0 /\ life = 0 /\ stale = 0
      /\ todo = {} /\ at = {} /\ period = 0 /\ left = 0
  BY DEF Init
<1> QED
  BY <1>1, <1>2, BoundsAssumption DEF Shape, PCs, Booting, InCycle

\* A step of the daemon's work keeps the process in shape.
LEMMA ShapeWorks ==
  ASSUME Shape, ConfigInv, Works
  PROVE  Shape'
<1> USE BoundsAssumption DEF Booting, InCycle, PCs
<1>1. Interval(cfg) \in 1..MaxInterval /\ Interval(ac) \in 1..MaxInterval /\ Delay(cfg) \in Nat
  BY DEF ConfigInv, Usable
<1>2. CASE Poll
  <2>1. nap' \in Nat /\ pc' \in {"decide", "fallback", "sleep"} /\ (pc' = "decide" => nap' = 0)
    BY <1>2, <1>1 DEF Poll
  <2>2. pc = "poll" /\ UNCHANGED <<conf, sysd, ac, cfg, waited, todo, at, busy, ticker, world, ages>>
    BY <1>2 DEF Poll
  <2> QED
    BY <2>1, <2>2 DEF Shape, ticker, ages
<1>3. CASE Wake
  BY <1>3 DEF Wake, Shape, ticker, ages
<1>4. CASE Decide
  <2>1. CASE Due = {} /\ Recent # {}
    BY <2>1, <1>4, <1>1 DEF Decide, StartTicker, Shape, ages
  <2>2. CASE ~(Due = {} /\ Recent # {})
    BY <2>2, <1>4, <1>1 DEF Decide, StartCycle, ticker, Shape, ages
  <2> QED
    BY <2>1, <2>2
<1>5. CASE CycleEnds
  BY <1>5, <1>1 DEF CycleEnds, StartTicker, ticker, ages, Shape
<1>6. CASE AfterCycle
  BY <1>6, <1>1 DEF AfterCycle, Shape
<1>7. CASE TakeTick
  BY <1>7, <1>1 DEF TakeTick, StartCycle, ages, Shape
<1>8. ASSUME NEW s \in Servers, SkipServer(s) PROVE Shape'
  BY <1>8 DEF SkipServer, Visit, ticker, Shape
<1>9. ASSUME NEW s \in Servers, BackupServer(s) PROVE Shape'
  BY <1>9 DEF BackupServer, Visit, ticker, Shape
<1>10. ASSUME NEW s \in Servers, BackupEnds(s) PROVE Shape'
  BY <1>10 DEF BackupEnds, ticker, ages, Shape
<1> QED
  BY <1>2, <1>3, <1>4, <1>5, <1>6, <1>7, <1>8, <1>9, <1>10 DEF Works

\* The ticker's time keeps running down to a tick.
LEMMA TickerPasses ==
  ASSUME Shape, ConfigInv, TickerPass
  PROVE  /\ UNCHANGED <<booted, period>> /\ tick' \in BOOLEAN
         /\ tick => tick'
         /\ booted => left' \in 1..MaxInterval /\ (tick' \/ left' = left - 1)
         /\ ~booted => left' = 0 /\ ~tick'
<1>1. Interval(cfg) \in 1..MaxInterval
  BY DEF ConfigInv, Usable
<1> QED
  BY <1>1, BoundsAssumption DEF TickerPass, Shape, Down

\* Every step keeps the process in shape.
LEMMA ShapeStep ==
  ASSUME Shape, ConfigInv, StopInv, [Next]_vars
  PROVE  Shape'
<1> USE BoundsAssumption DEF Booting, InCycle, PCs
<1>1. CASE UNCHANGED <<daemon, ticker, ages>>
  BY <1>1 DEF daemon, ticker, ages, Shape
<1>2. CASE Quiet
  BY <1>2, <1>1 DEF Quiet
<1>3. CASE Starts
  BY <1>3 DEF Starts, ticker, ages, Shape
<1>4. CASE Gone
  <2>1. (~booted /\ ~tick)' /\ booted' \in BOOLEAN /\ tick' \in BOOLEAN
    BY <1>4 DEF Gone, ProcessGone
  <2>2. /\ pc' = "off" /\ waited' = 0 /\ nap' = 0 /\ busy' = 0 /\ life' = 0 /\ stale' = 0
        /\ todo' = {} /\ at' = {} /\ period' = 0 /\ left' = 0
    BY <1>4 DEF Gone, ProcessGone
  <2> QED
    BY <2>1, <2>2 DEF Shape
<1>5. CASE Pass
  <2>1. TickerPass /\ UNCHANGED <<pc, cfg, todo, at>>
    BY <1>5 DEF Pass
  <2>2. nap' \in Nat /\ (nap = 0 => nap' = 0)
    BY <1>5 DEF Pass, Down, Shape
  <2>3. waited' \in Nat /\ (pc \notin Booting => waited' = waited)
    BY <1>5 DEF Pass, Shape
  <2>4. busy' \in 0..MaxPass /\ (pc # "backup" => busy' = busy)
    BY <1>5 DEF Pass, Waiting, Shape
  <2>5. life' \in Nat /\ (pc \in {"off", "load"} => life' = 0)
    BY <1>5, WorkFacts DEF Pass, Waiting, Capped, LifeCap, BootTime, Alive, Shape
  <2>6. stale' \in Nat /\ (~booted => stale' = 0)
    BY <1>5, WorkFacts DEF Pass, Capped, StaleCap, Shape
  <2>7. UNCHANGED period
    BY <2>1 DEF TickerPass
  <2> QED
    BY <2>1, <2>2, <2>3, <2>4, <2>5, <2>6, <2>7, TickerPasses DEF Shape
<1>6. CASE Load \/ Reload
  <2>1. /\ UNCHANGED <<waited, nap, todo, at, busy, ticker, life>>
        /\ cfg' = cfg \/ pc = "load"
        /\ pc' = pc \/ (pc = "load" /\ pc' = "poll")
    BY <1>6 DEF Load, Reload, InForce
  <2>2. stale' \in {0, stale}
    BY <1>6 DEF Load, Reload, InForce
  <2> QED
    BY <2>1, <2>2 DEF ticker, Shape
<1>7. CASE Works
  BY <1>7, ShapeWorks
<1>8. CASE \E s \in Servers : ContainerRestart(s)
  BY <1>8, <1>1 DEF ContainerRestart
<1> QED
  BY <1>2, <1>3, <1>4, <1>5, <1>6, <1>7, <1>8, Moves

\* The time left of a cycle.
LEMMA ToComeFacts ==
  ASSUME Shape
  PROVE  /\ ToCome \in Nat
         /\ pc = "cycle" => ToCome <= CycleTime
         /\ \A s \in todo : ToCome >= MaxPass
<1>1. Work(todo) \in Nat /\ Work(todo) <= CycleTime
  BY WorkFacts DEF Shape
<1>2. \A s \in todo : Work(todo) >= MaxPass
  BY WorkLeft DEF Shape
<1> HIDE DEF Work
<1> QED
  BY <1>1, <1>2, BoundsAssumption DEF ToCome, Shape

\* The time left of a cycle shrinks as it goes on.
LEMMA ToComeMoves ==
  ASSUME Shape, Shape'
  PROVE  /\ ToCome' \in Nat
         /\ pc' = "cycle" => ToCome' <= CycleTime
         /\ \A s \in todo' : ToCome' >= MaxPass
         /\ UNCHANGED <<pc, todo, busy>> => ToCome' = ToCome
         /\ \A s \in Servers : SkipServer(s) \/ BackupServer(s) \/ BackupEnds(s) => ToCome' <= ToCome
         /\ Pass /\ pc = "backup" => ToCome' = ToCome - 1
<1> USE BoundsAssumption
<1>1. MaxPass \in Nat /\ busy \in 0..MaxPass /\ busy' \in 0..MaxPass
  BY DEF Shape
<1>2. Work(todo) \in Nat /\ Work(todo') \in Nat
  BY WorkFacts DEF Shape
<1>3. ASSUME NEW s \in todo, todo' = todo \ {s}
      PROVE  Work(todo) = Work(todo') + MaxPass
  BY <1>3, WorkFacts DEF Shape
<1> HIDE DEF Work
<1>4. UNCHANGED <<pc, todo, busy>> => ToCome' = ToCome
  BY DEF ToCome
<1>5. ASSUME NEW s \in Servers, SkipServer(s) PROVE ToCome' <= ToCome
  <2>1. pc = "cycle" /\ pc' = "cycle" /\ Work(todo) = Work(todo') + MaxPass
    BY <1>5, <1>3 DEF SkipServer
  <2> QED
    BY <2>1, <1>1, <1>2 DEF ToCome
<1>6. ASSUME NEW s \in Servers, BackupServer(s) PROVE ToCome' <= ToCome
  <2>1. pc = "cycle" /\ pc' = "backup" /\ busy' = 0 /\ Work(todo) = Work(todo') + MaxPass
    BY <1>6, <1>3 DEF BackupServer
  <2> QED
    BY <2>1, <1>1, <1>2 DEF ToCome
<1>7. ASSUME NEW s \in Servers, BackupEnds(s) PROVE ToCome' <= ToCome
  <2>1. pc = "backup" /\ pc' = "cycle" /\ todo' = todo
    BY <1>7 DEF BackupEnds
  <2> QED
    BY <2>1, <1>1, <1>2 DEF ToCome
<1>8. ASSUME Pass, pc = "backup" PROVE ToCome' = ToCome - 1
  <2>1. pc' = "backup" /\ todo' = todo /\ busy' = busy + 1
    BY <1>8 DEF Pass
  <2> QED
    BY <2>1, <1>8, <1>1, <1>2 DEF ToCome
<1>9. ToCome' \in Nat /\ (pc' = "cycle" => ToCome' <= CycleTime)
  <2>1. Work(todo') <= CycleTime
    BY WorkFacts DEF Shape
  <2> QED
    BY <2>1, <1>1, <1>2, WorkFacts DEF ToCome
<1>10. \A s \in todo' : ToCome' >= MaxPass
  <2>1. \A s \in todo' : Work(todo') >= MaxPass
    BY WorkLeft DEF Shape
  <2> QED
    BY <2>1, <1>1, <1>2 DEF ToCome
<1> QED
  BY <1>4, <1>5, <1>6, <1>7, <1>8, <1>9, <1>10

\* The wait has not begun.
LEMMA BootInit == Init => BootInv
<1> SUFFICES ASSUME Init PROVE BootInv
  OBVIOUS
<1>1. Delay(cfg) \in Nat
  BY ConfigInit DEF ConfigInv, Usable
<1> QED
  BY <1>1 DEF Init, BootInv, BootTime, Booting, InCycle

\* Every step of the wait and of the first cycle keeps to their times.
LEMMA BootStep ==
  ASSUME BootInv, WorldOK, Shape, Shape', ConfigInv, ConfigInv', StopInv, [Next]_vars
  PROVE  BootInv'
<1> USE BoundsAssumption DEF Booting, InCycle
<1>1. Delay(cfg) \in 0..MaxDelay /\ Delay(cfg)' \in 0..MaxDelay
  BY DEF ConfigInv, Usable
<1>2. /\ CycleTime \in Nat /\ ToCome \in Nat /\ ToCome' \in Nat
      /\ pc' = "cycle" => ToCome' <= CycleTime
  BY WorkFacts, ToComeFacts, ToComeMoves
<1>3. waited \in Nat /\ nap \in Nat /\ life \in Nat
  BY DEF Shape
<1> HIDE DEF ToCome
<1>4. CASE UNCHANGED <<daemon, ticker, ages>>
  <2>1. UNCHANGED <<pc, cfg, waited, nap, todo, busy, booted, life, ToCome>>
    BY <1>4, ToComeMoves DEF daemon, ticker, ages
  <2> QED
    BY <2>1 DEF BootInv
<1>5. CASE Quiet
  BY <1>5, <1>4 DEF Quiet
<1>6. CASE pc' \in {"off", "load", "after", "loop"}
  BY <1>6, <1>1 DEF Shape, BootInv, BootTime
<1>7. CASE Pass
  <2>1. UNCHANGED <<pc, cfg, booted>>
    BY <1>7 DEF Pass, TickerPass
  <2>2. CASE pc \in {"sleep", "fallback"}
    <3>1. waited' = waited + 1 /\ nap' = nap - 1 /\ life' = life + 1
      BY <1>7, <2>2, <1>1, <1>2, <1>3 DEF Pass, Waiting, Down, Capped, LifeCap, BootTime, Alive, BootInv, Shape
    <3> QED
      BY <3>1, <2>1, <2>2, <1>1, <1>3 DEF BootInv, BootTime
  <2>3. CASE pc = "backup"
    <3>1. life' <= life + 1 /\ life' \in Nat
      BY <1>7, <2>3, <1>3, <1>2, <1>1 DEF Pass, Capped, LifeCap, BootTime, Shape
    <3>2. ToCome' = ToCome - 1
      BY <1>7, <2>3, ToComeMoves
    <3>3. waited' = 0 /\ nap' = 0
      BY <2>1, <2>3 DEF Shape
    <3> QED
      BY <3>1, <3>2, <3>3, <2>1, <2>3, <1>1, <1>2, <1>3 DEF BootInv, BootTime
  <2>4. CASE pc \in {"off", "loop"}
    BY <2>1, <2>4, <1>6
  <2> QED
    BY <1>7, <2>2, <2>3, <2>4 DEF Pass, Waiting
<1>8. CASE Load
  BY <1>8, <1>1 DEF Load, InForce, BootInv, BootTime, Shape
<1>9. CASE Reload
  <2>1. UNCHANGED <<pc, cfg, waited, nap, todo, busy, booted, life, ToCome>>
    BY <1>9, ToComeMoves DEF Reload, InForce, ticker
  <2> QED
    BY <2>1 DEF BootInv
<1>10. CASE Poll
  <2>1. pc = "poll" /\ nap = 0 /\ UNCHANGED <<cfg, waited, life, up>>
    BY <1>10 DEF Poll, ages, world, Shape
  <2>2. \/ pc' = "decide" /\ nap' = 0
        \/ pc' = "fallback" /\ nap' = Delay(cfg) /\ waited <= 5 * Delay(cfg)
        \/ pc' = "sleep" /\ nap' = 1 /\ waited <= 5 * Delay(cfg) /\ Delay(cfg) >= 1
    <3>1. PICK C \in SUBSET Watched, other \in Strangers :
             IF NobodyThere(other) \/ waited > 5 * Delay(cfg) \/ AllUp(C, other)
             THEN pc' = "decide" /\ nap' = 0
             ELSE IF NoneKnown(C, other) THEN pc' = "fallback" /\ nap' = Delay(cfg)
                                         ELSE pc' = "sleep" /\ nap' = 1
      BY <1>10 DEF Poll, Inspected
    <3>2. CASE waited > 5 * Delay(cfg)
      BY <3>1, <3>2
    <3>3. CASE waited <= 5 * Delay(cfg) /\ Delay(cfg) >= 1
      BY <3>1, <3>3
    <3>4. CASE waited <= 5 * Delay(cfg) /\ Delay(cfg) = 0
      <4>1. \A s \in C : up[s] >= Delay(cfg)
        BY <3>4 DEF WorldOK, Watched
      <4>2. other # "young"
        BY <3>4 DEF Strangers
      <4>3. AllUp(C, other) \/ NoneKnown(C, other)
        BY <4>1, <4>2 DEF AllUp
      <4> QED
        BY <3>1, <3>4, <4>3
    <3> QED
      BY <3>2, <3>3, <3>4, <1>1, <1>3
  <2> QED
    BY <2>1, <2>2, <1>1, <1>3 DEF BootInv, BootTime
<1>11. CASE Wake
  BY <1>11, <1>1, <1>3 DEF Wake, ages, BootInv, BootTime
<1>12. CASE Decide
  <2>1. CASE pc' = "cycle"
    <3>1. life <= BootTime(Delay(cfg)) /\ UNCHANGED <<cfg, life>> /\ waited' = 0 /\ nap' = 0
      BY <1>12, <1>1, <1>3 DEF Decide, ages, BootInv, BootTime, Shape
    <3> QED
      BY <2>1, <3>1, <1>1, <1>2, <1>3 DEF BootInv, BootTime
  <2> QED
    BY <2>1, <1>12, <1>6 DEF Decide, StartCycle
<1>13. CASE CycleEnds \/ AfterCycle
  BY <1>13, <1>6 DEF CycleEnds, AfterCycle
<1>14. CASE TakeTick
  BY <1>14, <1>1 DEF TakeTick, StartCycle, BootInv, BootTime, Shape
<1>15. ASSUME NEW s \in Servers, SkipServer(s) \/ BackupServer(s) \/ BackupEnds(s) PROVE BootInv'
  <2>1. ToCome' <= ToCome
    BY <1>15, ToComeMoves
  <2>2. UNCHANGED <<cfg, waited, nap, booted, life>> /\ pc \in InCycle /\ pc' \in InCycle
    BY <1>15 DEF SkipServer, BackupServer, BackupEnds, Visit, ticker, ages
  <2> QED
    BY <2>1, <2>2, <1>1, <1>2, <1>3 DEF BootInv, BootTime
<1>16. CASE \E s \in Servers : ContainerRestart(s)
  BY <1>16, <1>4 DEF ContainerRestart
<1>17. CASE Starts \/ Gone
  BY <1>17, <1>6 DEF Starts, Gone, ProcessGone
<1> QED
  BY <1>5, <1>7, <1>8, <1>9, <1>10, <1>11, <1>12, <1>13, <1>14, <1>15, <1>16, <1>17, Moves DEF Works

-----------------------------------------------------------------------------
(***************************************************************************)
(* Types                                                                   *)
(***************************************************************************)

\* Bounds on the ages.
LEMMA Caps == LifeCap \in Nat /\ SinceCap \in Nat /\ StaleCap \in Nat
BY WorkFacts, BoundsAssumption DEF LifeCap, SinceCap, StaleCap, BootTime

\* An age that is counted up stays below its ceiling.
LEMMA CappedFacts ==
  ASSUME NEW cap \in Nat, NEW n \in 0..cap
  PROVE  Capped(n, cap) \in 0..cap /\ Capped(n, cap) \in Nat /\ Capped(n, cap) <= n + 1
BY DEF Capped

\* The initial state.
LEMMA WorldInit == Init => WorldOK
BY Caps, BoundsAssumption DEF Init, WorldOK, Never

\* A step of the daemon's work keeps these types.
LEMMA WorldWorks ==
  ASSUME WorldOK, Shape, Works
  PROVE  WorldOK'
<1> USE BoundsAssumption, Caps
<1>1. UNCHANGED <<scenario, edits, timer, up, update>>
  BY DEF Works, Poll, Wake, Decide, StartCycle, CycleEnds, AfterCycle, TakeTick,
       SkipServer, BackupServer, BackupEnds, world, conf, sysd
<1>2. life' = life /\ stale' \in {0, stale}
  BY DEF Works, Poll, Wake, Decide, CycleEnds, AfterCycle, TakeTick,
       SkipServer, BackupServer, BackupEnds, Visit, ages
<1>3. skipped' \subseteq Servers
  BY DEF Works, Poll, Wake, Decide, StartCycle, CycleEnds, AfterCycle, TakeTick,
       SkipServer, BackupServer, BackupEnds, SaveOffGivenUp, world, WorldOK
<1>4. since' \in [Servers -> 0..SinceCap]
  BY DEF Works, Poll, Wake, Decide, CycleEnds, AfterCycle, TakeTick,
       SkipServer, BackupServer, BackupEnds, Visit, ages, WorldOK
<1>5. rec' \in [Servers -> 0..Never]
  BY DEF Works, Poll, Wake, Decide, CycleEnds, AfterCycle, TakeTick,
       SkipServer, BackupServer, BackupEnds, SaveOffGivenUp, world, WorldOK, Never
<1>6. autosave' \in [Servers -> BOOLEAN] /\ reported' \subseteq Servers
  BY DEF Works, Poll, Wake, Decide, CycleEnds, AfterCycle, TakeTick,
       SkipServer, BackupServer, BackupEnds, SaveOffGivenUp, world, WorldOK
<1> QED
  BY <1>1, <1>2, <1>3, <1>4, <1>5, <1>6 DEF update, WorldOK

\* Time keeps these types.
LEMMA WorldPass ==
  ASSUME WorldOK, Pass
  PROVE  WorldOK'
<1> USE BoundsAssumption, Caps
<1>1. UNCHANGED <<scenario, edits, autosave, reported, skipped, update>>
  BY DEF Pass, conf
<1>2. timer' \in Nat
  BY DEF Pass, Down, WorldOK
<1>3. rec' \in [Servers -> 0..Never]
  BY DEF Pass, Ageing, WorldOK, Never
<1>4. up' \in [Servers -> 0..MaxDelay]
  BY DEF Pass, WorldOK
<1>5. since' \in [Servers -> 0..SinceCap]
  BY CappedFacts DEF Pass, WorldOK
<1>6. life' \in 0..LifeCap
  BY CappedFacts DEF Pass, WorldOK
<1>7. stale' \in 0..StaleCap
  BY CappedFacts DEF Pass, WorldOK
<1> QED
  BY <1>1, <1>2, <1>3, <1>4, <1>5, <1>6, <1>7 DEF update, WorldOK

\* The steps beside the daemon's own keep systemd's timer and the update's files.
LEMMA OutsideTypes ==
  ASSUME WorldOK, Next
  PROVE  /\ scenario' \in Scenarios /\ edits' \in 0..MaxEdits /\ timer' \in Nat
         /\ tmp' \in {"none", "torn", "new", "bad"}
         /\ outcome' \in {"none", "stopped", "failed", "updated"}
<1> USE BoundsAssumption
<1>1. scenario' = scenario
  BY DEF Next, Pass, Daemon, Load, LoadFails, Reload, Poll, Wake, Decide, SkipServer,
       BackupServer, BackupEnds, CycleEnds, AfterCycle, TakeTick, ShutDown, Exits,
       Systemd, Crash, Kill, Restart, AdminStop, AdminStart, ContainerRestart,
       Configure, SetConfigValue, HandEdit,
       Update, UpdateBegin, Downloaded, Verified, UpdateFails, UpdateKilled, UpdateStop,
       UpdateStopped, Install, UpdateStart, UpdateDone, UpdateUnchanged, conf
<1>2. edits' \in 0..MaxEdits
  <2>1. CASE Configure
    BY <2>1 DEF Configure, SetConfigValue, HandEdit, WorldOK
  <2>2. CASE ~Configure
    BY <2>2 DEF Next, Pass, Daemon, Load, LoadFails, Reload, Poll, Wake, Decide, SkipServer,
       BackupServer, BackupEnds, CycleEnds, AfterCycle, TakeTick, ShutDown, Exits,
       Systemd, Crash, Kill, Restart, AdminStop, AdminStart, ContainerRestart,
       Update, UpdateBegin, Downloaded, Verified, UpdateFails, UpdateKilled, UpdateStop,
       UpdateStopped, Install, UpdateStart, UpdateDone, UpdateUnchanged, conf, WorldOK
  <2> QED
    BY <2>1, <2>2
<1>3. timer' \in Nat
  <2>1. CASE Exits
    BY <2>1 DEF Exits
  <2>2. CASE Pass
    BY <2>2, WorldPass DEF WorldOK
  <2>3. CASE Daemon
    BY <2>1, <2>3 DEF Daemon, Load, LoadFails, Reload, Poll, Wake, Decide, SkipServer,
       BackupServer, BackupEnds, CycleEnds, AfterCycle, TakeTick, ShutDown, sysd, WorldOK
  <2>4. CASE Systemd
    BY <2>1, <2>4 DEF Systemd, Crash, Kill, Restart, StartsProcess, AdminStop, StopUnit,
       AdminStart, ContainerRestart, sysd, WorldOK
  <2>5. CASE Configure
    BY <2>5 DEF Configure, SetConfigValue, HandEdit, sysd, WorldOK
  <2>6. CASE Update
    BY <2>6 DEF Update, UpdateBegin, Downloaded, Verified, UpdateFails, UpdateKilled, UpdateStop,
       StopUnit, UpdateStopped, Install, UpdateStart, StartsProcess, UpdateDone, sysd, WorldOK
  <2> QED
    BY <2>2, <2>3, <2>4, <2>5, <2>6 DEF Next
<1>4. /\ tmp' \in {"none", "torn", "new", "bad"}
      /\ outcome' \in {"none", "stopped", "failed", "updated"}
  <2>1. CASE UNCHANGED update
    BY <2>1 DEF update, WorldOK
  <2>2. CASE AdminStop \/ AdminStart
    BY <2>2 DEF AdminStop, AdminStart, WorldOK
  <2>3. CASE Update
    BY <2>3 DEF Update, UpdateBegin, Downloaded, Verified, UpdateFails, UpdateKilled, UpdateStop,
       UpdateStopped, Install, UpdateStart, UpdateDone, update, WorldOK
  <2> QED
    BY <2>1, <2>2, <2>3, NoUpdate
<1> QED
  BY <1>1, <1>2, <1>3, <1>4 DEF WorldOK

\* Every step keeps these types.
LEMMA WorldStep ==
  ASSUME WorldOK, Shape, StopInv, [Next]_vars
  PROVE  WorldOK'
<1> USE BoundsAssumption, Caps
<1>1. CASE UNCHANGED vars
  BY <1>1 DEF vars, conf, sysd, world, ages, update, WorldOK
<1> SUFFICES ASSUME Next PROVE WorldOK'
  BY <1>1
<1>2. CASE Quiet \/ Starts
  BY <1>2, OutsideTypes DEF Quiet, Starts, world, ages, WorldOK
<1>3. CASE Gone
  <2>1. rec' \in [Servers -> 0..Never]
    BY <1>3 DEF Gone, CopyFound, WorldOK, Shape, Never
  <2> QED
    BY <1>3, <2>1, OutsideTypes DEF Gone, ProcessGone, WorldOK
<1>4. CASE Load \/ Reload
  <2>1. since' \in [Servers -> 0..SinceCap]
    BY <1>4 DEF Load, Reload, InForce, WorldOK
  <2>2. life' = life /\ stale' \in {0, stale} /\ UNCHANGED world
    BY <1>4 DEF Load, Reload, InForce
  <2> QED
    BY <2>1, <2>2, OutsideTypes DEF world, WorldOK
<1>5. ASSUME NEW s \in Servers, ContainerRestart(s) PROVE WorldOK'
  BY <1>5, OutsideTypes DEF ContainerRestart, ages, WorldOK
<1> QED
  BY <1>2, <1>3, <1>4, <1>5, WorldWorks, WorldPass, Moves

\* What holds of every reachable state, the time limits apart.
Sound == UpdateInv /\ StopInv /\ ConfigInv /\ Shape /\ WorldOK /\ BootInv

\* It holds at first.
LEMMA SoundInit == Init => Sound
BY UpdateInit, ConfigInit, ShapeInit, WorldInit, BootInit DEF Sound

\* Every step keeps it.
LEMMA SoundStep ==
  ASSUME Sound, [Next]_vars
  PROVE  Sound'
<1>1. UpdateInv' /\ StopInv' /\ ConfigInv' /\ Shape' /\ WorldOK'
  BY UpdateStep, StopStep, ConfigStep, ShapeStep, WorldStep DEF Sound
<1>2. BootInv'
  BY <1>1, BootStep DEF Sound
<1> QED
  BY <1>1, <1>2 DEF Sound

\* The variables keep their types, for every number of servers and all bounds; in
\* particular the wait for containers ends in time and a server's backup does.
THEOREM ServiceTypes == Spec => []TypeOK
<1>1. ASSUME Sound PROVE TypeOK
  <2> USE <1>1, BoundsAssumption
  <2>1. Delay(cfg) \in 0..MaxDelay /\ Interval(cfg) \in 1..MaxInterval
    BY DEF Sound, ConfigInv, Usable
  <2>2. waited \in 0..BootTime(MaxDelay)
    BY <2>1 DEF Sound, Shape, BootInv, BootTime
  <2>3. nap \in 0..MaxDelay
    BY <2>1 DEF Sound, Shape, BootInv, BootTime
  <2>4. period \in 0..MaxInterval /\ left \in 0..MaxInterval
    BY <2>1 DEF Sound, Shape
  <2>5. DOMAIN file = Keys /\ DOMAIN ac = Keys /\ DOMAIN cfg = Keys /\ hand \in BOOLEAN
    BY DEF Sound, ConfigInv, Usable
  <2> QED
    BY <2>2, <2>3, <2>4, <2>5 DEF Sound, Shape, WorldOK, UpdateInv, StopInv, TypeOK
<1> QED
  BY <1>1, SoundInit, SoundStep, PTL DEF Spec

-----------------------------------------------------------------------------
(***************************************************************************)
(* The ticker takes over a changed interval                                *)
(***************************************************************************)

\* The loop waits at most one interval for its next tick, and less as time passes.
LEMMA NextTickFacts ==
  ASSUME Sound, Sound'
  PROVE  /\ NextTick \in Nat /\ NextTick <= MaxInterval
         /\ NextTick' \in Nat /\ NextTick' <= MaxInterval
         /\ UNCHANGED ticker => NextTick' = NextTick
         /\ Pass /\ pc = "loop" => booted /\ NextTick >= 1 /\ NextTick' <= NextTick - 1
<1> USE BoundsAssumption
<1>1. left \in Nat /\ left <= MaxInterval /\ left' \in Nat /\ left' <= MaxInterval
  BY DEF Sound, Shape
<1>2. ASSUME Pass, pc = "loop" PROVE booted /\ NextTick >= 1 /\ NextTick' <= NextTick - 1
  <2>1. booted /\ ~tick /\ left >= 1 /\ (tick' \/ left' = left - 1)
    BY <1>2, TickerPasses DEF Pass, Waiting, Shape, Sound
  <2>2. NextTick = left
    BY <2>1 DEF NextTick
  <2>3. NextTick' = 0 \/ NextTick' = left - 1
    BY <2>1 DEF NextTick
  <2> QED
    BY <1>1, <2>1, <2>2, <2>3
<1>3. NextTick \in {0, left} /\ NextTick' \in {0, left'}
  BY DEF NextTick
<1>4. UNCHANGED ticker => NextTick' = NextTick
  BY DEF ticker, NextTick
<1> QED
  BY <1>1, <1>2, <1>3, <1>4

\* The types the time limits are about.
LEMMA Clocks ==
  ASSUME Sound
  PROVE  /\ MaxInterval \in Nat \ {0} /\ MaxPass \in Nat /\ CycleTime \in Nat /\ MaxPass <= CycleTime
         /\ ToCome \in Nat /\ (pc = "cycle" => ToCome <= CycleTime)
         /\ stale \in Nat /\ life \in Nat /\ busy \in Nat /\ waited \in Nat /\ busy <= MaxPass
         /\ Delay(cfg) \in 0..MaxDelay
         /\ Interval(cfg) \in 1..MaxInterval /\ Interval(ac) \in 1..MaxInterval
<1>1. MaxInterval \in Nat \ {0} /\ MaxPass \in Nat
  BY BoundsAssumption
<1> QED
  BY <1>1, WorkFacts, ToComeFacts DEF Sound, Shape, ConfigInv, Usable

\* No ticker is late at first.
LEMMA LateInit == Init => LateInv
BY WorkFacts, BoundsAssumption DEF Init, LateInv, InCycle

\* Every step keeps the ticker's lateness paid for.
LEMMA LateStep ==
  ASSUME LateInv, Sound, Sound', [Next]_vars
  PROVE  LateInv'
<1> USE DEF InCycle
<1>1. Shape /\ Shape' /\ StopInv
  BY DEF Sound
<1>a. /\ MaxInterval \in Nat \ {0} /\ MaxPass \in Nat /\ CycleTime \in Nat
      /\ ToCome \in Nat /\ NextTick \in Nat /\ stale \in Nat
  BY Clocks, NextTickFacts
<1>b. PICK c \in Nat : c = ToCome' /\ (pc' = "cycle" => c <= CycleTime)
  BY <1>1, ToComeMoves
<1>c. PICK n \in Nat : n = NextTick' /\ n <= MaxInterval
  BY NextTickFacts
<1>2. /\ MaxInterval \in Nat \ {0} /\ MaxPass \in Nat /\ CycleTime \in Nat
      /\ ToCome \in Nat /\ NextTick \in Nat /\ stale \in Nat
      /\ ToCome' = c /\ (pc' = "cycle" => c <= CycleTime)
      /\ NextTick' = n /\ n <= MaxInterval
  BY <1>a, <1>b, <1>c
<1> HIDE DEF ToCome, NextTick
<1>3. CASE UNCHANGED <<daemon, ticker, ages>>
  <2>1. UNCHANGED <<pc, ac, todo, busy, booted, period, stale, ToCome, NextTick>>
    BY <1>1, <1>3, ToComeMoves, NextTickFacts DEF daemon, ticker, ages
  <2> QED
    BY <2>1 DEF LateInv
<1>4. CASE Quiet \/ \E s \in Servers : ContainerRestart(s)
  BY <1>3, <1>4 DEF Quiet, ContainerRestart
<1>5. CASE stale' = 0 /\ pc' \notin InCycle
  BY <1>5, <1>2 DEF LateInv
<1>6. CASE Starts \/ Gone
  BY <1>1, <1>5, <1>6 DEF Starts, Gone, ProcessGone, ages, ticker, Shape
<1>7. CASE Pass
  <2>1. UNCHANGED <<pc, ac, booted, period>>
    BY <1>7 DEF Pass, TickerPass
  <2>2. PICK k \in Nat : stale' = k /\ k <= stale + 1
    <3>1. stale' \in {0, Capped(stale, StaleCap)}
      BY <1>7 DEF Pass
    <3>2. stale \in 0..StaleCap
      BY DEF Sound, WorldOK
    <3>3. Capped(stale, StaleCap) \in Nat /\ Capped(stale, StaleCap) <= stale + 1
      BY <3>2, Caps, CappedFacts
    <3> QED
      BY <3>1, <3>3, <1>2
  <2>3. stale' # 0 => booted /\ period # Interval(ac)
    BY <1>7 DEF Pass
  <2>4. CASE pc = "loop"
    <3>1. NextTick >= 1 /\ NextTick' <= NextTick - 1
      BY <1>7, <2>4, NextTickFacts
    <3> QED
      BY <2>1, <2>2, <2>3, <2>4, <3>1, <1>2 DEF LateInv
  <2>5. CASE pc = "backup"
    <3>1. ToCome' = ToCome - 1
      BY <1>7, <2>5, <1>1, ToComeMoves
    <3> QED
      BY <2>1, <2>2, <2>3, <2>5, <3>1, <1>2 DEF LateInv
  <2>6. CASE pc \in {"off", "sleep", "fallback"}
    BY <1>5, <2>1, <2>3, <2>6, <1>1 DEF Shape, Booting
  <2> QED
    BY <1>7, <2>4, <2>5, <2>6 DEF Pass, Waiting
<1>8. CASE Load
  BY <1>1, <1>5, <1>8 DEF Load, InForce, Shape
<1>9. CASE Reload
  <2>1. UNCHANGED <<pc, booted, period, ToCome, NextTick>>
    BY <1>1, <1>9, ToComeMoves, NextTickFacts DEF Reload, ticker
  <2>2. stale' = 0 \/ (stale' = stale /\ period # Interval(ac)')
    BY <1>9 DEF Reload, InForce, Interval
  <2> QED
    BY <2>1, <2>2, <1>2 DEF LateInv
<1>10. CASE Poll \/ Wake
  BY <1>1, <1>5, <1>10 DEF Poll, Wake, ages, Shape, Booting
<1>11. CASE Decide
  <2>1. stale' = 0 /\ pc' \in {"loop", "cycle"}
    BY <1>1, <1>11 DEF Decide, StartCycle, ages, Shape, Booting
  <2> QED
    BY <2>1, <1>2 DEF LateInv
<1>12. CASE CycleEnds
  <2>1. CASE booted
    BY <1>12, <2>1 DEF CycleEnds, ticker, ages, LateInv
  <2>2. CASE ~booted
    BY <1>5, <1>12, <2>2, <1>1 DEF CycleEnds, ages, Shape
  <2> QED
    BY <2>1, <2>2
<1>13. CASE AfterCycle
  <2>1. CASE Interval(ac) # Interval(cfg)
    BY <1>5, <1>13, <2>1 DEF AfterCycle
  <2>2. CASE Interval(ac) = Interval(cfg)
    <3>1. period = Interval(ac)
      BY <1>1, <1>13, <2>2 DEF AfterCycle, Shape
    <3> QED
      BY <1>5, <1>13, <2>2, <3>1 DEF AfterCycle, LateInv
  <2> QED
    BY <2>1, <2>2
<1>14. CASE TakeTick
  <2>1. pc = "loop" /\ pc' = "cycle" /\ UNCHANGED <<ac, booted, period, stale>>
    BY <1>14 DEF TakeTick, StartCycle, ages
  <2> QED
    BY <2>1, <1>2 DEF LateInv
<1>15. ASSUME NEW s \in Servers, SkipServer(s) \/ BackupServer(s) \/ BackupEnds(s) PROVE LateInv'
  <2>1. ToCome' <= ToCome
    BY <1>1, <1>15, ToComeMoves
  <2>2. UNCHANGED <<ac, booted, period, stale>> /\ pc \in InCycle /\ pc' \in InCycle
    BY <1>15 DEF SkipServer, BackupServer, BackupEnds, Visit, ticker, ages
  <2> QED
    BY <2>1, <2>2, <1>2 DEF LateInv
<1> QED
  BY <1>1, <1>4, <1>6, <1>7, <1>8, <1>9, <1>10, <1>11, <1>12, <1>13, <1>14, <1>15, Moves DEF Works

\* A changed backup_interval is the ticker's period after one old interval and one
\* cycle at the latest, however often it is changed (daemon.go:380-386).
THEOREM IntervalIsCaughtUp == Spec => []IntervalCaughtUp
<1>1. LateInv => IntervalCaughtUp
  BY DEF LateInv, IntervalCaughtUp
<1> QED
  BY <1>1, SoundInit, SoundStep, LateInit, LateStep, PTL DEF Spec

-----------------------------------------------------------------------------
(***************************************************************************)
(* The servers are visited in time                                         *)
(***************************************************************************)

\* Every entry is missing, and no time has passed.
LEMMA GapInit ==
  ASSUME NEW s \in Servers, Init
  PROVE  GapInv(s)
BY BoundsAssumption DEF Init, GapInv, Never, Booting, InCycle

\* Every step keeps the time without a visit within what it is paid with.
LEMMA GapStep ==
  ASSUME NEW s \in Servers, GapInv(s), Sound, Sound', [Next]_vars
  PROVE  GapInv(s)'
<1> USE DEF InCycle, Booting
<1>1. Shape /\ Shape' /\ StopInv /\ WorldOK
  BY DEF Sound
<1>2. /\ MaxInterval \in Nat \ {0} /\ MaxPass \in Nat /\ CycleTime \in Nat /\ Never = MaxInterval + 1
      /\ ToCome \in Nat /\ (pc = "cycle" => ToCome <= CycleTime)
      /\ busy \in Nat /\ busy <= MaxPass /\ waited \in Nat
      /\ since[s] \in Nat /\ rec[s] \in Nat
  BY Clocks DEF GapInv, Never
<1>3. PICK c \in Nat : ToCome' = c /\ (pc' = "cycle" => c <= CycleTime)
  BY <1>1, ToComeMoves
<1> HIDE DEF ToCome
<1>4. CASE UNCHANGED <<pc, todo, busy, waited, ac, cfg, at, rec, since>>
  <2>1. c = ToCome
    BY <1>1, <1>3, <1>4, ToComeMoves
  <2> QED
    BY <1>3, <1>4, <2>1 DEF GapInv
<1>5. CASE Quiet \/ \E x \in Servers : ContainerRestart(x)
  BY <1>4, <1>5 DEF Quiet, ContainerRestart, daemon, world, ages
<1>6. CASE Starts
  BY <1>1, <1>6 DEF Starts, world, ages, Shape, GapInv
<1>7. CASE Gone
  <2>1. pc' = "off" /\ at' = {} /\ since' = since
    BY <1>7 DEF Gone, ProcessGone
  <2>2. rec'[s] = rec[s] \/ (s \in at /\ rec'[s] = busy)
    BY <1>7 DEF Gone, CopyFound, Sound, WorldOK
  <2> QED
    BY <1>2, <2>1, <2>2 DEF GapInv
<1>8. CASE Pass
  <2>1. UNCHANGED <<pc, ac, cfg, todo, at>>
    BY <1>8 DEF Pass
  <2>2. PICK g \in Nat : since'[s] = g /\ g <= since[s] + 1 /\ (~Enabled(ac, s) => g = 0)
    <3>1. since'[s] = IF Enabled(ac, s) THEN Capped(since[s], SinceCap) ELSE 0
      BY <1>8 DEF Pass
    <3>2. since[s] \in 0..SinceCap
      BY <1>1 DEF WorldOK
    <3>3. Capped(since[s], SinceCap) \in Nat /\ Capped(since[s], SinceCap) <= since[s] + 1
      BY <3>2, Caps, CappedFacts
    <3> QED
      BY <3>1, <3>3, <1>2
  <2>3. PICK r \in Nat : rec'[s] = r /\ (r < MaxInterval => r = rec[s] + 1 /\ rec[s] < MaxInterval)
    BY <1>8, <1>2 DEF Pass, Ageing
  <2>4. CASE pc = "backup"
    <3>1. busy' = busy + 1 /\ c = ToCome - 1
      BY <1>1, <1>3, <1>8, <2>4, ToComeMoves DEF Pass
    <3> QED
      BY <1>2, <1>3, <2>1, <2>2, <2>3, <2>4, <3>1 DEF GapInv
  <2>5. CASE pc \in {"sleep", "fallback"}
    <3>1. waited' = waited + 1 /\ at = {}
      BY <1>1, <1>8, <2>5 DEF Pass, Shape
    <3> QED
      BY <1>2, <2>1, <2>2, <2>3, <2>5, <3>1 DEF GapInv
  <2>6. CASE pc \in {"off", "loop"}
    <3>1. at = {}
      BY <1>1, <2>6 DEF Shape
    <3> QED
      BY <1>2, <2>1, <2>2, <2>3, <2>6, <3>1 DEF GapInv
  <2> QED
    BY <1>8, <2>4, <2>5, <2>6 DEF Pass, Waiting
<1>9. CASE Load
  <2>1. /\ pc = "load" /\ pc' = "poll" /\ cfg' = ac' /\ UNCHANGED <<rec, at, waited>>
        /\ since'[s] = IF Enabled(ac', s) THEN since[s] ELSE 0
    BY <1>9 DEF Load, InForce, world
  <2>2. at = {}
    BY <1>1, <2>1 DEF Shape
  <2> QED
    BY <1>2, <2>1, <2>2 DEF GapInv
<1>10. CASE Reload
  <2>1. /\ UNCHANGED <<pc, cfg, waited, todo, at, busy, rec>>
        /\ since'[s] = IF Enabled(ac', s) THEN since[s] ELSE 0
    BY <1>10 DEF Reload, InForce, world
  <2>2. c = ToCome
    BY <1>1, <1>3, <2>1, ToComeMoves
  <2> QED
    BY <1>2, <1>3, <2>1, <2>2 DEF GapInv
<1>11. CASE Poll \/ Wake
  BY <1>1, <1>11 DEF Poll, Wake, world, ages, Shape, GapInv
<1>12. CASE CycleEnds \/ AfterCycle
  BY <1>1, <1>12 DEF CycleEnds, AfterCycle, world, ages, Shape, GapInv
<1>13. CASE Decide \/ TakeTick
  <2>1. /\ pc \in {"decide", "loop"} /\ UNCHANGED <<ac, at, rec, since>>
        /\ \/ pc' = "loop"
           \/ pc' = "cycle" /\ (s \notin todo' => ~Enabled(ac, s))
    BY <1>13 DEF Decide, TakeTick, StartCycle, ages
  <2>2. at = {}
    BY <1>1, <2>1 DEF Shape
  <2> QED
    BY <1>2, <1>3, <2>1, <2>2 DEF GapInv
<1>14. ASSUME NEW x \in Servers, SkipServer(x) PROVE GapInv(s)'
  <2>1. /\ pc = "cycle" /\ pc' = "cycle" /\ UNCHANGED <<ac, at, rec>>
        /\ todo' = todo \ {x} /\ since'[s] = IF s = x THEN 0 ELSE since[s]
    BY <1>1, <1>14 DEF SkipServer, Visit, WorldOK
  <2>2. at = {} /\ c <= ToCome
    BY <1>1, <1>3, <1>14, <2>1, ToComeMoves DEF Shape
  <2> QED
    BY <1>2, <1>3, <2>1, <2>2 DEF GapInv
<1>15. ASSUME NEW x \in Servers, BackupServer(x) PROVE GapInv(s)'
  <2>1. /\ pc = "cycle" /\ pc' = "backup" /\ at' = {x} /\ busy' = 0 /\ UNCHANGED <<ac, rec>>
        /\ todo' = todo \ {x} /\ since'[s] = IF s = x THEN 0 ELSE since[s]
    BY <1>1, <1>15 DEF BackupServer, Visit, WorldOK
  <2>2. c <= ToCome
    BY <1>1, <1>3, <1>15, ToComeMoves
  <2> QED
    BY <1>2, <1>3, <2>1, <2>2 DEF GapInv
<1>16. ASSUME NEW x \in Servers, BackupEnds(x) PROVE GapInv(s)'
  <2>1. /\ pc = "backup" /\ pc' = "cycle" /\ at = {x} /\ at' = {} /\ UNCHANGED <<ac, todo, since>>
        /\ rec'[s] = rec[s] \/ (s = x /\ rec'[s] = 0)
    BY <1>1, <1>16 DEF BackupEnds, SaveOffGivenUp, WorldOK, ages
  <2>2. c <= ToCome
    BY <1>1, <1>3, <1>16, ToComeMoves
  <2> QED
    BY <1>2, <1>3, <2>1, <2>2 DEF GapInv
<1> QED
  BY <1>1, <1>5, <1>6, <1>7, <1>8, <1>9, <1>10, <1>11, <1>12, <1>13, <1>14, <1>15, <1>16, Moves
     DEF Works

\* No ticker runs at first.
LEMMA VisitInit ==
  ASSUME NEW s \in Servers, Init
  PROVE  VisitInv(s)
BY DEF Init, VisitInv

\* If a cycle fits into the longest interval, every step keeps a server's time
\* without a visit within the ticker's time and the cycle's.
LEMMA VisitStep ==
  ASSUME NEW s \in Servers, CycleTime <= MaxInterval,
         VisitInv(s), GapInv(s), GapInv(s)', Sound, Sound', [Next]_vars
  PROVE  VisitInv(s)'
<1> USE DEF InCycle, Booting
<1>1. Shape /\ Shape' /\ StopInv /\ WorldOK
  BY DEF Sound
<1>2. /\ MaxInterval \in Nat \ {0} /\ MaxPass \in Nat /\ CycleTime \in Nat /\ MaxPass <= CycleTime
      /\ Never = MaxInterval + 1 /\ MaxDelay \in Nat
      /\ LongestWait = 2 * MaxInterval + 6 * MaxDelay
      /\ ToCome \in Nat /\ NextTick \in Nat /\ NextTick <= MaxInterval
      /\ life \in Nat /\ waited \in Nat
      /\ since[s] \in Nat /\ rec[s] \in Nat
      /\ Delay(cfg) \in 0..MaxDelay /\ Interval(cfg) \in 1..MaxInterval
  BY Clocks, NextTickFacts, BoundsAssumption DEF GapInv, Never, LongestWait, BootTime
<1>3. PICK c \in Nat : /\ ToCome' = c /\ (pc' = "cycle" => c <= CycleTime)
                       /\ (s \in todo' => c >= MaxPass)
  BY <1>1, ToComeMoves
<1>4. PICK n \in Nat : NextTick' = n /\ n <= MaxInterval
  BY NextTickFacts
<1> HIDE DEF ToCome, NextTick
<1>5. CASE ~booted'
  BY <1>5 DEF VisitInv
<1>6. CASE /\ UNCHANGED <<pc, todo, busy, cfg, rec, ticker, life>> /\ (Sigterm => Sigterm')
           /\ since'[s] \in {0, since[s]}
  <2>1. UNCHANGED <<booted, tick>>
    BY <1>6 DEF ticker
  <2>2. c = ToCome /\ n = NextTick
    BY <1>1, <1>3, <1>4, <1>6, ToComeMoves, NextTickFacts
  <2>3. PICK g \in Nat : since'[s] = g /\ g <= since[s]
    BY <1>2, <1>6
  <2> QED
    BY <1>2, <1>3, <1>4, <1>6, <2>1, <2>2, <2>3 DEF VisitInv
<1>7. CASE Quiet
  BY <1>2, <1>6, <1>7 DEF Quiet, daemon, world, ages
<1>8. CASE \E x \in Servers : ContainerRestart(x)
  BY <1>2, <1>6, <1>8 DEF ContainerRestart, daemon, sysd, ages, Sigterm
<1>9. CASE Reload
  BY <1>6, <1>9 DEF Reload, InForce, world, sysd, Sigterm
<1>10. CASE Starts \/ Gone \/ Load \/ Poll \/ Wake
  <2>1. pc' \in {"off", "load"} \cup Booting
    BY <1>10 DEF Starts, Gone, ProcessGone, Load, Poll, Wake
  <2> QED
    BY <1>1, <1>5, <2>1 DEF Shape
<1>11. CASE Pass
  <2>1. UNCHANGED <<pc, cfg, todo, booted, unit>>
    BY <1>11 DEF Pass, TickerPass
  <2>2. PICK g \in Nat : since'[s] = g /\ g <= since[s] + 1
    <3>1. since'[s] = IF Enabled(ac, s) THEN Capped(since[s], SinceCap) ELSE 0
      BY <1>11 DEF Pass
    <3>2. since[s] \in 0..SinceCap
      BY <1>1 DEF WorldOK
    <3>3. Capped(since[s], SinceCap) \in Nat /\ Capped(since[s], SinceCap) <= since[s] + 1
      BY <3>2, Caps, CappedFacts
    <3> QED
      BY <3>1, <3>3, <1>2
  <2>3. rec'[s] # Never => rec[s] # Never
    BY <1>11, <1>2 DEF Pass, Ageing
  <2>4. CASE pc = "loop"
    <3>1. ~Sigterm /\ ~Sigterm' /\ NextTick >= 1 /\ n <= NextTick - 1
      BY <1>4, <1>11, <2>1, <2>4, NextTickFacts DEF Pass, Waiting, Sigterm
    <3>2. booted /\ rec[s] # Never => since[s] + NextTick <= LongestWait + MaxPass
      BY <2>4, <3>1 DEF VisitInv
    <3>3. booted /\ rec[s] # Never => g + n <= LongestWait + MaxPass /\ g <= LongestWait + CycleTime
      BY <1>2, <2>2, <3>1, <3>2
    <3> QED
      BY <1>4, <2>1, <2>2, <2>3, <2>4, <3>3 DEF VisitInv
  <2>5. CASE pc = "backup"
    <3>1. c = ToCome - 1
      BY <1>1, <1>3, <1>11, <2>5, ToComeMoves
    <3>2. s \in todo /\ booted /\ rec[s] # Never =>
            since[s] + ToCome <= LongestWait + MaxPass + CycleTime
      BY <2>5 DEF VisitInv
    <3>3. s \in todo /\ booted /\ rec[s] # Never =>
            /\ g + c <= LongestWait + MaxPass + CycleTime
            /\ g <= LongestWait + CycleTime
      BY <1>2, <1>3, <2>1, <2>2, <3>1, <3>2
    <3>4. s \notin todo => g <= CycleTime
      BY <1>2, <1>3, <2>1, <2>2, <2>5 DEF GapInv
    <3>5. s \notin todo => g <= LongestWait + CycleTime
      BY <1>2, <2>2, <3>4
    <3> QED
      BY <1>3, <2>1, <2>2, <2>3, <2>5, <3>3, <3>5 DEF VisitInv
  <2>6. CASE pc \in {"off", "sleep", "fallback"}
    BY <1>1, <1>5, <2>1, <2>6 DEF Shape
  <2> QED
    BY <1>11, <2>4, <2>5, <2>6 DEF Pass, Waiting
<1>12. CASE Decide
  <2>1. CASE Due = {} /\ Recent # {}
    <3>1. pc = "decide" /\ pc' = "loop" /\ UNCHANGED <<rec, since>>
      BY <1>12, <2>1 DEF Decide, ages
    <3>2. CASE Enabled(cfg, s) /\ rec[s] # Never
      <4>1. ~(rec[s] >= Interval(cfg))
        BY <2>1, <3>2 DEF Due
      <4>2. rec[s] < MaxInterval
        BY <1>2, <4>1
      <4>3. since[s] <= rec[s] + MaxPass
        BY <4>2 DEF GapInv
      <4>4. since[s] + n <= LongestWait + MaxPass /\ since[s] <= LongestWait + CycleTime
        BY <1>2, <1>4, <4>2, <4>3
      <4> QED
        BY <1>4, <3>1, <4>4 DEF VisitInv
    <3>3. CASE ~Enabled(cfg, s)
      <4>1. since[s] <= waited /\ waited <= 6 * Delay(cfg)
        <5>1. since[s] <= waited
          BY <3>1, <3>3 DEF GapInv
        <5>2. waited + nap <= 6 * Delay(cfg) /\ nap \in Nat
          BY <1>1 DEF Sound, BootInv, BootTime, Shape
        <5> QED
          BY <1>2, <5>1, <5>2
      <4>2. since[s] + n <= LongestWait + MaxPass /\ since[s] <= LongestWait + CycleTime
        BY <1>2, <1>4, <4>1
      <4> QED
        BY <1>4, <3>1, <4>2 DEF VisitInv
    <3>4. CASE rec[s] = Never
      BY <3>1, <3>4 DEF VisitInv
    <3> QED
      BY <3>2, <3>3, <3>4
  <2>2. CASE ~(Due = {} /\ Recent # {})
    BY <1>1, <1>5, <1>12, <2>2 DEF Decide, ticker, Shape
  <2> QED
    BY <2>1, <2>2
<1>13. CASE CycleEnds
  <2>1. pc = "cycle" /\ UNCHANGED <<cfg, rec, since, unit, life>>
    BY <1>13 DEF CycleEnds, sysd, world, ages
  <2>2. CASE ~Sigterm
    <3>1. since[s] <= CycleTime
      <4>1. since[s] + ToCome <= CycleTime
        BY <1>13, <2>1, <2>2 DEF CycleEnds, GapInv
      <4> QED
        BY <1>2, <4>1
    <3>2. since[s] + n <= LongestWait + MaxPass /\ since[s] <= LongestWait + CycleTime
      BY <1>2, <1>4, <3>1
    <3>3. pc' \in {"after", "loop"}
      BY <1>13 DEF CycleEnds
    <3> QED
      BY <1>4, <2>1, <2>2, <3>1, <3>2, <3>3 DEF VisitInv
  <2>3. CASE Sigterm
    <3>1. CASE booted
      BY <1>13, <2>1, <2>3, <3>1 DEF CycleEnds, ticker, VisitInv, Sigterm
    <3>2. CASE ~booted
      <4>1. pc' = "loop" /\ ~tick'
        BY <1>13, <3>2 DEF CycleEnds, StartTicker
      <4>2. life + ToCome <= BootTime(Delay(cfg)) + CycleTime
        BY <2>1, <3>2 DEF Sound, BootInv
      <4>3. life <= BootTime(Delay(cfg)) + CycleTime
        BY <1>2, <4>2 DEF BootTime
      <4> QED
        BY <2>1, <2>3, <4>1, <4>3 DEF VisitInv, Sigterm
    <3> QED
      BY <3>1, <3>2
  <2> QED
    BY <2>2, <2>3
<1>14. CASE AfterCycle
  <2>1. pc = "after" /\ pc' = "loop" /\ booted /\ UNCHANGED <<rec, since, unit>>
    BY <1>1, <1>14 DEF AfterCycle, sysd, world, Shape
  <2>2. rec[s] # Never => since[s] <= LongestWait + CycleTime
    BY <2>1 DEF VisitInv
  <2>3. rec[s] # Never /\ ~Sigterm => since[s] + n <= LongestWait + MaxPass
    BY <1>2, <1>4, <2>1 DEF VisitInv
  <2> QED
    BY <1>4, <2>1, <2>2, <2>3 DEF VisitInv, Sigterm
<1>15. CASE TakeTick
  <2>1. pc = "loop" /\ tick /\ pc' = "cycle" /\ UNCHANGED <<rec, since, unit, booted>>
    BY <1>15 DEF TakeTick, StartCycle, sysd, ages
  <2>2. booted /\ rec[s] # Never => since[s] <= LongestWait + CycleTime
    BY <2>1 DEF VisitInv
  <2>3. booted /\ rec[s] # Never /\ ~Sigterm => since[s] + c <= LongestWait + MaxPass + CycleTime
    BY <1>2, <1>3, <2>1 DEF VisitInv
  <2> QED
    BY <1>3, <2>1, <2>2, <2>3 DEF VisitInv, Sigterm
<1>16. ASSUME NEW x \in Servers, SkipServer(x) \/ BackupServer(x) PROVE VisitInv(s)'
  <2>1. /\ pc = "cycle" /\ ~Sigterm /\ pc' \in InCycle /\ UNCHANGED <<rec, unit, booted>>
        /\ todo' = todo \ {x} /\ since'[s] \in {0, since[s]}
    BY <1>1, <1>16 DEF SkipServer, BackupServer, Visit, ticker, sysd, WorldOK
  <2>2. c <= ToCome
    BY <1>1, <1>3, <1>16, ToComeMoves
  <2>3. PICK g \in Nat : since'[s] = g /\ g <= since[s]
    BY <1>2, <2>1
  <2> QED
    BY <1>2, <1>3, <2>1, <2>2, <2>3 DEF VisitInv, Sigterm
<1>17. ASSUME NEW x \in Servers, BackupEnds(x) PROVE VisitInv(s)'
  <2>1. /\ pc = "backup" /\ pc' = "cycle" /\ UNCHANGED <<unit, booted, todo, since>>
        /\ rec'[s] = rec[s] \/ s = x
    BY <1>1, <1>17 DEF BackupEnds, SaveOffGivenUp, ticker, sysd, ages, WorldOK
  <2>2. c <= ToCome
    BY <1>1, <1>3, <1>17, ToComeMoves
  <2>3. CASE s = x
    <3>1. s \notin todo
      BY <1>1, <1>17, <2>3 DEF BackupEnds, Shape
    <3>2. since[s] + ToCome <= CycleTime
      BY <2>1, <3>1 DEF GapInv
    <3>3. since[s] <= LongestWait + CycleTime
      BY <1>2, <3>2
    <3> QED
      BY <2>1, <3>1, <3>3 DEF VisitInv
  <2>4. CASE s # x
    BY <1>2, <1>3, <2>1, <2>2, <2>4 DEF VisitInv
  <2> QED
    BY <2>3, <2>4
<1> QED
  BY <1>1, <1>7, <1>8, <1>9, <1>10, <1>11, <1>12, <1>13, <1>14, <1>15, <1>16, <1>17, Moves
     DEF Works

\* The process is young until its ticker runs.
LEMMA YoungUntilBooted ==
  ASSUME Sound, ~booted
  PROVE  life <= BootTime(Delay(cfg)) + CycleTime
<1>1. /\ CycleTime \in Nat /\ ToCome \in Nat /\ life \in Nat /\ waited \in Nat
      /\ Delay(cfg) \in Nat /\ nap \in Nat
  BY Clocks, BoundsAssumption DEF Sound, Shape
<1> HIDE DEF ToCome
<1>2. CASE pc \in InCycle
  BY <1>1, <1>2 DEF Sound, BootInv, BootTime
<1>3. CASE pc \in Booting
  BY <1>1, <1>3 DEF Sound, BootInv, BootTime
<1>4. CASE pc \in {"off", "load"}
  BY <1>1, <1>4 DEF Sound, Shape, BootTime
<1> QED
  BY <1>2, <1>3, <1>4 DEF Sound, Shape, PCs, InCycle, Booting

\* If a cycle fits into the longest interval, no enabled server with an entry in
\* .last-backup goes without a visit for more than two intervals, the longest wait
\* and one cycle, once the daemon has been up for its wait and one cycle, however
\* often it was stopped, killed or restarted (daemon.go:345-391).
THEOREM ServersAreVisited ==
  ASSUME CycleTime <= MaxInterval
  PROVE  Spec => []VisitedInTime
<1> DEFINE Gaps == \A s \in Servers : GapInv(s)
           Visits == \A s \in Servers : VisitInv(s)
<1>1. Init => Gaps /\ Visits
  BY GapInit, VisitInit
<1>2. ASSUME Sound, Sound', Gaps, Visits, [Next]_vars PROVE Gaps' /\ Visits'
  <2>1. ASSUME NEW s \in Servers PROVE GapInv(s)'
    BY <1>2, GapStep
  <2>2. ASSUME NEW s \in Servers PROVE VisitInv(s)'
    BY <1>2, <2>1, VisitStep
  <2> QED
    BY <2>1, <2>2
<1>3. ASSUME Sound, Visits PROVE VisitedInTime
  <2> SUFFICES ASSUME NEW s \in Servers, life > BootTime(Delay(cfg)) + CycleTime, rec[s] # Never
               PROVE  since[s] <= 2 * MaxInterval + BootTime(MaxDelay) + CycleTime
    BY DEF VisitedInTime
  <2>1. ~(life <= BootTime(Delay(cfg)) + CycleTime)
    BY <1>3, Clocks DEF BootTime
  <2>2. booted
    BY <1>3, <2>1, YoungUntilBooted
  <2>3. since[s] <= LongestWait + CycleTime
    BY <1>3, <2>1, <2>2 DEF VisitInv
  <2> QED
    BY <2>3 DEF LongestWait
<1> HIDE DEF Gaps, Visits
<1> QED
  BY <1>1, <1>2, <1>3, SoundInit, SoundStep, PTL DEF Spec

-----------------------------------------------------------------------------
(***************************************************************************)
(* Autosave is switched on again                                           *)
(***************************************************************************)

\* Autosave is on at first.
LEMMA HealInit ==
  ASSUME NEW s \in Servers, Init
  PROVE  HealInv(s)
BY DEF Init, HealInv, LeftOff

\* A server is left with autosave off, without a reason, only by the end of a
\* process.
LEMMA LeftOffStep ==
  ASSUME NEW s \in Servers, Sound, Sound', [Next]_vars, LeftOff(s)', pc' # "off"
  PROVE  LeftOff(s)
<1>1. Shape /\ Shape' /\ StopInv /\ WorldOK
  BY DEF Sound
<1>2. CASE UNCHANGED <<autosave, at, reported, skipped>>
  BY <1>2 DEF LeftOff
<1>3. CASE Quiet \/ Starts
  BY <1>2, <1>3 DEF Quiet, Starts, daemon, world
<1>4. CASE Pass \/ Load \/ Reload \/ Poll \/ Wake \/ CycleEnds \/ AfterCycle
  BY <1>2, <1>4 DEF Pass, Load, Reload, Poll, Wake, CycleEnds, AfterCycle, world
<1>5. CASE Decide \/ TakeTick
  BY <1>5 DEF Decide, TakeTick, StartCycle, LeftOff
<1>6. ASSUME NEW x \in Servers, ContainerRestart(x) PROVE LeftOff(s)
  BY <1>1, <1>6 DEF ContainerRestart, daemon, LeftOff, WorldOK
<1>7. ASSUME NEW x \in Servers, SkipServer(x) PROVE LeftOff(s)
  BY <1>7 DEF SkipServer, LeftOff
<1>8. ASSUME NEW x \in Servers, BackupServer(x) PROVE LeftOff(s)
  <2>1. at = {}
    BY <1>1, <1>8 DEF BackupServer, Shape
  <2> QED
    BY <1>1, <1>8, <2>1 DEF BackupServer, LeftOff, WorldOK
<1>9. ASSUME NEW x \in Servers, BackupEnds(x) PROVE LeftOff(s)
  BY <1>1, <1>9 DEF BackupEnds, SaveOffGivenUp, LeftOff, WorldOK
<1>10. CASE Gone
  BY <1>10 DEF Gone, ProcessGone
<1> QED
  BY <1>1, <1>3, <1>4, <1>5, <1>6, <1>7, <1>8, <1>9, <1>10, Moves DEF Works

\* Every step keeps the age of a process that has not yet switched autosave on
\* within the ticker's time and the cycle's.
LEMMA HealStep ==
  ASSUME NEW s \in Servers, HealInv(s), Sound, Sound', [Next]_vars
  PROVE  HealInv(s)'
<1> USE DEF InCycle, Booting
<1>1. Shape /\ Shape' /\ StopInv /\ WorldOK
  BY DEF Sound
<1>2. /\ MaxInterval \in Nat \ {0} /\ MaxPass \in Nat /\ CycleTime \in Nat /\ MaxDelay \in Nat
      /\ BootTime(MaxDelay) = 6 * MaxDelay
      /\ ToCome \in Nat /\ NextTick \in Nat /\ life \in Nat
      /\ Delay(cfg) \in 0..MaxDelay
  BY Clocks, NextTickFacts, BoundsAssumption DEF BootTime
<1>3. PICK c \in Nat : ToCome' = c /\ (pc' = "cycle" => c <= CycleTime)
  BY <1>1, ToComeMoves
<1>4. PICK n \in Nat : NextTick' = n /\ n <= MaxInterval
  BY NextTickFacts
<1> HIDE DEF ToCome, NextTick
<1>5. CASE pc' \in {"off", "load"} \cup Booting
  BY <1>1, <1>5 DEF HealInv, Shape
<1>6. CASE Starts \/ Gone \/ Load \/ Poll \/ Wake
  BY <1>5, <1>6 DEF Starts, Gone, ProcessGone, Load, Poll, Wake
<1> SUFFICES ASSUME LeftOff(s)', LeftOff(s), pc' # "off" PROVE HealInv(s)'
  BY <1>5, LeftOffStep DEF HealInv
<1>7. CASE UNCHANGED <<pc, todo, busy, ticker, life>> /\ (Sigterm => Sigterm')
  <2>1. UNCHANGED booted
    BY <1>7 DEF ticker
  <2>2. c = ToCome /\ n = NextTick
    BY <1>1, <1>3, <1>4, <1>7, ToComeMoves, NextTickFacts
  <2> QED
    BY <1>2, <1>3, <1>4, <1>7, <2>1, <2>2 DEF HealInv
<1>8. CASE Quiet \/ \E x \in Servers : ContainerRestart(x)
  BY <1>7, <1>8 DEF Quiet, ContainerRestart, daemon, sysd, ages, Sigterm
<1>9. CASE Reload
  BY <1>7, <1>9 DEF Reload, InForce, sysd, Sigterm
<1>10. CASE Pass
  <2>1. UNCHANGED <<pc, todo, booted, unit>>
    BY <1>10 DEF Pass, TickerPass
  <2>2. PICK k \in Nat : life' = k /\ k <= life + 1
    <3>1. life' \in {0, Capped(life, LifeCap)}
      BY <1>10 DEF Pass
    <3>2. life \in 0..LifeCap
      BY <1>1 DEF WorldOK
    <3>3. Capped(life, LifeCap) \in Nat /\ Capped(life, LifeCap) <= life + 1
      BY <3>2, Caps, CappedFacts
    <3> QED
      BY <3>1, <3>3, <1>2
  <2>3. CASE pc = "loop"
    <3>1. ~Sigterm /\ NextTick >= 1 /\ n <= NextTick - 1
      BY <1>4, <1>10, <2>3, NextTickFacts DEF Pass, Waiting
    <3> QED
      BY <1>2, <1>4, <2>1, <2>2, <2>3, <3>1 DEF HealInv
  <2>4. CASE pc = "backup"
    <3>1. c = ToCome - 1
      BY <1>1, <1>3, <1>10, <2>4, ToComeMoves
    <3> QED
      BY <1>2, <1>3, <2>1, <2>2, <2>4, <3>1 DEF HealInv
  <2>5. CASE pc \in {"off", "sleep", "fallback"}
    BY <1>5, <2>1, <2>5
  <2> QED
    BY <1>10, <2>3, <2>4, <2>5 DEF Pass, Waiting
<1>11. CASE Decide
  <2>1. life <= 6 * Delay(cfg) /\ life' = life
    <3>1. life = waited /\ waited + nap <= 6 * Delay(cfg) /\ nap \in Nat /\ waited \in Nat
      BY <1>1, <1>11 DEF Decide, Sound, BootInv, BootTime, Shape
    <3> QED
      BY <1>2, <1>11, <3>1 DEF Decide, ages
  <2>2. CASE Due = {} /\ Recent # {}
    <3>1. pc' = "loop"
      BY <1>11, <2>2 DEF Decide
    <3> QED
      BY <1>2, <1>4, <2>1, <3>1 DEF HealInv
  <2>3. CASE ~(Due = {} /\ Recent # {})
    <3>1. pc' = "cycle" /\ ~booted' /\ (s \notin skipped' => s \in todo')
      BY <1>1, <1>11, <2>3 DEF Decide, StartCycle, ticker, Shape
    <3> QED
      BY <3>1 DEF HealInv, LeftOff
  <2> QED
    BY <2>2, <2>3
<1>12. CASE CycleEnds
  <2>1. pc = "cycle" /\ s \in todo /\ UNCHANGED <<unit, life>>
    BY <1>12 DEF CycleEnds, sysd, ages, HealInv
  <2>2. Sigterm /\ Sigterm' /\ pc' \in {"after", "loop"}
    BY <1>12, <2>1 DEF CycleEnds, Sigterm
  <2>3. life <= BootTime(MaxDelay) + MaxInterval + CycleTime
    <3>1. CASE booted
      BY <3>1 DEF HealInv
    <3>2. CASE ~booted
      <4>1. life <= 6 * Delay(cfg) + CycleTime
        BY <3>2, YoungUntilBooted DEF BootTime
      <4> QED
        BY <1>2, <4>1
    <3> QED
      BY <3>1, <3>2
  <2> QED
    BY <2>1, <2>2, <2>3 DEF HealInv
<1>13. CASE AfterCycle
  <2>1. pc = "after" /\ pc' = "loop" /\ booted /\ UNCHANGED <<unit, life>>
    BY <1>1, <1>13 DEF AfterCycle, sysd, Shape
  <2> QED
    BY <2>1 DEF HealInv, Sigterm
<1>14. CASE TakeTick
  <2>1. /\ pc = "loop" /\ pc' = "cycle" /\ UNCHANGED <<unit, booted, life>>
        /\ (s \notin skipped' => s \in todo')
    BY <1>14 DEF TakeTick, StartCycle, sysd, ages
  <2>2. s \in todo'
    BY <2>1 DEF LeftOff
  <2> QED
    BY <1>2, <1>3, <2>1, <2>2 DEF HealInv, Sigterm
<1>15. ASSUME NEW x \in Servers, SkipServer(x) \/ BackupServer(x) PROVE HealInv(s)'
  <2>1. /\ pc = "cycle" /\ ~Sigterm /\ pc' \in InCycle /\ UNCHANGED <<unit, booted, life>>
        /\ todo' = todo \ {x} /\ (s = x => s \in at' \cup skipped')
    BY <1>15 DEF SkipServer, BackupServer, Visit, ticker, sysd
  <2>2. c <= ToCome
    BY <1>1, <1>3, <1>15, ToComeMoves
  <2>3. s # x /\ s \in todo
    BY <2>1 DEF HealInv, LeftOff
  <2> QED
    BY <1>2, <1>3, <2>1, <2>2, <2>3 DEF HealInv
<1>16. ASSUME NEW x \in Servers, BackupEnds(x) PROVE HealInv(s)'
  <2>1. pc = "backup" /\ pc' = "cycle" /\ UNCHANGED <<unit, booted, todo, life>>
    BY <1>16 DEF BackupEnds, ticker, sysd, ages
  <2>2. c <= ToCome
    BY <1>1, <1>3, <1>16, ToComeMoves
  <2> QED
    BY <1>2, <1>3, <2>1, <2>2 DEF HealInv
<1> QED
  BY <1>1, <1>6, <1>8, <1>9, <1>10, <1>11, <1>12, <1>13, <1>14, <1>15, <1>16, Moves DEF Works

\* A process that lives for the longest wait, one interval and one cycle has
\* switched autosave on again on every enabled server, unless the last cycle
\* skipped it, its last backup failed with its save-off, or its save-on failed and
\* was logged (backup.go:192-209, daemon.go:353-356).
THEOREM AutosaveIsHealed == Spec => []AutosaveHealed
<1> DEFINE Heals == \A s \in Servers : HealInv(s)
<1>1. Init => Heals
  BY HealInit
<1>2. ASSUME Sound, Sound', Heals, [Next]_vars PROVE Heals'
  BY <1>2, HealStep
<1>3. ASSUME Sound, Heals PROVE AutosaveHealed
  <2> SUFFICES ASSUME NEW s \in Servers, LeftOff(s)
               PROVE  life <= BootTime(MaxDelay) + MaxInterval + CycleTime
    BY DEF AutosaveHealed, LeftOff
  <2>1. CASE booted
    BY <1>3, <2>1 DEF HealInv
  <2>2. CASE ~booted
    BY <1>3, <2>2, YoungUntilBooted, Clocks, BoundsAssumption DEF BootTime
  <2> QED
    BY <2>1, <2>2
<1> HIDE DEF Heals
<1> QED
  BY <1>1, <1>2, <1>3, SoundInit, SoundStep, PTL DEF Spec

==============================================================================
