------------------------------ MODULE Autosave ------------------------------
(***************************************************************************)
(* The backup cycle around a running Minecraft server: who may run a       *)
(* cycle, how it is cancelled, and the RCON bracket (save-off, flush,      *)
(* copy, save-on) that keeps a world still while it is copied.             *)
(*                                                                         *)
(* A thread is the daemon's main goroutine or one of the goroutines that   *)
(* the HTTP API and the discovery ticker start (daemon.go:312-317, 786).   *)
(* Every cycle runs under cycleMu; the main goroutine is the only one the  *)
(* process waits for when it is told to stop.                              *)
(*                                                                         *)
(* What a cycle stores is the subject of BackupPipeline; here a copy is    *)
(* one step that succeeds or fails.                                        *)
(***************************************************************************)
EXTENDS Naturals

CONSTANTS
    N,          \* servers are 1..N, in the order discovery returns them
    Main,       \* the main goroutine
    Api,        \* goroutines started by POST /backup, POST /scan, discovery
    NoThread,   \* "nil": nobody holds cycleMu, cancelFn is nil
    Retries,    \* rconRetries
    LostReply   \* may an RCON command take effect and still be reported failed?

ASSUME NAssumption == N \in Nat
ASSUME RetriesAssumption == Retries \in Nat \ {0}
ASSUME ThreadAssumption == Main \notin Api /\ NoThread \notin Api \cup {Main}
ASSUME LostReplyAssumption == LostReply \in BOOLEAN

Servers == 1..N
Threads == Api \cup {Main}

VARIABLES
    autosave,   \* autosave[s]: does Minecraft server s save by itself
    reported,   \* servers whose last save-on failed and was logged as FATAL
    pc,         \* where each thread is
    srv,        \* index of the server the thread's cycle is at
    offline,    \* was the cycle requested with offline=true
    try,        \* RCON attempts already made for the current command
    lock,       \* holder of cycleMu
    cancelFn,   \* the thread whose context Daemon.Cancel would cancel
    cancelled,  \* threads whose cycle context was cancelled through the API
    sigterm,    \* is the process context done
    worker,     \* the offload worker: "off", "running", "done"
    proc        \* "running" or "exited"

vars == <<autosave, reported, pc, srv, offline, try, lock, cancelFn,
          cancelled, sigterm, worker, proc>>

CycleVars == <<srv, offline>>
ControlVars == <<lock, cancelFn, cancelled>>
ProcessVars == <<sigterm, worker, proc>>
WorldVars == <<autosave, reported>>

\* Inside BackupServer, between the save-off that succeeded and the end of the
\* deferred save-on.
Bracket == {"flush", "copy", "save-on"}

\* The body of a cycle, after cancelFn is set and before it is cleared.
Body == {"loop", "save-off"} \cup Bracket

Locked == {"locked", "unlock"} \cup Body

PCs == {"boot", "select", "idle", "lock", "wait", "exit"} \cup Locked

TypeOK ==
    /\ autosave \in [Servers -> BOOLEAN]
    /\ reported \subseteq Servers
    /\ pc \in [Threads -> PCs]
    /\ srv \in [Threads -> 1..(N + 1)]
    /\ offline \in [Threads -> BOOLEAN]
    /\ try \in [Threads -> 0..Retries]
    /\ lock \in Threads \cup {NoThread}
    /\ cancelFn \in Threads \cup {NoThread}
    /\ cancelled \subseteq Threads
    /\ sigterm \in BOOLEAN
    /\ worker \in {"off", "running", "done"}
    /\ proc \in {"running", "exited"}

Init ==
    /\ autosave = [s \in Servers |-> TRUE]
    /\ reported = {}
    /\ pc = [t \in Threads |-> IF t = Main THEN "boot" ELSE "idle"]
    /\ srv = [t \in Threads |-> 1]
    /\ offline = [t \in Threads |-> FALSE]
    /\ try = [t \in Threads |-> 0]
    /\ lock = NoThread
    /\ cancelFn = NoThread
    /\ cancelled = {}
    /\ sigterm = FALSE
    /\ worker = "off"
    /\ proc = "running"

-----------------------------------------------------------------------------
(***************************************************************************)
(* Helpers                                                                 *)
(***************************************************************************)

\* The context of t's cycle: derived from the process context, cancelled by
\* Daemon.Cancel.
CtxDone(t) == sigterm \/ t \in cancelled

\* t runs (the process is alive) and stands at label l.
At(t, l) == proc = "running" /\ pc[t] = l

Goto(t, l) == pc' = [pc EXCEPT ![t] = l]

\* The cycle leaves its current server: continue with the next one.
NextServer(t) ==
    /\ Goto(t, "loop")
    /\ srv' = [srv EXCEPT ![t] = @ + 1]

-----------------------------------------------------------------------------
(***************************************************************************)
(* The daemon's main goroutine                                             *)
(***************************************************************************)

\* RunContext after the boot scan: start the offload worker, then run the
\* initial cycle unless every known server has a recent snapshot.
Boot ==
    /\ At(Main, "boot")
    /\ worker' = "running"
    /\ \/ Goto(Main, "lock")
       \/ Goto(Main, "select")
    /\ UNCHANGED <<WorldVars, CycleVars, try, ControlVars, sigterm, proc>>

\* The backup ticker fires in the main loop's select.
Tick ==
    /\ At(Main, "select")
    /\ Goto(Main, "lock")
    /\ UNCHANGED <<WorldVars, CycleVars, try, ControlVars, ProcessVars>>

\* mutant: the stop request interrupts the main goroutine's own cycle
MainStopAnywhere ==
    /\ proc = "running"
    /\ sigterm
    /\ Goto(Main, "wait")
    /\ UNCHANGED <<WorldVars, CycleVars, try, ControlVars, ProcessVars>>

\* The main loop sees ctx.Done and waits for the offload worker.
MainStop ==
    /\ At(Main, "select")
    /\ sigterm
    /\ Goto(Main, "wait")
    /\ UNCHANGED <<WorldVars, CycleVars, try, ControlVars, ProcessVars>>

\* The worker sees ctx.Done, between jobs or once the job in hand has failed.
WorkerExit ==
    /\ proc = "running"
    /\ worker = "running"
    /\ sigterm
    /\ worker' = "done"
    /\ UNCHANGED <<WorldVars, pc, CycleVars, try, ControlVars, sigterm, proc>>

\* RunContext returns and the process exits; the other goroutines die where
\* they stand.
MainExit ==
    /\ At(Main, "wait")
    /\ worker = "done"
    /\ Goto(Main, "exit")
    /\ proc' = "exited"
    /\ UNCHANGED <<WorldVars, CycleVars, try, ControlVars, sigterm, worker>>

\* SIGINT or SIGTERM ends the process context.
Sigterm ==
    /\ proc = "running"
    /\ ~sigterm
    /\ sigterm' = TRUE
    /\ UNCHANGED <<WorldVars, pc, CycleVars, try, ControlVars, worker, proc>>

-----------------------------------------------------------------------------
(***************************************************************************)
(* Starting, cancelling and ending a cycle                                 *)
(***************************************************************************)

\* A goroutine is started for a cycle: POST /backup (offline or not), or a scan
\* that found new servers.  The HTTP server answers from before the boot scan
\* until the process ends.
Trigger(t) ==
    /\ t \in Api
    /\ At(t, "idle")
    /\ Goto(t, "lock")
    /\ \E o \in BOOLEAN : offline' = [offline EXCEPT ![t] = o]
    /\ UNCHANGED <<WorldVars, srv, try, ControlVars, ProcessVars>>

\* Daemon.Cancel, called by POST /cancel.
Cancel ==
    /\ proc = "running"
    /\ cancelFn # NoThread
    /\ cancelled' = cancelled \cup {cancelFn}
    /\ UNCHANGED <<WorldVars, pc, CycleVars, try, lock, cancelFn, ProcessVars>>

\* mutant: cycleMu is not taken
LockCycleUnguarded(t) ==
    /\ At(t, "lock")
    /\ lock' = t
    /\ Goto(t, "locked")
    /\ UNCHANGED <<WorldVars, CycleVars, try, cancelFn, cancelled, ProcessVars>>

\* cycleMu.Lock() at the head of runBackupCycle.
LockCycle(t) ==
    /\ At(t, "lock")
    /\ lock = NoThread
    /\ lock' = t
    /\ Goto(t, "locked")
    /\ UNCHANGED <<WorldVars, CycleVars, try, cancelFn, cancelled, ProcessVars>>

\* A fresh context for this cycle, published in cancelFn; the server list.
OpenCycle(t) ==
    /\ At(t, "locked")
    /\ cancelled' = cancelled \ {t}
    /\ cancelFn' = t
    /\ srv' = [srv EXCEPT ![t] = 1]
    /\ Goto(t, "loop")
    /\ UNCHANGED <<WorldVars, offline, try, lock, ProcessVars>>

\* mutant: cycleMu is released before cancelFn is dealt with
CloseCycleUnlockFirst(t) ==
    /\ At(t, "loop")
    /\ srv[t] > N \/ CtxDone(t)
    /\ lock' = NoThread
    /\ Goto(t, "unlock")
    /\ UNCHANGED <<WorldVars, CycleVars, try, cancelFn, cancelled, ProcessVars>>

\* The loop over the servers ends: no server left, or the context is done.
\* The deferred functions run in reverse order: cancelFn is cleared first.
CloseCycle(t) ==
    /\ At(t, "loop")
    /\ srv[t] > N \/ CtxDone(t)
    /\ cancelFn' = NoThread
    /\ Goto(t, "unlock")
    /\ UNCHANGED <<WorldVars, CycleVars, try, lock, cancelled, ProcessVars>>

\* mutant: cycleMu is not released
UnlockCycleForgotten(t) ==
    /\ At(t, "unlock")
    /\ Goto(t, IF t = Main THEN "select" ELSE "idle")
    /\ UNCHANGED <<WorldVars, CycleVars, try, ControlVars, ProcessVars>>

\* cycleMu.Unlock(), deferred first and therefore run last.
UnlockCycle(t) ==
    /\ At(t, "unlock")
    /\ lock' = NoThread
    /\ Goto(t, IF t = Main THEN "select" ELSE "idle")
    /\ UNCHANGED <<WorldVars, CycleVars, try, cancelFn, cancelled, ProcessVars>>

-----------------------------------------------------------------------------
(***************************************************************************)
(* One server of a cycle                                                   *)
(***************************************************************************)

\* Not backed up this time: disabled, not the server asked for, container not
\* running, no players, no usable target.
SkipServer(t) ==
    /\ At(t, "loop")
    /\ srv[t] <= N /\ ~CtxDone(t)
    /\ NextServer(t)
    /\ UNCHANGED <<WorldVars, offline, try, ControlVars, ProcessVars>>

\* BackupServer is called; an offline backup skips RCON altogether.
BeginServer(t) ==
    /\ At(t, "loop")
    /\ srv[t] <= N /\ ~CtxDone(t)
    /\ Goto(t, IF offline[t] THEN "copy" ELSE "save-off")
    /\ try' = [try EXCEPT ![t] = 0]
    /\ UNCHANGED <<WorldVars, CycleVars, ControlVars, ProcessVars>>

\* mutant: one attempt too many
RconFailOneMore(t, l) ==
    /\ At(t, l)
    /\ try[t] <= Retries
    /\ try' = [try EXCEPT ![t] = @ + 1]
    /\ UNCHANGED pc

\* runRcon: an attempt fails and another one will follow, or the retries are
\* used up.  The select after a failed attempt may take the timer's branch even
\* when the context is done, so further attempts remain possible.
RconFail(t, l) ==
    /\ At(t, l)
    /\ try[t] < Retries
    /\ try' = [try EXCEPT ![t] = @ + 1]
    /\ UNCHANGED pc

\* runRcon returns an error: the retries are used up, or the context it was
\* given is done when an attempt has just failed.
RconGiveUp(t, l, done) ==
    /\ At(t, l)
    /\ try[t] > 0
    /\ done \/ try[t] = Retries
    /\ try' = [try EXCEPT ![t] = 0]

\* runRcon returns nil.  A command is not even started once the context is done.
RconOk(t, l, done) ==
    /\ At(t, l)
    /\ try[t] < Retries
    /\ ~done
    /\ try' = [try EXCEPT ![t] = 0]

SaveOffOk(t) ==
    /\ RconOk(t, "save-off", CtxDone(t))
    /\ autosave' = [autosave EXCEPT ![srv[t]] = FALSE]
    /\ Goto(t, "flush")
    /\ UNCHANGED <<reported, CycleVars, ControlVars, ProcessVars>>

\* The attempt fails.  With LostReply the command may have reached the server
\* all the same: docker exec is killed by the context, or loses its connection.
SaveOffFail(t) ==
    /\ RconFail(t, "save-off")
    /\ \/ UNCHANGED autosave
       \/ /\ LostReply /\ ~CtxDone(t)
          /\ autosave' = [autosave EXCEPT ![srv[t]] = FALSE]
    /\ UNCHANGED <<reported, CycleVars, ControlVars, ProcessVars>>

\* BackupServer returns before the save-on is deferred.
SaveOffGiveUp(t) ==
    /\ RconGiveUp(t, "save-off", CtxDone(t))
    /\ NextServer(t)
    /\ UNCHANGED <<WorldVars, offline, ControlVars, ProcessVars>>

\* save-all flush, with the deferred save-on now due whatever happens.
FlushOk(t) ==
    /\ RconOk(t, "flush", CtxDone(t))
    /\ Goto(t, "copy")
    /\ UNCHANGED <<WorldVars, CycleVars, ControlVars, ProcessVars>>

FlushFail(t) ==
    /\ RconFail(t, "flush")
    /\ UNCHANGED <<WorldVars, CycleVars, ControlVars, ProcessVars>>

\* mutant: the flush error returns without the deferred save-on
FlushGiveUpNoDefer(t) ==
    /\ RconGiveUp(t, "flush", CtxDone(t))
    /\ NextServer(t)
    /\ UNCHANGED <<WorldVars, offline, ControlVars, ProcessVars>>

FlushGiveUp(t) ==
    /\ RconGiveUp(t, "flush", CtxDone(t))
    /\ Goto(t, "save-on")
    /\ UNCHANGED <<WorldVars, CycleVars, ControlVars, ProcessVars>>

\* sync, the copy and the renames of BackupServer: they succeed or fail (and
\* fail once the context is done); either way the deferred save-on runs.  What
\* the cycle does after BackupServer returned is in BackupPipeline.
CopyEnds(t) ==
    /\ At(t, "copy")
    /\ IF offline[t] THEN NextServer(t)
                     ELSE Goto(t, "save-on") /\ UNCHANGED srv
    /\ UNCHANGED <<WorldVars, offline, try, ControlVars, ProcessVars>>

\* The deferred save-on runs in a context of its own, detached from the cycle's
\* and limited to 120 seconds.
SaveOnOk(t) ==
    /\ RconOk(t, "save-on", FALSE)
    /\ autosave' = [autosave EXCEPT ![srv[t]] = TRUE]
    /\ reported' = reported \ {srv[t]}
    /\ NextServer(t)
    /\ UNCHANGED <<offline, ControlVars, ProcessVars>>

SaveOnFail(t) ==
    /\ RconFail(t, "save-on")
    /\ \/ UNCHANGED autosave
       \/ LostReply /\ autosave' = [autosave EXCEPT ![srv[t]] = TRUE]
    /\ UNCHANGED <<reported, CycleVars, ControlVars, ProcessVars>>

\* mutant: the failed save-on is not logged
SaveOnGiveUpSilent(t) ==
    /\ RconGiveUp(t, "save-on", TRUE)
    /\ NextServer(t)
    /\ UNCHANGED <<WorldVars, offline, ControlVars, ProcessVars>>

\* The save-on is given up (retries used up, or the 120 seconds are over) and
\* the failure is logged as FATAL.
SaveOnGiveUp(t) ==
    /\ RconGiveUp(t, "save-on", TRUE)
    /\ reported' = reported \cup {srv[t]}
    /\ NextServer(t)
    /\ UNCHANGED <<autosave, offline, ControlVars, ProcessVars>>

-----------------------------------------------------------------------------
CycleStep(t) ==
    \/ OpenCycle(t) \/ CloseCycle(t) \/ UnlockCycle(t)
    \/ SkipServer(t) \/ BeginServer(t)
    \/ SaveOffOk(t) \/ SaveOffFail(t) \/ SaveOffGiveUp(t)
    \/ FlushOk(t) \/ FlushFail(t) \/ FlushGiveUp(t)
    \/ CopyEnds(t)
    \/ SaveOnOk(t) \/ SaveOnFail(t) \/ SaveOnGiveUp(t)

Next ==
    \/ Boot \/ Tick \/ MainStop \/ WorkerExit \/ MainExit
    \/ Sigterm \/ Cancel
    \/ \E t \in Threads : Trigger(t) \/ LockCycle(t) \/ CycleStep(t)

Spec == Init /\ [][Next]_vars

\* Every goroutine keeps running.  cycleMu is a Go mutex: in starvation mode it
\* is handed to the longest waiter, so a waiter gets it although others come and
\* go.  A select whose two channels stay ready picks each of them sooner or later.
Fairness ==
    /\ WF_vars(Boot) /\ SF_vars(MainStop) /\ WF_vars(WorkerExit) /\ WF_vars(MainExit)
    /\ \A t \in Threads : WF_vars(CycleStep(t)) /\ SF_vars(LockCycle(t))

FairSpec == Spec /\ Fairness

-----------------------------------------------------------------------------
(***************************************************************************)
(* Properties                                                              *)
(***************************************************************************)

\* Thread t is backing up s with the server's autosave switched off.
InBracket(t, s) == pc[t] \in Bracket /\ srv[t] = s /\ ~offline[t]

\* The cycle of thread t is inside BackupServer for s, from the first save-off
\* attempt to the end of the deferred save-on.
AtWork(t, s) ==
    /\ lock = t
    /\ InBracket(t, s) \/ (pc[t] = "save-off" /\ srv[t] = s)

\* A server's autosave is off only while a cycle is still inside BackupServer for
\* that server, or after a save-on that failed and was logged (backup.go:192-209;
\* README.md:28-30 promises autosave back "even when the cycle fails"): flush
\* errors, copy errors, cancellation and other cycles never leave it off silently.
AutosaveRestored ==
    \A s \in Servers :
        ~autosave[s] => (s \in reported \/ \E t \in Threads : AtWork(t, s))

\* While an online copy runs the server's autosave is off (backup.go:192-276):
\* no second cycle's save-on can switch it on under the copy.
CopyQuiesced ==
    \A t \in Threads : pc[t] = "copy" /\ ~offline[t] => ~autosave[srv[t]]

\* POST /cancel reaches the cycle that is running, whichever goroutine started
\* it and however cycles follow each other (daemon.go:146-152, 592-601).
CancelReaches ==
    \A t \in Threads : pc[t] \in Body => cancelFn = t

\* When the process has exited, autosave is on (or its loss was logged) except
\* for a server that a cycle started by the API or by discovery was working on:
\* the main goroutine's own cycle is always finished first (daemon.go:375-378).
StopFinishesOwnCycle ==
    proc = "exited" =>
        \A s \in Servers :
            autosave[s] \/ s \in reported \/ (\E t \in Api : InBracket(t, s))

\* README.md:272: "Stopping gracefully allows the current cycle to finish and
\* re-enables autosave."
StopRestoresAutosave ==
    proc = "exited" => \A s \in Servers : autosave[s] \/ s \in reported

\* A stop request ends the process, whatever cycles are running or waiting for
\* cycleMu (daemon.go:373-378).
StopEndsProcess == sigterm ~> (proc = "exited")

\* Autosave that was switched off comes back, or its loss is logged, unless the
\* process ends first: no bracket stays open for ever (backup.go:192-209).
AutosaveComesBack ==
    \A s \in Servers :
        ~autosave[s] ~> (autosave[s] \/ s \in reported \/ proc = "exited")

=============================================================================
