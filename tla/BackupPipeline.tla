--------------------------- MODULE BackupPipeline ---------------------------
(***************************************************************************)
(* What the daemon stores and what it remembers of it: the backup cycle    *)
(* that captures a server, the offload worker that moves captures of       *)
(* tiered targets to cold storage, the pruning of both tiers, the record   *)
(* of the last snapshots in memory and in .last-backup, the job tracker    *)
(* behind the status API, and the boot scan that rebuilds the record.      *)
(*                                                                         *)
(* Three goroutines take steps: one cycle at a time (cycleMu, see          *)
(* Autosave; a cycle over several servers is a sequence of single-server   *)
(* passes), the worker, and the boot scan, beside which a cycle asked for  *)
(* through the API may already run.  A crash can hit them anywhere; a      *)
(* graceful stop is a crash that finds the worker idle.                    *)
(*                                                                         *)
(* Time is counted in minutes, the resolution of a snapshot's name.        *)
(***************************************************************************)
EXTENDS Retention, Sequences

CONSTANTS
    Servers,
    TargetChoices,  \* assignments of resolved backup targets to the servers
    QueueCap,       \* capacity of offloadCh
    PruneDays, PruneCount, HotPruneDays, HotPruneCount,
    MaxTime,        \* bound: the clock stops here
    MaxCapture,     \* bound: no capture of s begins after MaxCapture[s]
    MaxBacks,       \* bound: times the clock is set back
    Faults          \* kinds of failure that may happen

FaultKinds ==
    {"copy",        \* a capture or its save-on fails
     "transfer",    \* an offload fails, cleanly
     "cleanup",     \* the removal of a failed NAS transfer fails too
     "reply",       \* the NAS renames, the answer is lost
     "nas",         \* a NAS prune or listing fails
     "crash"}

Targets == {"local", "nas", "tiered-local", "tiered-nas"}

ASSUME ServersAssumption == Servers # {}
ASSUME TargetAssumption == TargetChoices \subseteq [Servers -> Targets]
ASSUME BoundsAssumption ==
    /\ QueueCap \in Nat \ {0} /\ MaxTime \in Nat \ {0}
    /\ MaxCapture \in [Servers -> 1..MaxTime]
    /\ MaxBacks \in Nat
    /\ PruneDays \in Nat /\ PruneCount \in Nat
    /\ HotPruneDays \in Nat /\ HotPruneCount \in Nat
ASSUME FaultsAssumption == Faults \subseteq FaultKinds

Times == 1..MaxTime
Stamps == 0..MaxTime        \* 0: no snapshot

\* A snapshot directory: "torn" is one that has its final name and is incomplete.
Dir == {"none", "whole", "torn"}
NoDirs == [t \in Times |-> "none"]
Present(d) == {t \in Times : d[t] # "none"}

\* lastBackup: newest known snapshot per tier.  A server has one cold tier, which
\* the code keeps in the field local or nas according to the target.
Record == [hot : Stamps, cold : Stamps]
NoRecord == [hot |-> 0, cold |-> 0]

Job == [s : Servers, ts : Times]

\* An entry of the job tracker, "none" when the key is absent.
Status == [state : {"none", "Saving", "Waiting", "Transferring"}, snap : Stamps]
NoStatus == [state |-> "none", snap |-> 0]

VARIABLES
    target,     \* target[s]: the resolved backup target, the same for ever
    now,        \* the clock
    backs,      \* times it was set back
    hot, cold,  \* hot[s][t], cold[s][t]: snapshot directories of each tier
    wip,        \* wip[s][t]: mtime of t.inprogress in the cold tier, 0 if absent
    again,      \* again[s][t]: when a repeated mv put a second copy of t into the
                \* finished NAS directory t, 0 if none did
    file,       \* .last-backup
    last,       \* Daemon.lastBackups
    tracker,    \* JobTracker.jobs
    queue,      \* offloadCh
    cyc,        \* the backup cycle
    wrk,        \* the offload worker
    boot,       \* discoverSnapshots
    phase,      \* "down", "boot" or "up"
    failed      \* servers whose latest offload was given up and logged, or lost
                \* in a crash

disk == <<hot, cold, wip, again>>
vars == <<target, now, backs, disk, file, last, tracker, queue, cyc, wrk, boot, phase, failed>>

Tiered(s) == target[s] \in {"tiered-local", "tiered-nas"}
OnNas(s) == target[s] \in {"nas", "tiered-nas"}

Files == [Servers -> Record]
NoFile == [s \in Servers |-> NoRecord]
AnyServer == CHOOSE s \in Servers : TRUE

CyclePCs == {"idle", "save", "copy", "record", "prune", "read", "rename",
             "announce", "enqueue"}
WorkerPCs == {"idle", "select", "begin", "transfer", "record", "read", "rename",
              "pruneCold", "pruneHot"}
BootPCs == {"load", "list", "read", "rename", "record", "done"}

NoCycle == [pc |-> "idle", s |-> AnyServer, t0 |-> 0, ts |-> 0,
            rec |-> NoRecord, m |-> NoFile]
NoWork == [pc |-> "idle", s |-> AnyServer, ts |-> 0, sel |-> 0,
           rec |-> NoRecord, m |-> NoFile]
NoBoot == [pc |-> "done", s |-> AnyServer, todo |-> {}, stored |-> NoFile,
           rec |-> NoRecord, m |-> NoFile]

TypeOK ==
    /\ target \in TargetChoices
    /\ now \in Times /\ backs \in 0..MaxBacks
    /\ hot \in [Servers -> [Times -> Dir]]
    /\ cold \in [Servers -> [Times -> Dir]]
    /\ wip \in [Servers -> [Times -> Stamps]]
    /\ again \in [Servers -> [Times -> Stamps]]
    /\ file \in Files
    /\ last \in [Servers -> Record]
    /\ tracker \in [Servers -> Status]
    /\ queue \in Seq(Job) /\ Len(queue) <= QueueCap
    /\ cyc \in [pc : CyclePCs, s : Servers, t0 : Stamps, ts : Stamps,
                rec : Record, m : Files]
    /\ wrk \in [pc : WorkerPCs, s : Servers, ts : Stamps, sel : Stamps,
                rec : Record, m : Files]
    /\ boot \in [pc : BootPCs, s : Servers, todo : SUBSET Servers,
                 stored : Files, rec : Record, m : Files]
    /\ phase \in {"down", "boot", "up"}
    /\ failed \subseteq Servers

Init ==
    /\ target \in TargetChoices
    /\ now = 1 /\ backs = 0
    /\ hot = [s \in Servers |-> NoDirs]
    /\ cold = [s \in Servers |-> NoDirs]
    /\ wip = [s \in Servers |-> [t \in Times |-> 0]]
    /\ again = wip
    /\ file = NoFile
    /\ last = NoFile
    /\ tracker = [s \in Servers |-> NoStatus]
    /\ queue = << >>
    /\ cyc = NoCycle
    /\ wrk = NoWork
    /\ boot = NoBoot
    /\ phase = "down"
    /\ failed = {}

Tick ==
    /\ now < (IF cyc.pc = "save" THEN MaxCapture[cyc.s] ELSE MaxTime)
    /\ now' = now + 1
    /\ UNCHANGED <<target, backs, disk, file, last, tracker, queue, cyc, wrk, boot, phase, failed>>

\* The clock is set back, or summer time ends.
ClockBack ==
    /\ now > 1 /\ backs < MaxBacks
    /\ now' = now - 1 /\ backs' = backs + 1
    /\ UNCHANGED <<target, disk, file, last, tracker, queue, cyc, wrk, boot, phase, failed>>

-----------------------------------------------------------------------------
(***************************************************************************)
(* The job tracker                                                         *)
(***************************************************************************)

Add(tr, s, state, snap) == [tr EXCEPT ![s] = [state |-> state, snap |-> snap]]

Remove(tr, s) == [tr EXCEPT ![s] = NoStatus]

UpdateIfSnapshot(tr, s, state, snap) ==
    IF tr[s].state = "none" \/ tr[s].snap = snap THEN Add(tr, s, state, snap) ELSE tr

RemoveIfSnapshot(tr, s, snap) ==
    IF tr[s].state # "none" /\ tr[s].snap = snap THEN Remove(tr, s) ELSE tr

-----------------------------------------------------------------------------
(***************************************************************************)
(* Pruning                                                                 *)
(***************************************************************************)

\* The snapshots of T are removed.
Without(d, T) == [t \in Times |-> IF t \in T THEN "none" ELSE d[t]]

\* Modification time of a finished NAS directory: the capture time, which rsync -a
\* takes over from the source, until a second copy is put into it.
MTime(s, t) == IF again[s][t] # 0 THEN again[s][t] ELSE t

\* The entries a NAS directory lists.
NasEntries(s) ==
    {[name |-> t, mtime |-> MTime(s, t), wip |-> FALSE] : t \in Present(cold[s])} \cup
    {[name |-> t, mtime |-> wip[s][t], wip |-> TRUE] : t \in {u \in Times : wip[s][u] # 0}}

\* What the two NAS prunes may remove, one after the other; each may fail.
NasDoomed(s, daysRun, countRun) ==
    LET E == NasEntries(s)
        old == IF daysRun THEN NasDaysDoomed(E, PruneDays, now) ELSE {}
    IN  {old \cup more :
            more \in IF countRun THEN NasCountDoomed(E \ old, PruneCount) ELSE {{}}}

\* Whether a command run on the NAS works.
NasWorks == IF "nas" \in Faults THEN BOOLEAN ELSE {TRUE}

\* The possible outcomes of pruning the cold tier of s: entries that go.
ColdDoomed(s) ==
    IF OnNas(s)
    THEN UNION {NasDoomed(s, d, c) : d \in NasWorks, c \in NasWorks}
    ELSE {{[name |-> t, mtime |-> t, wip |-> FALSE] :
            t \in LocalDoomed(Present(cold[s]), PruneDays, PruneCount, now)}}

Finished(E) == {e.name : e \in {f \in E : ~f.wip}}
Unfinished(E) == {e.name : e \in {f \in E : f.wip}}

\* Times kept of directories, without those of T.
Forgotten(f, T) == [t \in Times |-> IF t \in T THEN 0 ELSE f[t]]

\* The cold tier of s loses the entries of one outcome.
PruneCold(s) ==
    \E E \in ColdDoomed(s) :
        /\ cold' = [cold EXCEPT ![s] = Without(@, Finished(E))]
        /\ wip' = [wip EXCEPT ![s] = Forgotten(@, Unfinished(E))]
        /\ again' = [again EXCEPT ![s] = Forgotten(@, Finished(E))]

HotDoomed(s) == LocalDoomed(Present(hot[s]), HotPruneDays, HotPruneCount, now)

-----------------------------------------------------------------------------
(***************************************************************************)
(* The record                                                              *)
(***************************************************************************)

\* last[s] after the cold snapshot ts was stored.
SetCold(s, ts) == [last EXCEPT ![s].cold = ts]

\* mutant: the hot record is overwritten
SetOffloadedPlain(s, sel) == [last EXCEPT ![s].cold = sel, ![s].hot = sel]

\* last[s] after the offload of sel: the hot record moves only forward.
SetOffloaded(s, sel) ==
    [last EXCEPT ![s].cold = sel,
                 ![s].hot = IF @ = 0 \/ sel >= @ THEN sel ELSE @]

\* writeLastSnapshotAt reads the whole file, changes one entry and renames the
\* result into place; the file is not locked meanwhile.  What it read about the
\* entry to change does not matter.
FileWith(m, s, rec) == [m EXCEPT ![s] = rec]
OthersIn(m, s) == FileWith(m, s, NoRecord)

-----------------------------------------------------------------------------
(***************************************************************************)
(* The backup cycle, one server at a time                                  *)
(***************************************************************************)

CycleUnchanged == UNCHANGED <<target, now, backs, wrk, boot, phase>>

\* A cycle reaches server s: the tracker shows it as being saved.
CycleStart(s) ==
    /\ phase # "down" /\ cyc.pc = "idle" /\ now <= MaxCapture[s]
    /\ cyc' = [NoCycle EXCEPT !.pc = "save", !.s = s, !.t0 = now]
    /\ tracker' = Add(tracker, s, "Saving", now)
    /\ UNCHANGED <<disk, file, last, queue, failed>> /\ CycleUnchanged

\* mutant: the hot tier is written in place too
CopyStartInPlace ==
    /\ cyc.pc = "save"
    /\ cyc' = [cyc EXCEPT !.pc = "copy", !.ts = now]
    /\ hot' = IF Tiered(cyc.s) THEN [hot EXCEPT ![cyc.s][now] = "torn"] ELSE hot
    /\ UNCHANGED <<cold, wip, again, file, last, tracker, queue, failed>> /\ CycleUnchanged

\* After save-off and flush BackupServer reads the clock again for the name.  A
\* direct target is written in place, under its final name.
CopyStart ==
    /\ cyc.pc = "save"
    /\ cyc' = [cyc EXCEPT !.pc = "copy", !.ts = now]
    /\ cold' = IF Tiered(cyc.s) THEN cold ELSE [cold EXCEPT ![cyc.s][now] = "torn"]
    /\ UNCHANGED <<hot, wip, again, file, last, tracker, queue, failed>> /\ CycleUnchanged

\* rsync reports progress.
CopyProgress ==
    /\ cyc.pc = "copy"
    /\ tracker' = Add(tracker, cyc.s, "Saving", cyc.t0)
    /\ UNCHANGED <<disk, file, last, queue, cyc, failed>> /\ CycleUnchanged

\* The data is in place: the tiered copy is renamed to its final name, which fails
\* when a capture of the same minute exists; the direct copy is complete.
Stored(s, ts) ==
    IF Tiered(s)
    THEN hot[s][ts] = "none" /\ hot' = [hot EXCEPT ![s][ts] = "whole"] /\ UNCHANGED cold
    ELSE cold' = [cold EXCEPT ![s][ts] = "whole"] /\ UNCHANGED hot

CopyOk ==
    /\ cyc.pc = "copy"
    /\ Stored(cyc.s, cyc.ts)
    /\ cyc' = [cyc EXCEPT !.pc = "record", !.t0 = 0]
    /\ UNCHANGED <<wip, again, file, last, tracker, queue, failed>> /\ CycleUnchanged

CycleFails ==
    /\ cyc' = NoCycle
    /\ tracker' = Remove(tracker, cyc.s)
    /\ UNCHANGED <<wip, again, file, last, queue>> /\ CycleUnchanged

\* BackupServer returns an error before anything was renamed: RCON, rsync, or a
\* capture of the same minute in the hot tier.
CopyFail ==
    /\ \/ cyc.pc \in {"save", "copy"} /\ "copy" \in Faults
       \/ cyc.pc = "copy" /\ Tiered(cyc.s) /\ hot[cyc.s][cyc.ts] # "none"
    /\ CycleFails
    /\ UNCHANGED <<hot, cold, failed>>

\* The copy is in place and the deferred save-on fails: an error all the same.
SaveOnFail ==
    /\ cyc.pc = "copy" /\ "copy" \in Faults
    /\ Stored(cyc.s, cyc.ts)
    /\ CycleFails
    /\ failed' = failed \cup {cyc.s}

\* The new snapshot enters lastBackups.
CycleRecord ==
    /\ cyc.pc = "record"
    /\ last' = IF Tiered(cyc.s) THEN [last EXCEPT ![cyc.s].hot = cyc.ts]
                                ELSE SetCold(cyc.s, cyc.ts)
    /\ cyc' = [cyc EXCEPT !.pc = IF Tiered(cyc.s) THEN "read" ELSE "prune",
                          !.rec = last'[cyc.s]]
    /\ UNCHANGED <<disk, file, tracker, queue, failed>> /\ CycleUnchanged

\* A direct target is pruned by the cycle itself, which then has no job left.
CyclePrune ==
    /\ cyc.pc = "prune"
    /\ PruneCold(cyc.s)
    /\ tracker' = Remove(tracker, cyc.s)
    /\ cyc' = [cyc EXCEPT !.pc = "read"]
    /\ UNCHANGED <<hot, file, last, queue, failed>> /\ CycleUnchanged

CycleFileRead ==
    /\ cyc.pc = "read"
    /\ cyc' = [cyc EXCEPT !.pc = "rename", !.m = OthersIn(file, cyc.s)]
    /\ UNCHANGED <<disk, file, last, tracker, queue, failed>> /\ CycleUnchanged

CycleFileRename ==
    /\ cyc.pc = "rename"
    /\ file' = FileWith(cyc.m, cyc.s, cyc.rec)
    /\ cyc' = IF Tiered(cyc.s) THEN [cyc EXCEPT !.pc = "announce", !.m = NoFile, !.rec = NoRecord]
                               ELSE NoCycle
    /\ UNCHANGED <<disk, last, tracker, queue, failed>> /\ CycleUnchanged

\* mutant: the cycle prunes the hot tier as soon as it has a new capture
CycleAnnouncePrunesHot ==
    /\ cyc.pc = "announce"
    /\ hot' = [hot EXCEPT ![cyc.s] = Without(@, HotDoomed(cyc.s))]
    /\ tracker' = Add(tracker, cyc.s, "Waiting", cyc.ts)
    /\ cyc' = [cyc EXCEPT !.pc = "enqueue"]
    /\ UNCHANGED <<cold, wip, again, file, last, queue, failed>> /\ CycleUnchanged

CycleAnnounce ==
    /\ cyc.pc = "announce"
    /\ tracker' = Add(tracker, cyc.s, "Waiting", cyc.ts)
    /\ cyc' = [cyc EXCEPT !.pc = "enqueue"]
    /\ UNCHANGED <<disk, file, last, queue, failed>> /\ CycleUnchanged

\* mutant: the queue is taken to be unbounded
CycleEnqueueUnbounded ==
    /\ cyc.pc = "enqueue"
    /\ queue' = Append(queue, [s |-> cyc.s, ts |-> cyc.ts])
    /\ failed' = failed \ {cyc.s}
    /\ cyc' = NoCycle
    /\ UNCHANGED <<disk, file, last, tracker>> /\ CycleUnchanged

\* A job of s that has not chosen its capture yet.
JobPending(s) ==
    \/ \E i \in 1..Len(queue) : queue[i].s = s
    \/ wrk.s = s /\ wrk.pc = "select"

\* The offload job is queued, or dropped with a warning when the queue is full,
\* which loses nothing if a job of the same server is to come.
CycleEnqueue ==
    /\ cyc.pc = "enqueue"
    /\ \/ /\ Len(queue) < QueueCap
          /\ queue' = Append(queue, [s |-> cyc.s, ts |-> cyc.ts])
          /\ failed' = failed \ {cyc.s}
          /\ UNCHANGED tracker
       \/ /\ Len(queue) >= QueueCap
          /\ tracker' = RemoveIfSnapshot(tracker, cyc.s, cyc.ts)
          /\ failed' = IF JobPending(cyc.s) THEN failed ELSE failed \cup {cyc.s}
          /\ UNCHANGED queue
    /\ cyc' = NoCycle
    /\ UNCHANGED <<disk, file, last>> /\ CycleUnchanged

CycleStep ==
    \/ CopyStart \/ CopyOk \/ CopyFail \/ SaveOnFail
    \/ CycleRecord \/ CyclePrune \/ CycleFileRead \/ CycleFileRename
    \/ CycleAnnounce \/ CycleEnqueue

-----------------------------------------------------------------------------
(***************************************************************************)
(* The offload worker                                                      *)
(***************************************************************************)

WorkerUnchanged == UNCHANGED <<target, now, backs, cyc, boot, phase>>

WorkerTake ==
    /\ phase = "up" /\ wrk.pc = "idle" /\ queue # << >>
    /\ wrk' = [NoWork EXCEPT !.pc = "select", !.s = Head(queue).s, !.ts = Head(queue).ts]
    /\ queue' = Tail(queue)
    /\ UNCHANGED <<disk, file, last, tracker, failed>> /\ WorkerUnchanged

\* mutant: the job's own capture is offloaded
WorkerSelectOwn ==
    /\ wrk.pc = "select"
    /\ IF wrk.ts <= last[wrk.s].cold \/ hot[wrk.s][wrk.ts] = "none"
       THEN /\ wrk' = NoWork
            /\ tracker' = RemoveIfSnapshot(tracker, wrk.s, wrk.ts)
       ELSE /\ wrk' = [wrk EXCEPT !.pc = "begin", !.sel = wrk.ts]
            /\ UNCHANGED tracker
    /\ UNCHANGED <<disk, file, last, queue, failed>> /\ WorkerUnchanged

\* mutant: the job's own capture is offloaded, whatever is stored already
WorkerSelectUnordered ==
    /\ wrk.pc = "select"
    /\ IF hot[wrk.s][wrk.ts] = "none"
       THEN /\ wrk' = NoWork
            /\ tracker' = RemoveIfSnapshot(tracker, wrk.s, wrk.ts)
       ELSE /\ wrk' = [wrk EXCEPT !.pc = "begin", !.sel = wrk.ts]
            /\ UNCHANGED tracker
    /\ UNCHANGED <<disk, file, last, queue, failed>> /\ WorkerUnchanged

\* mutant: the capture stored last is offloaded once more
WorkerSelectAgain ==
    /\ wrk.pc = "select"
    /\ LET sel == Newest(Present(hot[wrk.s]))
       IN  IF sel = 0 \/ sel < last[wrk.s].cold
           THEN /\ wrk' = NoWork
                /\ tracker' = RemoveIfSnapshot(tracker, wrk.s, wrk.ts)
           ELSE /\ wrk' = [wrk EXCEPT !.pc = "begin", !.sel = sel]
                /\ UNCHANGED tracker
    /\ UNCHANGED <<disk, file, last, queue, failed>> /\ WorkerUnchanged

\* mutant: the capture is compared with the hot record
WorkerSelectHotRecord ==
    /\ wrk.pc = "select"
    /\ LET sel == Newest(Present(hot[wrk.s]))
       IN  IF sel = 0 \/ sel <= last[wrk.s].hot
           THEN /\ wrk' = NoWork
                /\ tracker' = RemoveIfSnapshot(tracker, wrk.s, wrk.ts)
           ELSE /\ wrk' = [wrk EXCEPT !.pc = "begin", !.sel = sel]
                /\ UNCHANGED tracker
    /\ UNCHANGED <<disk, file, last, queue, failed>> /\ WorkerUnchanged

\* Not the job's own capture is offloaded but the newest one, and only if it is
\* newer than the last one stored.
WorkerSelect ==
    /\ wrk.pc = "select"
    /\ LET sel == Newest(Present(hot[wrk.s]))
       IN  IF sel = 0 \/ sel <= last[wrk.s].cold
           THEN /\ wrk' = NoWork
                /\ tracker' = RemoveIfSnapshot(tracker, wrk.s, wrk.ts)
           ELSE /\ wrk' = [wrk EXCEPT !.pc = "begin", !.sel = sel]
                /\ UNCHANGED tracker
    /\ UNCHANGED <<disk, file, last, queue, failed>> /\ WorkerUnchanged

\* Status of the job's capture and of the selected one, in this order.
ShowTransfer(first, second) ==
    tracker' = LET tr == UpdateIfSnapshot(tracker, wrk.s, "Transferring", first)
               IN  IF first = second THEN tr
                   ELSE UpdateIfSnapshot(tr, wrk.s, "Transferring", second)

\* mutant: only the job's own entry is removed
HideTransferOfJob == tracker' = RemoveIfSnapshot(tracker, wrk.s, wrk.ts)

HideTransfer ==
    tracker' = RemoveIfSnapshot(RemoveIfSnapshot(tracker, wrk.s, wrk.ts), wrk.s, wrk.sel)

\* After the transfer delay: rsync starts to fill the .inprogress directory.
WorkerBegin ==
    /\ wrk.pc = "begin"
    /\ ShowTransfer(wrk.ts, wrk.sel)
    /\ wip' = [wip EXCEPT ![wrk.s][wrk.sel] = now]
    /\ wrk' = [wrk EXCEPT !.pc = "transfer"]
    /\ UNCHANGED <<hot, cold, again, file, last, queue, failed>> /\ WorkerUnchanged

WorkerProgress ==
    /\ wrk.pc = "transfer"
    /\ ShowTransfer(wrk.sel, wrk.ts)
    /\ UNCHANGED <<disk, file, last, queue, wrk, failed>> /\ WorkerUnchanged

\* The final name cannot be taken.  os.Rename refuses an existing directory; mv on
\* the NAS moves the transfer into it, once: the next one would replace the copy
\* that is already inside, which mv refuses.
Blocked(s, t) == IF OnNas(s) THEN again[s][t] # 0 ELSE cold[s][t] # "none"

\* The transfer is renamed to its final name, or put into the directory that has it.
ColdRename(s, t) ==
    /\ ~Blocked(s, t)
    /\ IF cold[s][t] = "none"
       THEN cold' = [cold EXCEPT ![s][t] = "whole"] /\ UNCHANGED again
       ELSE again' = [again EXCEPT ![s][t] = now] /\ UNCHANGED cold
    /\ wip' = [wip EXCEPT ![s][t] = 0]

WorkerStored ==
    /\ wrk.pc = "transfer"
    /\ ColdRename(wrk.s, wrk.sel)
    /\ wrk' = [wrk EXCEPT !.pc = "record"]
    /\ UNCHANGED <<hot, file, last, tracker, queue, failed>> /\ WorkerUnchanged

WorkerGivesUp ==
    /\ HideTransfer
    /\ wrk' = NoWork
    /\ failed' = failed \cup {wrk.s}
    /\ UNCHANGED <<hot, file, last, queue>> /\ WorkerUnchanged

\* NAS not ready, rsync or rename failed: the .inprogress directory is removed,
\* unless that fails as well.  It has the time of its start, or that of its capture
\* when rsync got as far as setting it.
WorkerFail ==
    /\ wrk.pc = "transfer"
    /\ "transfer" \in Faults \/ Blocked(wrk.s, wrk.sel)
    /\ \/ wip' = [wip EXCEPT ![wrk.s][wrk.sel] = 0]
       \/ /\ OnNas(wrk.s) /\ "cleanup" \in Faults
          /\ \E m \in {wip[wrk.s][wrk.sel], wrk.sel} : wip' = [wip EXCEPT ![wrk.s][wrk.sel] = m]
    /\ WorkerGivesUp
    /\ UNCHANGED <<cold, again>>

\* The NAS renamed, but ssh failed: reported as a failed offload.
WorkerReplyLost ==
    /\ wrk.pc = "transfer" /\ OnNas(wrk.s) /\ "reply" \in Faults
    /\ ColdRename(wrk.s, wrk.sel)
    /\ WorkerGivesUp

WorkerRecord ==
    /\ wrk.pc = "record"
    /\ last' = SetOffloaded(wrk.s, wrk.sel)
    /\ wrk' = [wrk EXCEPT !.pc = "read", !.rec = last'[wrk.s]]
    /\ UNCHANGED <<disk, file, tracker, queue, failed>> /\ WorkerUnchanged

WorkerFileRead ==
    /\ wrk.pc = "read"
    /\ wrk' = [wrk EXCEPT !.pc = "rename", !.m = OthersIn(file, wrk.s)]
    /\ UNCHANGED <<disk, file, last, tracker, queue, failed>> /\ WorkerUnchanged

WorkerFileRename ==
    /\ wrk.pc = "rename"
    /\ file' = FileWith(wrk.m, wrk.s, wrk.rec)
    /\ wrk' = [wrk EXCEPT !.pc = "pruneCold", !.m = NoFile, !.rec = NoRecord]
    /\ UNCHANGED <<disk, last, tracker, queue, failed>> /\ WorkerUnchanged

WorkerPruneCold ==
    /\ wrk.pc = "pruneCold"
    /\ HideTransfer
    /\ PruneCold(wrk.s)
    /\ wrk' = [NoWork EXCEPT !.pc = "pruneHot", !.s = wrk.s]
    /\ UNCHANGED <<hot, file, last, queue, failed>> /\ WorkerUnchanged

WorkerPruneHot ==
    /\ wrk.pc = "pruneHot"
    /\ hot' = [hot EXCEPT ![wrk.s] = Without(@, HotDoomed(wrk.s))]
    /\ wrk' = NoWork
    /\ UNCHANGED <<cold, wip, again, file, last, tracker, queue, failed>> /\ WorkerUnchanged

WorkerStep ==
    \/ WorkerTake \/ WorkerSelect \/ WorkerBegin
    \/ WorkerStored \/ WorkerFail \/ WorkerReplyLost
    \/ WorkerRecord \/ WorkerFileRead \/ WorkerFileRename
    \/ WorkerPruneCold \/ WorkerPruneHot

-----------------------------------------------------------------------------
(***************************************************************************)
(* Boot and crash                                                          *)
(***************************************************************************)

BootUnchanged == UNCHANGED <<target, now, backs, disk, tracker, queue, cyc, wrk, failed>>

Start ==
    /\ phase = "down"
    /\ phase' = "boot"
    /\ boot' = [NoBoot EXCEPT !.pc = "load"]
    /\ UNCHANGED <<file, last>> /\ BootUnchanged

\* discoverSnapshots reads .last-backup once, before it looks at any server.
BootLoad ==
    /\ boot.pc = "load"
    /\ boot' = [boot EXCEPT !.pc = "list", !.stored = file, !.todo = Servers]
    /\ UNCHANGED <<file, last, phase>> /\ BootUnchanged

Later(a, b) == IF b > a THEN b ELSE a

\* What the scan of the cold tier of s may find: the newest name of a local tier,
\* the directory modified last on the NAS (ls -dt | head -1), whose listing may
\* fail, which counts as an empty one.
ColdListed(s) ==
    LET P == Present(cold[s])
    IN  IF OnNas(s)
        THEN {t \in P : \A u \in P : MTime(s, u) <= MTime(s, t)} \cup
             (IF P = {} \/ "nas" \in Faults THEN {0} ELSE {})
        ELSE {Newest(P)}

\* mutant: the stored entry is believed without a look at the directories
ReconciledFileOnly(s, found) == boot.stored[s]

\* What was found in each tier against the stored entry: the later name counts.
Reconciled(s, found) ==
    [hot  |-> IF Tiered(s) THEN Later(boot.stored[s].hot, Newest(Present(hot[s])))
                           ELSE boot.stored[s].hot,
     cold |-> Later(boot.stored[s].cold, found)]

BootList(s) ==
    /\ boot.pc = "list" /\ s \in boot.todo
    /\ \E found \in ColdListed(s) :
         LET rec == Reconciled(s, found)
         IN  boot' = [boot EXCEPT !.s = s, !.rec = rec, !.todo = @ \ {s}, !.stored[s] = NoRecord,
                         !.pc = IF rec # boot.stored[s] THEN "read" ELSE "record"]
    /\ UNCHANGED <<file, last, phase>> /\ BootUnchanged

BootFileRead ==
    /\ boot.pc = "read"
    /\ boot' = [boot EXCEPT !.pc = "rename", !.m = OthersIn(file, boot.s)]
    /\ UNCHANGED <<file, last, phase>> /\ BootUnchanged

BootFileRename ==
    /\ boot.pc = "rename"
    /\ file' = FileWith(boot.m, boot.s, boot.rec)
    /\ boot' = [boot EXCEPT !.pc = "record", !.m = NoFile]
    /\ UNCHANGED <<last, phase>> /\ BootUnchanged

\* The record in memory is replaced, whatever it says by now; after the last
\* server the worker is started.
BootRecord ==
    /\ boot.pc = "record"
    /\ last' = [last EXCEPT ![boot.s] = boot.rec]
    /\ IF boot.todo = {} THEN boot' = NoBoot /\ phase' = "up"
                         ELSE boot' = [boot EXCEPT !.pc = "list"] /\ UNCHANGED phase
    /\ UNCHANGED file /\ BootUnchanged

\* A crash in the middle of os.RemoveAll or rm -rf: of the doomed directories
\* some are gone and some are left incomplete, under their final names.
Torn(d, T) ==
    {Without([t \in Times |-> IF t \in T2 THEN "torn" ELSE d[t]], T1) :
        T1 \in SUBSET T, T2 \in SUBSET T}

Pruning(pc) == pc \in {"prune", "pruneCold"}

\* A crash in the middle of a prune of the cold tier of s.
TornPrune(s) ==
    \E E \in ColdDoomed(s) : \E G \in SUBSET Unfinished(E), d \in Torn(cold[s], Finished(E)) :
        /\ cold' = [cold EXCEPT ![s] = d]
        /\ wip' = [wip EXCEPT ![s] = Forgotten(@, G)]
        /\ again' = [again EXCEPT ![s] = Forgotten(@, {t \in Times : d[t] = "none"})]

Crash ==
    /\ phase # "down" /\ "crash" \in Faults
    /\ phase' = "down"
    /\ last' = NoFile
    /\ tracker' = [s \in Servers |-> NoStatus]
    /\ queue' = << >>
    /\ cyc' = NoCycle
    /\ wrk' = NoWork
    /\ boot' = NoBoot
    /\ failed' = Servers
    /\ \/ UNCHANGED disk
       \/ /\ wrk.pc = "transfer" /\ OnNas(wrk.s)
          /\ wip' = [wip EXCEPT ![wrk.s][wrk.sel] = wrk.sel]
          /\ UNCHANGED <<hot, cold, again>>
       \/ /\ wrk.pc = "pruneHot"
          /\ \E d \in Torn(hot[wrk.s], HotDoomed(wrk.s)) : hot' = [hot EXCEPT ![wrk.s] = d]
          /\ UNCHANGED <<cold, wip, again>>
       \/ \E p \in {cyc, wrk} : Pruning(p.pc) /\ TornPrune(p.s) /\ UNCHANGED hot
    /\ UNCHANGED <<target, now, backs, file>>

-----------------------------------------------------------------------------
Next ==
    \/ Tick \/ ClockBack \/ Start \/ Crash
    \/ \E s \in Servers : CycleStart(s) \/ BootList(s)
    \/ CopyProgress \/ CycleStep
    \/ WorkerProgress \/ WorkerStep
    \/ BootLoad \/ BootFileRead \/ BootFileRename \/ BootRecord

Spec == Init /\ [][Next]_vars

\* Every goroutine keeps running, and every command it waits for ends.
Fairness == WF_vars(CycleStep) /\ WF_vars(WorkerStep)

FairSpec == Spec /\ Fairness

-----------------------------------------------------------------------------
(***************************************************************************)
(* Properties                                                              *)
(***************************************************************************)

\* What the worker copies stays there and complete until it is renamed: no prune,
\* crash recovery or second capture touches the source (daemon.go:410-497).
TransferSourceWhole ==
    wrk.pc \in {"begin", "transfer"} => hot[wrk.s][wrk.sel] = "whole"

\* An offload to a local cold tier never finds its destination taken, although
\* several jobs may lead to the same newest capture (daemon.go:411-439,
\* backup.go:312).
OffloadFresh ==
    wrk.pc \in {"begin", "transfer"} /\ ~OnNas(wrk.s) => cold[wrk.s][wrk.sel] = "none"

\* Once the daemon is up, its record of a tiered local server covers the newest
\* snapshot in cold storage, but for the moment between the rename and the record;
\* a crash in that moment is made up for by the boot scan (daemon.go:154-260, 499).
RecordCovers ==
    \A s \in Servers :
        phase = "up" /\ target[s] = "tiered-local" =>
            \/ last[s].cold >= Newest(Present(cold[s]))
            \/ wrk.s = s /\ wrk.pc = "record"

\* The status API tells the truth: an entry "Saving" belongs to the running cycle,
\* "Transferring" to the worker, "Waiting" to a job that is queued, in the worker's
\* hands, or about to be queued or dropped (status.go:35-66).
StatusTruthful ==
    \A s \in Servers :
        /\ tracker[s].state = "Saving" => cyc.s = s /\ cyc.pc # "idle"
        /\ tracker[s].state = "Transferring" => wrk.s = s /\ wrk.pc # "idle"
        /\ tracker[s].state = "Waiting" =>
             \/ cyc.s = s /\ cyc.pc = "enqueue"
             \/ [s |-> s, ts |-> tracker[s].snap] \in {queue[i] : i \in 1..Len(queue)}
             \/ wrk.s = s /\ wrk.ts = tracker[s].snap /\ wrk.pc \in {"select", "begin"}

\* No record of server s moves back to an older snapshot.
Forward(s) == last'[s].hot >= last[s].hot /\ last'[s].cold >= last[s].cold

\* Once the daemon is up the record of a server only moves forward, whichever of
\* cycle and worker writes it; only a capture whose own name is older, because the
\* clock was set back, is recorded in place of a newer one (daemon.go:499-516,
\* 705-747, backup.go:220).
RecordMonotone ==
    [][phase = "up" /\ phase' = "up" =>
         \A s \in Servers : Forward(s) \/ (backs > 0 /\ cyc.pc = "record" /\ cyc.s = s)]_vars

\* A snapshot is only removed for a reason the README gives (README.md:61-64): it
\* is older than the configured days, or at least prune_count complete snapshots
\* of its tier are newer.
RemovedForReason(d, d2, days, count) ==
    \A t \in Times :
        d[t] = "whole" /\ d2[t] = "none" =>
            \/ days > 0 /\ t < now - days * DayLength
            \/ count > 0 /\ Cardinality({u \in Times : u > t /\ d2[u] = "whole"}) >= count

RetentionKeepsNewest ==
    [][\A s \in Servers :
         /\ RemovedForReason(hot[s], hot'[s], HotPruneDays, HotPruneCount)
         /\ RemovedForReason(cold[s], cold'[s], PruneDays, PruneCount)]_vars

\* What is left of that on a NAS, where a repeated mv after a lost reply makes an
\* old snapshot look new: a snapshot is only removed when it was last modified more
\* than the configured days ago, or when prune_count complete ones stay that were
\* not modified before it (prune.go:83-103, backup.go:340-351).
RetentionKeepsLatest ==
    [][\A s \in Servers, t \in Times :
         OnNas(s) /\ cold[s][t] = "whole" /\ cold'[s][t] = "none" =>
             \/ PruneDays > 0 /\ MTime(s, t) < now - PruneDays * DayLength
             \/ /\ PruneCount > 0
                /\ Cardinality({u \in Times : /\ cold'[s][u] = "whole"
                                              /\ MTime(s, u) >= MTime(s, t)}) >= PruneCount]_vars

\* README.md:276: "Snapshots are complete directories."  A directory under its
\* final name is complete, unless it is being written or pruned at this moment.
SnapshotsComplete ==
    \A s \in Servers, t \in Times :
        /\ hot[s][t] # "torn"
        /\ cold[s][t] = "torn" => cyc.pc = "copy" /\ cyc.s = s /\ cyc.ts = t

\* The newest snapshot of each tier is complete and so is every snapshot the
\* daemon remembers as the last one and has not pruned since, whatever crashed in
\* between (daemon.go:154-260, backup.go:251-276).
NewestComplete ==
    \A s \in Servers :
        LET h == Newest(Present(hot[s]))
            c == Newest(Present(cold[s]))
        IN  /\ h # 0 => hot[s][h] = "whole"
            /\ c # 0 => cold[s][c] = "whole"
            /\ last[s].hot # 0 => hot[s][last[s].hot] # "torn"
            /\ last[s].cold # 0 => cold[s][last[s].cold] # "torn"

\* The newest capture of a tiered server is never forgotten: while it is newer than
\* what cold storage holds and no failure was logged, a job that will pick it up is
\* queued, in the worker's hands, or about to be queued.  A job dropped because the
\* queue is full loses nothing when the full queue holds another job of the server,
\* since that one takes the newest capture (daemon.go:411-439, 773-778).
OffloadPending ==
    \A s \in Servers :
        LET h == Newest(Present(hot[s]))
        IN  phase = "up" /\ Tiered(s) /\ s \notin failed /\ h > last[s].cold =>
              \/ cyc.s = s /\ cyc.pc \in {"record", "read", "rename", "announce", "enqueue"}
              \/ JobPending(s)
              \/ wrk.s = s /\ wrk.pc \in {"begin", "transfer", "record"} /\ wrk.sel = h

\* A complete capture reaches cold storage, or a newer one does, or a failure is
\* logged, or the daemon goes down: jobs are not stuck in the queue for ever
\* (daemon.go:393-408).
CapturesReachCold ==
    \A s \in Servers, t \in Times :
        (phase = "up" /\ Tiered(s) /\ hot[s][t] = "whole" /\ s \notin failed)
            ~> (last[s].cold >= t \/ s \in failed \/ phase = "down")

\* What the tiered servers have on disk, in the terms of TieredStore.
Complete(s, d) == IF Tiered(s) THEN {t \in Times : d[t] = "whole"} ELSE {}
Store == INSTANCE TieredStore WITH
    kept <- [s \in Servers |-> Complete(s, hot[s])],
    stored <- [s \in Servers |-> Complete(s, cold[s])]

\* The tiers of a tiered server with count pruning behave like TieredStore, through
\* crashes at any point, failing captures and transfers, and a clock set back: no
\* incomplete capture is offloaded, none is offloaded after a newer one, and no
\* prune takes the newest of a tier (daemon.go:410-552, backup.go:251-334).
StoreSpec == Store!Spec

=============================================================================
