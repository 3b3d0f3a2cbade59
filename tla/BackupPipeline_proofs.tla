----------------------- MODULE BackupPipeline_proofs ------------------------
(***************************************************************************)
(* Type correctness of the pipeline, and the lemmas its other proofs share:*)
(* where each goroutine may be, who changes which variable, what a step    *)
(* does to each tier and to the newest snapshot of it.                     *)
(***************************************************************************)
EXTENDS BackupPipeline, Retention_proofs

\* A job, a capture or a selected snapshot has a name once it has one in the code.
PcInv ==
    /\ cyc.pc \notin {"idle", "save"} => cyc.ts \in Times
    /\ wrk.pc \notin {"idle", "pruneHot"} => wrk.ts \in Times
    /\ wrk.pc \notin {"idle", "select", "pruneHot"} => wrk.sel \in Times

\* The names of a directory are finitely many numbers.
LEMMA TimesFacts ==
  /\ Times \subseteq Nat \ {0} /\ Times \subseteq Stamps /\ Stamps \subseteq Nat
  /\ 0 \in Stamps /\ 0 \notin Times /\ Stamps = Times \cup {0}
  /\ \A S \in SUBSET Times : IsFiniteSet(S) /\ S \in SUBSET Int
<1>1. MaxTime \in Nat
  BY BoundsAssumption
<1>2. IsFiniteSet(Times)
  BY <1>1, FS_Interval DEF Times
<1>3. /\ Times \subseteq Nat \ {0} /\ Times \subseteq Stamps /\ Stamps \subseteq Nat
      /\ 0 \in Stamps /\ 0 \notin Times /\ Stamps = Times \cup {0}
  BY <1>1 DEF Times, Stamps
<1>4. ASSUME NEW S \in SUBSET Times
      PROVE  IsFiniteSet(S) /\ S \in SUBSET Int
  <2>1. IsFiniteSet(S)
    BY <1>2, FS_Subset
  <2> QED
    BY <1>3, <2>1
<1> QED
  BY <1>3, <1>4

\* The newest snapshot of a directory is one of its snapshots, and the last.
LEMMA NewestFacts ==
  ASSUME NEW d
  PROVE  /\ Newest(Present(d)) \in Stamps
         /\ Newest(Present(d)) # 0 => d[Newest(Present(d))] # "none"
         /\ \A u \in Times : d[u] # "none" => u <= Newest(Present(d))
<1>1. Present(d) \in SUBSET Int /\ IsFiniteSet(Present(d)) /\ Present(d) \subseteq Times
  BY TimesFacts DEF Present
<1>2. CASE Present(d) = {}
  BY <1>2, TimesFacts DEF Newest, Present
<1>3. CASE Present(d) # {}
  <2>1. Newest(Present(d)) \in Present(d) /\ \A u \in Present(d) : u <= Newest(Present(d))
    BY <1>1, <1>3, NewestIsLast
  <2> QED
    BY <1>1, <2>1, TimesFacts DEF Present
<1> QED
  BY <1>2, <1>3

\* It is the only one with no later one.
LEMMA NewestIs ==
  ASSUME NEW d, NEW n \in Times, d[n] # "none",
         \A u \in Times : d[u] # "none" => u <= n
  PROVE  Newest(Present(d)) = n
<1> DEFINE h == Newest(Present(d))
<1>1. n <= h /\ h \in Nat /\ h \in Stamps /\ n \in Nat \ {0}
  BY NewestFacts, TimesFacts
<1>2. h # 0 /\ h \in Times
  BY <1>1, TimesFacts
<1>3. d[h] # "none"
  BY <1>2, NewestFacts
<1>4. h <= n
  BY <1>2, <1>3
<1> HIDE DEF h
<1>5. h = n
  BY <1>1, <1>4
<1> QED
  BY <1>5 DEF h

\* What the boot scan finds in the cold tier is a snapshot, the newest if the tier
\* is local.
LEMMA ListedFacts ==
  ASSUME NEW s, NEW found \in ColdListed(s)
  PROVE  /\ found \in Stamps /\ (found # 0 => found \in Times /\ cold[s][found] # "none")
         /\ found <= Newest(Present(cold[s]))
         /\ ~OnNas(s) => found = Newest(Present(cold[s]))
<1> DEFINE P == Present(cold[s])
           n == Newest(P)
<1>1. found = 0 \/ found \in P \/ found = n
  BY DEF ColdListed
<1>2. ~OnNas(s) => found = n
  BY DEF ColdListed
<1>3. /\ n \in Stamps /\ (n # 0 => cold[s][n] # "none")
      /\ \A u \in Times : cold[s][u] # "none" => u <= n
  BY NewestFacts
<1>4. \A t : t \in P <=> t \in Times /\ cold[s][t] # "none"
  BY DEF Present
<1> HIDE DEF P, n
<1>5. n \in Nat /\ n <= n /\ 0 <= n
  BY <1>3, TimesFacts
<1>6. CASE found = 0
  BY <1>2, <1>5, <1>6, TimesFacts DEF n, P
<1>7. CASE found \in P
  BY <1>2, <1>3, <1>4, <1>7, TimesFacts DEF n, P
<1>8. CASE found = n
  BY <1>3, <1>5, <1>8, TimesFacts DEF n, P
<1> QED
  BY <1>1, <1>6, <1>7, <1>8

-----------------------------------------------------------------------------
(***************************************************************************)
(* Types                                                                   *)
(***************************************************************************)

\* The constants and the operators on the record, the tracker and the directories
\* have their types.
LEMMA ConstantTypes ==
  /\ AnyServer \in Servers /\ NoRecord \in Record /\ NoFile \in Files
  /\ NoDirs \in [Times -> Dir] /\ NoStatus \in Status
  /\ NoCycle \in [pc : CyclePCs, s : Servers, t0 : Stamps, ts : Stamps,
                  rec : Record, m : Files]
  /\ NoWork \in [pc : WorkerPCs, s : Servers, ts : Stamps, sel : Stamps,
                 rec : Record, m : Files]
  /\ NoBoot \in [pc : BootPCs, s : Servers, todo : SUBSET Servers,
                 stored : Files, rec : Record, m : Files]
<1>1. AnyServer \in Servers
  BY ServersAssumption DEF AnyServer
<1>2. NoRecord \in Record
  BY TimesFacts DEF NoRecord, Record
<1>3. NoFile \in Files
  BY <1>2 DEF NoFile, Files
<1>4. NoDirs \in [Times -> Dir] /\ NoStatus \in Status
  BY TimesFacts DEF NoDirs, Dir, NoStatus, Status
<1> QED
  BY <1>1, <1>2, <1>3, <1>4, TimesFacts
     DEF NoCycle, NoWork, NoBoot, CyclePCs, WorkerPCs, BootPCs

\* Nobody at work: no name, no record, no copy of the file.
LEMMA IdleFacts ==
  /\ NoCycle.pc = "idle" /\ NoCycle.ts = 0 /\ NoCycle.rec = NoRecord /\ NoCycle.m = NoFile
  /\ NoWork.pc = "idle" /\ NoWork.ts = 0 /\ NoWork.sel = 0
  /\ NoWork.rec = NoRecord /\ NoWork.m = NoFile
  /\ NoBoot.pc = "done" /\ NoBoot.rec = NoRecord /\ NoBoot.m = NoFile
  /\ NoBoot.stored = NoFile
  /\ NoRecord.hot = 0 /\ NoRecord.cold = 0 /\ NoStatus.state = "none"
  /\ \A s \in Servers : NoFile[s] = NoRecord
BY DEF NoCycle, NoWork, NoBoot, NoRecord, NoFile, NoStatus

\* writeLastSnapshotAt turns a file into a file.
LEMMA FileTypes ==
  ASSUME NEW m \in Files, NEW s \in Servers, NEW rec \in Record
  PROVE  FileWith(m, s, rec) \in Files /\ OthersIn(m, s) \in Files
BY ConstantTypes DEF FileWith, OthersIn, Files

\* The job tracker's operations keep one entry per server.
LEMMA TrackerTypes ==
  ASSUME NEW tr \in [Servers -> Status], NEW s \in Servers, NEW snap \in Stamps
  PROVE  /\ Remove(tr, s) \in [Servers -> Status]
         /\ RemoveIfSnapshot(tr, s, snap) \in [Servers -> Status]
         /\ \A state \in {"Saving", "Waiting", "Transferring"} :
              /\ Add(tr, s, state, snap) \in [Servers -> Status]
              /\ UpdateIfSnapshot(tr, s, state, snap) \in [Servers -> Status]
<1>1. Remove(tr, s) \in [Servers -> Status]
  BY ConstantTypes DEF Remove
<1>2. ASSUME NEW state \in {"Saving", "Waiting", "Transferring"}
      PROVE  Add(tr, s, state, snap) \in [Servers -> Status]
  <2>1. [state |-> state, snap |-> snap] \in Status
    BY DEF Status
  <2> QED
    BY <2>1 DEF Add
<1> QED
  BY <1>1, <1>2 DEF UpdateIfSnapshot, RemoveIfSnapshot

\* Changing one directory of one server.
LEMMA DirectoryUpdate ==
  ASSUME NEW X, NEW D \in [Servers -> [Times -> X]], NEW s \in Servers, NEW t \in Times,
         NEW x \in X
  PROVE  [D EXCEPT ![s][t] = x] \in [Servers -> [Times -> X]]
OBVIOUS

\* What is left of the times of directories are times.
LEMMA ForgottenTypes ==
  ASSUME NEW f \in [Times -> Stamps], NEW T
  PROVE  Forgotten(f, T) \in [Times -> Stamps]
BY TimesFacts DEF Forgotten

\* A prune leaves directories.
LEMMA PruneTypes ==
  ASSUME NEW s \in Servers, cold \in [Servers -> [Times -> Dir]],
         wip \in [Servers -> [Times -> Stamps]], again \in [Servers -> [Times -> Stamps]],
         PruneCold(s)
  PROVE  /\ cold' \in [Servers -> [Times -> Dir]] /\ wip' \in [Servers -> [Times -> Stamps]]
         /\ again' \in [Servers -> [Times -> Stamps]]
<1>1. PICK E \in ColdDoomed(s) :
        /\ cold' = [cold EXCEPT ![s] = Without(cold[s], Finished(E))]
        /\ wip' = [wip EXCEPT ![s] = Forgotten(wip[s], Unfinished(E))]
        /\ again' = [again EXCEPT ![s] = Forgotten(again[s], Finished(E))]
  BY DEF PruneCold
<1>2. Without(cold[s], Finished(E)) \in [Times -> Dir]
  BY DEF Without, Dir
<1>3. /\ Forgotten(wip[s], Unfinished(E)) \in [Times -> Stamps]
      /\ Forgotten(again[s], Finished(E)) \in [Times -> Stamps]
  BY ForgottenTypes
<1> QED
  BY <1>1, <1>2, <1>3

\* So does a crash during a prune.
LEMMA TornTypes ==
  ASSUME NEW d \in [Times -> Dir], NEW T, NEW d2 \in Torn(d, T)
  PROVE  d2 \in [Times -> Dir]
BY DEF Torn, Without, Dir

LEMMA TornPruneShape ==
  \A s : TornPrune(s) =>
    \E E \in ColdDoomed(s) : \E d \in Torn(cold[s], Finished(E)) : cold' = [cold EXCEPT ![s] = d]
BY DEF TornPrune

LEMMA TornPruneTypes ==
  ASSUME NEW s \in Servers, cold \in [Servers -> [Times -> Dir]],
         wip \in [Servers -> [Times -> Stamps]], again \in [Servers -> [Times -> Stamps]],
         TornPrune(s)
  PROVE  /\ cold' \in [Servers -> [Times -> Dir]] /\ wip' \in [Servers -> [Times -> Stamps]]
         /\ again' \in [Servers -> [Times -> Stamps]]
<1>1. PICK E \in ColdDoomed(s) : \E G \in SUBSET Unfinished(E), d \in Torn(cold[s], Finished(E)) :
        /\ cold' = [cold EXCEPT ![s] = d]
        /\ wip' = [wip EXCEPT ![s] = Forgotten(wip[s], G)]
        /\ again' = [again EXCEPT ![s] = Forgotten(again[s], {t \in Times : d[t] = "none"})]
  BY DEF TornPrune
<1>2. PICK G \in SUBSET Unfinished(E), d \in Torn(cold[s], Finished(E)) :
        /\ cold' = [cold EXCEPT ![s] = d]
        /\ wip' = [wip EXCEPT ![s] = Forgotten(wip[s], G)]
        /\ again' = [again EXCEPT ![s] = Forgotten(again[s], {t \in Times : d[t] = "none"})]
  BY <1>1
<1>3. /\ d \in [Times -> Dir]
      /\ Forgotten(wip[s], G) \in [Times -> Stamps]
      /\ Forgotten(again[s], {t \in Times : d[t] = "none"}) \in [Times -> Stamps]
  BY TornTypes, ForgottenTypes
<1> QED
  BY <1>2, <1>3

TypeInv == TypeOK /\ PcInv

\* Every step of the cycle keeps the types.
LEMMA CycleKeepsTypes ==
  ASSUME TypeInv, (\E s \in Servers : CycleStart(s)) \/ CopyProgress \/ CycleStep
  PROVE  TypeInv'
<1> USE DEF TypeInv, TypeOK, PcInv, CycleUnchanged, disk
<1>0. /\ cyc.s \in Servers /\ cyc.ts \in Stamps /\ cyc.t0 \in Stamps
      /\ cyc.rec \in Record /\ cyc.m \in Files
  OBVIOUS
<1>1. ASSUME NEW s \in Servers, CycleStart(s) PROVE TypeInv'
  <2>1. tracker' \in [Servers -> Status]
    BY <1>1, TrackerTypes, TimesFacts DEF CycleStart
  <2> QED
    BY <1>1, <2>1, ConstantTypes, TimesFacts DEF CycleStart, NoCycle, CyclePCs
<1>2. CASE CopyStart
  <2>1. cold' \in [Servers -> [Times -> Dir]]
    BY <1>2 DEF CopyStart, Dir
  <2> QED
    BY <1>2, <2>1, TimesFacts DEF CopyStart, CyclePCs
<1>3. CASE CopyProgress
  <2>1. tracker' \in [Servers -> Status]
    BY <1>0, <1>3, TrackerTypes DEF CopyProgress
  <2> QED
    BY <1>3, <2>1 DEF CopyProgress
<1>4. ASSUME cyc.pc = "copy", Stored(cyc.s, cyc.ts)
      PROVE  hot' \in [Servers -> [Times -> Dir]] /\ cold' \in [Servers -> [Times -> Dir]]
  <2>1. cyc.s \in Servers /\ cyc.ts \in Times /\ "whole" \in Dir
    BY <1>0, <1>4 DEF Dir
  <2>0. hot \in [Servers -> [Times -> Dir]] /\ cold \in [Servers -> [Times -> Dir]]
    OBVIOUS
  <2> HIDE DEF TypeInv, TypeOK, PcInv, CycleUnchanged, disk
  <2>2. CASE Tiered(cyc.s)
    <3>1. hot' = [hot EXCEPT ![cyc.s][cyc.ts] = "whole"] /\ cold' = cold
      BY <1>4, <2>2 DEF Stored
    <3> QED
      BY <2>0, <2>1, <3>1
  <2>3. CASE ~Tiered(cyc.s)
    <3>1. cold' = [cold EXCEPT ![cyc.s][cyc.ts] = "whole"] /\ hot' = hot
      BY <1>4, <2>3 DEF Stored
    <3> QED
      BY <2>0, <2>1, <3>1
  <2> QED
    BY <2>2, <2>3
<1>5. CASE CopyOk
  <2>1. hot' \in [Servers -> [Times -> Dir]] /\ cold' \in [Servers -> [Times -> Dir]]
    BY <1>4, <1>5 DEF CopyOk
  <2> QED
    BY <1>5, <2>1, TimesFacts DEF CopyOk, CyclePCs
<1>6. ASSUME CycleFails
      PROVE  /\ cyc' = NoCycle /\ cyc'.pc = "idle" /\ cyc' \in [pc : CyclePCs, s : Servers,
                  t0 : Stamps, ts : Stamps, rec : Record, m : Files]
             /\ tracker' \in [Servers -> Status]
  BY <1>0, <1>6, ConstantTypes, TrackerTypes DEF CycleFails, NoCycle
<1>7. CASE CopyFail
  BY <1>6, <1>7 DEF CopyFail, CycleFails
<1>8. CASE SaveOnFail
  <2>1. hot' \in [Servers -> [Times -> Dir]] /\ cold' \in [Servers -> [Times -> Dir]]
    BY <1>4, <1>8 DEF SaveOnFail
  <2>2. failed' \subseteq Servers
    BY <1>0, <1>8 DEF SaveOnFail
  <2> QED
    BY <1>6, <1>8, <2>1, <2>2 DEF SaveOnFail, CycleFails
<1>9. CASE CycleRecord
  <2>1. last' \in [Servers -> Record]
    BY <1>9 DEF CycleRecord, SetCold, Record
  <2> QED
    BY <1>0, <1>9, <2>1 DEF CycleRecord, CyclePCs
<1>10. CASE CyclePrune
  <2>1. /\ cold' \in [Servers -> [Times -> Dir]] /\ wip' \in [Servers -> [Times -> Stamps]]
        /\ again' \in [Servers -> [Times -> Stamps]]
    BY <1>0, <1>10, PruneTypes DEF CyclePrune
  <2>2. tracker' \in [Servers -> Status]
    BY <1>0, <1>10, TrackerTypes DEF CyclePrune
  <2> QED
    BY <1>10, <2>1, <2>2 DEF CyclePrune, CyclePCs
<1>11. CASE CycleFileRead
  <2>1. OthersIn(file, cyc.s) \in Files
    BY <1>0, FileTypes
  <2> QED
    BY <1>11, <2>1 DEF CycleFileRead, CyclePCs
<1>12. CASE CycleFileRename
  <2>1. file' \in Files
    BY <1>0, <1>12, FileTypes DEF CycleFileRename
  <2> QED
    BY <1>12, <2>1, ConstantTypes DEF CycleFileRename, CyclePCs, NoCycle
<1>13. CASE CycleAnnounce
  <2>1. tracker' \in [Servers -> Status]
    BY <1>0, <1>13, TrackerTypes DEF CycleAnnounce
  <2> QED
    BY <1>13, <2>1 DEF CycleAnnounce, CyclePCs
<1>14. CASE CycleEnqueue
  <2>1. cyc.pc = "enqueue" /\ cyc' = NoCycle /\ cyc'.pc = "idle"
    BY <1>14 DEF CycleEnqueue, NoCycle
  <2>2. tracker' \in [Servers -> Status] /\ failed' \subseteq Servers
    <3>1. RemoveIfSnapshot(tracker, cyc.s, cyc.ts) \in [Servers -> Status]
      BY <1>0, TrackerTypes
    <3>2. tracker' \in {tracker, RemoveIfSnapshot(tracker, cyc.s, cyc.ts)}
      BY <1>14 DEF CycleEnqueue
    <3>3. failed' \in {failed, failed \cup {cyc.s}, failed \ {cyc.s}}
      BY <1>14 DEF CycleEnqueue
    <3> QED
      BY <1>0, <3>1, <3>2, <3>3
  <2>3. queue' \in Seq(Job) /\ Len(queue') <= QueueCap
    <3>1. [s |-> cyc.s, ts |-> cyc.ts] \in Job
      BY <1>0, <2>1 DEF Job
    <3>2. QueueCap \in Nat
      BY BoundsAssumption
    <3>3. \/ queue' = queue
          \/ Len(queue) < QueueCap /\ queue' = Append(queue, [s |-> cyc.s, ts |-> cyc.ts])
      BY <1>14 DEF CycleEnqueue
    <3>4. queue \in Seq(Job) /\ Len(queue) <= QueueCap
      OBVIOUS
    <3> HIDE DEF TypeInv, TypeOK, PcInv, CycleUnchanged, disk
    <3> QED
      BY <3>1, <3>2, <3>3, <3>4
  <2> QED
    BY <1>14, <2>1, <2>2, <2>3, ConstantTypes DEF CycleEnqueue
<1> QED
  BY <1>1, <1>2, <1>3, <1>5, <1>7, <1>8, <1>9, <1>10, <1>11, <1>12, <1>13, <1>14
     DEF CycleStep

\* Every step of the worker keeps the types.
LEMMA WorkerKeepsTypes ==
  ASSUME TypeInv, WorkerProgress \/ WorkerStep
  PROVE  TypeInv'
<1> USE DEF TypeInv, TypeOK, PcInv, WorkerUnchanged, disk
<1>0. /\ wrk.s \in Servers /\ wrk.ts \in Stamps /\ wrk.sel \in Stamps
      /\ wrk.rec \in Record /\ wrk.m \in Files /\ tracker \in [Servers -> Status]
  OBVIOUS
<1>a. ASSUME HideTransfer
      PROVE  tracker' \in [Servers -> Status]
  <2>1. RemoveIfSnapshot(tracker, wrk.s, wrk.ts) \in [Servers -> Status]
    BY <1>0, TrackerTypes
  <2> QED
    BY <1>0, <1>a, <2>1, TrackerTypes DEF HideTransfer
<1>b. ASSUME NEW a \in Stamps, NEW b \in Stamps, ShowTransfer(a, b)
      PROVE  tracker' \in [Servers -> Status]
  <2> DEFINE tr == UpdateIfSnapshot(tracker, wrk.s, "Transferring", a)
  <2>1. tr \in [Servers -> Status]
    BY <1>0, <1>b, TrackerTypes
  <2>2. UpdateIfSnapshot(tr, wrk.s, "Transferring", b) \in [Servers -> Status]
    BY <1>0, <1>b, <2>1, TrackerTypes
  <2> QED
    BY <1>b, <2>1, <2>2 DEF ShowTransfer
<1>c. ASSUME WorkerGivesUp
      PROVE  /\ tracker' \in [Servers -> Status] /\ failed' \subseteq Servers
             /\ wrk' \in [pc : WorkerPCs, s : Servers, ts : Stamps, sel : Stamps,
                          rec : Record, m : Files] /\ wrk'.pc = "idle"
  BY <1>0, <1>a, <1>c, ConstantTypes DEF WorkerGivesUp, NoWork
<1>d. ASSUME wrk.pc = "transfer", ColdRename(wrk.s, wrk.sel)
      PROVE  /\ cold' \in [Servers -> [Times -> Dir]] /\ wip' \in [Servers -> [Times -> Stamps]]
             /\ again' \in [Servers -> [Times -> Stamps]]
  <2>1. wrk.sel \in Times /\ "whole" \in Dir /\ now \in Stamps
    BY <1>d, TimesFacts DEF Dir
  <2>2. cold' = cold \/ cold' = [cold EXCEPT ![wrk.s][wrk.sel] = "whole"]
    BY <1>d DEF ColdRename
  <2>3. wip' = [wip EXCEPT ![wrk.s][wrk.sel] = 0]
    BY <1>d DEF ColdRename
  <2>4. /\ cold \in [Servers -> [Times -> Dir]] /\ wip \in [Servers -> [Times -> Stamps]]
        /\ again \in [Servers -> [Times -> Stamps]] /\ 0 \in Stamps
    BY TimesFacts
  <2>5. again' = again \/ again' = [again EXCEPT ![wrk.s][wrk.sel] = now]
    BY <1>d DEF ColdRename
  <2> HIDE DEF TypeInv, TypeOK, PcInv, WorkerUnchanged, disk
  <2> QED
    <3>1. [cold EXCEPT ![wrk.s][wrk.sel] = "whole"] \in [Servers -> [Times -> Dir]]
      BY <1>0, <2>1, <2>4, DirectoryUpdate
    <3>2. /\ [wip EXCEPT ![wrk.s][wrk.sel] = 0] \in [Servers -> [Times -> Stamps]]
          /\ [again EXCEPT ![wrk.s][wrk.sel] = now] \in [Servers -> [Times -> Stamps]]
      BY <1>0, <2>1, <2>4, DirectoryUpdate
    <3> QED
      BY <2>2, <2>3, <2>4, <2>5, <3>1, <3>2
<1>1. CASE WorkerTake
  <2>1. Head(queue) \in Job /\ Tail(queue) \in Seq(Job) /\ Len(Tail(queue)) = Len(queue) - 1
    BY <1>1 DEF WorkerTake
  <2>2. queue' \in Seq(Job) /\ Len(queue') <= QueueCap
    BY <1>1, <2>1, BoundsAssumption DEF WorkerTake
  <2> QED
    BY <1>1, <2>1, <2>2, ConstantTypes, TimesFacts DEF WorkerTake, NoWork, WorkerPCs, Job
<1>2. CASE WorkerSelect
  <2> DEFINE sel == Newest(Present(hot[wrk.s]))
  <2>1. sel \in Stamps /\ (sel # 0 => sel \in Times)
    BY NewestFacts, TimesFacts
  <2> HIDE DEF sel
  <2>2. \/ wrk' = NoWork /\ tracker' = RemoveIfSnapshot(tracker, wrk.s, wrk.ts)
        \/ sel # 0 /\ wrk' = [wrk EXCEPT !.pc = "begin", !.sel = sel] /\ tracker' = tracker
    BY <1>2 DEF WorkerSelect, sel
  <2>3. tracker' \in [Servers -> Status]
    <3>1. RemoveIfSnapshot(tracker, wrk.s, wrk.ts) \in [Servers -> Status]
      BY <1>0, TrackerTypes
    <3> QED
      BY <1>0, <2>2, <3>1
  <2> QED
    BY <1>2, <2>1, <2>2, <2>3, ConstantTypes DEF WorkerSelect, WorkerPCs, NoWork
<1>3. CASE WorkerBegin
  <2>1. tracker' \in [Servers -> Status]
    BY <1>0, <1>b, <1>3 DEF WorkerBegin
  <2>2. wip' \in [Servers -> [Times -> Stamps]]
    BY <1>3, TimesFacts DEF WorkerBegin
  <2> QED
    BY <1>3, <2>1, <2>2 DEF WorkerBegin, WorkerPCs
<1>4. CASE WorkerProgress
  <2>1. tracker' \in [Servers -> Status]
    BY <1>0, <1>b, <1>4 DEF WorkerProgress
  <2> QED
    BY <1>4, <2>1 DEF WorkerProgress
<1>5. CASE WorkerStored
  <2>1. /\ cold' \in [Servers -> [Times -> Dir]] /\ wip' \in [Servers -> [Times -> Stamps]]
        /\ again' \in [Servers -> [Times -> Stamps]]
    BY <1>5, <1>d DEF WorkerStored
  <2> QED
    BY <1>5, <2>1 DEF WorkerStored, WorkerPCs
<1>6. CASE WorkerFail
  <2>1. wip' \in [Servers -> [Times -> Stamps]]
    <3>1. \E m \in {0, wip[wrk.s][wrk.sel], wrk.sel} : wip' = [wip EXCEPT ![wrk.s][wrk.sel] = m]
      BY <1>6 DEF WorkerFail
    <3>2. wrk.sel \in Times /\ 0 \in Stamps /\ wip \in [Servers -> [Times -> Stamps]]
      BY <1>6, TimesFacts DEF WorkerFail
    <3> HIDE DEF TypeInv, TypeOK, PcInv, WorkerUnchanged, disk
    <3>2a. wip[wrk.s] \in [Times -> Stamps]
      BY <1>0, <3>2
    <3>2b. wip[wrk.s][wrk.sel] \in Stamps
      BY <3>2, <3>2a
    <3>3. PICK m \in Stamps : wip' = [wip EXCEPT ![wrk.s][wrk.sel] = m]
      BY <1>0, <3>1, <3>2, <3>2b
    <3>4. [wip EXCEPT ![wrk.s][wrk.sel] = m] \in [Servers -> [Times -> Stamps]]
      BY <1>0, <3>2, DirectoryUpdate
    <3> QED
      BY <3>3, <3>4
  <2> QED
    BY <1>6, <1>c, <2>1 DEF WorkerFail, WorkerGivesUp
<1>7. CASE WorkerReplyLost
  <2>1. /\ cold' \in [Servers -> [Times -> Dir]] /\ wip' \in [Servers -> [Times -> Stamps]]
        /\ again' \in [Servers -> [Times -> Stamps]]
    BY <1>7, <1>d DEF WorkerReplyLost
  <2> QED
    BY <1>7, <1>c, <2>1 DEF WorkerReplyLost, WorkerGivesUp
<1>8. CASE WorkerRecord
  <2>1. last' \in [Servers -> Record]
    BY <1>8 DEF WorkerRecord, SetOffloaded, Record
  <2> QED
    BY <1>0, <1>8, <2>1 DEF WorkerRecord, WorkerPCs
<1>9. CASE WorkerFileRead
  <2>1. OthersIn(file, wrk.s) \in Files
    BY <1>0, FileTypes
  <2> QED
    BY <1>9, <2>1 DEF WorkerFileRead, WorkerPCs
<1>10. CASE WorkerFileRename
  <2>1. file' \in Files
    BY <1>0, <1>10, FileTypes DEF WorkerFileRename
  <2> QED
    BY <1>10, <2>1, ConstantTypes DEF WorkerFileRename, WorkerPCs
<1>11. CASE WorkerPruneCold
  <2>1. /\ cold' \in [Servers -> [Times -> Dir]] /\ wip' \in [Servers -> [Times -> Stamps]]
        /\ again' \in [Servers -> [Times -> Stamps]]
    BY <1>0, <1>11, PruneTypes DEF WorkerPruneCold
  <2>2. tracker' \in [Servers -> Status]
    BY <1>a, <1>11 DEF WorkerPruneCold
  <2> QED
    BY <1>11, <2>1, <2>2, ConstantTypes DEF WorkerPruneCold, WorkerPCs, NoWork
<1>12. CASE WorkerPruneHot
  <2>1. Without(hot[wrk.s], HotDoomed(wrk.s)) \in [Times -> Dir]
    BY DEF Without, Dir
  <2> QED
    BY <1>12, <2>1, ConstantTypes DEF WorkerPruneHot, NoWork
<1> QED
  BY <1>1, <1>2, <1>3, <1>4, <1>5, <1>6, <1>7, <1>8, <1>9, <1>10, <1>11, <1>12
     DEF WorkerStep

\* So do the boot scan, the start and the crash.
LEMMA BootKeepsTypes ==
  ASSUME TypeInv,
         \/ Start \/ Crash \/ BootLoad \/ BootFileRead \/ BootFileRename \/ BootRecord
         \/ \E s \in Servers : BootList(s)
  PROVE  TypeInv'
<1> USE DEF TypeInv, TypeOK, PcInv, BootUnchanged, disk
<1>0. /\ boot.s \in Servers /\ boot.todo \subseteq Servers /\ boot.stored \in Files
      /\ boot.rec \in Record /\ boot.m \in Files
  OBVIOUS
<1>1. CASE Start
  BY <1>1, ConstantTypes DEF Start, NoBoot, BootPCs
<1>2. CASE BootLoad
  BY <1>2 DEF BootLoad, BootPCs
<1>3. ASSUME NEW s \in Servers, BootList(s) PROVE TypeInv'
  <2>1. PICK found \in ColdListed(s) :
          boot' = [boot EXCEPT !.s = s, !.rec = Reconciled(s, found),
                     !.todo = @ \ {s}, !.stored[s] = NoRecord,
                     !.pc = IF Reconciled(s, found) # boot.stored[s] THEN "read" ELSE "record"]
    BY <1>3 DEF BootList
  <2>2. Reconciled(s, found) \in Record
    <3>1. Newest(Present(hot[s])) \in Stamps /\ found \in Stamps
      BY NewestFacts, ListedFacts
    <3>2. boot.stored[s].hot \in Stamps /\ boot.stored[s].cold \in Stamps
      BY <1>0 DEF Files, Record
    <3> QED
      BY <3>1, <3>2 DEF Reconciled, Later, Record
  <2>3. [boot.stored EXCEPT ![s] = NoRecord] \in Files
    BY <1>0, ConstantTypes DEF Files
  <2> HIDE DEF Files, Record
  <2> QED
    BY <1>0, <1>3, <2>1, <2>2, <2>3 DEF BootList, BootPCs
<1>4. CASE BootFileRead
  <2>1. OthersIn(file, boot.s) \in Files
    BY <1>0, FileTypes
  <2> QED
    BY <1>4, <2>1 DEF BootFileRead, BootPCs
<1>5. CASE BootFileRename
  <2>1. file' \in Files
    BY <1>0, <1>5, FileTypes DEF BootFileRename
  <2> QED
    BY <1>5, <2>1, ConstantTypes DEF BootFileRename, BootPCs
<1>6. CASE BootRecord
  BY <1>0, <1>6, ConstantTypes DEF BootRecord, BootPCs
<1>7. CASE Crash
  <2>1. /\ hot' \in [Servers -> [Times -> Dir]] /\ cold' \in [Servers -> [Times -> Dir]]
        /\ wip' \in [Servers -> [Times -> Stamps]] /\ again' \in [Servers -> [Times -> Stamps]]
    <3>1. cyc.s \in Servers /\ wrk.s \in Servers
      OBVIOUS
    <3>2. /\ hot \in [Servers -> [Times -> Dir]] /\ cold \in [Servers -> [Times -> Dir]]
          /\ wip \in [Servers -> [Times -> Stamps]] /\ again \in [Servers -> [Times -> Stamps]]
      OBVIOUS
    <3>3. wrk.pc = "transfer" => wrk.sel \in Times /\ wrk.sel \in Stamps
      OBVIOUS
    <3>4. \/ UNCHANGED <<hot, cold, wip, again>>
          \/ /\ wrk.pc = "transfer" /\ wip' = [wip EXCEPT ![wrk.s][wrk.sel] = wrk.sel]
             /\ UNCHANGED <<hot, cold, again>>
          \/ /\ \E d \in Torn(hot[wrk.s], HotDoomed(wrk.s)) : hot' = [hot EXCEPT ![wrk.s] = d]
             /\ UNCHANGED <<cold, wip, again>>
          \/ \E p \in {cyc, wrk} : TornPrune(p.s) /\ hot' = hot
      BY <1>7 DEF Crash
    <3> HIDE DEF TypeInv, TypeOK, PcInv, BootUnchanged, disk
    <3>5. CASE UNCHANGED <<hot, cold, wip, again>>
      BY <3>2, <3>5
    <3>6. CASE /\ wrk.pc = "transfer" /\ wip' = [wip EXCEPT ![wrk.s][wrk.sel] = wrk.sel]
               /\ UNCHANGED <<hot, cold, again>>
      <4>1. [wip EXCEPT ![wrk.s][wrk.sel] = wrk.sel] \in [Servers -> [Times -> Stamps]]
        BY <3>1, <3>2, <3>3, <3>6, DirectoryUpdate
      <4> QED
        BY <3>2, <3>6, <4>1
    <3>7. CASE /\ \E d \in Torn(hot[wrk.s], HotDoomed(wrk.s)) : hot' = [hot EXCEPT ![wrk.s] = d]
               /\ UNCHANGED <<cold, wip, again>>
      <4>1. PICK d \in Torn(hot[wrk.s], HotDoomed(wrk.s)) : hot' = [hot EXCEPT ![wrk.s] = d]
        BY <3>7
      <4>2. d \in [Times -> Dir]
        BY <3>1, <3>2, TornTypes
      <4> QED
        BY <3>2, <3>7, <4>1, <4>2
    <3>8. CASE \E p \in {cyc, wrk} : TornPrune(p.s) /\ hot' = hot
      <4>1. PICK p \in {cyc, wrk} : TornPrune(p.s) /\ hot' = hot
        BY <3>8
      <4>2. p.s \in Servers
        BY <3>1
      <4> QED
        BY <3>2, <4>1, <4>2, TornPruneTypes
    <3> QED
      BY <3>4, <3>5, <3>6, <3>7, <3>8
  <2>2. /\ last' = NoFile /\ tracker' = [s \in Servers |-> NoStatus] /\ queue' = << >>
        /\ cyc' = NoCycle /\ wrk' = NoWork /\ boot' = NoBoot /\ failed' = Servers
        /\ phase' = "down" /\ UNCHANGED <<target, now, backs, file>>
    BY <1>7 DEF Crash
  <2>3. << >> \in Seq(Job) /\ Len(<< >>) <= QueueCap
    BY BoundsAssumption
  <2>4. NoFile \in [Servers -> Record]
    BY ConstantTypes DEF Files
  <2>5. NoCycle.pc = "idle" /\ NoWork.pc = "idle"
    BY DEF NoCycle, NoWork
  <2> QED
    BY <2>1, <2>2, <2>3, <2>4, <2>5, ConstantTypes
<1> QED
  BY <1>1, <1>2, <1>3, <1>4, <1>5, <1>6, <1>7

\* Types and names are right in every state, for every set of servers and targets,
\* every bound and every combination of failures.
LEMMA Types == Spec => []TypeInv
<1>1. Init => TypeInv
  BY ConstantTypes, TimesFacts, BoundsAssumption
     DEF Init, TypeInv, TypeOK, PcInv, NoCycle, NoWork, Files, NoFile, Times
<1>2. TypeInv /\ [Next]_vars => TypeInv'
  <2> SUFFICES ASSUME TypeInv, [Next]_vars PROVE TypeInv'
    OBVIOUS
  <2>1. CASE Tick \/ ClockBack
    <3>1. now' \in Times /\ backs' \in 0..MaxBacks
      <4>1. /\ now \in Times /\ backs \in 0..MaxBacks /\ MaxTime \in Nat
            /\ MaxCapture[cyc.s] \in 1..MaxTime /\ MaxBacks \in Nat
        BY BoundsAssumption DEF TypeInv, TypeOK
      <4>2. \/ /\ now < MaxCapture[cyc.s] \/ now < MaxTime
               /\ now' = now + 1 /\ backs' = backs
            \/ now > 1 /\ backs < MaxBacks /\ now' = now - 1 /\ backs' = backs + 1
        BY <2>1 DEF Tick, ClockBack
      <4> QED
        BY <4>1, <4>2 DEF Times
    <3> QED
      BY <2>1, <3>1 DEF Tick, ClockBack, TypeInv, TypeOK, PcInv, disk
  <2>2. CASE UNCHANGED vars
    BY <2>2 DEF vars, disk, TypeInv, TypeOK, PcInv
  <2> QED
    BY <2>1, <2>2, CycleKeepsTypes, WorkerKeepsTypes, BootKeepsTypes DEF Next
<1> QED
  BY <1>1, <1>2, PTL DEF Spec

\* The state keeps its types: the queue never exceeds its capacity, every job names
\* a capture, and no record, file entry or status names anything that is not one.
THEOREM TypeCorrect == Spec => []TypeOK
BY Types, PTL DEF TypeInv

-----------------------------------------------------------------------------
(***************************************************************************)
(* Control                                                                 *)
(***************************************************************************)

\* Which goroutine may be where: the worker runs only when the boot scan is over,
\* a stopped daemon has neither cycle nor worker nor queue, only tiered servers
\* reach the queue and the worker, and only direct ones are pruned by the cycle.
Control ==
    /\ phase = "boot" <=> boot.pc # "done"
    /\ phase = "down" => cyc.pc = "idle" /\ wrk.pc = "idle" /\ queue = << >>
    /\ wrk.pc # "idle" => phase = "up" /\ Tiered(wrk.s)
    /\ cyc.pc = "prune" => ~Tiered(cyc.s)
    /\ cyc.pc \in {"announce", "enqueue"} => Tiered(cyc.s)
    /\ \A i \in 1..Len(queue) : Tiered(queue[i].s)

\* The targets never change.
LEMMA TargetConstant ==
  ASSUME [Next]_vars
  PROVE  target' = target /\ \A s : Tiered(s)' = Tiered(s) /\ OnNas(s)' = OnNas(s)
<1>1. target' = target
  BY DEF Next, vars, Tick, ClockBack, Start, Crash, CycleStart, BootList, CopyProgress,
     CycleStep, WorkerProgress, WorkerStep, BootLoad, BootFileRead, BootFileRename,
     BootRecord, CycleUnchanged, WorkerUnchanged, BootUnchanged, CycleFails, WorkerGivesUp,
     CopyStart, CopyOk, CopyFail, SaveOnFail, CycleRecord, CyclePrune, CycleFileRead,
     CycleFileRename, CycleAnnounce, CycleEnqueue, WorkerTake, WorkerSelect, WorkerBegin,
     WorkerStored, WorkerFail, WorkerReplyLost, WorkerRecord, WorkerFileRead,
     WorkerFileRename, WorkerPruneCold, WorkerPruneHot
<1> QED
  BY <1>1 DEF Tiered, OnNas

\* Who changes which variable.
LEMMA Frames ==
  ASSUME [Next]_vars
  PROVE  /\ cyc' = cyc \/ CycleStep \/ Crash \/ \E s \in Servers : CycleStart(s)
         /\ wrk' = wrk \/ WorkerStep \/ Crash
         /\ \/ boot' = boot \/ Start \/ Crash \/ BootLoad \/ BootFileRead \/ BootFileRename \/ BootRecord
            \/ \E s \in Servers : BootList(s)
         /\ phase' = phase \/ Start \/ BootRecord \/ Crash
         /\ file' = file \/ CycleFileRename \/ WorkerFileRename \/ BootFileRename
         /\ last' = last \/ CycleRecord \/ WorkerRecord \/ BootRecord \/ Crash
         /\ queue' = queue \/ CycleEnqueue \/ WorkerTake \/ Crash
         /\ failed' = failed \/ CycleEnqueue \/ SaveOnFail \/ WorkerFail \/ WorkerReplyLost \/ Crash
         /\ \/ tracker' = tracker \/ Crash \/ CopyProgress \/ CopyFail \/ SaveOnFail \/ CyclePrune
            \/ CycleAnnounce \/ CycleEnqueue \/ WorkerSelect \/ WorkerBegin \/ WorkerProgress
            \/ WorkerFail \/ WorkerReplyLost \/ WorkerPruneCold
            \/ \E s \in Servers : CycleStart(s)
<1> USE DEF Next, vars, disk, Tick, ClockBack, Start, Crash, CycleStart, BootList, CopyProgress,
     CycleStep, WorkerProgress, WorkerStep, BootLoad, BootFileRead, BootFileRename,
     BootRecord, CycleUnchanged, WorkerUnchanged, BootUnchanged, CycleFails, WorkerGivesUp,
     CopyStart, CopyOk, CopyFail, SaveOnFail, CycleRecord, CyclePrune, CycleFileRead,
     CycleFileRename, CycleAnnounce, CycleEnqueue, WorkerTake, WorkerSelect, WorkerBegin,
     WorkerStored, WorkerFail, WorkerReplyLost, WorkerRecord, WorkerFileRead,
     WorkerFileRename, WorkerPruneCold, WorkerPruneHot
<1>1. cyc' = cyc \/ CycleStep \/ Crash \/ \E s \in Servers : CycleStart(s)
  OBVIOUS
<1>2. wrk' = wrk \/ WorkerStep \/ Crash
  OBVIOUS
<1>3. \/ boot' = boot \/ Start \/ Crash \/ BootLoad \/ BootFileRead \/ BootFileRename \/ BootRecord
     \/ \E s \in Servers : BootList(s)
  OBVIOUS
<1>4. phase' = phase \/ Start \/ BootRecord \/ Crash
  OBVIOUS
<1>5. file' = file \/ CycleFileRename \/ WorkerFileRename \/ BootFileRename
  OBVIOUS
<1>6. last' = last \/ CycleRecord \/ WorkerRecord \/ BootRecord \/ Crash
  OBVIOUS
<1>7. queue' = queue \/ CycleEnqueue \/ WorkerTake \/ Crash
  OBVIOUS
<1>8. failed' = failed \/ CycleEnqueue \/ SaveOnFail \/ WorkerFail \/ WorkerReplyLost \/ Crash
  OBVIOUS
<1>9. \/ tracker' = tracker \/ Crash \/ CopyProgress \/ CopyFail \/ SaveOnFail \/ CyclePrune
     \/ CycleAnnounce \/ CycleEnqueue \/ WorkerSelect \/ WorkerBegin \/ WorkerProgress
     \/ WorkerFail \/ WorkerReplyLost \/ WorkerPruneCold
     \/ \E s \in Servers : CycleStart(s)
  OBVIOUS
<1> HIDE DEF Next, vars, disk, Tick, ClockBack, Start, Crash, CycleStart, BootList, CopyProgress,
     CycleStep, WorkerProgress, WorkerStep, BootLoad, BootFileRead, BootFileRename,
     BootRecord, CycleUnchanged, WorkerUnchanged, BootUnchanged, CycleFails, WorkerGivesUp,
     CopyStart, CopyOk, CopyFail, SaveOnFail, CycleRecord, CyclePrune, CycleFileRead,
     CycleFileRename, CycleAnnounce, CycleEnqueue, WorkerTake, WorkerSelect, WorkerBegin,
     WorkerStored, WorkerFail, WorkerReplyLost, WorkerRecord, WorkerFileRead,
     WorkerFileRename, WorkerPruneCold, WorkerPruneHot
<1> QED
  BY <1>1, <1>2, <1>3, <1>4, <1>5, <1>6, <1>7, <1>8, <1>9

\* A step keeps the control invariant.
LEMMA ControlStep ==
  ASSUME TypeInv, Control, [Next]_vars
  PROVE  Control'
<1>0. target' = target /\ \A s : Tiered(s)' = Tiered(s)
  BY TargetConstant
<1> USE DEF Control
<1>1. CASE UNCHANGED <<phase, boot, cyc, wrk, queue>>
  BY <1>0, <1>1
<1>2. ASSUME NEW s \in Servers, CycleStart(s) PROVE Control'
  BY <1>0, <1>2 DEF CycleStart, CycleUnchanged, NoCycle
<1>3. CASE CopyStart
  BY <1>0, <1>3 DEF CopyStart, CycleUnchanged, TypeInv, TypeOK
<1>4. CASE CopyOk
  BY <1>0, <1>4 DEF CopyOk, CycleUnchanged, TypeInv, TypeOK
<1>5. CASE CopyFail \/ SaveOnFail
  BY <1>0, <1>5 DEF CopyFail, SaveOnFail, CycleFails, CycleUnchanged, NoCycle
<1>6. CASE CycleRecord
  BY <1>0, <1>6 DEF CycleRecord, CycleUnchanged, TypeInv, TypeOK
<1>7. CASE CyclePrune
  BY <1>0, <1>7 DEF CyclePrune, CycleUnchanged, TypeInv, TypeOK
<1>8. CASE CycleFileRead
  BY <1>0, <1>8 DEF CycleFileRead, CycleUnchanged, TypeInv, TypeOK
<1>9. CASE CycleFileRename
  BY <1>0, <1>9 DEF CycleFileRename, CycleUnchanged, TypeInv, TypeOK, NoCycle
<1>10. CASE CycleAnnounce
  BY <1>0, <1>10 DEF CycleAnnounce, CycleUnchanged, TypeInv, TypeOK
<1>11. CASE CycleEnqueue
  <2>1. Tiered(cyc.s) /\ phase # "down" /\ queue \in Seq(Job)
    BY <1>11 DEF CycleEnqueue, TypeInv, TypeOK
  <2>2. \A i \in 1..Len(queue') : Tiered(queue'[i].s)
    <3>1. CASE queue' = queue
      BY <3>1
    <3>2. CASE queue' = Append(queue, [s |-> cyc.s, ts |-> cyc.ts])
      BY <2>1, <3>2
    <3> QED
      BY <1>11, <3>1, <3>2 DEF CycleEnqueue
  <2> QED
    BY <1>0, <1>11, <2>1, <2>2 DEF CycleEnqueue, CycleUnchanged, NoCycle
<1>12. CASE WorkerTake
  <2>1. queue \in Seq(Job) /\ queue # << >> /\ queue' = Tail(queue)
    BY <1>12 DEF WorkerTake, TypeInv, TypeOK
  <2>2. Tiered(Head(queue).s)
    BY <2>1
  <2>3. \A i \in 1..Len(queue') : Tiered(queue'[i].s)
    BY <2>1
  <2> QED
    BY <1>0, <1>12, <2>2, <2>3 DEF WorkerTake, WorkerUnchanged, NoWork
<1>13. CASE WorkerSelect
  <2>1. wrk.pc = "select" /\ (wrk'.pc = "idle" \/ wrk'.s = wrk.s)
    <3>1. wrk.pc = "select" /\ wrk \in [pc : WorkerPCs, s : Servers, ts : Stamps,
                                        sel : Stamps, rec : Record, m : Files]
      BY <1>13 DEF WorkerSelect, TypeInv, TypeOK
    <3>2. CASE wrk' = NoWork
      BY <3>1, <3>2, IdleFacts
    <3>3. CASE wrk' = [wrk EXCEPT !.pc = "begin", !.sel = Newest(Present(hot[wrk.s]))]
      BY <3>1, <3>3
    <3> QED
      BY <1>13, <3>2, <3>3 DEF WorkerSelect
  <2> QED
    BY <1>0, <1>13, <2>1 DEF WorkerSelect, WorkerUnchanged
<1>14. CASE WorkerBegin \/ WorkerStored \/ WorkerRecord \/ WorkerFileRead \/ WorkerFileRename
  BY <1>0, <1>14 DEF WorkerBegin, WorkerStored, WorkerRecord, WorkerFileRead,
     WorkerFileRename, WorkerUnchanged, TypeInv, TypeOK
<1>15. CASE WorkerFail \/ WorkerReplyLost
  BY <1>0, <1>15 DEF WorkerFail, WorkerReplyLost, WorkerGivesUp, WorkerUnchanged, NoWork
<1>16. CASE WorkerPruneHot
  BY <1>0, <1>16 DEF WorkerPruneHot, WorkerUnchanged, NoWork
<1>23. CASE WorkerPruneCold
  <2>1. wrk.pc # "idle" /\ wrk'.s = wrk.s
    BY <1>23 DEF WorkerPruneCold, NoWork
  <2>2. UNCHANGED <<cyc, boot, phase, queue>>
    BY <1>23 DEF WorkerPruneCold, WorkerUnchanged
  <2> QED
    BY <1>0, <2>1, <2>2
<1>17. CASE Start
  BY <1>0, <1>17 DEF Start, BootUnchanged, NoBoot
<1>18. ASSUME NEW s \in Servers, BootList(s) PROVE Control'
  <2>1. boot'.pc \in {"read", "record"} /\ boot.pc = "list"
    BY <1>18 DEF BootList, TypeInv, TypeOK
  <2> QED
    BY <1>0, <1>18, <2>1 DEF BootList, BootUnchanged
<1>19. CASE BootLoad \/ BootFileRead \/ BootFileRename
  BY <1>0, <1>19 DEF BootLoad, BootFileRead, BootFileRename, BootUnchanged, TypeInv, TypeOK
<1>20. CASE BootRecord
  BY <1>0, <1>20 DEF BootRecord, BootUnchanged, TypeInv, TypeOK, NoBoot
<1>21. CASE Crash
  BY <1>0, <1>21 DEF Crash, NoCycle, NoWork, NoBoot
<1>22. CASE Tick \/ ClockBack \/ CopyProgress \/ WorkerProgress \/ UNCHANGED vars
  <2>1. UNCHANGED <<phase, boot, cyc, wrk, queue>>
    BY <1>22 DEF Tick, ClockBack, CopyProgress, WorkerProgress, CycleUnchanged,
       WorkerUnchanged, vars
  <2> QED
    BY <1>1, <2>1
<1> QED
  BY <1>2, <1>3, <1>4, <1>5, <1>6, <1>7, <1>8, <1>9, <1>10, <1>11, <1>12, <1>13, <1>14,
     <1>15, <1>16, <1>17, <1>18, <1>19, <1>20, <1>21, <1>22, <1>23
     DEF Next, CycleStep, WorkerStep

\* The types and the control invariant hold in every state.
LEMMA TypesAndControl == Spec => [](TypeInv /\ Control)
<1>1. Init => Control
  BY DEF Init, Control, NoBoot, NoCycle, NoWork
<1>2. TypeInv /\ Control /\ [Next]_vars => Control'
  BY ControlStep
<1> QED
  BY <1>1, <1>2, Types, PTL DEF Spec

-----------------------------------------------------------------------------
(***************************************************************************)
(* Where a step takes the cycle and the worker                             *)
(***************************************************************************)

\* The worker's place and what it holds, before and after each of its steps.
LEMMA WorkerMoves ==
  ASSUME TypeInv
  PROVE  /\ WorkerTake => /\ wrk.pc = "idle" /\ wrk'.pc = "select" /\ wrk'.s = Head(queue).s
                          /\ wrk'.ts = Head(queue).ts /\ wrk'.sel = 0
                          /\ wrk'.rec = NoRecord /\ wrk'.m = NoFile
         /\ WorkerSelect => /\ wrk.pc = "select"
                            /\ \/ wrk' = NoWork
                               \/ /\ wrk'.pc = "begin" /\ wrk'.s = wrk.s /\ wrk'.ts = wrk.ts
                                  /\ wrk'.sel = Newest(Present(hot[wrk.s]))
                                  /\ wrk'.rec = wrk.rec /\ wrk'.m = wrk.m
         /\ WorkerBegin => /\ wrk.pc = "begin" /\ wrk'.pc = "transfer" /\ wrk'.s = wrk.s
                           /\ wrk'.ts = wrk.ts /\ wrk'.sel = wrk.sel
                           /\ wrk'.rec = wrk.rec /\ wrk'.m = wrk.m
         /\ WorkerStored => /\ wrk.pc = "transfer" /\ wrk'.pc = "record" /\ wrk'.s = wrk.s
                            /\ wrk'.ts = wrk.ts /\ wrk'.sel = wrk.sel
                            /\ wrk'.rec = wrk.rec /\ wrk'.m = wrk.m
         /\ WorkerFail \/ WorkerReplyLost => wrk.pc = "transfer" /\ wrk' = NoWork
         /\ WorkerRecord => /\ wrk.pc = "record" /\ wrk'.pc = "read" /\ wrk'.s = wrk.s
                            /\ wrk'.ts = wrk.ts /\ wrk'.sel = wrk.sel
                            /\ wrk'.rec = last'[wrk.s] /\ wrk'.m = wrk.m
         /\ WorkerFileRead => /\ wrk.pc = "read" /\ wrk'.pc = "rename" /\ wrk'.s = wrk.s
                              /\ wrk'.ts = wrk.ts /\ wrk'.sel = wrk.sel
                              /\ wrk'.rec = wrk.rec /\ wrk'.m = OthersIn(file, wrk.s)
         /\ WorkerFileRename => /\ wrk.pc = "rename" /\ wrk'.pc = "pruneCold" /\ wrk'.s = wrk.s
                                /\ wrk'.ts = wrk.ts /\ wrk'.sel = wrk.sel
                                /\ wrk'.rec = NoRecord /\ wrk'.m = NoFile
         /\ WorkerPruneCold => /\ wrk.pc = "pruneCold" /\ wrk'.pc = "pruneHot" /\ wrk'.s = wrk.s
                               /\ wrk'.ts = 0 /\ wrk'.sel = 0
                               /\ wrk'.rec = NoRecord /\ wrk'.m = NoFile
         /\ WorkerPruneHot => wrk.pc = "pruneHot" /\ wrk' = NoWork
<1>0. wrk \in [pc : WorkerPCs, s : Servers, ts : Stamps, sel : Stamps, rec : Record, m : Files]
  BY DEF TypeInv, TypeOK
<1> QED
  BY <1>0 DEF WorkerTake, WorkerSelect, WorkerBegin, WorkerStored, WorkerFail, WorkerReplyLost,
     WorkerGivesUp, WorkerRecord, WorkerFileRead, WorkerFileRename, WorkerPruneCold,
     WorkerPruneHot, NoWork

\* Likewise the cycle.
LEMMA CycleMoves ==
  ASSUME TypeInv
  PROVE  /\ \A s \in Servers :
              CycleStart(s) => /\ cyc.pc = "idle" /\ cyc'.pc = "save" /\ cyc'.s = s
                               /\ cyc'.ts = 0 /\ cyc'.rec = NoRecord /\ cyc'.m = NoFile
         /\ CopyStart => /\ cyc.pc = "save" /\ cyc'.pc = "copy" /\ cyc'.s = cyc.s
                         /\ cyc'.ts = now /\ cyc'.rec = cyc.rec /\ cyc'.m = cyc.m
         /\ CopyOk => /\ cyc.pc = "copy" /\ cyc'.pc = "record" /\ cyc'.s = cyc.s
                      /\ cyc'.ts = cyc.ts /\ cyc'.rec = cyc.rec /\ cyc'.m = cyc.m
         /\ CopyFail \/ SaveOnFail => cyc.pc \in {"save", "copy"} /\ cyc' = NoCycle
         /\ CycleRecord => /\ cyc.pc = "record" /\ cyc'.s = cyc.s /\ cyc'.ts = cyc.ts
                           /\ cyc'.rec = last'[cyc.s] /\ cyc'.m = cyc.m
                           /\ cyc'.pc = IF Tiered(cyc.s) THEN "read" ELSE "prune"
         /\ CyclePrune => /\ cyc.pc = "prune" /\ cyc'.pc = "read" /\ cyc'.s = cyc.s
                          /\ cyc'.ts = cyc.ts /\ cyc'.rec = cyc.rec /\ cyc'.m = cyc.m
         /\ CycleFileRead => /\ cyc.pc = "read" /\ cyc'.pc = "rename" /\ cyc'.s = cyc.s
                             /\ cyc'.ts = cyc.ts /\ cyc'.rec = cyc.rec
                             /\ cyc'.m = OthersIn(file, cyc.s)
         /\ CycleFileRename => /\ cyc.pc = "rename"
                               /\ \/ ~Tiered(cyc.s) /\ cyc' = NoCycle
                                  \/ /\ Tiered(cyc.s) /\ cyc'.pc = "announce" /\ cyc'.s = cyc.s
                                     /\ cyc'.ts = cyc.ts
                                     /\ cyc'.rec = NoRecord /\ cyc'.m = NoFile
         /\ CycleAnnounce => /\ cyc.pc = "announce" /\ cyc'.pc = "enqueue" /\ cyc'.s = cyc.s
                             /\ cyc'.ts = cyc.ts /\ cyc'.rec = cyc.rec /\ cyc'.m = cyc.m
         /\ CycleEnqueue => cyc.pc = "enqueue" /\ cyc' = NoCycle
<1>0. cyc \in [pc : CyclePCs, s : Servers, t0 : Stamps, ts : Stamps, rec : Record, m : Files]
  BY DEF TypeInv, TypeOK
<1> QED
  BY <1>0 DEF CycleStart, CopyStart, CopyOk, CopyFail, SaveOnFail, CycleFails, CycleRecord,
     CyclePrune, CycleFileRead, CycleFileRename, CycleAnnounce, CycleEnqueue, NoCycle

\* Likewise the boot scan.
LEMMA BootMoves ==
  ASSUME TypeInv
  PROVE  /\ BootLoad => /\ boot.pc = "load" /\ boot'.pc = "list" /\ boot'.todo = Servers
                        /\ boot'.stored = file /\ boot'.s = boot.s
                        /\ boot'.rec = boot.rec /\ boot'.m = boot.m
         /\ \A s \in Servers :
              BootList(s) => /\ boot.pc = "list" /\ s \in boot.todo
                             /\ boot'.pc \in {"read", "record"} /\ boot'.s = s
                             /\ boot'.todo = boot.todo \ {s} /\ boot'.m = boot.m
                             /\ boot'.stored = [boot.stored EXCEPT ![s] = NoRecord]
                             /\ \E found \in ColdListed(s) : boot'.rec = Reconciled(s, found)
         /\ BootFileRead => /\ boot.pc = "read" /\ boot'.pc = "rename" /\ boot'.s = boot.s
                            /\ boot'.todo = boot.todo /\ boot'.stored = boot.stored
                            /\ boot'.rec = boot.rec /\ boot'.m = OthersIn(file, boot.s)
         /\ BootFileRename => /\ boot.pc = "rename" /\ boot'.pc = "record" /\ boot'.s = boot.s
                              /\ boot'.todo = boot.todo /\ boot'.stored = boot.stored
                              /\ boot'.rec = boot.rec /\ boot'.m = NoFile
         /\ BootRecord => /\ boot.pc = "record"
                          /\ \/ boot.todo = {} /\ boot' = NoBoot /\ phase' = "up"
                             \/ /\ boot'.pc = "list" /\ boot'.s = boot.s /\ phase' = phase
                                /\ boot'.todo = boot.todo /\ boot'.stored = boot.stored
                                /\ boot'.rec = boot.rec /\ boot'.m = boot.m
<1>0. boot \in [pc : BootPCs, s : Servers, todo : SUBSET Servers,
                stored : Files, rec : Record, m : Files]
  BY DEF TypeInv, TypeOK
<1>1. ASSUME NEW s \in Servers, BootList(s)
      PROVE  /\ boot.pc = "list" /\ s \in boot.todo
             /\ boot'.pc \in {"read", "record"} /\ boot'.s = s
             /\ boot'.todo = boot.todo \ {s} /\ boot'.m = boot.m
             /\ boot'.stored = [boot.stored EXCEPT ![s] = NoRecord]
             /\ \E found \in ColdListed(s) : boot'.rec = Reconciled(s, found)
  <2>1. PICK found \in ColdListed(s) :
          boot' = [boot EXCEPT !.s = s, !.rec = Reconciled(s, found),
                     !.todo = @ \ {s}, !.stored[s] = NoRecord,
                     !.pc = IF Reconciled(s, found) # boot.stored[s] THEN "read" ELSE "record"]
    BY <1>1 DEF BootList
  <2>2. boot'.rec = Reconciled(s, found)
    BY <1>0, <2>1
  <2> QED
    BY <1>0, <1>1, <2>1, <2>2 DEF BootList
<1> QED
  BY <1>0, <1>1 DEF BootLoad, BootFileRead, BootFileRename, BootRecord

-----------------------------------------------------------------------------
(***************************************************************************)
(* What a step may do to the two tiers                                     *)
(***************************************************************************)

\* d2 is d after the removal of T, which a crash may have interrupted.
Pruned(d, d2, T) ==
    \A t \in Times :
        IF t \in T
        THEN d2[t] = "none" \/ ("crash" \in Faults /\ d2[t] \in {d[t], "torn"})
        ELSE d2[t] = d[t]

\* Both ways of losing T, with and without a crash.
LEMMA PrunedFacts ==
  ASSUME NEW d \in [Times -> Dir], NEW T
  PROVE  /\ Pruned(d, Without(d, T), T)
         /\ "crash" \in Faults => \A d2 \in Torn(d, T) : Pruned(d, d2, T)
<1>1. Pruned(d, Without(d, T), T)
  BY DEF Pruned, Without
<1>2. ASSUME "crash" \in Faults, NEW d2 \in Torn(d, T)
      PROVE  Pruned(d, d2, T)
  <2>1. PICK T1 \in SUBSET T, T2 \in SUBSET T :
          d2 = Without([t \in Times |-> IF t \in T2 THEN "torn" ELSE d[t]], T1)
    BY DEF Torn
  <2> QED
    BY <1>2, <2>1 DEF Pruned, Without
<1> QED
  BY <1>1, <1>2

\* The local cold tier loses what LocalDoomed says.
LEMMA LocalColdDoomed ==
  ASSUME NEW s, ~OnNas(s), NEW E \in ColdDoomed(s)
  PROVE  Finished(E) = LocalDoomed(Present(cold[s]), PruneDays, PruneCount, now)
<1> DEFINE L == LocalDoomed(Present(cold[s]), PruneDays, PruneCount, now)
<1>1. E = {[name |-> t, mtime |-> t, wip |-> FALSE] : t \in L}
  BY DEF ColdDoomed
<1> HIDE DEF L
<1>2. {f \in E : ~f.wip} = E
  BY <1>1
<1>3. Finished(E) = {e.name : e \in E}
  BY <1>2 DEF Finished
<1>4. ASSUME NEW t \in L PROVE t \in {e.name : e \in E}
  <2> DEFINE e == [name |-> t, mtime |-> t, wip |-> FALSE]
  <2>1. e \in E /\ e.name = t
    BY <1>1
  <2> QED
    BY <2>1
<1>5. ASSUME NEW e \in E PROVE e.name \in L
  <2>1. PICK t \in L : e = [name |-> t, mtime |-> t, wip |-> FALSE]
    BY <1>1
  <2> QED
    BY <2>1
<1> QED
  BY <1>3, <1>4, <1>5 DEF L

\* The hot tier changes in two ways: the cycle adds a complete capture under a new
\* name, or the worker, which then copies nothing, prunes its server.
LEMMA HotStep ==
  ASSUME TypeInv, Control, [Next]_vars
  PROVE  \/ hot' = hot
         \/ /\ cyc.pc = "copy" /\ Tiered(cyc.s) /\ hot[cyc.s][cyc.ts] = "none"
            /\ hot' = [hot EXCEPT ![cyc.s][cyc.ts] = "whole"]
            /\ UNCHANGED <<cold, wrk, boot, last, phase, queue, backs, now>>
            /\ \/ cyc' = [cyc EXCEPT !.pc = "record", !.t0 = 0] /\ UNCHANGED failed
               \/ cyc' = NoCycle /\ failed' = failed \cup {cyc.s}
         \/ /\ wrk.pc = "pruneHot" /\ wrk' = NoWork /\ cold' = cold
            /\ \/ /\ UNCHANGED <<cyc, last, boot, phase, queue, failed, backs, now>>
                  /\ hot'[wrk.s] = Without(hot[wrk.s], HotDoomed(wrk.s))
               \/ Crash
            /\ Pruned(hot[wrk.s], hot'[wrk.s], HotDoomed(wrk.s))
            /\ \A s \in Servers : s # wrk.s => hot'[s] = hot[s]
<1>1. CASE CopyOk
  BY <1>1 DEF CopyOk, Stored, CycleUnchanged
<1>2. CASE SaveOnFail
  BY <1>2 DEF SaveOnFail, Stored, CycleUnchanged, CycleFails
<1>3. hot \in [Servers -> [Times -> Dir]] /\ wrk.s \in Servers
  BY DEF TypeInv, TypeOK
<1>4. CASE WorkerPruneHot
  <2>1. hot'[wrk.s] = Without(hot[wrk.s], HotDoomed(wrk.s))
    BY <1>3, <1>4 DEF WorkerPruneHot
  <2>2. Pruned(hot[wrk.s], hot'[wrk.s], HotDoomed(wrk.s))
    BY <1>3, <2>1, PrunedFacts
  <2> QED
    BY <1>3, <1>4, <2>1, <2>2 DEF WorkerPruneHot, WorkerUnchanged
<1>5. CASE Crash /\ hot' # hot
  <2>1. /\ "crash" \in Faults /\ wrk' = NoWork /\ wrk.pc = "pruneHot" /\ cold' = cold
        /\ \E d \in Torn(hot[wrk.s], HotDoomed(wrk.s)) : hot' = [hot EXCEPT ![wrk.s] = d]
    BY <1>5 DEF Crash, disk
  <2>2. PICK d \in Torn(hot[wrk.s], HotDoomed(wrk.s)) : hot' = [hot EXCEPT ![wrk.s] = d]
    BY <2>1
  <2>3. Pruned(hot[wrk.s], hot'[wrk.s], HotDoomed(wrk.s))
    BY <1>3, <2>1, <2>2, PrunedFacts
  <2> QED
    BY <1>3, <1>5, <2>1, <2>2, <2>3
<1>6. CASE ~(CopyOk \/ SaveOnFail \/ WorkerPruneHot \/ Crash)
  BY <1>6 DEF Next, vars, disk, Tick, ClockBack, Start, CycleStart, BootList, CopyProgress,
     CycleStep, WorkerProgress, WorkerStep, BootLoad, BootFileRead, BootFileRename,
     BootRecord, BootUnchanged, WorkerGivesUp, CopyStart, CopyFail, CycleRecord, CyclePrune,
     CycleFileRead, CycleFileRename, CycleAnnounce, CycleEnqueue, WorkerTake, WorkerSelect,
     WorkerBegin, WorkerStored, WorkerFail, WorkerReplyLost, WorkerRecord, WorkerFileRead,
     WorkerFileRename, WorkerPruneCold
<1> QED
  BY <1>1, <1>2, <1>4, <1>5, <1>6

\* Where the cold tier is local and the target tiered, it changes in two ways: the
\* worker's transfer takes its final name, or the worker prunes its server.
LEMMA ColdStep ==
  ASSUME TypeInv, Control, [Next]_vars, NEW s \in Servers, target[s] = "tiered-local"
  PROVE  \/ cold'[s] = cold[s]
         \/ /\ wrk.s = s /\ wrk.pc = "transfer" /\ cold[s][wrk.sel] = "none"
            /\ cold'[s] = [cold[s] EXCEPT ![wrk.sel] = "whole"]
            /\ cold' = [cold EXCEPT ![s] = cold'[s]] /\ WorkerStored
         \/ /\ wrk.s = s /\ wrk.pc = "pruneCold" /\ hot' = hot
            /\ \/ /\ WorkerPruneCold
                  /\ cold'[s] = Without(cold[s], LocalDoomed(Present(cold[s]), PruneDays,
                                                             PruneCount, now))
               \/ Crash
            /\ Pruned(cold[s], cold'[s], LocalDoomed(Present(cold[s]), PruneDays, PruneCount, now))
            /\ \A u \in Servers : u # s => cold'[u] = cold[u]
<1>0. /\ cold \in [Servers -> [Times -> Dir]] /\ wrk.s \in Servers /\ cyc.s \in Servers
      /\ Tiered(s) /\ ~OnNas(s)
  BY DEF TypeInv, TypeOK, Tiered, OnNas
<1>1. CASE WorkerStored
  <2>1. wrk.pc = "transfer" /\ ColdRename(wrk.s, wrk.sel)
    BY <1>1 DEF WorkerStored
  <2>2. CASE wrk.s = s
    <3>1. cold[s][wrk.sel] = "none" /\ cold' = [cold EXCEPT ![s][wrk.sel] = "whole"]
      BY <1>0, <2>1, <2>2 DEF ColdRename, Blocked
    <3> QED
      BY <1>0, <1>1, <2>1, <2>2, <3>1
  <2>3. CASE wrk.s # s
    BY <1>0, <2>1, <2>3 DEF ColdRename
  <2> QED
    BY <2>2, <2>3
<1>2. CASE WorkerReplyLost
  <2>1. OnNas(wrk.s) /\ ColdRename(wrk.s, wrk.sel)
    BY <1>2 DEF WorkerReplyLost
  <2>2. wrk.s # s
    BY <1>0, <2>1
  <2> QED
    BY <1>0, <2>1, <2>2 DEF ColdRename
<1>3. CASE WorkerPruneCold
  <2>1. PICK E \in ColdDoomed(wrk.s) :
          cold' = [cold EXCEPT ![wrk.s] = Without(cold[wrk.s], Finished(E))]
    BY <1>3 DEF WorkerPruneCold, PruneCold
  <2>2. CASE wrk.s = s
    <3>1. cold'[s] = Without(cold[s], Finished(E))
      BY <1>0, <2>1, <2>2
    <3>2. Finished(E) = LocalDoomed(Present(cold[s]), PruneDays, PruneCount, now)
      BY <1>0, <2>1, <2>2, LocalColdDoomed
    <3>3. Pruned(cold[s], cold'[s], LocalDoomed(Present(cold[s]), PruneDays, PruneCount, now))
      BY <1>0, <3>1, <3>2, PrunedFacts
    <3> QED
      BY <1>0, <1>3, <2>1, <2>2, <3>1, <3>2, <3>3 DEF WorkerPruneCold
  <2>3. CASE wrk.s # s
    BY <1>0, <2>1, <2>3
  <2> QED
    BY <2>2, <2>3
<1>4. CASE CyclePrune
  <2>1. PICK E \in ColdDoomed(cyc.s) :
          cold' = [cold EXCEPT ![cyc.s] = Without(cold[cyc.s], Finished(E))]
    BY <1>4 DEF CyclePrune, PruneCold
  <2>2. cyc.s # s
    BY <1>0, <1>4 DEF CyclePrune, Control
  <2> QED
    BY <1>0, <2>1, <2>2
<1>5. CASE CopyStart
  <2>1. cold' = cold \/ (~Tiered(cyc.s) /\ cold' = [cold EXCEPT ![cyc.s][now] = "torn"])
    BY <1>5 DEF CopyStart
  <2> QED
    BY <1>0, <2>1
<1>6. CASE CopyOk \/ SaveOnFail
  <2>1. cold' = cold \/ (~Tiered(cyc.s) /\ cold' = [cold EXCEPT ![cyc.s][cyc.ts] = "whole"])
    BY <1>6 DEF CopyOk, SaveOnFail, Stored
  <2> QED
    BY <1>0, <2>1
<1>7. CASE Crash /\ cold' # cold
  <2>1. "crash" \in Faults /\ hot' = hot /\ \E p \in {cyc, wrk} :
            /\ Pruning(p.pc)
            /\ \E E \in ColdDoomed(p.s) :
                 \E d \in Torn(cold[p.s], Finished(E)) : cold' = [cold EXCEPT ![p.s] = d]
    BY <1>7, TornPruneShape DEF Crash, disk
  <2>2. PICK p \in {cyc, wrk} :
            /\ Pruning(p.pc)
            /\ \E E \in ColdDoomed(p.s) :
                 \E d \in Torn(cold[p.s], Finished(E)) : cold' = [cold EXCEPT ![p.s] = d]
    BY <2>1
  <2>3. PICK E \in ColdDoomed(p.s) :
          \E d \in Torn(cold[p.s], Finished(E)) : cold' = [cold EXCEPT ![p.s] = d]
    BY <2>2
  <2>4. PICK d \in Torn(cold[p.s], Finished(E)) : cold' = [cold EXCEPT ![p.s] = d]
    BY <2>3
  <2>5. p.s \in Servers
    BY <1>0, <2>2
  <2>6. CASE p.s = s
    <3>1. p.pc # "prune" \/ p = wrk
      BY <1>0, <2>6 DEF Control
    <3>2. p.pc = "pruneCold" /\ p = wrk
      <4>1. wrk.pc # "prune" /\ cyc.pc # "pruneCold"
        BY DEF TypeInv, TypeOK, WorkerPCs, CyclePCs
      <4> QED
        BY <2>2, <3>1, <4>1 DEF Pruning
    <3>3. Finished(E) = LocalDoomed(Present(cold[s]), PruneDays, PruneCount, now)
      BY <1>0, <2>3, <2>6, LocalColdDoomed
    <3>4. cold'[s] = d /\ \A u \in Servers : u # s => cold'[u] = cold[u]
      BY <1>0, <2>4, <2>6
    <3>5. Pruned(cold[s], cold'[s], Finished(E))
      BY <1>0, <2>1, <2>4, <2>6, <3>4, PrunedFacts
    <3> QED
      BY <1>7, <2>1, <2>6, <3>2, <3>3, <3>4, <3>5
  <2>7. CASE p.s # s
    BY <1>0, <2>4, <2>5, <2>7
  <2> QED
    BY <2>6, <2>7
<1>8. CASE ~(\/ WorkerStored \/ WorkerReplyLost \/ WorkerPruneCold \/ CyclePrune
             \/ CopyStart \/ CopyOk \/ SaveOnFail \/ Crash)
  <2>1. cold' = cold
    BY <1>8 DEF Next, vars, disk, Tick, ClockBack, Start, CycleStart, BootList, CopyProgress,
       CycleStep, WorkerProgress, WorkerStep, BootLoad, BootFileRead, BootFileRename,
       BootRecord, BootUnchanged, CopyFail, CycleRecord, CycleFileRead, CycleFileRename,
       CycleAnnounce, CycleEnqueue, WorkerTake, WorkerSelect, WorkerBegin, WorkerFail,
       WorkerRecord, WorkerFileRead, WorkerFileRename, WorkerPruneHot
  <2> QED
    BY <2>1
<1> QED
  BY <1>1, <1>2, <1>3, <1>4, <1>5, <1>6, <1>7, <1>8

\* Nothing else touches it: the worker is at one of two places, and moves on.
LEMMA ColdKept ==
  ASSUME TypeInv, Control, [Next]_vars, NEW s \in Servers, target[s] = "tiered-local",
         \/ wrk.s # s \/ wrk'.pc = wrk.pc \/ wrk.pc \notin {"transfer", "pruneCold"}
  PROVE  cold'[s] = cold[s]
<1>1. WorkerStored => wrk'.pc = "record"
  BY DEF WorkerStored, TypeInv, TypeOK
<1>2. WorkerPruneCold => wrk'.pc = "pruneHot"
  BY DEF WorkerPruneCold, NoWork
<1>3. Crash => wrk'.pc = "idle"
  BY IdleFacts DEF Crash
<1> QED
  BY <1>1, <1>2, <1>3, ColdStep

-----------------------------------------------------------------------------
(***************************************************************************)
(* The newest snapshot of a tier before and after                          *)
(***************************************************************************)

\* A capture that appears is the newest one from now on or leaves it alone.
LEMMA NewestAdded ==
  ASSUME NEW d, NEW d2, NEW t \in Times, d2[t] # "none",
         \A u \in Times : u # t => d2[u] = d[u]
  PROVE  Newest(Present(d2)) = IF t > Newest(Present(d)) THEN t ELSE Newest(Present(d))
<1> DEFINE h == Newest(Present(d))
<1>2. h \in Stamps /\ (h # 0 => h \in Times /\ d[h] # "none")
  BY NewestFacts, TimesFacts
<1>3. \A u \in Times : d[u] # "none" => u <= h
  BY NewestFacts
<1>4. t \in Nat /\ h \in Nat /\ t # 0 /\ Times \subseteq Nat
  BY <1>2, TimesFacts
<1> HIDE DEF h
<1>5. CASE t > h
  <2>1. \A u \in Times : d2[u] # "none" => u <= t
    BY <1>3, <1>4, <1>5
  <2> QED
    BY <1>5, <2>1, NewestIs DEF h
<1>6. CASE ~(t > h)
  <2>1. h # 0 /\ h \in Times /\ d2[h] # "none"
    BY <1>2, <1>4, <1>6
  <2>2. \A u \in Times : d2[u] # "none" => u <= h
    BY <1>3, <1>4, <1>6
  <2>3. Newest(Present(d2)) = h
    BY <2>1, <2>2, NewestIs
  <2> QED
    BY <1>6, <2>3 DEF h
<1> QED
  BY <1>5, <1>6 DEF h

\* A prune makes no snapshot newer, and the newest one stays if it is spared.
LEMMA NewestPruned ==
  ASSUME NEW d \in [Times -> Dir], NEW d2, NEW T \in SUBSET Present(d), Pruned(d, d2, T)
  PROVE  /\ Newest(Present(d2)) <= Newest(Present(d))
         /\ Newest(Present(d)) \notin T => Newest(Present(d2)) = Newest(Present(d))
         /\ \A u \in Times : d2[u] # "none" => d[u] # "none"
<1> DEFINE h == Newest(Present(d))
           g == Newest(Present(d2))
<1>1. \A u \in Times : d2[u] # "none" => d[u] # "none"
  BY DEF Pruned, Present
<1>2. /\ h \in Stamps /\ (h # 0 => h \in Times /\ d[h] # "none")
      /\ g \in Stamps /\ (g # 0 => g \in Times /\ d2[g] # "none")
      /\ \A u \in Times : d[u] # "none" => u <= h
  BY NewestFacts, TimesFacts
<1>3. h \in Nat /\ g \in Nat
  BY <1>2, TimesFacts
<1> HIDE DEF h, g
<1>4. g <= h
  BY <1>1, <1>2, <1>3
<1>5. ASSUME h \notin T PROVE g = h
  <2>1. CASE h = 0
    BY <1>3, <1>4, <2>1
  <2>2. CASE h # 0
    <3>1. d2[h] # "none"
      BY <1>2, <1>5, <2>2 DEF Pruned
    <3>2. h <= g
      BY <1>2, <2>2, <3>1, NewestFacts DEF g
    <3> QED
      BY <1>3, <1>4, <3>2
  <2> QED
    BY <2>1, <2>2
<1> QED
  BY <1>1, <1>4, <1>5 DEF g, h

\* What the local retention removes is there.
LEMMA DoomedPresent ==
  ASSUME NEW S, NEW days, NEW keep, NEW n
  PROVE  LocalDoomed(S, days, keep, n) \subseteq S
BY DEF LocalDoomed, DaysDoomed, CountDoomed

-----------------------------------------------------------------------------
(***************************************************************************)
(* Names of snapshots                                                      *)
(***************************************************************************)

\* The capture of the running cycle has its name.
Named == cyc.pc \notin {"idle", "save"}

\* A prune of cold storage, local or on the NAS, removes finished snapshots that
\* are there.
LEMMA ColdDoomedPresent ==
  ASSUME NEW s, NEW E \in ColdDoomed(s)
  PROVE  Finished(E) \subseteq Present(cold[s])
<1>1. CASE ~OnNas(s)
  BY <1>1, LocalColdDoomed, DoomedPresent
<1>2. CASE OnNas(s)
  <2>1. E \subseteq NasEntries(s)
    <3>1. \A F, days, count, n : /\ NasDaysDoomed(F, days, n) \subseteq F
                                 /\ \A D \in NasCountDoomed(F, count) : D \subseteq F
      BY DEF NasDaysDoomed, NasCountDoomed, TailsAfter
    <3>2. \A d, c : \A D \in NasDoomed(s, d, c) : D \subseteq NasEntries(s)
      <4>1. SUFFICES ASSUME NEW d, NEW c, NEW D \in NasDoomed(s, d, c)
                     PROVE  D \subseteq NasEntries(s)
        OBVIOUS
      <4> DEFINE old == IF d THEN NasDaysDoomed(NasEntries(s), PruneDays, now) ELSE {}
      <4>2. old \subseteq NasEntries(s)
        BY <3>1
      <4>3. PICK more \in IF c THEN NasCountDoomed(NasEntries(s) \ old, PruneCount) ELSE {{}} :
              D = old \cup more
        BY DEF NasDoomed
      <4>4. more \subseteq NasEntries(s) \ old
        BY <3>1, <4>3
      <4> QED
        BY <4>2, <4>3, <4>4
    <3>3. \E d, c : E \in NasDoomed(s, d, c)
      BY <1>2 DEF ColdDoomed
    <3> QED
      BY <3>2, <3>3
  <2>2. ASSUME NEW e \in NasEntries(s), ~e.wip
        PROVE  e.name \in Present(cold[s])
    <3>1. CASE e \in {[name |-> t, mtime |-> MTime(s, t), wip |-> FALSE] : t \in Present(cold[s])}
      BY <3>1
    <3>2. CASE e \in {[name |-> t, mtime |-> wip[s][t], wip |-> TRUE] :
                         t \in {u \in Times : wip[s][u] # 0}}
      BY <2>2, <3>2
    <3> QED
      BY <3>1, <3>2 DEF NasEntries
  <2> QED
    BY <2>1, <2>2 DEF Finished
<1> QED
  BY <1>1, <1>2

\* A name that appears in the hot tier is the running capture's.
LEMMA HotNames ==
  ASSUME TypeInv, Control, [Next]_vars, NEW s \in Servers, NEW t \in Times,
         hot'[s][t] # "none", hot[s][t] = "none"
  PROVE  Named /\ cyc.s = s /\ cyc.ts = t
<1>1. /\ hot \in [Servers -> [Times -> Dir]] /\ cyc.s \in Servers /\ wrk.s \in Servers
      /\ Named => cyc.ts \in Times
  BY DEF TypeInv, TypeOK, PcInv, Named
<1>2. CASE hot' = [hot EXCEPT ![cyc.s][cyc.ts] = "whole"] /\ cyc.pc = "copy"
  BY <1>1, <1>2 DEF Named
<1>3. CASE /\ Pruned(hot[wrk.s], hot'[wrk.s], HotDoomed(wrk.s))
           /\ \A u \in Servers : u # wrk.s => hot'[u] = hot[u]
  <2>1. HotDoomed(wrk.s) \subseteq Present(hot[wrk.s])
    BY DoomedPresent DEF HotDoomed
  <2>2. \A u \in Times : hot'[wrk.s][u] # "none" => hot[wrk.s][u] # "none"
    BY <1>1, <1>3, <2>1, NewestPruned
  <2> QED
    BY <1>3, <2>2
<1> QED
  BY <1>2, <1>3, HotStep

\* A name that appears in cold storage is the running capture's or the one of the
\* running offload.
LEMMA ColdNames ==
  ASSUME TypeInv, Control, [Next]_vars, NEW s \in Servers, NEW t \in Times,
         cold'[s][t] # "none", cold[s][t] = "none"
  PROVE  \/ Named /\ cyc.s = s /\ cyc.ts = t
         \/ Named' /\ cyc'.s = s /\ cyc'.ts = t
         \/ wrk.s = s /\ wrk.sel = t
<1>0. /\ cold \in [Servers -> [Times -> Dir]] /\ wrk.s \in Servers /\ cyc.s \in Servers
  BY DEF TypeInv, TypeOK
<1>1. ASSUME NEW x \in Servers, NEW E \in ColdDoomed(x), NEW d,
             Pruned(cold[x], d, Finished(E)), cold' = [cold EXCEPT ![x] = d]
      PROVE  FALSE
  <2>1. Finished(E) \in SUBSET Present(cold[x])
    BY ColdDoomedPresent
  <2>2. \A u \in Times : d[u] # "none" => cold[x][u] # "none"
    BY <1>0, <1>1, <2>1, NewestPruned
  <2> QED
    BY <1>0, <1>1, <2>2
<1>2. CASE WorkerStored \/ WorkerReplyLost
  <2>1. cold' = cold \/ cold' = [cold EXCEPT ![wrk.s][wrk.sel] = "whole"]
    BY <1>2 DEF WorkerStored, WorkerReplyLost, ColdRename
  <2>2. wrk.sel \in Times
    BY <1>2 DEF WorkerStored, WorkerReplyLost, TypeInv, PcInv
  <2> QED
    BY <1>0, <2>1, <2>2
<1>3. ASSUME NEW x \in Servers, PruneCold(x) PROVE FALSE
  <2>1. PICK E \in ColdDoomed(x) :
          cold' = [cold EXCEPT ![x] = Without(cold[x], Finished(E))]
    BY <1>3 DEF PruneCold
  <2>2. Pruned(cold[x], Without(cold[x], Finished(E)), Finished(E))
    BY <1>0, PrunedFacts
  <2> QED
    BY <1>1, <2>1, <2>2
<1>4. CASE WorkerPruneCold \/ CyclePrune
  BY <1>0, <1>3, <1>4 DEF WorkerPruneCold, CyclePrune
<1>5. CASE CopyStart
  <2>1. cold' = cold \/ cold' = [cold EXCEPT ![cyc.s][now] = "torn"]
    BY <1>5 DEF CopyStart
  <2>2. now \in Times
    BY DEF TypeInv, TypeOK
  <2>3. s = cyc.s /\ t = now
    BY <1>0, <2>1, <2>2
  <2> QED
    BY <1>5, <2>3, CycleMoves DEF Named
<1>6. CASE CopyOk \/ SaveOnFail
  <2>1. /\ cyc.pc = "copy"
        /\ cold' = cold \/ cold' = [cold EXCEPT ![cyc.s][cyc.ts] = "whole"]
    BY <1>6 DEF CopyOk, SaveOnFail, Stored
  <2>2. cyc.ts \in Times
    BY <2>1 DEF TypeInv, PcInv
  <2>3. s = cyc.s /\ t = cyc.ts
    BY <1>0, <2>1, <2>2
  <2> QED
    BY <2>1, <2>3 DEF Named
<1>7. CASE Crash /\ cold' # cold
  <2>1. "crash" \in Faults /\ \E p \in {cyc, wrk} : \E E \in ColdDoomed(p.s) :
          \E d \in Torn(cold[p.s], Finished(E)) : cold' = [cold EXCEPT ![p.s] = d]
    BY <1>7, TornPruneShape DEF Crash, disk
  <2>2. PICK p \in {cyc, wrk} : \E E \in ColdDoomed(p.s) :
          \E d \in Torn(cold[p.s], Finished(E)) : cold' = [cold EXCEPT ![p.s] = d]
    BY <2>1
  <2>3. PICK E \in ColdDoomed(p.s) :
          \E d \in Torn(cold[p.s], Finished(E)) : cold' = [cold EXCEPT ![p.s] = d]
    BY <2>2
  <2>4. PICK d \in Torn(cold[p.s], Finished(E)) : cold' = [cold EXCEPT ![p.s] = d]
    BY <2>3
  <2>5. p.s \in Servers
    BY <1>0, <2>2
  <2>6. Pruned(cold[p.s], d, Finished(E))
    BY <1>0, <2>1, <2>4, <2>5, PrunedFacts
  <2> QED
    BY <1>1, <2>3, <2>4, <2>5, <2>6
<1>8. CASE ~(\/ WorkerStored \/ WorkerReplyLost \/ WorkerPruneCold \/ CyclePrune
             \/ CopyStart \/ CopyOk \/ SaveOnFail \/ Crash)
  <2>1. cold' = cold
    BY <1>8 DEF Next, vars, disk, Tick, ClockBack, Start, CycleStart, BootList, CopyProgress,
       CycleStep, WorkerProgress, WorkerStep, BootLoad, BootFileRead, BootFileRename,
       BootRecord, BootUnchanged, CopyFail, CycleRecord, CycleFileRead, CycleFileRename,
       CycleAnnounce, CycleEnqueue, WorkerTake, WorkerSelect, WorkerBegin, WorkerFail,
       WorkerRecord, WorkerFileRead, WorkerFileRename, WorkerPruneHot
  <2> QED
    BY <2>1
<1> QED
  BY <1>2, <1>4, <1>5, <1>6, <1>7, <1>8

=============================================================================
