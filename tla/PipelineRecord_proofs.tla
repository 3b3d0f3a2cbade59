----------------------- MODULE PipelineRecord_proofs ------------------------
(***************************************************************************)
(* The record of the last snapshots: it covers local cold storage, the     *)
(* offload relies on it, and it only moves forward.  And the offload jobs: *)
(* the status API is truthful about them, and none is forgotten.           *)
(***************************************************************************)
EXTENDS BackupPipeline_proofs

\* What is being offloaded is newer than the record says is stored.
Behind == wrk.pc \in {"begin", "transfer", "record"} => last[wrk.s].cold < wrk.sel

\* The record covers the local cold tier once the daemon is up, but for the moment
\* between rename and record, when the worker holds the newer name; during the boot
\* scan it covers the servers the scan has left behind, and what the scan is about
\* to record covers the one it is at.
CoversAt(s) ==
    LET c == Newest(Present(cold[s]))
    IN  /\ wrk.s = s /\ wrk.pc = "record" => wrk.sel >= c
        /\ phase = "up" /\ ~(wrk.s = s /\ wrk.pc = "record") => last[s].cold >= c
        /\ boot.pc \notin {"load", "done"} /\ s \notin boot.todo =>
             IF boot.s = s /\ boot.pc \in {"read", "rename", "record"}
             THEN boot.rec.cold >= c ELSE last[s].cold >= c

Covers == \A s \in Servers : target[s] = "tiered-local" => CoversAt(s)

\* A step keeps the offload ahead of the record.
LEMMA BehindStep ==
  ASSUME TypeInv, Control, Behind, [Next]_vars
  PROVE  Behind'
<1>0. /\ wrk \in [pc : WorkerPCs, s : Servers, ts : Stamps, sel : Stamps,
                  rec : Record, m : Files]
      /\ wrk.s \in Servers /\ cyc.s \in Servers /\ last \in [Servers -> Record]
  BY DEF TypeInv, TypeOK
<1>1. CASE UNCHANGED <<last, wrk>>
  BY <1>1 DEF Behind
<1>2. CASE wrk'.pc \notin {"begin", "transfer", "record"}
  BY <1>2 DEF Behind
<1>3. CASE WorkerSelect
  <2>1. CASE wrk' = NoWork
    BY <1>2, <2>1, IdleFacts
  <2>2. CASE wrk' # NoWork
    <3>1. /\ wrk' = [wrk EXCEPT !.pc = "begin", !.sel = Newest(Present(hot[wrk.s]))]
          /\ ~(Newest(Present(hot[wrk.s])) <= last[wrk.s].cold) /\ last' = last
      BY <1>3, <2>2 DEF WorkerSelect
    <3>2. Newest(Present(hot[wrk.s])) \in Nat /\ last[wrk.s].cold \in Nat
      BY <1>0, NewestFacts, TimesFacts DEF Record
    <3>3. wrk'.s = wrk.s /\ wrk'.sel = Newest(Present(hot[wrk.s]))
      BY <1>0, <3>1
    <3> QED
      BY <3>1, <3>2, <3>3 DEF Behind
  <2> QED
    BY <2>1, <2>2
<1>4. CASE WorkerBegin \/ WorkerStored
  <2>1. wrk.pc \in {"begin", "transfer"} /\ wrk'.s = wrk.s /\ wrk'.sel = wrk.sel /\ last' = last
    BY <1>0, <1>4 DEF WorkerBegin, WorkerStored
  <2> QED
    BY <2>1 DEF Behind
<1>5. CASE CycleRecord
  <2>1. wrk' = wrk
    BY <1>5 DEF CycleRecord, CycleUnchanged
  <2>2. ASSUME wrk.pc # "idle"
        PROVE  last'[wrk.s].cold = last[wrk.s].cold
    <3>1. Tiered(wrk.s)
      BY <2>2 DEF Control
    <3>2. CASE Tiered(cyc.s)
      <4>1. last' = [last EXCEPT ![cyc.s].hot = cyc.ts]
        BY <1>5, <3>2 DEF CycleRecord
      <4> QED
        BY <1>0, <4>1 DEF Record
    <3>3. CASE ~Tiered(cyc.s)
      <4>1. last' = [last EXCEPT ![cyc.s].cold = cyc.ts] /\ cyc.s # wrk.s
        BY <1>5, <3>1, <3>3 DEF CycleRecord, SetCold
      <4> QED
        BY <1>0, <4>1
    <3> QED
      BY <3>2, <3>3
  <2> QED
    BY <2>1, <2>2 DEF Behind
<1>6. CASE WorkerTake \/ WorkerRecord \/ WorkerFileRead \/ WorkerFileRename \/ WorkerPruneCold
  BY <1>0, <1>2, <1>6 DEF WorkerTake, WorkerRecord, WorkerFileRead, WorkerFileRename,
     WorkerPruneCold, NoWork
<1>7. CASE WorkerFail \/ WorkerReplyLost \/ WorkerPruneHot \/ Crash
  BY <1>2, <1>7, IdleFacts DEF WorkerFail, WorkerReplyLost, WorkerGivesUp, WorkerPruneHot, Crash
<1>8. CASE BootRecord
  <2>1. wrk'.pc = "idle"
    BY <1>8 DEF BootRecord, BootUnchanged, Control
  <2> QED
    BY <1>2, <2>1
<1>9. CASE ~(\/ WorkerSelect \/ WorkerBegin \/ WorkerStored \/ CycleRecord \/ WorkerTake
             \/ WorkerRecord \/ WorkerFileRead \/ WorkerFileRename \/ WorkerPruneCold
             \/ WorkerFail \/ WorkerReplyLost \/ WorkerPruneHot \/ Crash \/ BootRecord)
  <2>1. UNCHANGED <<last, wrk>>
    BY <1>9, Frames DEF WorkerStep
  <2> QED
    BY <1>1, <2>1
<1> QED
  BY <1>3, <1>4, <1>5, <1>6, <1>7, <1>8, <1>9

\* Only the offload of a capture makes the newest snapshot of local cold storage a
\* newer one.
LEMMA ColdNewest ==
  ASSUME TypeInv, Control, [Next]_vars, NEW s \in Servers, target[s] = "tiered-local"
  PROVE  \/ Newest(Present(cold'[s])) <= Newest(Present(cold[s]))
         \/ /\ wrk.s = s /\ wrk.pc = "transfer" /\ WorkerStored
            /\ cold'[s] = [cold[s] EXCEPT ![wrk.sel] = "whole"]
<1>1. cold[s] \in [Times -> Dir]
  BY DEF TypeInv, TypeOK
<1>2. CASE cold'[s] = cold[s]
  BY <1>2, NewestFacts, TimesFacts
<1>3. ASSUME Pruned(cold[s], cold'[s],
                    LocalDoomed(Present(cold[s]), PruneDays, PruneCount, now))
      PROVE  Newest(Present(cold'[s])) <= Newest(Present(cold[s]))
  BY <1>1, <1>3, NewestPruned, DoomedPresent
<1> QED
  BY <1>2, <1>3, ColdStep

\* A step keeps local cold storage covered by the record.
LEMMA CoversStep ==
  ASSUME TypeInv, Control, Behind, Covers, [Next]_vars
  PROVE  Covers'
<1> SUFFICES ASSUME NEW s \in Servers, target'[s] = "tiered-local"
             PROVE  CoversAt(s)'
  BY DEF Covers
<1> DEFINE c == Newest(Present(cold[s]))
           n == Newest(Present(cold'[s]))
<1>0. target[s] = "tiered-local" /\ Tiered(s) /\ ~OnNas(s) /\ CoversAt(s)
  BY TargetConstant DEF Covers, Tiered, OnNas
<1>1. c \in Nat /\ n \in Nat
  BY NewestFacts, TimesFacts
<1>2. /\ wrk \in [pc : WorkerPCs, s : Servers, ts : Stamps, sel : Stamps,
                  rec : Record, m : Files]
      /\ boot \in [pc : BootPCs, s : Servers, todo : SUBSET Servers,
                   stored : Files, rec : Record, m : Files]
      /\ wrk.s \in Servers /\ cyc.s \in Servers /\ last \in [Servers -> Record]
      /\ cold \in [Servers -> [Times -> Dir]]
  BY DEF TypeInv, TypeOK
<1>3. last[s].cold \in Nat /\ wrk.sel \in Nat /\ boot.rec.cold \in Nat
  BY <1>2, TimesFacts DEF Record
<1>4. n <= c \/ /\ wrk.s = s /\ wrk.pc = "transfer" /\ WorkerStored
                /\ cold'[s] = [cold[s] EXCEPT ![wrk.sel] = "whole"]
  BY <1>0, ColdNewest
<1>5. WorkerStored => wrk'.pc = "record"
  BY <1>2 DEF WorkerStored
<1>6. CoversAt(s) <=>
        /\ wrk.s = s /\ wrk.pc = "record" => wrk.sel >= c
        /\ phase = "up" /\ ~(wrk.s = s /\ wrk.pc = "record") => last[s].cold >= c
        /\ boot.pc \notin {"load", "done"} /\ s \notin boot.todo =>
             IF boot.s = s /\ boot.pc \in {"read", "rename", "record"}
             THEN boot.rec.cold >= c ELSE last[s].cold >= c
  BY DEF CoversAt
<1>7. CoversAt(s)' <=>
        /\ wrk'.s = s /\ wrk'.pc = "record" => wrk'.sel >= n
        /\ phase' = "up" /\ ~(wrk'.s = s /\ wrk'.pc = "record") => last'[s].cold >= n
        /\ boot'.pc \notin {"load", "done"} /\ s \notin boot'.todo =>
             IF boot'.s = s /\ boot'.pc \in {"read", "rename", "record"}
             THEN boot'.rec.cold >= n ELSE last'[s].cold >= n
  BY DEF CoversAt
<1> HIDE DEF c, n
<1>8. CASE /\ UNCHANGED <<last, boot, phase>>
           /\ wrk' = wrk \/ (wrk.pc # "record" /\ wrk'.pc # "record")
  <2>1. n <= c
    BY <1>4, <1>5, <1>8
  <2> QED
    BY <1>0, <1>1, <1>3, <1>6, <1>7, <1>8, <2>1
<1>9. CASE CycleRecord
  <2>1. last'[s].cold = last[s].cold
    <3>1. CASE Tiered(cyc.s)
      <4>1. last' = [last EXCEPT ![cyc.s].hot = cyc.ts]
        BY <1>9, <3>1 DEF CycleRecord
      <4> QED
        BY <1>2, <4>1 DEF Record
    <3>2. CASE ~Tiered(cyc.s)
      <4>1. last' = [last EXCEPT ![cyc.s].cold = cyc.ts] /\ cyc.s # s
        BY <1>0, <1>9, <3>2 DEF CycleRecord, SetCold
      <4> QED
        BY <1>2, <4>1
    <3> QED
      BY <3>1, <3>2
  <2>2. UNCHANGED <<wrk, boot, phase>>
    BY <1>9 DEF CycleRecord, CycleUnchanged
  <2>3. n <= c
    BY <1>4, <1>5, <2>2
  <2> QED
    BY <1>0, <1>1, <1>3, <1>6, <1>7, <2>1, <2>2, <2>3
<1>10. CASE WorkerStored
  <2>1. /\ wrk.pc = "transfer" /\ wrk'.s = wrk.s /\ wrk'.sel = wrk.sel /\ wrk'.pc = "record"
        /\ UNCHANGED <<last, boot, phase>> /\ phase = "up" /\ boot.pc = "done"
    BY <1>2, <1>10 DEF WorkerStored, WorkerUnchanged, Control, TypeInv, TypeOK
  <2>2. CASE wrk.s # s
    <3>1. n <= c
      BY <1>4, <2>2
    <3> QED
      BY <1>0, <1>1, <1>3, <1>6, <1>7, <2>1, <2>2, <3>1
  <2>3. CASE wrk.s = s
    <3>1. last[s].cold < wrk.sel /\ last[s].cold >= c
      BY <1>0, <1>6, <2>1, <2>3 DEF Behind
    <3>2. wrk.sel \in Times
      BY <2>1 DEF TypeInv, PcInv
    <3>3. ASSUME cold'[s] = [cold[s] EXCEPT ![wrk.sel] = "whole"] PROVE n = wrk.sel
      <4>1. wrk.sel > c
        BY <1>1, <1>3, <3>1
      <4>2. cold'[s][wrk.sel] # "none" /\ \A u \in Times : u # wrk.sel => cold'[s][u] = cold[s][u]
        <5>1. cold[s] \in [Times -> Dir]
          BY <1>2
        <5> QED
          BY <3>2, <3>3, <5>1
      <4> QED
        <5>1. n = IF wrk.sel > c THEN wrk.sel ELSE c
          BY <3>2, <4>2, NewestAdded DEF n, c
        <5> QED
          BY <4>1, <5>1
    <3>4. n <= wrk.sel
      BY <1>1, <1>3, <1>4, <3>1, <3>3
    <3> QED
      BY <1>1, <1>3, <1>7, <2>1, <2>3, <3>4
  <2> QED
    BY <2>2, <2>3
<1>11. CASE WorkerRecord
  <2>1. /\ wrk.pc = "record" /\ wrk'.pc = "read" /\ UNCHANGED <<boot, phase>>
        /\ phase = "up" /\ boot.pc = "done"
    BY <1>2, <1>11 DEF WorkerRecord, WorkerUnchanged, Control, TypeInv, TypeOK
  <2>2. last' = SetOffloaded(wrk.s, wrk.sel)
    BY <1>11 DEF WorkerRecord
  <2>3. last'[s].cold = IF wrk.s = s THEN wrk.sel ELSE last[s].cold
    BY <1>2, <2>2 DEF SetOffloaded, Record
  <2>4. n <= c
    BY <1>4, <2>1
  <2> QED
    BY <1>0, <1>1, <1>3, <1>6, <1>7, <2>1, <2>3, <2>4
<1>12. CASE WorkerFail \/ WorkerReplyLost
  <2>1. /\ wrk.pc # "record" /\ wrk'.pc # "record" /\ UNCHANGED <<last, boot, phase>>
    BY <1>12, IdleFacts DEF WorkerFail, WorkerReplyLost, WorkerGivesUp, WorkerUnchanged
  <2> QED
    BY <1>8, <2>1
<1>13. CASE WorkerTake \/ WorkerSelect \/ WorkerBegin
  <2>1. /\ wrk.pc # "record" /\ wrk'.pc # "record" /\ UNCHANGED <<last, boot, phase>>
    BY <1>13, WorkerMoves, IdleFacts DEF WorkerTake, WorkerSelect, WorkerBegin, WorkerUnchanged
  <2> QED
    BY <1>8, <2>1
<1>14. CASE WorkerFileRead \/ WorkerFileRename \/ WorkerPruneCold \/ WorkerPruneHot
  <2>1. /\ wrk.pc # "record" /\ wrk'.pc # "record" /\ UNCHANGED <<last, boot, phase>>
    BY <1>14, WorkerMoves, IdleFacts DEF WorkerFileRead, WorkerFileRename, WorkerPruneCold,
       WorkerPruneHot, WorkerUnchanged
  <2> QED
    BY <1>8, <2>1
<1>15. CASE Start \/ BootLoad
  <2>1. /\ boot'.pc = "load" \/ boot'.todo = Servers
        /\ phase' = "boot" /\ wrk'.pc = "idle"
    BY <1>2, <1>15 DEF Start, BootLoad, BootUnchanged, Control, NoBoot
  <2> QED
    BY <1>7, <2>1
<1>16. ASSUME NEW x \in Servers, BootList(x) PROVE CoversAt(s)'
  <2>1. PICK found \in ColdListed(x) :
          boot' = [boot EXCEPT !.s = x, !.rec = Reconciled(x, found),
                     !.todo = @ \ {x}, !.stored[x] = NoRecord,
                     !.pc = IF Reconciled(x, found) # boot.stored[x] THEN "read" ELSE "record"]
    BY <1>16 DEF BootList
  <2>2. /\ boot.pc = "list" /\ UNCHANGED <<last, phase, wrk>> /\ phase' = "boot"
        /\ wrk'.pc = "idle"
    BY <1>2, <1>16 DEF BootList, BootUnchanged, Control
  <2>3. boot'.s = x /\ boot'.todo = boot.todo \ {x} /\ boot'.rec = Reconciled(x, found)
    BY <1>2, <2>1
  <2>4. n <= c /\ cold' = cold
    BY <1>4, <1>5, <1>16, <2>2 DEF BootList, BootUnchanged, disk
  <2>5. CASE x = s
    <3>1. boot'.rec.cold = Later(boot.stored[s].cold, c)
      <4>1. found = c
        BY <1>0, <2>5, ListedFacts DEF c, OnNas
      <4> QED
        BY <2>3, <2>5, <4>1 DEF Reconciled
    <3>2. boot.stored[s].cold \in Nat
      BY <1>2, TimesFacts DEF Files, Record
    <3>3. boot'.rec.cold >= c
      BY <1>1, <3>1, <3>2 DEF Later
    <3>4. boot'.pc \in {"read", "record"}
      BY <1>2, <2>1
    <3>5. boot'.rec.cold \in Nat
      BY <1>1, <3>1, <3>2 DEF Later
    <3> QED
      BY <1>1, <1>7, <2>2, <2>3, <2>4, <2>5, <3>3, <3>4, <3>5
  <2>6. CASE x # s
    BY <1>0, <1>1, <1>3, <1>6, <1>7, <2>2, <2>3, <2>4, <2>6
  <2> QED
    BY <2>5, <2>6
<1>17. CASE BootFileRead \/ BootFileRename
  <2>1. /\ boot.pc \in {"read", "rename"} /\ boot'.pc \in {"rename", "record"}
        /\ boot'.s = boot.s /\ boot'.todo = boot.todo /\ boot'.rec = boot.rec
        /\ UNCHANGED <<last, phase, wrk>> /\ phase' = "boot" /\ wrk'.pc = "idle"
    BY <1>2, <1>17 DEF BootFileRead, BootFileRename, BootUnchanged, Control
  <2>2. n <= c
    BY <1>4, <1>5, <2>1
  <2> QED
    BY <1>0, <1>1, <1>3, <1>6, <1>7, <2>1, <2>2
<1>18. CASE BootRecord
  <2>1. /\ boot.pc = "record" /\ UNCHANGED wrk /\ wrk'.pc = "idle" /\ phase = "boot"
        /\ last' = [last EXCEPT ![boot.s] = boot.rec]
        /\ \/ boot.todo = {}
           \/ boot'.pc = "list" /\ boot'.todo = boot.todo /\ phase' = phase
    BY <1>2, <1>18 DEF BootRecord, BootUnchanged, Control
  <2>2. n <= c
    BY <1>4, <1>5, <2>1
  <2>3. ASSUME s \notin boot.todo PROVE last'[s].cold >= c /\ last'[s].cold \in Nat
    BY <1>0, <1>2, <1>3, <1>6, <2>1, <2>3
  <2>4. boot.todo = {} => boot'.pc = "done"
    BY <1>18, IdleFacts DEF BootRecord
  <2> QED
    BY <1>1, <1>7, <2>1, <2>2, <2>3, <2>4
<1>19. CASE Crash
  <2>1. phase' = "down" /\ wrk'.pc = "idle" /\ boot'.pc = "done"
    BY <1>19, IdleFacts DEF Crash
  <2> QED
    BY <1>7, <2>1
<1>20. CASE ~(\/ WorkerSelect \/ WorkerBegin \/ WorkerStored \/ CycleRecord \/ WorkerTake
              \/ WorkerRecord \/ WorkerFileRead \/ WorkerFileRename \/ WorkerPruneCold
              \/ WorkerFail \/ WorkerReplyLost \/ WorkerPruneHot \/ Crash \/ BootRecord
              \/ Start \/ BootLoad \/ BootFileRead \/ BootFileRename
              \/ \E x \in Servers : BootList(x))
  <2>1. UNCHANGED <<last, wrk, boot, phase>>
    BY <1>20, Frames DEF WorkerStep
  <2> QED
    BY <1>8, <2>1
<1> QED
  BY <1>9, <1>10, <1>11, <1>12, <1>13, <1>14, <1>15, <1>16, <1>17, <1>18, <1>19, <1>20

\* Both hold in every state.
LEMMA CoverInvariants == Spec => [](TypeInv /\ Control /\ Behind /\ Covers)
<1>1. Init => Behind /\ Covers
  BY IdleFacts DEF Init, Behind, Covers, CoversAt
<1>2. TypeInv /\ Control /\ Behind /\ Covers /\ [Next]_vars => Behind' /\ Covers'
  BY BehindStep, CoversStep
<1> QED
  BY <1>1, <1>2, TypesAndControl, PTL DEF Spec

\* Once the daemon is up its record covers the newest snapshot of a tiered local
\* server, whatever crashed, failed or was set back before, with any retention.
THEOREM RecordIsCovering == Spec => []RecordCovers
<1>1. Covers => RecordCovers
  BY DEF Covers, CoversAt, RecordCovers
<1> QED
  BY <1>1, CoverInvariants, PTL

\* An offload to local cold storage never finds its destination taken.
THEOREM OffloadIsFresh == Spec => []OffloadFresh
<1>1. TypeInv /\ Control /\ Behind /\ Covers => OffloadFresh
  <2> SUFFICES ASSUME TypeInv, Control, Behind, Covers,
                      wrk.pc \in {"begin", "transfer"}, ~OnNas(wrk.s)
               PROVE  cold[wrk.s][wrk.sel] = "none"
    BY DEF OffloadFresh
  <2> DEFINE c == Newest(Present(cold[wrk.s]))
  <2>1. wrk.s \in Servers /\ Tiered(wrk.s) /\ phase = "up" /\ wrk.sel \in Times
    BY DEF TypeInv, TypeOK, PcInv, Control
  <2>2. target[wrk.s] = "tiered-local"
    BY <2>1 DEF Tiered, OnNas
  <2>3. last[wrk.s].cold >= c /\ last[wrk.s].cold < wrk.sel
    BY <2>1, <2>2 DEF Covers, CoversAt, Behind
  <2>4. last[wrk.s].cold \in Nat /\ c \in Nat /\ wrk.sel \in Nat
    BY <2>1, NewestFacts, TimesFacts DEF TypeInv, TypeOK, Record
  <2> HIDE DEF c
  <2>5. ~(wrk.sel <= c)
    BY <2>3, <2>4
  <2> QED
    BY <2>1, <2>5, NewestFacts DEF c
<1> QED
  BY <1>1, CoverInvariants, PTL

-----------------------------------------------------------------------------
(***************************************************************************)
(* The record moves forward                                                *)
(***************************************************************************)

AtMost(r, n) == r.hot <= n /\ r.cold <= n

\* Whatever the program knows of server s, on disk, in the file, in memory or in
\* the hands of a goroutine, is no newer than n.
KnownUpTo(s, n) ==
    /\ \A t \in Times : hot[s][t] # "none" \/ cold[s][t] # "none" => t <= n
    /\ AtMost(file[s], n) /\ AtMost(last[s], n)
    /\ AtMost(cyc.m[s], n) /\ AtMost(wrk.m[s], n)
    /\ AtMost(boot.m[s], n) /\ AtMost(boot.stored[s], n)
    /\ cyc.s = s => AtMost(cyc.rec, n)
    /\ wrk.s = s => AtMost(wrk.rec, n) /\ wrk.sel <= n
    /\ boot.s = s => AtMost(boot.rec, n)

\* The time up to which captures of s can be named: the running capture's own name
\* while there is one, for the clock may have moved on since.
Limit(s) == IF Named /\ cyc.s = s THEN cyc.ts ELSE now

\* As long as the clock was never set back nothing is known of the future.
NoFuture ==
    backs = 0 =>
        /\ Named => cyc.ts <= now
        /\ \A s \in Servers : KnownUpTo(s, Limit(s))

\* The clock runs forward and is set back by a counted step only.
LEMMA ClockStep ==
  ASSUME TypeInv, [Next]_vars, backs' = 0
  PROVE  backs = 0 /\ now <= now' /\ now \in Nat /\ now' \in Nat
<1>1. now \in Nat /\ backs \in Nat
  BY TimesFacts DEF TypeInv, TypeOK
<1>2. ~ClockBack
  BY <1>1 DEF ClockBack
<1>3. CASE Tick
  BY <1>1, <1>3 DEF Tick
<1>4. CASE ~Tick
  <2>1. UNCHANGED <<now, backs>>
    BY <1>2, <1>4 DEF Next, vars, Start, CycleStart, BootList, CopyProgress,
     CycleStep, WorkerProgress, WorkerStep, BootLoad, BootFileRead, BootFileRename, Crash,
     BootRecord, CycleUnchanged, WorkerUnchanged, BootUnchanged, CycleFails, WorkerGivesUp,
     CopyStart, CopyOk, CopyFail, SaveOnFail, CycleRecord, CyclePrune, CycleFileRead,
     CycleFileRename, CycleAnnounce, CycleEnqueue, WorkerTake, WorkerSelect, WorkerBegin,
     WorkerStored, WorkerFail, WorkerReplyLost, WorkerRecord, WorkerFileRead,
     WorkerFileRename, WorkerPruneCold, WorkerPruneHot
  <2> QED
    BY <1>1, <2>1
<1> QED
  BY <1>3, <1>4

\* What a step may do to the cycle: nothing, begin, name the capture, go on with the
\* named capture, or end.
LEMMA CycleProgress ==
  ASSUME TypeInv, [Next]_vars
  PROVE  \/ cyc' = cyc
         \/ ~Named' /\ ~Named /\ cyc'.pc = "save"
         \/ ~Named /\ Named' /\ cyc'.s = cyc.s /\ cyc'.ts = now /\ CopyStart
         \/ Named /\ Named' /\ cyc'.s = cyc.s /\ cyc'.ts = cyc.ts
         \/ cyc' = NoCycle
<1>1. ASSUME NEW s \in Servers, CycleStart(s)
      PROVE  ~Named' /\ ~Named /\ cyc'.pc = "save"
  BY <1>1, CycleMoves DEF Named
<1>2. CASE CopyStart
  BY <1>2, CycleMoves DEF Named
<1>3. CASE CopyOk \/ CycleRecord \/ CyclePrune \/ CycleFileRead \/ CycleAnnounce
  BY <1>3, CycleMoves DEF Named
<1>4. CASE CopyFail \/ SaveOnFail \/ CycleEnqueue
  BY <1>4, CycleMoves
<1>5. CASE CycleFileRename
  BY <1>5, CycleMoves DEF Named
<1>6. CASE Crash
  BY <1>6 DEF Crash
<1> QED
  BY <1>1, <1>2, <1>3, <1>4, <1>5, <1>6, Frames DEF CycleStep

\* The entries of the file after writeLastSnapshotAt.
LEMMA FileEntries ==
  ASSUME NEW m \in Files, NEW s \in Servers, NEW rec, NEW u \in Servers
  PROVE  /\ FileWith(m, s, rec)[u] = IF u = s THEN rec ELSE m[u]
         /\ OthersIn(m, s)[u] = IF u = s THEN NoRecord ELSE m[u]
BY DEF FileWith, OthersIn, Files

\* The record after an offload.
LEMMA OffloadedRecord ==
  ASSUME TypeInv, wrk.pc = "record", NEW u \in Servers
  PROVE  LET new == SetOffloaded(wrk.s, wrk.sel)
         IN  /\ u # wrk.s => new[u] = last[u]
             /\ new[wrk.s].cold = wrk.sel
             /\ new[wrk.s].hot \in {wrk.sel, last[wrk.s].hot}
             /\ new[wrk.s].hot >= last[wrk.s].hot
<1>1. wrk.s \in Servers /\ last \in [Servers -> Record] /\ wrk.sel \in Nat
  BY TimesFacts DEF TypeInv, TypeOK
<1>2. last[wrk.s].hot \in Nat /\ last[wrk.s] \in Record
  BY <1>1, TimesFacts DEF Record
<1> QED
  BY <1>1, <1>2 DEF SetOffloaded, Record

\* No name appears out of nowhere: a step lets the program know of no snapshot that
\* is newer than what it knew, except the running capture.
LEMMA KnownStep ==
  ASSUME TypeInv, Control, [Next]_vars, NEW s \in Servers, NEW b \in Nat, KnownUpTo(s, b),
         Named /\ cyc.s = s => cyc.ts <= b,
         Named' /\ cyc'.s = s => cyc'.ts <= b
  PROVE  KnownUpTo(s, b)'
<1>0. /\ cyc.s \in Servers /\ wrk.s \in Servers /\ boot.s \in Servers
      /\ last \in [Servers -> Record] /\ cyc.m \in Files /\ wrk.m \in Files
      /\ boot.m \in Files /\ boot.stored \in Files /\ file \in Files /\ boot.rec \in Record
  BY DEF TypeInv, TypeOK
<1>1. /\ AtMost(NoRecord, b) /\ AtMost(NoFile[s], b) /\ 0 <= b
  BY IdleFacts DEF AtMost
<1>2. /\ AtMost(file[s], b) /\ AtMost(last[s], b)
      /\ AtMost(cyc.m[s], b) /\ AtMost(wrk.m[s], b)
      /\ AtMost(boot.m[s], b) /\ AtMost(boot.stored[s], b)
      /\ cyc.s = s => AtMost(cyc.rec, b)
      /\ wrk.s = s => AtMost(wrk.rec, b) /\ wrk.sel <= b
      /\ boot.s = s => AtMost(boot.rec, b)
  BY DEF KnownUpTo
<1>3. \A t \in Times : hot'[s][t] # "none" \/ cold'[s][t] # "none" => t <= b
  BY <1>2, HotNames, ColdNames DEF KnownUpTo
<1>4. Newest(Present(hot[s])) <= b /\ Newest(Present(cold[s])) <= b
  BY <1>1, NewestFacts, TimesFacts DEF KnownUpTo
<1>5. AtMost(file'[s], b)
  <2>1. CASE CycleFileRename
    BY <1>0, <1>2, <2>1, FileEntries DEF CycleFileRename
  <2>2. CASE WorkerFileRename
    BY <1>0, <1>2, <2>2, FileEntries DEF WorkerFileRename
  <2>3. CASE BootFileRename
    BY <1>0, <1>2, <2>3, FileEntries DEF BootFileRename
  <2> QED
    BY <1>2, <2>1, <2>2, <2>3, Frames
<1>6. AtMost(last'[s], b)
  <2>1. CASE CycleRecord
    <3>1. cyc.pc = "record" /\ (last' = [last EXCEPT ![cyc.s].hot = cyc.ts]
                                 \/ last' = [last EXCEPT ![cyc.s].cold = cyc.ts])
      BY <2>1 DEF CycleRecord, SetCold
    <3>2. cyc.s = s => cyc.ts <= b
      BY <3>1 DEF Named
    <3> QED
      BY <1>0, <1>2, <3>1, <3>2 DEF AtMost, Record
  <2>2. CASE WorkerRecord
    <3>1. wrk.pc = "record" /\ last' = SetOffloaded(wrk.s, wrk.sel)
      BY <2>2 DEF WorkerRecord
    <3> QED
      BY <1>2, <3>1, OffloadedRecord DEF AtMost
  <2>3. CASE BootRecord
    BY <1>0, <1>2, <2>3 DEF BootRecord
  <2>4. CASE Crash
    BY <1>1, <2>4 DEF Crash
  <2> QED
    BY <1>2, <2>1, <2>2, <2>3, <2>4, Frames
<1>7. AtMost(cyc'.m[s], b) /\ (cyc'.s = s => AtMost(cyc'.rec, b))
  <2>1. ASSUME NEW x \in Servers, CycleStart(x)
        PROVE  AtMost(cyc'.m[s], b) /\ (cyc'.s = s => AtMost(cyc'.rec, b))
    BY <1>1, <2>1, CycleMoves
  <2>2. CASE CopyStart \/ CopyOk \/ CyclePrune \/ CycleAnnounce
    BY <1>2, <2>2, CycleMoves
  <2>3. CASE CopyFail \/ SaveOnFail \/ CycleEnqueue
    BY <1>1, <2>3, CycleMoves, IdleFacts
  <2>4. CASE CycleRecord
    BY <1>2, <1>6, <2>4, CycleMoves
  <2>5. CASE CycleFileRead
    BY <1>0, <1>1, <1>2, <2>5, CycleMoves, FileEntries
  <2>6. CASE CycleFileRename
    BY <1>1, <2>6, CycleMoves, IdleFacts
  <2>7. CASE Crash
    BY <1>1, <2>7, IdleFacts DEF Crash
  <2> QED
    BY <1>2, <2>1, <2>2, <2>3, <2>4, <2>5, <2>6, <2>7, Frames DEF CycleStep
<1>8. AtMost(wrk'.m[s], b) /\ (wrk'.s = s => AtMost(wrk'.rec, b) /\ wrk'.sel <= b)
  <2>1. CASE WorkerTake \/ WorkerPruneCold
    BY <1>1, <2>1, WorkerMoves
  <2>2. CASE WorkerSelect
    BY <1>1, <1>2, <1>4, <2>2, WorkerMoves, IdleFacts
  <2>3. CASE WorkerBegin \/ WorkerStored
    BY <1>2, <2>3, WorkerMoves
  <2>4. CASE WorkerFail \/ WorkerReplyLost \/ WorkerPruneHot
    BY <1>1, <2>4, WorkerMoves, IdleFacts
  <2>5. CASE WorkerRecord
    BY <1>2, <1>6, <2>5, WorkerMoves
  <2>6. CASE WorkerFileRead
    BY <1>0, <1>1, <1>2, <2>6, WorkerMoves, FileEntries
  <2>7. CASE WorkerFileRename
    BY <1>1, <1>2, <2>7, WorkerMoves
  <2>8. CASE Crash
    BY <1>1, <2>8, IdleFacts DEF Crash
  <2> QED
    BY <1>2, <2>1, <2>2, <2>3, <2>4, <2>5, <2>6, <2>7, <2>8, Frames DEF WorkerStep
<1>9. /\ AtMost(boot'.m[s], b) /\ AtMost(boot'.stored[s], b)
      /\ boot'.s = s => AtMost(boot'.rec, b)
  <2>1. CASE Start
    BY <1>1, <2>1 DEF Start, NoBoot
  <2>2. CASE BootLoad
    BY <1>2, <2>2, BootMoves
  <2>3. ASSUME NEW x \in Servers, BootList(x)
        PROVE  /\ AtMost(boot'.m[s], b) /\ AtMost(boot'.stored[s], b)
               /\ boot'.s = s => AtMost(boot'.rec, b)
    <3>1. boot'.m[s] = boot.m[s] /\ (boot'.stored[s] = boot.stored[s] \/ boot'.stored[s] = NoRecord)
      BY <1>0, <2>3, BootMoves DEF Files
    <3>2. ASSUME x = s PROVE AtMost(boot'.rec, b)
      <4>1. PICK found \in ColdListed(s) : boot'.rec = Reconciled(s, found)
        BY <2>3, <3>2, BootMoves
      <4>2. found <= b /\ found \in Nat
        <5>1. found <= Newest(Present(cold[s])) /\ found \in Stamps
          BY ListedFacts
        <5>2. Newest(Present(cold[s])) \in Nat
          BY NewestFacts, TimesFacts
        <5>3. found \in Nat
          BY <5>1, TimesFacts
        <5>4. Newest(Present(cold[s])) <= b
          BY <1>4
        <5> QED
          BY <5>1, <5>2, <5>3, <5>4
      <4> QED
        BY <1>2, <1>4, <4>1, <4>2 DEF AtMost, Reconciled, Later
    <3> QED
      BY <1>1, <1>2, <2>3, <3>1, <3>2, BootMoves
  <2>4. CASE BootFileRead
    BY <1>0, <1>1, <1>2, <2>4, BootMoves, FileEntries
  <2>5. CASE BootFileRename
    BY <1>1, <1>2, <2>5, BootMoves
  <2>6. CASE BootRecord
    BY <1>1, <1>2, <2>6, BootMoves, IdleFacts
  <2>7. CASE Crash
    BY <1>1, <2>7, IdleFacts DEF Crash
  <2> QED
    BY <1>2, <2>1, <2>2, <2>3, <2>4, <2>5, <2>6, <2>7, Frames
<1> QED
  BY <1>3, <1>5, <1>6, <1>7, <1>8, <1>9 DEF KnownUpTo

\* A step keeps the future unknown.
LEMMA NoFutureStep ==
  ASSUME TypeInv, TypeInv', Control, NoFuture, [Next]_vars
  PROVE  NoFuture'
<1> SUFFICES ASSUME backs' = 0
             PROVE  /\ Named' => cyc'.ts <= now'
                    /\ \A s \in Servers : KnownUpTo(s, Limit(s))'
  BY DEF NoFuture
<1>1. backs = 0 /\ now <= now' /\ now \in Nat /\ now' \in Nat
  BY ClockStep
<1>2. /\ Named => cyc.ts <= now
      /\ \A s \in Servers : KnownUpTo(s, Limit(s))
  BY <1>1 DEF NoFuture
<1>3. cyc.ts \in Nat /\ cyc'.ts \in Nat
  BY TimesFacts DEF TypeInv, TypeOK
<1>4. NoCycle.pc = "idle"
  BY IdleFacts
<1>5. Named' => cyc'.ts <= now'
  BY <1>1, <1>2, <1>3, <1>4, CycleProgress DEF Named
<1>6. ASSUME NEW s \in Servers
      PROVE  KnownUpTo(s, Limit(s))'
  <2> DEFINE b == IF Named' /\ cyc'.s = s THEN cyc'.ts ELSE now'
             a == IF Named /\ cyc.s = s THEN cyc.ts ELSE now
  <2>1. a \in Nat /\ b \in Nat /\ a <= b
    <3>1. CASE cyc' = cyc
      BY <1>1, <1>2, <1>3, <3>1 DEF Named
    <3>2. CASE cyc' # cyc
      BY <1>1, <1>2, <1>3, <1>4, <3>2, CycleProgress DEF Named
    <3> QED
      BY <3>1, <3>2
  <2>2. KnownUpTo(s, a)
    BY <1>2 DEF Limit
  <2>3. (Named /\ cyc.s = s => cyc.ts <= b) /\ (Named' /\ cyc'.s = s => cyc'.ts <= b)
    BY <1>3, <2>1
  <2> HIDE DEF a, b
  <2>4. KnownUpTo(s, b)
    <3>1. \A n \in Nat : n <= a => n <= b
      BY <2>1
    <3>2. /\ \A r \in Record : r.hot \in Nat /\ r.cold \in Nat
          /\ file[s] \in Record /\ last[s] \in Record /\ cyc.m[s] \in Record
          /\ wrk.m[s] \in Record /\ boot.m[s] \in Record /\ boot.stored[s] \in Record
          /\ cyc.rec \in Record /\ wrk.rec \in Record /\ boot.rec \in Record
          /\ wrk.sel \in Nat /\ Times \subseteq Nat
      BY TimesFacts DEF TypeInv, TypeOK, Files, Record
    <3>3. \A r \in Record : AtMost(r, a) => AtMost(r, b)
      BY <3>1, <3>2 DEF AtMost
    <3> QED
      BY <2>2, <3>1, <3>2, <3>3 DEF KnownUpTo
  <2>5. ASSUME NEW n \in Nat, KnownUpTo(s, n),
               Named /\ cyc.s = s => cyc.ts <= n, Named' /\ cyc'.s = s => cyc'.ts <= n
        PROVE  KnownUpTo(s, n)'
    BY <2>5, KnownStep
  <2>6. PICK n \in Nat : n = b
    BY <2>1
  <2>7. KnownUpTo(s, n)'
    BY <2>3, <2>4, <2>5, <2>6
  <2>8. n = Limit(s)'
    BY <2>6 DEF b, Limit
  <2> QED
    BY <2>7, <2>8 DEF KnownUpTo
<1> QED
  BY <1>5, <1>6

\* The future is unknown in every state.
LEMMA NoFutureInvariant == Spec => []NoFuture
<1>1. Init => NoFuture
  <2> SUFFICES ASSUME Init PROVE ~Named /\ \A s \in Servers : KnownUpTo(s, Limit(s))
    BY DEF NoFuture
  <2>1. ~Named /\ \A s \in Servers : Limit(s) = 1
    BY IdleFacts DEF Init, Named, Limit
  <2>2. AtMost(NoRecord, 1)
    BY IdleFacts DEF AtMost
  <2>3. ASSUME NEW s \in Servers PROVE KnownUpTo(s, 1)
    BY <2>2, IdleFacts DEF Init, KnownUpTo, NoDirs
  <2> QED
    BY <2>1, <2>3
<1>2. TypeInv /\ TypeInv' /\ Control /\ NoFuture /\ [Next]_vars => NoFuture'
  BY NoFutureStep
<1> QED
  BY <1>1, <1>2, TypesAndControl, PTL DEF Spec

\* Once the daemon is up neither the cycle nor the worker, each with its own idea of
\* the newest snapshot, sets a record back, except for a capture named by a clock
\* that was set back.
THEOREM RecordIsMonotone == Spec => RecordMonotone
<1> DEFINE Step == phase = "up" /\ phase' = "up" =>
             \A s \in Servers : Forward(s) \/ (backs > 0 /\ cyc.pc = "record" /\ cyc.s = s)
<1>1. TypeInv /\ Control /\ Behind /\ NoFuture /\ [Next]_vars => [Step]_vars
  <2> SUFFICES ASSUME TypeInv, Control, Behind, NoFuture, [Next]_vars,
                      phase = "up", phase' = "up", NEW s \in Servers
               PROVE  Forward(s) \/ (backs > 0 /\ cyc.pc = "record" /\ cyc.s = s)
    OBVIOUS
  <2>0. /\ cyc.s \in Servers /\ wrk.s \in Servers /\ last \in [Servers -> Record]
        /\ last[s].hot \in Nat /\ last[s].cold \in Nat /\ last[s] \in Record
        /\ backs \in Nat /\ cyc.ts \in Nat /\ wrk.sel \in Nat
    <3>1. /\ cyc.s \in Servers /\ wrk.s \in Servers /\ last \in [Servers -> Record]
          /\ backs \in 0..MaxBacks /\ cyc.ts \in Stamps /\ wrk.sel \in Stamps
      BY DEF TypeInv, TypeOK
    <3>2. backs \in Nat
      BY <3>1, BoundsAssumption
    <3>3. last[s].hot \in Stamps /\ last[s].cold \in Stamps /\ last[s] \in Record
      BY <3>1 DEF Record
    <3>4. Stamps \subseteq Nat
      BY TimesFacts
    <3> QED
      BY <3>1, <3>2, <3>3, <3>4
  <2>1. CASE last'[s] = last[s]
    BY <2>0, <2>1 DEF Forward
  <2>2. CASE CycleRecord
    <3>1. /\ cyc.pc = "record"
          /\ \/ last' = [last EXCEPT ![cyc.s].hot = cyc.ts]
             \/ last' = [last EXCEPT ![cyc.s].cold = cyc.ts]
      BY <2>2 DEF CycleRecord, SetCold
    <3>2. CASE cyc.s # s
      BY <2>0, <2>1, <3>1, <3>2
    <3>3. CASE cyc.s = s /\ backs > 0
      BY <3>1, <3>3
    <3>4. CASE cyc.s = s /\ backs = 0
      <4>1. Limit(s) = cyc.ts /\ KnownUpTo(s, Limit(s))
        BY <3>1, <3>4 DEF NoFuture, Limit, Named
      <4>2. last[s].hot <= cyc.ts /\ last[s].cold <= cyc.ts
        BY <4>1 DEF KnownUpTo, AtMost
      <4>3. /\ last'[s].hot \in {cyc.ts, last[s].hot}
            /\ last'[s].cold \in {cyc.ts, last[s].cold}
        BY <2>0, <3>1, <3>4 DEF Record
      <4> QED
        BY <2>0, <4>2, <4>3 DEF Forward
    <3> QED
      BY <2>0, <3>2, <3>3, <3>4
  <2>3. CASE WorkerRecord
    <3>1. wrk.pc = "record" /\ last' = SetOffloaded(wrk.s, wrk.sel)
      BY <2>3 DEF WorkerRecord
    <3>2. CASE wrk.s # s
      BY <2>1, <3>1, <3>2, OffloadedRecord
    <3>3. CASE wrk.s = s
      <4>1. last[s].cold < wrk.sel
        BY <3>1, <3>3 DEF Behind
      <4>2. last'[s].cold = wrk.sel /\ last'[s].hot >= last[s].hot
        BY <3>1, <3>3, OffloadedRecord
      <4> QED
        BY <2>0, <4>1, <4>2 DEF Forward
    <3> QED
      BY <3>2, <3>3
  <2>4. ~BootRecord /\ ~Crash
    BY DEF BootRecord, Crash, Control
  <2> QED
    BY <2>1, <2>2, <2>3, <2>4, Frames
<1>2. RecordMonotone <=> [][Step]_vars
  BY PTL DEF RecordMonotone
<1> QED
  BY <1>1, <1>2, CoverInvariants, NoFutureInvariant, PTL DEF Spec

-----------------------------------------------------------------------------
(***************************************************************************)
(* The offload jobs: what the status API says about them, and that none is *)
(* forgotten.                                                              *)
(***************************************************************************)

\* A step of the cycle leaves the worker alone, a step of the worker the cycle.
LEMMA Apart ==
  /\ CycleStep \/ CopyProgress \/ (\E s \in Servers : CycleStart(s)) => wrk' = wrk /\ phase' = phase
  /\ WorkerStep \/ WorkerProgress => cyc' = cyc /\ phase' = phase
  /\ ~CycleEnqueue /\ CycleStep => queue' = queue
  /\ ~WorkerTake /\ WorkerStep => queue' = queue
  /\ CopyProgress => cyc' = cyc /\ queue' = queue
  /\ WorkerProgress => wrk' = wrk /\ queue' = queue
  /\ \A s \in Servers : CycleStart(s) => queue' = queue
BY DEF CycleStep, CopyProgress, CycleStart, WorkerStep, WorkerProgress, CycleUnchanged,
   WorkerUnchanged, CopyStart, CopyOk, CopyFail, SaveOnFail, CycleFails, CycleRecord,
   CyclePrune, CycleFileRead, CycleFileRename, CycleAnnounce, CycleEnqueue, WorkerTake,
   WorkerSelect, WorkerBegin, WorkerStored, WorkerFail, WorkerReplyLost, WorkerGivesUp,
   WorkerRecord, WorkerFileRead, WorkerFileRename, WorkerPruneCold, WorkerPruneHot

-----------------------------------------------------------------------------
(***************************************************************************)
(* The status API                                                          *)
(***************************************************************************)

\* The running cycle is at the capture of s, or has it and not announced it.
SavingBy(s) ==
    /\ cyc.s = s
    /\ \/ cyc.pc \in {"save", "copy", "record", "prune"}
       \/ cyc.pc \in {"read", "rename", "announce"} /\ Tiered(s)

\* The worker is at the offload of s that the entry names.
TransferringBy(s, snap) ==
    /\ wrk.s = s /\ snap \in {wrk.ts, wrk.sel}
    /\ wrk.pc \in {"transfer", "record", "read", "rename", "pruneCold"}

Queued(s, snap) == \E i \in 1..Len(queue) : queue[i].s = s /\ queue[i].ts = snap

\* The job of the capture is queued, taken, or about to be queued.
WaitingBy(s, snap) ==
    \/ cyc.s = s /\ cyc.pc = "enqueue" /\ cyc.ts = snap
    \/ Queued(s, snap)
    \/ wrk.s = s /\ wrk.ts = snap /\ wrk.pc \in {"select", "begin"}

\* Every entry of the tracker has its owner.
Owned(s) ==
    /\ tracker[s].state = "Saving" => SavingBy(s)
    /\ tracker[s].state = "Transferring" => TransferringBy(s, tracker[s].snap)
    /\ tracker[s].state = "Waiting" => WaitingBy(s, tracker[s].snap)

\* A job stays queued until the worker takes it.
LEMMA QueueStep ==
  ASSUME TypeInv, [Next]_vars, NEW s \in Servers, NEW snap
  PROVE  /\ Queued(s, snap) =>
              Queued(s, snap)' \/ Crash
                \/ (WorkerTake /\ wrk'.pc = "select" /\ wrk'.s = s /\ wrk'.ts = snap)
         /\ CycleEnqueue /\ queue' # queue /\ cyc.s = s /\ cyc.ts = snap => Queued(s, snap)'
<1>1. queue \in Seq(Job) /\ wrk.s \in Servers
  BY DEF TypeInv, TypeOK
<1>2. CASE queue' = queue
  BY <1>2 DEF Queued
<1>3. CASE CycleEnqueue /\ queue' # queue
  <2>1. queue' = Append(queue, [s |-> cyc.s, ts |-> cyc.ts])
    BY <1>3 DEF CycleEnqueue
  <2>2. Len(queue') = Len(queue) + 1 /\ Len(queue) \in Nat
    BY <1>1, <2>1
  <2>3. queue'[Len(queue')].s = cyc.s /\ queue'[Len(queue')].ts = cyc.ts
    BY <1>1, <2>1, <2>2
  <2>4. \A i \in 1..Len(queue) : i \in 1..Len(queue') /\ queue'[i] = queue[i]
    BY <1>1, <2>1, <2>2
  <2>5. Queued(s, snap) => Queued(s, snap)'
    BY <2>4 DEF Queued
  <2>6. cyc.s = s /\ cyc.ts = snap => Queued(s, snap)'
    BY <2>2, <2>3 DEF Queued
  <2> QED
    BY <2>5, <2>6
<1>4. CASE WorkerTake
  <2>1. queue # << >> /\ queue' = Tail(queue)
    BY <1>4 DEF WorkerTake
  <2>2. wrk'.pc = "select" /\ wrk'.s = queue[1].s /\ wrk'.ts = queue[1].ts
    BY <1>1, <1>4, <2>1, WorkerMoves
  <2>3. ASSUME NEW i \in 1..Len(queue), i # 1
        PROVE  i - 1 \in 1..Len(queue') /\ queue'[i - 1] = queue[i]
    BY <1>1, <2>1, <2>3
  <2>4. ~CycleEnqueue \/ queue' = queue
    <3>1. WorkerTake => cyc' = cyc
      BY DEF WorkerTake, WorkerUnchanged
    <3>2. CycleEnqueue => cyc' # cyc
      BY IdleFacts, CycleMoves
    <3> QED
      BY <1>4, <3>1, <3>2
  <2> QED
    BY <1>4, <2>2, <2>3, <2>4 DEF Queued
<1>5. CASE Crash
  <2>1. Crash /\ CycleEnqueue => FALSE
    BY DEF Crash, CycleEnqueue, CycleUnchanged
  <2> QED
    BY <1>5, <2>1
<1> QED
  BY <1>2, <1>3, <1>4, <1>5, Frames

\* The worker shows its transfer under one name or the other.
LEMMA ShowEntry ==
  ASSUME tracker \in [Servers -> Status], wrk.s \in Servers, NEW s \in Servers,
         NEW STATE a, NEW STATE b, ShowTransfer(a, b)
  PROVE  /\ \/ tracker'[s] = tracker[s]
            \/ wrk.s = s /\ tracker'[s].state = "Transferring" /\ tracker'[s].snap \in {a, b}
         /\ wrk.s = s /\ tracker'[s].snap = a => tracker'[s].state = "Transferring"
<1> DEFINE tr == UpdateIfSnapshot(tracker, wrk.s, "Transferring", a)
<1>1. /\ DOMAIN tr = Servers
      /\ s # wrk.s => tr[s] = tracker[s]
      /\ \/ tr[s] = tracker[s]
         \/ wrk.s = s /\ tr[s].state = "Transferring" /\ tr[s].snap = a
      /\ wrk.s = s /\ tr[s].snap = a => tr[s].state = "Transferring"
  BY DEF UpdateIfSnapshot, Add
<1> HIDE DEF tr
<1>2. tracker' = IF a = b THEN tr ELSE UpdateIfSnapshot(tr, wrk.s, "Transferring", b)
  BY DEF ShowTransfer, tr
<1>3. CASE a = b \/ ~(tr[wrk.s].state = "none" \/ tr[wrk.s].snap = b)
  BY <1>1, <1>2, <1>3 DEF UpdateIfSnapshot
<1>4. CASE a # b /\ (tr[wrk.s].state = "none" \/ tr[wrk.s].snap = b)
  <2>1. tracker' = [tr EXCEPT ![wrk.s] = [state |-> "Transferring", snap |-> b]]
    BY <1>2, <1>4 DEF UpdateIfSnapshot, Add
  <2>2. CASE s = wrk.s
    <3>1. tracker'[s].state = "Transferring" /\ tracker'[s].snap = b
      BY <1>1, <2>1, <2>2
    <3> QED
      BY <1>4, <2>2, <3>1
  <2>3. CASE s # wrk.s
    BY <1>1, <2>1, <2>3
  <2> QED
    BY <2>2, <2>3
<1> QED
  BY <1>3, <1>4

\* It takes the entry away under both.
LEMMA HideEntry ==
  ASSUME tracker \in [Servers -> Status], wrk.s \in Servers, NEW s \in Servers, HideTransfer
  PROVE  /\ tracker'[s] = tracker[s] \/ tracker'[s].state = "none"
         /\ wrk.s = s => tracker'[s].state = "none" \/ tracker'[s].snap \notin {wrk.ts, wrk.sel}
<1> DEFINE tr == RemoveIfSnapshot(tracker, wrk.s, wrk.ts)
<1>0. NoStatus.state = "none"
  BY IdleFacts
<1>1. /\ DOMAIN tr = Servers
      /\ tr[s] = tracker[s] \/ tr[s].state = "none"
      /\ wrk.s = s => tr[s].state = "none" \/ tr[s].snap # wrk.ts
  BY <1>0 DEF RemoveIfSnapshot, Remove
<1> HIDE DEF tr
<1>2. tracker' = RemoveIfSnapshot(tr, wrk.s, wrk.sel)
  BY DEF HideTransfer, tr
<1> QED
  BY <1>0, <1>1, <1>2 DEF RemoveIfSnapshot, Remove

\* What a step makes of the entry of s: it stays, it goes, or the owner of the new
\* one is at the place that wrote it.
LEMMA EntryStep ==
  ASSUME TypeInv, [Next]_vars, NEW s \in Servers
  PROVE  \/ tracker'[s] = tracker[s]
         \/ tracker'[s].state = "none"
         \/ tracker'[s].state = "Saving" /\ cyc'.s = s /\ cyc'.pc \in {"save", "copy"}
         \/ /\ tracker'[s].state = "Transferring" /\ wrk'.s = s /\ wrk'.pc = "transfer"
            /\ tracker'[s].snap \in {wrk'.ts, wrk'.sel}
         \/ /\ tracker'[s].state = "Waiting" /\ cyc'.s = s /\ cyc'.pc = "enqueue"
            /\ tracker'[s].snap = cyc'.ts
<1>0. /\ tracker \in [Servers -> Status] /\ cyc.s \in Servers /\ wrk.s \in Servers
  BY DEF TypeInv, TypeOK
<1>1. NoStatus.state = "none"
  BY IdleFacts
<1>2. ASSUME NEW u \in Servers, CycleStart(u)
      PROVE  \/ tracker'[s] = tracker[s]
             \/ tracker'[s].state = "Saving" /\ cyc'.s = s /\ cyc'.pc = "save"
  <2>1. tracker' = [tracker EXCEPT ![u] = [state |-> "Saving", snap |-> now]]
    BY <1>2 DEF CycleStart, Add
  <2>2. cyc'.s = u /\ cyc'.pc = "save"
    BY <1>2, CycleMoves
  <2> QED
    BY <1>0, <2>1, <2>2
<1>3. CASE CopyProgress
  <2>1. /\ cyc.pc = "copy" /\ cyc' = cyc
        /\ tracker' = [tracker EXCEPT ![cyc.s] = [state |-> "Saving", snap |-> cyc.t0]]
    BY <1>3 DEF CopyProgress, Add
  <2> QED
    BY <1>0, <2>1
<1>4. CASE CopyFail \/ SaveOnFail \/ CyclePrune
  BY <1>0, <1>1, <1>4 DEF CopyFail, SaveOnFail, CycleFails, CyclePrune, Remove
<1>5. CASE CycleAnnounce
  <2>1. tracker' = [tracker EXCEPT ![cyc.s] = [state |-> "Waiting", snap |-> cyc.ts]]
    BY <1>5 DEF CycleAnnounce, Add
  <2>2. cyc'.s = cyc.s /\ cyc'.pc = "enqueue" /\ cyc'.ts = cyc.ts
    BY <1>5, CycleMoves
  <2> QED
    BY <1>0, <2>1, <2>2
<1>6. CASE CycleEnqueue \/ WorkerSelect
  BY <1>0, <1>1, <1>6 DEF CycleEnqueue, WorkerSelect, RemoveIfSnapshot, Remove
<1>7. CASE WorkerBegin
  <2>1. ShowTransfer(wrk.ts, wrk.sel)
    BY <1>7 DEF WorkerBegin
  <2>2. \/ tracker'[s] = tracker[s]
        \/ /\ wrk.s = s /\ tracker'[s].state = "Transferring"
           /\ tracker'[s].snap \in {wrk.ts, wrk.sel}
    BY <1>0, <2>1, ShowEntry
  <2> QED
    BY <1>7, <2>2, WorkerMoves
<1>8. CASE WorkerProgress
  <2>1. ShowTransfer(wrk.sel, wrk.ts) /\ wrk' = wrk /\ wrk.pc = "transfer"
    BY <1>8 DEF WorkerProgress
  <2>2. \/ tracker'[s] = tracker[s]
        \/ /\ wrk.s = s /\ tracker'[s].state = "Transferring"
           /\ tracker'[s].snap \in {wrk.sel, wrk.ts}
    BY <1>0, <2>1, ShowEntry
  <2> QED
    BY <2>1, <2>2
<1>9. CASE WorkerFail \/ WorkerReplyLost \/ WorkerPruneCold
  <2>1. HideTransfer
    BY <1>9 DEF WorkerFail, WorkerReplyLost, WorkerGivesUp, WorkerPruneCold
  <2> QED
    BY <1>0, <2>1, HideEntry
<1>10. CASE Crash
  BY <1>1, <1>10 DEF Crash
<1> QED
  BY <1>2, <1>3, <1>4, <1>5, <1>6, <1>7, <1>8, <1>9, <1>10, Frames

\* The entries a step must not leave behind.
LEMMA EntryGone ==
  ASSUME TypeInv, NEW s \in Servers
  PROVE  /\ Crash => tracker'[s].state = "none"
         /\ cyc.s = s /\ (CopyFail \/ SaveOnFail \/ CyclePrune \/ CycleAnnounce) =>
              tracker'[s].state # "Saving"
         /\ wrk.s = s /\ (WorkerFail \/ WorkerReplyLost \/ WorkerPruneCold) =>
              tracker'[s].state = "none" \/ tracker'[s].snap \notin {wrk.ts, wrk.sel}
         /\ wrk.s = s /\ WorkerBegin /\ tracker'[s].snap = wrk.ts => tracker'[s].state # "Waiting"
         /\ wrk.s = s /\ WorkerSelect /\ wrk' = NoWork =>
              tracker'[s].state = "none" \/ tracker'[s].snap # wrk.ts
         /\ cyc.s = s /\ CycleEnqueue /\ queue' = queue =>
              tracker'[s].state = "none" \/ tracker'[s].snap # cyc.ts
<1>0. /\ tracker \in [Servers -> Status] /\ cyc.s \in Servers /\ wrk.s \in Servers
      /\ queue \in Seq(Job)
  BY DEF TypeInv, TypeOK
<1>1. NoStatus.state = "none" /\ NoWork.pc = "idle"
  BY IdleFacts
<1>2. Crash => tracker'[s].state = "none"
  BY <1>1 DEF Crash
<1>3. ASSUME cyc.s = s, CopyFail \/ SaveOnFail \/ CyclePrune \/ CycleAnnounce
      PROVE  tracker'[s].state # "Saving"
  <2>1. \/ tracker' = [tracker EXCEPT ![s] = NoStatus]
        \/ tracker' = [tracker EXCEPT ![s] = [state |-> "Waiting", snap |-> cyc.ts]]
    BY <1>3 DEF CopyFail, SaveOnFail, CycleFails, CyclePrune, CycleAnnounce, Remove, Add
  <2> QED
    BY <1>0, <1>1, <2>1
<1>4. ASSUME wrk.s = s, WorkerFail \/ WorkerReplyLost \/ WorkerPruneCold
      PROVE  tracker'[s].state = "none" \/ tracker'[s].snap \notin {wrk.ts, wrk.sel}
  <2>1. HideTransfer
    BY <1>4 DEF WorkerFail, WorkerReplyLost, WorkerGivesUp, WorkerPruneCold
  <2> QED
    BY <1>0, <1>4, <2>1, HideEntry
<1>5. ASSUME wrk.s = s, WorkerBegin, tracker'[s].snap = wrk.ts
      PROVE  tracker'[s].state # "Waiting"
  <2>1. ShowTransfer(wrk.ts, wrk.sel)
    BY <1>5 DEF WorkerBegin
  <2>2. wrk.s = s /\ tracker'[s].snap = wrk.ts => tracker'[s].state = "Transferring"
    BY <1>0, <2>1, ShowEntry
  <2> QED
    BY <1>5, <2>2
<1>6. ASSUME wrk.s = s, WorkerSelect, wrk' = NoWork
      PROVE  tracker'[s].state = "none" \/ tracker'[s].snap # wrk.ts
  <2>1. tracker' = RemoveIfSnapshot(tracker, wrk.s, wrk.ts)
    <3>1. wrk'.pc # "begin"
      BY <1>1, <1>6
    <3>2. wrk \in [pc : WorkerPCs, s : Servers, ts : Stamps, sel : Stamps, rec : Record, m : Files]
      BY DEF TypeInv, TypeOK
    <3> QED
      BY <1>6, <3>1, <3>2 DEF WorkerSelect
  <2> QED
    BY <1>0, <1>1, <1>6, <2>1 DEF RemoveIfSnapshot, Remove
<1>7. ASSUME cyc.s = s, CycleEnqueue, queue' = queue
      PROVE  tracker'[s].state = "none" \/ tracker'[s].snap # cyc.ts
  <2>1. queue # Append(queue, [s |-> cyc.s, ts |-> cyc.ts])
    BY <1>0
  <2>2. tracker' = RemoveIfSnapshot(tracker, cyc.s, cyc.ts)
    BY <1>7, <2>1 DEF CycleEnqueue
  <2> QED
    BY <1>0, <1>1, <1>7, <2>2 DEF RemoveIfSnapshot, Remove
<1> QED
  BY <1>2, <1>3, <1>4, <1>5, <1>6, <1>7

\* A step leaves every entry of the tracker with an owner.
LEMMA OwnedStep ==
  ASSUME TypeInv, Control, [Next]_vars, NEW s \in Servers, Owned(s)
  PROVE  Owned(s)'
<1>0. /\ cyc.s \in Servers /\ wrk.s \in Servers
      /\ cyc.pc \in CyclePCs /\ wrk.pc \in WorkerPCs
  BY DEF TypeInv, TypeOK
<1>1. NoCycle.pc = "idle" /\ NoWork.pc = "idle"
  BY IdleFacts
<1>2. Tiered(s)' <=> Tiered(s)
  BY TargetConstant
<1>3. PICK n : n = tracker'[s].snap
  OBVIOUS
<1> SUFFICES /\ tracker'[s].state = "Saving" => SavingBy(s)'
             /\ tracker'[s].state = "Transferring" => TransferringBy(s, n)'
             /\ tracker'[s].state = "Waiting" => WaitingBy(s, n)'
  BY <1>3 DEF Owned, TransferringBy, WaitingBy, Queued
<1>4. CASE tracker'[s] # tracker[s]
  BY <1>3, <1>4, EntryStep DEF SavingBy, TransferringBy, WaitingBy
<1>5. CASE tracker'[s] = tracker[s]
  <2>0. tracker[s].snap = n /\ Owned(s)
    BY <1>3, <1>5
  <2>1. ASSUME tracker'[s].state = "Saving" PROVE SavingBy(s)'
    <3>1. SavingBy(s) /\ ~Crash /\ (cyc.s = s => ~(CopyFail \/ SaveOnFail \/ CyclePrune \/ CycleAnnounce))
      BY <1>5, <2>0, <2>1, EntryGone DEF Owned
    <3>2. ~(CopyFail \/ SaveOnFail \/ CyclePrune \/ CycleAnnounce) /\ cyc.s = s
      BY <3>1 DEF SavingBy
    <3>3. CASE cyc' = cyc
      BY <1>2, <3>1, <3>3 DEF SavingBy
    <3>4. ASSUME NEW u \in Servers, CycleStart(u) PROVE FALSE
      BY <3>1, <3>4, CycleMoves DEF SavingBy
    <3>5. CASE CopyStart \/ CopyOk \/ CycleRecord \/ CycleFileRead \/ CycleFileRename \/ CycleEnqueue
      BY <1>2, <3>1, <3>2, <3>5, CycleMoves DEF SavingBy
    <3> QED
      BY <3>1, <3>2, <3>3, <3>4, <3>5, Frames DEF CycleStep
  <2>2. ASSUME tracker'[s].state = "Transferring" PROVE TransferringBy(s, n)'
    <3>1. TransferringBy(s, n) /\ ~Crash
      BY <1>5, <2>0, <2>2, EntryGone DEF Owned
    <3>2. wrk.s = s /\ ~(WorkerFail \/ WorkerReplyLost \/ WorkerPruneCold)
      <4>1. tracker'[s].state # "none" /\ tracker'[s].snap \in {wrk.ts, wrk.sel} /\ wrk.s = s
        BY <1>3, <2>2, <3>1 DEF TransferringBy
      <4> QED
        BY <4>1, EntryGone
    <3>3. CASE wrk' = wrk
      BY <3>1, <3>3 DEF TransferringBy
    <3>4. CASE WorkerTake \/ WorkerSelect \/ WorkerBegin \/ WorkerPruneHot
      BY <3>1, <3>4, WorkerMoves DEF TransferringBy
    <3>5. CASE WorkerStored \/ WorkerRecord \/ WorkerFileRead \/ WorkerFileRename
      BY <3>1, <3>2, <3>5, WorkerMoves DEF TransferringBy
    <3> QED
      BY <3>1, <3>2, <3>3, <3>4, <3>5, Frames DEF WorkerStep
  <2>3. ASSUME tracker'[s].state = "Waiting" PROVE WaitingBy(s, n)'
    <3>1. WaitingBy(s, n) /\ ~Crash
      BY <1>5, <2>0, <2>3, EntryGone DEF Owned
    <3>2. CASE Queued(s, n)
      BY <3>1, <3>2, QueueStep DEF WaitingBy
    <3>3. CASE cyc.s = s /\ cyc.pc = "enqueue" /\ cyc.ts = n
      <4>1. CASE cyc' = cyc
        BY <3>3, <4>1 DEF WaitingBy
      <4>2. CASE CycleEnqueue
        <5>1. queue' # queue
          BY <1>3, <2>3, <3>3, <4>2, EntryGone
        <5> QED
          BY <3>3, <4>2, <5>1, QueueStep DEF WaitingBy
      <4>3. ASSUME CycleStep \/ \E u \in Servers : CycleStart(u) PROVE CycleEnqueue
        BY <3>3, <4>3, CycleMoves DEF CycleStep
      <4> QED
        BY <3>1, <4>1, <4>2, <4>3, Frames
    <3>4. CASE wrk.s = s /\ wrk.ts = n /\ wrk.pc \in {"select", "begin"}
      <4>1. CASE wrk' = wrk
        BY <3>4, <4>1 DEF WaitingBy
      <4>2. CASE WorkerSelect
        <5>1. wrk' # NoWork
          BY <1>3, <2>3, <3>4, <4>2, EntryGone
        <5> QED
          BY <3>4, <4>2, <5>1, WorkerMoves DEF WaitingBy
      <4>3. ~WorkerBegin
        BY <1>3, <2>3, <3>4, EntryGone
      <4>4. ASSUME WorkerStep PROVE WorkerSelect \/ WorkerBegin
        BY <3>4, <4>4, WorkerMoves DEF WorkerStep
      <4> QED
        BY <3>1, <4>1, <4>2, <4>3, <4>4, Frames
    <3> QED
      BY <3>1, <3>2, <3>3, <3>4 DEF WaitingBy
  <2> QED
    BY <2>1, <2>2, <2>3
<1> QED
  BY <1>4, <1>5

\* The status API tells the truth: each entry of the tracker has the owner its state
\* says, whatever overtakes what.
THEOREM StatusIsTruthful == Spec => []StatusTruthful
<1> DEFINE Inv == \A s \in Servers : Owned(s)
<1>1. Init => Inv
  BY IdleFacts DEF Init, Owned
<1>2. TypeInv /\ Control /\ Inv /\ [Next]_vars => Inv'
  BY OwnedStep
<1>3. TypeInv /\ Inv => StatusTruthful
  <2> SUFFICES ASSUME TypeInv, Inv, NEW s \in Servers
               PROVE  /\ tracker[s].state = "Saving" => cyc.s = s /\ cyc.pc # "idle"
                      /\ tracker[s].state = "Transferring" => wrk.s = s /\ wrk.pc # "idle"
                      /\ tracker[s].state = "Waiting" =>
                           \/ cyc.s = s /\ cyc.pc = "enqueue"
                           \/ [s |-> s, ts |-> tracker[s].snap] \in {queue[i] : i \in 1..Len(queue)}
                           \/ /\ wrk.s = s /\ wrk.ts = tracker[s].snap
                              /\ wrk.pc \in {"select", "begin"}
    BY DEF StatusTruthful
  <2>1. Owned(s)
    OBVIOUS
  <2>2. Queued(s, tracker[s].snap) =>
          [s |-> s, ts |-> tracker[s].snap] \in {queue[i] : i \in 1..Len(queue)}
    <3>1. \A i \in 1..Len(queue) : queue[i] = [s |-> queue[i].s, ts |-> queue[i].ts]
      <4>1. \A i \in 1..Len(queue) : queue[i] \in Job
        BY DEF TypeInv, TypeOK
      <4> QED
        BY <4>1 DEF Job
    <3> QED
      BY <3>1 DEF Queued
  <2> QED
    BY <2>1, <2>2 DEF Owned, SavingBy, TransferringBy, WaitingBy
<1> QED
  BY <1>1, <1>2, <1>3, TypesAndControl, PTL DEF Spec

-----------------------------------------------------------------------------
(***************************************************************************)
(* No capture is forgotten                                                 *)
(***************************************************************************)

\* Someone will take care of the capture h of s, the newest one.
InHand(s, h) ==
    \/ cyc.s = s /\ cyc.pc \in {"record", "read", "rename", "announce", "enqueue"}
    \/ JobPending(s)
    \/ wrk.s = s /\ wrk.pc \in {"begin", "transfer", "record"} /\ wrk.sel = h

\* Before the daemon is up the record in memory says nothing yet.
NotForgotten(s) ==
    LET h == Newest(Present(hot[s]))
    IN  Tiered(s) /\ s \notin failed /\ h # 0 /\ (phase = "up" => h > last[s].cold) => InHand(s, h)

\* Of a tiered server the cold record changes when the worker has stored a capture,
\* at boot and in a crash.
LEMMA ColdRecordStep ==
  ASSUME TypeInv, [Next]_vars, NEW s \in Servers, Tiered(s)
  PROVE  \/ last'[s].cold = last[s].cold
         \/ /\ WorkerRecord /\ wrk.s = s /\ wrk.pc = "record" /\ last'[s].cold = wrk.sel
            /\ wrk'.sel = wrk.sel
         \/ BootRecord \/ Crash
<1>1. /\ cyc.s \in Servers /\ wrk.s \in Servers /\ last \in [Servers -> Record]
  BY DEF TypeInv, TypeOK
<1>2. CASE CycleRecord
  BY <1>1, <1>2 DEF CycleRecord, SetCold, Record
<1>3. CASE WorkerRecord
  <2>1. wrk.pc = "record" /\ last' = SetOffloaded(wrk.s, wrk.sel) /\ wrk'.sel = wrk.sel
    BY <1>3, WorkerMoves DEF WorkerRecord
  <2> QED
    BY <1>1, <1>3, <2>1 DEF SetOffloaded, Record
<1> QED
  BY <1>2, <1>3, Frames

\* A pending job stays pending until the worker takes it and selects; a step that
\* loses it says so.
LEMMA PendingStep ==
  ASSUME TypeInv, [Next]_vars, NEW s \in Servers, JobPending(s), ~Crash
  PROVE  JobPending(s)' \/ (WorkerSelect /\ wrk.s = s)
<1>1. CASE \E i \in 1..Len(queue) : queue[i].s = s
  <2>1. PICK i \in 1..Len(queue) : queue[i].s = s
    BY <1>1
  <2>2. PICK n : n = queue[i].ts
    OBVIOUS
  <2>3. Queued(s, n)
    BY <2>1, <2>2 DEF Queued
  <2>4. \/ Queued(s, n)' \/ (wrk'.pc = "select" /\ wrk'.s = s)
    BY <2>3, QueueStep
  <2> QED
    BY <2>4 DEF Queued, JobPending
<1>2. CASE wrk.s = s /\ wrk.pc = "select"
  <2>1. CASE wrk' = wrk
    BY <1>2, <2>1 DEF JobPending
  <2>2. CASE WorkerStep
    BY <1>2, <2>2, WorkerMoves DEF WorkerStep
  <2> QED
    BY <1>2, <2>1, <2>2, Frames
<1> QED
  BY <1>1, <1>2 DEF JobPending

\* A failure is forgotten only when a new job is queued.
LEMMA FailedStep ==
  ASSUME TypeInv, [Next]_vars, NEW s \in Servers, s \in failed, s \notin failed'
  PROVE  JobPending(s)'
<1>1. CycleEnqueue
  BY Frames DEF SaveOnFail, WorkerFail, WorkerReplyLost, WorkerGivesUp, Crash
<1>2. queue' = Append(queue, [s |-> cyc.s, ts |-> cyc.ts]) /\ cyc.s = s
  BY <1>1 DEF CycleEnqueue
<1>3. queue \in Seq(Job)
  BY DEF TypeInv, TypeOK
<1>4. queue' # queue
  BY <1>2, <1>3
<1>5. PICK n : n = cyc.ts
  OBVIOUS
<1>6. Queued(s, n)'
  BY <1>1, <1>2, <1>4, <1>5, QueueStep
<1> QED
  BY <1>6 DEF Queued, JobPending

\* A step forgets no capture.
LEMMA NotForgottenStep ==
  ASSUME TypeInv, TypeInv', Control, Behind, [Next]_vars, NEW s \in Servers, NotForgotten(s)
  PROVE  NotForgotten(s)'
<1> DEFINE h == Newest(Present(hot[s]))
           g == Newest(Present(hot'[s]))
<1>0. /\ cyc.s \in Servers /\ wrk.s \in Servers /\ last[s].cold \in Nat /\ last'[s].cold \in Nat
      /\ wrk.sel \in Nat
  <2>1. last[s] \in Record /\ last'[s] \in Record /\ wrk.sel \in Stamps
    BY DEF TypeInv, TypeOK
  <2> QED
    BY <2>1, TimesFacts DEF TypeInv, TypeOK, Record
<1>1. NoCycle.pc = "idle" /\ NoWork.pc = "idle"
  BY IdleFacts
<1>2. PICK k : k = g
  OBVIOUS
<1> SUFFICES ASSUME Tiered(s)', s \notin failed', k # 0, phase' = "up" => k > last'[s].cold
             PROVE  InHand(s, k)'
  BY <1>2 DEF NotForgotten, InHand, JobPending
<1>3. Tiered(s)
  BY TargetConstant
<1>4. ~Crash
  BY DEF Crash
<1>5. g \in Nat /\ h \in Nat
  BY NewestFacts, TimesFacts
<1>6. CASE s \in failed
  BY <1>6, FailedStep DEF InHand
<1>7. CASE s \notin failed
  <2>1. CASE /\ cyc.pc = "copy" /\ cyc.s = s
             /\ \/ cyc' = [cyc EXCEPT !.pc = "record", !.t0 = 0]
                \/ cyc' = NoCycle /\ failed' = failed \cup {cyc.s}
    BY <2>1 DEF InHand, TypeInv, TypeOK
  <2>2. CASE g = h \/ (wrk.pc = "pruneHot" /\ wrk' = NoWork /\ g <= h)
    <3>1. phase = "up" => h > last[s].cold
      <4> SUFFICES ASSUME phase = "up" PROVE h > last[s].cold
        OBVIOUS
      <4>1. ~BootRecord
        BY DEF BootRecord, Control
      <4>2. phase' = "up"
        BY <1>4, <4>1, Frames DEF Start
      <4>3. k > last'[s].cold /\ k <= h /\ k \in Nat
        BY <1>2, <1>5, <2>2, <4>2
      <4>4. last'[s].cold >= last[s].cold
        <5>1. CASE last'[s].cold = last[s].cold
          BY <1>0, <5>1
        <5>2. CASE wrk.s = s /\ wrk.pc = "record" /\ last'[s].cold = wrk.sel
          BY <1>0, <5>2 DEF Behind
        <5> QED
          BY <1>3, <1>4, <4>1, <5>1, <5>2, ColdRecordStep
      <4> QED
        BY <1>0, <1>5, <4>3, <4>4
    <3>2. h # 0
      BY <1>2, <1>5, <2>2
    <3>3. InHand(s, h)
      BY <1>3, <1>7, <3>1, <3>2 DEF NotForgotten
    <3>4. CASE cyc.s = s /\ cyc.pc \in {"record", "read", "rename", "announce", "enqueue"}
      <4>1. CASE cyc' = cyc
        BY <3>4, <4>1 DEF InHand
      <4>2. CASE CycleEnqueue
        <5>1. cyc.pc = "enqueue" /\ wrk' = wrk /\ queue \in Seq(Job)
          BY <4>2 DEF CycleEnqueue, CycleUnchanged, TypeInv, TypeOK
        <5>2. PICK n : n = cyc.ts
          OBVIOUS
        <5>3. CASE queue' # queue
          <6>1. Queued(s, n)'
            BY <3>4, <4>2, <5>2, <5>3, QueueStep
          <6> QED
            BY <6>1 DEF Queued, JobPending, InHand
        <5>4. CASE queue' = queue
          <6>1. queue # Append(queue, [s |-> cyc.s, ts |-> cyc.ts])
            BY <5>1
          <6>2. JobPending(s)
            BY <3>4, <4>2, <5>4, <6>1 DEF CycleEnqueue
          <6> QED
            BY <5>1, <5>4, <6>2 DEF JobPending, InHand
        <5> QED
          BY <5>3, <5>4
      <4>3. CASE CycleRecord \/ CycleFileRead \/ CycleFileRename \/ CycleAnnounce
        BY <1>3, <3>4, <4>3, CycleMoves DEF InHand
      <4>4. ~(\E u \in Servers : CycleStart(u)) /\ ~(CopyStart \/ CopyOk \/ CopyFail \/ SaveOnFail)
        BY <3>4, CycleMoves
      <4>5. ~CyclePrune
        BY <3>4, CycleMoves
      <4> QED
        BY <1>4, <4>1, <4>2, <4>3, <4>4, <4>5, Frames DEF CycleStep
    <3>5. CASE JobPending(s)
      <4>1. CASE WorkerSelect /\ wrk.s = s
        <5>1. wrk.pc = "select" /\ hot' = hot /\ phase = "up"
          BY <4>1 DEF WorkerSelect, disk, Control
        <5>2. wrk'.pc = "begin" /\ wrk'.s = s /\ wrk'.sel = h
          <6>1. ~(h = 0 \/ h <= last[s].cold)
            BY <1>0, <1>5, <3>1, <3>2, <5>1
          <6>2. wrk' = [wrk EXCEPT !.pc = "begin", !.sel = h]
            BY <4>1, <6>1 DEF WorkerSelect
          <6>3. wrk \in [pc : WorkerPCs, s : Servers, ts : Stamps, sel : Stamps,
                         rec : Record, m : Files]
            BY DEF TypeInv, TypeOK
          <6> QED
            BY <4>1, <6>2, <6>3
        <5> QED
          BY <1>2, <5>1, <5>2 DEF InHand
      <4> QED
        BY <1>4, <3>5, <4>1, PendingStep DEF InHand
    <3>6. CASE wrk.s = s /\ wrk.pc \in {"begin", "transfer", "record"} /\ wrk.sel = h
      <4>0. k = h
        BY <1>2, <2>2, <3>6
      <4>1. CASE wrk' = wrk
        BY <3>6, <4>0, <4>1 DEF InHand
      <4>2. CASE WorkerBegin \/ WorkerStored
        BY <3>6, <4>0, <4>2, WorkerMoves DEF InHand
      <4>3. ~(WorkerFail \/ WorkerReplyLost)
        BY <3>6 DEF WorkerFail, WorkerReplyLost, WorkerGivesUp
      <4>4. ~WorkerRecord
        <5> SUFFICES ASSUME WorkerRecord PROVE FALSE
          OBVIOUS
        <5>1. last' = SetOffloaded(wrk.s, wrk.sel) /\ wrk.pc = "record" /\ phase' = phase
          BY DEF WorkerRecord, WorkerUnchanged
        <5>2. last'[s].cold = wrk.sel
          BY <3>6, <5>1, OffloadedRecord
        <5>3. phase' = "up"
          BY <5>1 DEF Control
        <5> QED
          BY <1>0, <1>5, <3>6, <4>0, <5>2, <5>3
      <4>5. ASSUME WorkerStep PROVE WorkerBegin \/ WorkerStored
        BY <3>6, <4>3, <4>4, <4>5, WorkerMoves DEF WorkerStep
      <4> QED
        BY <1>4, <4>1, <4>2, <4>5, Frames
    <3> QED
      BY <3>3, <3>4, <3>5, <3>6 DEF InHand
  <2>3. CASE hot'[s] = hot[s]
    BY <2>2, <2>3
  <2>4. CASE /\ wrk.pc = "pruneHot" /\ wrk' = NoWork /\ wrk.s = s
             /\ Pruned(hot[wrk.s], hot'[wrk.s], HotDoomed(wrk.s))
    <3>1. HotDoomed(s) \subseteq Present(hot[s]) /\ hot[s] \in [Times -> Dir]
      BY DoomedPresent DEF HotDoomed, TypeInv, TypeOK
    <3>2. g <= h
      BY <2>4, <3>1, NewestPruned
    <3> QED
      BY <2>2, <2>4, <3>2
  <2>5. CASE hot' = [hot EXCEPT ![cyc.s][cyc.ts] = "whole"] /\ cyc.s # s
    <3>1. hot \in [Servers -> [Times -> Dir]]
      BY DEF TypeInv, TypeOK
    <3> QED
      BY <1>0, <2>3, <2>5, <3>1
  <2> QED
    BY <2>1, <2>3, <2>4, <2>5, HotStep
<1> QED
  BY <1>6, <1>7

\* The newest capture of a tiered server is never forgotten, even when the queue is
\* full, the job's own capture is pruned, or a newer one overtakes it.
THEOREM OffloadIsPending == Spec => []OffloadPending
<1> DEFINE Inv == \A s \in Servers : NotForgotten(s)
<1>1. Init => Inv
  <2> SUFFICES ASSUME Init, NEW s \in Servers PROVE Newest(Present(hot[s])) = 0
    BY DEF NotForgotten
  <2>1. Present(hot[s]) = {}
    BY DEF Init, NoDirs, Present
  <2> QED
    BY <2>1 DEF Newest
<1>2. TypeInv /\ TypeInv' /\ Control /\ Behind /\ Inv /\ [Next]_vars => Inv'
  BY NotForgottenStep
<1>3. TypeInv /\ Inv => OffloadPending
  <2> SUFFICES ASSUME TypeInv, Inv, NEW s \in Servers, phase = "up", Tiered(s), s \notin failed,
                      Newest(Present(hot[s])) > last[s].cold
               PROVE  InHand(s, Newest(Present(hot[s])))
    BY DEF OffloadPending, InHand
  <2>1. Newest(Present(hot[s])) # 0
    <3>1. last[s] \in Record
      BY DEF TypeInv, TypeOK
    <3>2. last[s].cold \in Nat
      BY <3>1, TimesFacts DEF Record
    <3> QED
      BY <3>2
  <2> QED
    BY <2>1 DEF NotForgotten
<1> QED
  BY <1>1, <1>2, <1>3, CoverInvariants, PTL DEF Spec

=============================================================================
