------------------------ MODULE PipelineStore_proofs ------------------------
(***************************************************************************)
(* What is on disk. Behind a hot tier only what enough complete snapshots  *)
(* make superfluous is ever removed, or left incomplete by a crash         *)
(* (Covered). Where nothing crashes, a directory is incomplete only while  *)
(* it is written and an unfinished transfer is the worker's own (Untorn,   *)
(* Tidy), also on the NAS and in place. So snapshots are complete, the     *)
(* newest is never lost, complete captures are offloaded in order          *)
(* (Ahead), and the two tiers implement TieredStore.                       *)
(***************************************************************************)
EXTENDS PipelineRecord_proofs

Whole(d) == {u \in Times : d[u] = "whole"}

\* An incomplete snapshot is what a crash left of a count prune: n complete ones are
\* newer.
Covered(d, n) ==
    \A t \in Times :
        d[t] = "torn" => /\ "crash" \in Faults /\ n > 0
                         /\ Cardinality(NewerThan(Whole(d), t)) >= n

\* Days and crashes do not go together: a crash in a day prune may leave an
\* incomplete snapshot with no complete one after it.
Countable(days) == days = 0 \/ "crash" \notin Faults

\* Complete snapshots are finitely many.
LEMMA WholeFacts ==
  ASSUME NEW d, NEW t \in Times
  PROVE  /\ IsFiniteSet(NewerThan(Whole(d), t)) /\ NewerThan(Whole(d), t) \subseteq Times
         /\ Cardinality(NewerThan(Whole(d), t)) \in Nat
         /\ \A K \in SUBSET NewerThan(Whole(d), t) :
              /\ IsFiniteSet(K) /\ Cardinality(K) \in Nat
              /\ Cardinality(K) <= Cardinality(NewerThan(Whole(d), t))
<1>1. NewerThan(Whole(d), t) \subseteq Times
  BY DEF NewerThan, Whole
<1>2. IsFiniteSet(NewerThan(Whole(d), t))
  BY <1>1, TimesFacts
<1> QED
  BY <1>1, <1>2, FS_Subset, FS_CardinalityType

\* The newest snapshot of a tier is complete.
LEMMA NewestWhole ==
  ASSUME NEW d \in [Times -> Dir], NEW n \in Nat, Covered(d, n), Newest(Present(d)) # 0
  PROVE  d[Newest(Present(d))] = "whole"
<1> DEFINE h == Newest(Present(d))
<1>1. h \in Times /\ d[h] # "none" /\ \A u \in Times : d[u] # "none" => u <= h
  BY NewestFacts, TimesFacts
<1> HIDE DEF h
<1>2. NewerThan(Whole(d), h) = {}
  <2>1. Times \subseteq Nat
    BY TimesFacts
  <2>2. \A u \in Times : d[u] = "whole" => ~(u > h)
    BY <1>1, <2>1
  <2> QED
    BY <2>2 DEF NewerThan, Whole
<1>3. Cardinality(NewerThan(Whole(d), h)) = 0
  BY <1>2, FS_EmptySet
<1>4. d[h] # "torn"
  BY <1>1, <1>3 DEF Covered
<1>5. d[h] = "whole"
  BY <1>1, <1>4 DEF Dir
<1> QED
  BY <1>5 DEF h

\* A new capture covers more.
LEMMA CoveredAdded ==
  ASSUME NEW d \in [Times -> Dir], NEW n \in Nat, Covered(d, n), NEW d2, NEW x \in Times,
         d2[x] = "whole", \A u \in Times : u # x => d2[u] = d[u]
  PROVE  Covered(d2, n)
<1> SUFFICES ASSUME NEW t \in Times, d2[t] = "torn"
             PROVE  /\ "crash" \in Faults /\ n > 0
                    /\ Cardinality(NewerThan(Whole(d2), t)) >= n
  BY DEF Covered
<1>1. "crash" \in Faults /\ n > 0 /\ Cardinality(NewerThan(Whole(d), t)) >= n
  BY DEF Covered
<1>2. NewerThan(Whole(d), t) \subseteq NewerThan(Whole(d2), t)
  BY DEF NewerThan, Whole
<1>3. Cardinality(NewerThan(Whole(d), t)) <= Cardinality(NewerThan(Whole(d2), t))
  BY <1>2, WholeFacts
<1>4. Cardinality(NewerThan(Whole(d), t)) \in Nat /\ Cardinality(NewerThan(Whole(d2), t)) \in Nat
  BY WholeFacts
<1> QED
  BY <1>1, <1>3, <1>4

\* The count prune removes a snapshot in favour of exactly n complete ones.
LEMMA PruneLeaves ==
  ASSUME NEW d \in [Times -> Dir], NEW days \in Nat, NEW n \in Nat, NEW m \in Int,
         Countable(days), Covered(d, n),
         NEW t \in LocalDoomed(Present(d), days, n, m), t \notin DaysDoomed(Present(d), days, m)
  PROVE  /\ n > 0
         /\ \E K \in SUBSET Times :
              /\ IsFiniteSet(K) /\ Cardinality(K) = n
              /\ \A u \in K : u > t /\ d[u] = "whole" /\ u \notin LocalDoomed(Present(d), days, n, m)
<1> DEFINE S == Present(d)
           old == DaysDoomed(S, days, m)
           left == S \ old
           K == left \ CountDoomed(left, n)
<1>1. t \in CountDoomed(left, n)
  BY DEF LocalDoomed
<1>2. n > 0 /\ t \in left
  BY <1>1 DEF CountDoomed
<1>3. left \in SUBSET Times /\ K \in SUBSET Times /\ S \in SUBSET Times
  BY DEF Present
<1>4. /\ IsFiniteSet(left) /\ IsFiniteSet(K) /\ left \in SUBSET Int
      /\ IsFiniteSet(S) /\ S \in SUBSET Int /\ Times \subseteq Nat
  BY <1>3, TimesFacts
<1>5. Cardinality(K) = n
  <2>1. n \in Nat \ {0} /\ CountDoomed(left, n) # {}
    BY <1>1, <1>2
  <2> HIDE DEF left
  <2> QED
    BY <1>4, <2>1, CountKeepsExactly
<1>6. ASSUME NEW u \in K PROVE u > t
  <2>1. ~(u <= t)
    BY <1>1, <1>4, CountPrunesOldest
  <2> QED
    BY <1>2, <1>3, <1>4, <2>1
<1>7. ASSUME NEW u \in K PROVE u \notin LocalDoomed(S, days, n, m)
  BY DEF LocalDoomed
<1>8. ASSUME NEW u \in K PROVE d[u] = "whole"
  <2>1. u \in Times /\ d[u] # "none" /\ u \in left
    BY DEF Present
  <2>2. d[u] # "torn"
    <3> SUFFICES ASSUME d[u] = "torn" PROVE FALSE
      OBVIOUS
    <3>1. "crash" \in Faults /\ Cardinality(NewerThan(Whole(d), u)) >= n
      BY <2>1 DEF Covered
    <3>2. left = S
      BY <3>1 DEF Countable, DaysDoomed
    <3>3. NewerThan(Whole(d), u) \subseteq NewerThan(S, u)
      BY DEF NewerThan, Whole, Present
    <3>4. IsFiniteSet(NewerThan(S, u)) /\ Cardinality(NewerThan(S, u)) \in Nat
      BY <1>4, <2>1, NewerThanFacts
    <3>5. Cardinality(NewerThan(Whole(d), u)) <= Cardinality(NewerThan(S, u))
      BY <3>3, <3>4, FS_Subset
    <3>6. Cardinality(NewerThan(Whole(d), u)) \in Nat
      BY <2>1, WholeFacts
    <3>7. Cardinality(NewerThan(S, u)) >= n
      BY <3>1, <3>4, <3>5, <3>6
    <3>8. u \in CountDoomed(left, n)
      BY <1>2, <2>1, <3>2, <3>7 DEF CountDoomed
    <3> QED
      BY <3>8
  <2> QED
    BY <2>1, <2>2 DEF Dir
<1> QED
  BY <1>2, <1>3, <1>4, <1>5, <1>6, <1>7, <1>8

\* With no days a tier loses a snapshot only so, and a snapshot spared is not torn.
LEMMA PruneKeeps ==
  ASSUME NEW d \in [Times -> Dir], NEW days \in Nat, NEW n \in Nat, NEW m \in Int,
         Countable(days), Covered(d, n), NEW d2,
         Pruned(d, d2, LocalDoomed(Present(d), days, n, m))
  PROVE  /\ Covered(d2, n)
         /\ \A t \in Times :
              d[t] # "none" /\ d2[t] # d[t] =>
                \/ t \in DaysDoomed(Present(d), days, m)
                \/ /\ n > 0 /\ Cardinality(NewerThan(Whole(d2), t)) >= n
                   /\ \E u \in Times : u > t /\ d[u] = "whole" /\ d2[u] = "whole"
<1> DEFINE T == LocalDoomed(Present(d), days, n, m)
<1>1. ASSUME NEW t \in T, t \notin DaysDoomed(Present(d), days, m)
      PROVE  /\ n > 0 /\ Cardinality(NewerThan(Whole(d2), t)) >= n
             /\ \E u \in Times : u > t /\ d[u] = "whole" /\ d2[u] = "whole"
  <2>1. PICK K \in SUBSET Times :
          /\ IsFiniteSet(K) /\ Cardinality(K) = n
          /\ \A u \in K : u > t /\ d[u] = "whole" /\ u \notin T
    BY <1>1, PruneLeaves
  <2>2. n > 0
    BY <1>1, PruneLeaves
  <2>3. t \in Times
    BY <1>1, DoomedPresent DEF Present
  <2> HIDE DEF T
  <2>4. \A u \in K : d2[u] = "whole"
    BY <2>1 DEF Pruned, T
  <2>5. K \subseteq NewerThan(Whole(d2), t)
    BY <2>1, <2>4 DEF NewerThan, Whole
  <2>6. n <= Cardinality(NewerThan(Whole(d2), t)) /\ Cardinality(NewerThan(Whole(d2), t)) \in Nat
    BY <2>1, <2>3, <2>5, WholeFacts
  <2>7. K # {}
    BY <2>1, <2>2, FS_EmptySet
  <2> QED
    BY <2>1, <2>2, <2>4, <2>6, <2>7
<1>2. ASSUME NEW t \in Times, d2[t] = "torn"
      PROVE  "crash" \in Faults /\ n > 0 /\ Cardinality(NewerThan(Whole(d2), t)) >= n
  <2>0. t \in T \/ d2[t] = d[t]
    BY <1>2 DEF Pruned
  <2>1. "crash" \in Faults
    BY <1>2, <2>0 DEF Pruned, Covered
  <2>2. DaysDoomed(Present(d), days, m) = {}
    BY <2>1 DEF Countable, DaysDoomed
  <2>3. CASE t \in T
    BY <1>1, <2>1, <2>2, <2>3
  <2>4. CASE t \notin T
    <3>1. d[t] = "torn"
      BY <1>2, <2>0, <2>4
    <3>2. n > 0 /\ Cardinality(NewerThan(Whole(d), t)) >= n /\ t \in Present(d)
      BY <3>1 DEF Covered, Present
    <3>3. Present(d) \in SUBSET Int /\ IsFiniteSet(Present(d)) /\ t \in Int
      BY TimesFacts DEF Present
    <3>4. NewerThan(Whole(d), t) \subseteq NewerThan(Present(d), t)
      BY DEF NewerThan, Whole, Present
    <3>5. /\ Cardinality(NewerThan(Whole(d), t)) <= Cardinality(NewerThan(Present(d), t))
          /\ Cardinality(NewerThan(Present(d), t)) \in Nat
      BY <3>3, <3>4, NewerThanFacts, FS_Subset
    <3>6. Cardinality(NewerThan(Whole(d), t)) \in Nat
      BY WholeFacts
    <3>7. t \in CountDoomed(Present(d), n)
      BY <3>2, <3>5, <3>6 DEF CountDoomed
    <3>8. t \in T
      BY <2>2, <3>7 DEF LocalDoomed
    <3> QED
      BY <2>4, <3>8
  <2> QED
    BY <2>3, <2>4
<1>3. Covered(d2, n)
  BY <1>2 DEF Covered
<1>4. ASSUME NEW t \in Times, d[t] # "none", d2[t] # d[t]
      PROVE  t \in T
  BY <1>4 DEF Pruned
<1> QED
  BY <1>1, <1>3, <1>4

-----------------------------------------------------------------------------
(***************************************************************************)
(* The two tiers                                                           *)
(***************************************************************************)

HotCovered == \A s \in Servers : Covered(hot[s], HotPruneCount)
ColdCovered == \A s \in Servers : target[s] = "tiered-local" => Covered(cold[s], PruneCount)

\* The settings and the clock are numbers.
LEMMA Numbers ==
  ASSUME TypeInv
  PROVE  /\ PruneDays \in Nat /\ PruneCount \in Nat /\ HotPruneDays \in Nat
         /\ HotPruneCount \in Nat /\ now \in Int
BY BoundsAssumption, TimesFacts DEF TypeInv, TypeOK

\* A step leaves incomplete hot snapshots covered.
LEMMA HotCoveredStep ==
  ASSUME TypeInv, Control, HotCovered, Countable(HotPruneDays), [Next]_vars
  PROVE  HotCovered'
<1> SUFFICES ASSUME NEW s \in Servers PROVE Covered(hot'[s], HotPruneCount)
  BY DEF HotCovered, Covered
<1>1. /\ hot \in [Servers -> [Times -> Dir]] /\ hot[s] \in [Times -> Dir]
      /\ cyc.s \in Servers /\ wrk.s \in Servers
  BY DEF TypeInv, TypeOK
<1>2. Covered(hot[s], HotPruneCount)
  BY DEF HotCovered
<1>3. CASE cyc.pc = "copy" /\ hot' = [hot EXCEPT ![cyc.s][cyc.ts] = "whole"]
  <2>1. cyc.ts \in Times
    BY <1>3 DEF TypeInv, PcInv
  <2>2. CASE cyc.s = s
    <3>1. hot'[s] = [hot[s] EXCEPT ![cyc.ts] = "whole"]
      BY <1>1, <1>3, <2>2
    <3>2. PICK d2 : d2 = hot'[s]
      OBVIOUS
    <3>3. PICK x \in Times : x = cyc.ts
      BY <2>1
    <3>4. d2[x] = "whole" /\ \A u \in Times : u # x => d2[u] = hot[s][u]
      BY <1>1, <3>1, <3>2, <3>3
    <3>5. Covered(d2, HotPruneCount)
      BY <1>1, <1>2, <3>4, CoveredAdded, Numbers
    <3> QED
      BY <3>2, <3>5
  <2>3. CASE cyc.s # s
    BY <1>1, <1>2, <1>3, <2>3
  <2> QED
    BY <2>2, <2>3
<1>4. CASE /\ Pruned(hot[wrk.s], hot'[wrk.s], HotDoomed(wrk.s))
           /\ \A u \in Servers : u # wrk.s => hot'[u] = hot[u]
  <2>1. CASE wrk.s = s
    <3>1. Pruned(hot[s], hot'[s], LocalDoomed(Present(hot[s]), HotPruneDays, HotPruneCount, now))
      BY <1>4, <2>1 DEF HotDoomed
    <3> QED
      BY <1>1, <1>2, <3>1, PruneKeeps, Numbers
  <2>2. CASE wrk.s # s
    BY <1>2, <1>4, <2>2
  <2> QED
    BY <2>1, <2>2
<1> QED
  BY <1>2, <1>3, <1>4, HotStep

\* So does it with local cold storage of tiered servers.
LEMMA ColdCoveredStep ==
  ASSUME TypeInv, Control, ColdCovered, Countable(PruneDays), [Next]_vars
  PROVE  ColdCovered'
<1> SUFFICES ASSUME NEW s \in Servers, target'[s] = "tiered-local"
             PROVE  Covered(cold'[s], PruneCount)
  BY DEF ColdCovered, Covered
<1>1. cold[s] \in [Times -> Dir] /\ wrk.s \in Servers
  BY DEF TypeInv, TypeOK
<1>2. target[s] = "tiered-local" /\ Covered(cold[s], PruneCount)
  BY TargetConstant DEF ColdCovered
<1>3. CASE wrk.pc = "transfer" /\ cold'[s] = [cold[s] EXCEPT ![wrk.sel] = "whole"]
  <2>1. wrk.sel \in Times
    BY <1>3 DEF TypeInv, PcInv
  <2>2. PICK d2 : d2 = cold'[s]
    OBVIOUS
  <2>3. PICK x \in Times : x = wrk.sel
    BY <2>1
  <2>4. d2[x] = "whole" /\ \A u \in Times : u # x => d2[u] = cold[s][u]
    BY <1>1, <1>3, <2>2, <2>3
  <2>5. Covered(d2, PruneCount)
    BY <1>1, <1>2, <2>4, CoveredAdded, Numbers
  <2> QED
    BY <2>2, <2>5
<1>4. CASE Pruned(cold[s], cold'[s], LocalDoomed(Present(cold[s]), PruneDays, PruneCount, now))
  BY <1>1, <1>2, <1>4, PruneKeeps, Numbers
<1> QED
  BY <1>2, <1>3, <1>4, ColdStep

\* The covering of both tiers holds in every state, each where it is counted.
LEMMA TiersCovered ==
  /\ Countable(HotPruneDays) => (Spec => []HotCovered)
  /\ Countable(PruneDays) => (Spec => []ColdCovered)
<1>1. Init => HotCovered /\ ColdCovered
  BY DEF Init, HotCovered, ColdCovered, Covered, NoDirs
<1>2. ASSUME Countable(HotPruneDays) PROVE Spec => []HotCovered
  <2>1. TypeInv /\ Control /\ HotCovered /\ [Next]_vars => HotCovered'
    BY <1>2, HotCoveredStep
  <2> QED
    BY <1>1, <2>1, TypesAndControl, PTL DEF Spec
<1>3. ASSUME Countable(PruneDays) PROVE Spec => []ColdCovered
  <2>1. TypeInv /\ Control /\ ColdCovered /\ [Next]_vars => ColdCovered'
    BY <1>3, ColdCoveredStep
  <2> QED
    BY <1>1, <2>1, TypesAndControl, PTL DEF Spec
<1> QED
  BY <1>2, <1>3

\* A step leaves the source of the transfer complete.
LEMMA SourceStep ==
  ASSUME TypeInv, Control, HotCovered, TransferSourceWhole, [Next]_vars
  PROVE  TransferSourceWhole'
<1> SUFFICES ASSUME wrk'.pc \in {"begin", "transfer"} PROVE hot'[wrk'.s][wrk'.sel] = "whole"
  BY DEF TransferSourceWhole
<1>0. /\ hot \in [Servers -> [Times -> Dir]] /\ wrk.s \in Servers /\ cyc.s \in Servers
      /\ hot[wrk.s] \in [Times -> Dir]
  BY DEF TypeInv, TypeOK
<1>1. NoWork.pc = "idle"
  BY IdleFacts
<1>2. CASE WorkerSelect
  <2>1. /\ wrk'.pc = "begin" /\ wrk'.s = wrk.s /\ wrk'.sel = Newest(Present(hot[wrk.s]))
        /\ hot' = hot
    BY <1>1, <1>2, WorkerMoves DEF WorkerSelect, disk
  <2>2. Newest(Present(hot[wrk.s])) # 0
    <3>1. ASSUME Newest(Present(hot[wrk.s])) = 0 PROVE wrk' = NoWork
      BY <1>2, <3>1 DEF WorkerSelect
    <3> QED
      BY <1>1, <2>1, <3>1
  <2>3. hot[wrk.s][Newest(Present(hot[wrk.s]))] = "whole"
    BY <1>0, <2>2, NewestWhole, Numbers DEF HotCovered
  <2> QED
    BY <2>1, <2>3
<1>3. CASE WorkerBegin
  <2>1. wrk.pc = "begin" /\ wrk'.s = wrk.s /\ wrk'.sel = wrk.sel /\ hot' = hot
    BY <1>3, WorkerMoves DEF WorkerBegin
  <2> QED
    BY <2>1 DEF TransferSourceWhole
<1>4. CASE wrk' = wrk
  <2>1. wrk.pc \in {"begin", "transfer"} /\ wrk.sel \in Times /\ hot[wrk.s][wrk.sel] = "whole"
    BY <1>4 DEF TransferSourceWhole, TypeInv, PcInv
  <2>2. \/ hot' = hot
        \/ /\ cyc.pc = "copy" /\ hot[cyc.s][cyc.ts] = "none"
           /\ hot' = [hot EXCEPT ![cyc.s][cyc.ts] = "whole"]
    BY <2>1, HotStep
  <2> QED
    BY <1>0, <1>4, <2>1, <2>2
<1>5. ~Crash
  BY <1>1 DEF Crash
<1>6. ASSUME WorkerStep PROVE WorkerSelect \/ WorkerBegin
  BY <1>1, <1>6, WorkerMoves DEF WorkerStep
<1> QED
  BY <1>2, <1>3, <1>4, <1>5, <1>6, Frames

\* What the worker copies is complete and stays there until the copy has its final
\* name, for every queue, target and history of crashes, unless a crash may interrupt
\* a day prune of the hot tier.
THEOREM SourceIsWhole ==
  ASSUME HotPruneDays = 0 \/ "crash" \notin Faults
  PROVE  Spec => []TransferSourceWhole
<1>1. Countable(HotPruneDays)
  BY DEF Countable
<1>2. Init => TransferSourceWhole
  BY IdleFacts DEF Init, TransferSourceWhole
<1>3. TypeInv /\ Control /\ HotCovered /\ TransferSourceWhole /\ [Next]_vars => TransferSourceWhole'
  BY SourceStep
<1>4. Spec => []HotCovered
  BY <1>1, TiersCovered
<1> QED
  BY <1>2, <1>3, <1>4, TypesAndControl, PTL DEF Spec

-----------------------------------------------------------------------------
(***************************************************************************)
(* Cold storage of any kind                                                *)
(***************************************************************************)

\* Who changes cold storage, whatever the target: a direct capture is written in
\* place, a transfer takes its final name, a prune, a crash.
LEMMA ColdMoves ==
  ASSUME TypeInv, Control, [Next]_vars, NEW s \in Servers
  PROVE  \/ cold'[s] = cold[s]
         \/ /\ cyc.s = s /\ ~Tiered(s) /\ cyc.pc = "save"
            /\ cyc' = [cyc EXCEPT !.pc = "copy", !.ts = now]
            /\ cold'[s] = [cold[s] EXCEPT ![now] = "torn"]
         \/ /\ cyc.s = s /\ ~Tiered(s) /\ cyc.pc = "copy"
            /\ cold'[s] = [cold[s] EXCEPT ![cyc.ts] = "whole"]
         \/ /\ wrk.s = s /\ Tiered(s) /\ wrk.pc = "transfer" /\ cold[s][wrk.sel] = "none"
            /\ cold'[s] = [cold[s] EXCEPT ![wrk.sel] = "whole"] /\ (WorkerStored \/ WorkerReplyLost)
            /\ hot' = hot /\ \A u \in Servers : u # s => cold'[u] = cold[u]
         \/ /\ \/ cyc.s = s /\ cyc.pc = "prune" /\ ~Tiered(s)
               \/ wrk.s = s /\ wrk.pc = "pruneCold" /\ Tiered(s)
            /\ \E E \in ColdDoomed(s) : cold'[s] = Without(cold[s], Finished(E))
            /\ hot' = hot /\ \A u \in Servers : u # s => cold'[u] = cold[u]
         \/ Crash
<1>0. /\ cold \in [Servers -> [Times -> Dir]] /\ wrk.s \in Servers /\ cyc.s \in Servers
      /\ wrk.pc # "idle" => Tiered(wrk.s)
      /\ cyc.pc = "prune" => ~Tiered(cyc.s)
  BY DEF TypeInv, TypeOK, Control
<1>1. CASE WorkerStored \/ WorkerReplyLost
  <2>1. wrk.pc = "transfer" /\ ColdRename(wrk.s, wrk.sel) /\ hot' = hot
    BY <1>1 DEF WorkerStored, WorkerReplyLost, WorkerGivesUp
  <2>2. CASE cold' = cold
    BY <2>2
  <2>3. CASE cold[wrk.s][wrk.sel] = "none" /\ cold' = [cold EXCEPT ![wrk.s][wrk.sel] = "whole"]
    BY <1>0, <1>1, <2>1, <2>3
  <2> QED
    BY <2>1, <2>2, <2>3 DEF ColdRename
<1>2. CASE WorkerPruneCold
  <2>1. wrk.pc = "pruneCold" /\ hot' = hot
    BY <1>2 DEF WorkerPruneCold
  <2>2. PICK E \in ColdDoomed(wrk.s) :
          cold' = [cold EXCEPT ![wrk.s] = Without(cold[wrk.s], Finished(E))]
    BY <1>2 DEF WorkerPruneCold, PruneCold
  <2> QED
    BY <1>0, <2>1, <2>2
<1>3. CASE CyclePrune
  <2>1. cyc.pc = "prune" /\ hot' = hot
    BY <1>3 DEF CyclePrune
  <2>2. PICK E \in ColdDoomed(cyc.s) :
          cold' = [cold EXCEPT ![cyc.s] = Without(cold[cyc.s], Finished(E))]
    BY <1>3 DEF CyclePrune, PruneCold
  <2> QED
    BY <1>0, <2>1, <2>2
<1>4. CASE CopyStart
  <2>1. cyc.pc = "save" /\ cyc' = [cyc EXCEPT !.pc = "copy", !.ts = now]
    BY <1>4 DEF CopyStart
  <2>2. cold' = cold \/ (~Tiered(cyc.s) /\ cold' = [cold EXCEPT ![cyc.s][now] = "torn"])
    BY <1>4 DEF CopyStart
  <2> QED
    BY <1>0, <2>1, <2>2
<1>5. CASE CopyOk \/ SaveOnFail
  <2>1. cyc.pc = "copy"
    BY <1>5 DEF CopyOk, SaveOnFail
  <2>2. cold' = cold \/ (~Tiered(cyc.s) /\ cold' = [cold EXCEPT ![cyc.s][cyc.ts] = "whole"])
    BY <1>5 DEF CopyOk, SaveOnFail, Stored
  <2> QED
    BY <1>0, <2>1, <2>2
<1>6. CASE ~(\/ WorkerStored \/ WorkerReplyLost \/ WorkerPruneCold \/ CyclePrune
             \/ CopyStart \/ CopyOk \/ SaveOnFail \/ Crash)
  <2>1. cold' = cold
    BY <1>6 DEF Next, vars, disk, Tick, ClockBack, Start, CycleStart, BootList, CopyProgress,
       CycleStep, WorkerProgress, WorkerStep, BootLoad, BootFileRead, BootFileRename,
       BootRecord, BootUnchanged, CopyFail, CycleRecord, CycleFileRead, CycleFileRename,
       CycleAnnounce, CycleEnqueue, WorkerTake, WorkerSelect, WorkerBegin, WorkerFail,
       WorkerRecord, WorkerFileRead, WorkerFileRename, WorkerPruneHot
  <2> QED
    BY <2>1
<1> QED
  BY <1>1, <1>2, <1>3, <1>4, <1>5, <1>6

\* Who changes the unfinished transfers: the worker, which starts one and takes it
\* away again unless the clean-up fails, and prunes.
LEMMA TransferMoves ==
  ASSUME TypeInv, Control, [Next]_vars, NEW s \in Servers
  PROVE  \/ wip'[s] = wip[s] /\ (wrk.s = s /\ wrk.pc = "transfer" => wrk' = wrk)
         \/ Crash \/ (target[s] = "tiered-nas" /\ "cleanup" \in Faults)
         \/ /\ wrk.s = s /\ wrk.pc = "begin" /\ wrk' = [wrk EXCEPT !.pc = "transfer"]
            /\ wip'[s] = [wip[s] EXCEPT ![wrk.sel] = now]
         \/ /\ wrk.s = s /\ wrk.pc = "transfer"
            /\ wip'[s] = [wip[s] EXCEPT ![wrk.sel] = 0]
         \/ /\ wrk.s = s /\ wrk.pc = "transfer" => wrk' = wrk
            /\ \A t \in Times : wip'[s][t] \in {0, wip[s][t]}
<1>0. /\ wip \in [Servers -> [Times -> Stamps]] /\ wrk.s \in Servers /\ cyc.s \in Servers
      /\ wrk.pc # "idle" => Tiered(wrk.s)
  BY DEF TypeInv, TypeOK, Control
<1>1. CASE WorkerBegin
  <2>1. /\ wrk.pc = "begin" /\ wrk' = [wrk EXCEPT !.pc = "transfer"]
        /\ wip' = [wip EXCEPT ![wrk.s][wrk.sel] = now]
    BY <1>1 DEF WorkerBegin
  <2> QED
    BY <1>0, <2>1
<1>2. CASE WorkerStored \/ WorkerReplyLost
  <2>1. wrk.pc = "transfer" /\ wip' = [wip EXCEPT ![wrk.s][wrk.sel] = 0]
    BY <1>2 DEF WorkerStored, WorkerReplyLost, ColdRename
  <2> QED
    BY <1>0, <2>1
<1>3. CASE WorkerFail
  <2>1. /\ wrk.pc = "transfer"
        /\ \/ wip' = [wip EXCEPT ![wrk.s][wrk.sel] = 0]
           \/ /\ OnNas(wrk.s) /\ "cleanup" \in Faults
              /\ \E m : wip' = [wip EXCEPT ![wrk.s][wrk.sel] = m]
    BY <1>3 DEF WorkerFail
  <2>2. OnNas(wrk.s) => target[wrk.s] = "tiered-nas"
    BY <1>0, <2>1 DEF OnNas, Tiered
  <2> QED
    BY <1>0, <2>1, <2>2
<1>4. CASE WorkerPruneCold
  <2>1. wrk.pc = "pruneCold"
    BY <1>4 DEF WorkerPruneCold
  <2>2. PICK T : wip' = [wip EXCEPT ![wrk.s] = [t \in Times |-> IF t \in T THEN 0 ELSE wip[wrk.s][t]]]
    BY <1>4 DEF WorkerPruneCold, PruneCold, Forgotten
  <2> QED
    BY <1>0, <2>1, <2>2
<1>5. CASE CyclePrune
  <2>1. wrk' = wrk
    BY <1>5 DEF CyclePrune, CycleUnchanged
  <2>2. PICK T : wip' = [wip EXCEPT ![cyc.s] = [t \in Times |-> IF t \in T THEN 0 ELSE wip[cyc.s][t]]]
    BY <1>5 DEF CyclePrune, PruneCold, Forgotten
  <2> QED
    BY <1>0, <2>1, <2>2
<1>6. CASE ~(\/ WorkerBegin \/ WorkerStored \/ WorkerReplyLost \/ WorkerFail \/ WorkerPruneCold
             \/ CyclePrune \/ Crash)
  <2>1. wip' = wip
    BY <1>6 DEF Next, vars, disk, Tick, ClockBack, Start, CycleStart, BootList, CopyProgress,
       CycleStep, WorkerProgress, WorkerStep, BootLoad, BootFileRead, BootFileRename,
       BootRecord, BootUnchanged, CycleFails, CopyStart, CopyOk, CopyFail, SaveOnFail, CycleRecord,
       CycleFileRead, CycleFileRename, CycleAnnounce, CycleEnqueue, WorkerTake, WorkerSelect,
       WorkerRecord, WorkerFileRead, WorkerFileRename, WorkerPruneHot
  <2>2. WorkerStep /\ wrk.pc = "transfer" => WorkerStored \/ WorkerFail \/ WorkerReplyLost
    BY WorkerMoves DEF WorkerStep
  <2> QED
    BY <1>6, <2>1, <2>2, Frames
<1> QED
  BY <1>1, <1>2, <1>3, <1>4, <1>5, <1>6

\* The cold tier of such a target is only incomplete while a capture is written:
\* nothing crashes, and a capture that is written in place does not fail.
KeepsWhole(tg) == "crash" \notin Faults /\ (tg \in {"local", "nas"} => "copy" \notin Faults)

Untorn ==
    \A s \in Servers : KeepsWhole(target[s]) =>
        \A t \in Times : cold[s][t] = "torn" =>
            ~Tiered(s) /\ cyc.pc = "copy" /\ cyc.s = s /\ cyc.ts = t

\* Nothing of an unfinished transfer is left behind for such a target.
CleansUp(tg) == "crash" \notin Faults /\ (tg = "tiered-nas" => "cleanup" \notin Faults)

Tidy ==
    \A s \in Servers : CleansUp(target[s]) =>
        \A t \in Times : wip[s][t] # 0 => wrk.pc = "transfer" /\ wrk.s = s /\ wrk.sel = t

\* A step leaves no incomplete snapshot.
LEMMA UntornStep ==
  ASSUME TypeInv, Control, Untorn, [Next]_vars
  PROVE  Untorn'
<1> SUFFICES ASSUME NEW s \in Servers, KeepsWhole(target'[s]), NEW t \in Times,
                    cold'[s][t] = "torn"
             PROVE  ~Tiered(s)' /\ cyc'.pc = "copy" /\ cyc'.s = s /\ cyc'.ts = t
  BY DEF Untorn, KeepsWhole
<1>0. /\ cold[s] \in [Times -> Dir] /\ now \in Times /\ cyc.s \in Servers
      /\ cyc \in [pc : CyclePCs, s : Servers, t0 : Stamps, ts : Stamps, rec : Record, m : Files]
  BY DEF TypeInv, TypeOK
<1>1. /\ KeepsWhole(target[s]) /\ Tiered(s)' = Tiered(s) /\ target'[s] = target[s]
  BY TargetConstant
<1>2. ASSUME cold[s][t] = "torn" PROVE ~Tiered(s) /\ cyc.pc = "copy" /\ cyc.s = s /\ cyc.ts = t
  BY <1>1, <1>2 DEF Untorn
<1>3. ~Crash
  BY <1>1 DEF Crash, KeepsWhole
<1>4. CASE cold'[s] = cold[s]
  <2>1. cold[s][t] = "torn" /\ ~Tiered(s) /\ cyc.pc = "copy" /\ cyc.s = s /\ cyc.ts = t
    BY <1>2, <1>4
  <2>2. "copy" \notin Faults
    <3>1. target[s] \in Targets
      BY TargetAssumption DEF TypeInv, TypeOK
    <3> QED
      BY <1>1, <2>1, <3>1 DEF KeepsWhole, Tiered, Targets
  <2>3. ~CopyFail /\ ~SaveOnFail
    BY <2>1, <2>2 DEF CopyFail, SaveOnFail
  <2>4. ~CopyOk
    <3> SUFFICES ASSUME CopyOk PROVE FALSE
      OBVIOUS
    <3>1. cold' = [cold EXCEPT ![s][t] = "whole"]
      BY <2>1 DEF CopyOk, Stored
    <3>2. cold \in [Servers -> [Times -> Dir]]
      BY DEF TypeInv, TypeOK
    <3>3. cold'[s][t] = "whole"
      BY <3>1, <3>2
    <3> QED
      BY <3>3
  <2>5. ~CycleStep /\ \A u \in Servers : ~CycleStart(u)
    BY <2>1, <2>3, <2>4, CycleMoves DEF CycleStep
  <2>6. cyc' = cyc
    BY <1>3, <2>5, Frames
  <2> QED
    BY <1>1, <2>1, <2>6
<1>5. CASE /\ cyc.s = s /\ ~Tiered(s) /\ cyc.pc = "save"
           /\ cyc' = [cyc EXCEPT !.pc = "copy", !.ts = now]
           /\ cold'[s] = [cold[s] EXCEPT ![now] = "torn"]
  <2>1. cyc'.pc = "copy" /\ cyc'.s = s /\ cyc'.ts = now
    BY <1>0, <1>5
  <2>2. cold[s][t] # "torn"
    BY <1>2, <1>5
  <2>3. t = now
    BY <1>0, <1>5, <2>2
  <2> QED
    BY <1>1, <1>5, <2>1, <2>3
<1>6. CASE /\ cyc.s = s /\ ~Tiered(s) /\ cyc.pc = "copy"
           /\ cold'[s] = [cold[s] EXCEPT ![cyc.ts] = "whole"]
  BY <1>0, <1>2, <1>6
<1>7. CASE /\ wrk.s = s /\ Tiered(s) /\ cold'[s] = [cold[s] EXCEPT ![wrk.sel] = "whole"]
  BY <1>0, <1>2, <1>7
<1>8. CASE /\ \/ cyc.s = s /\ cyc.pc = "prune" /\ ~Tiered(s)
              \/ wrk.s = s /\ wrk.pc = "pruneCold" /\ Tiered(s)
           /\ \E E \in ColdDoomed(s) : cold'[s] = Without(cold[s], Finished(E))
  <2>1. cold[s][t] = "torn"
    BY <1>8 DEF Without
  <2> QED
    BY <1>2, <1>8, <2>1
<1> QED
  BY <1>3, <1>4, <1>5, <1>6, <1>7, <1>8, ColdMoves

\* A step leaves nothing of an unfinished transfer.
LEMMA TidyStep ==
  ASSUME TypeInv, Control, Tidy, [Next]_vars
  PROVE  Tidy'
<1> SUFFICES ASSUME NEW s \in Servers, CleansUp(target'[s]), NEW t \in Times, wip'[s][t] # 0
             PROVE  wrk'.pc = "transfer" /\ wrk'.s = s /\ wrk'.sel = t
  BY DEF Tidy, CleansUp
<1>0. /\ wip[s] \in [Times -> Stamps]
      /\ wrk \in [pc : WorkerPCs, s : Servers, ts : Stamps, sel : Stamps, rec : Record, m : Files]
  BY DEF TypeInv, TypeOK
<1>1. CleansUp(target[s])
  BY TargetConstant
<1>2. ASSUME wip[s][t] # 0 PROVE wrk.pc = "transfer" /\ wrk.s = s /\ wrk.sel = t
  BY <1>1, <1>2 DEF Tidy
<1>3. ~Crash /\ ~(target[s] = "tiered-nas" /\ "cleanup" \in Faults)
  BY <1>1 DEF Crash, CleansUp
<1>4. CASE wip'[s] = wip[s] /\ (wrk.s = s /\ wrk.pc = "transfer" => wrk' = wrk)
  BY <1>2, <1>4
<1>5. CASE /\ wrk.s = s /\ wrk.pc = "begin" /\ wrk' = [wrk EXCEPT !.pc = "transfer"]
           /\ wip'[s] = [wip[s] EXCEPT ![wrk.sel] = now]
  <2>1. wrk'.pc = "transfer" /\ wrk'.s = s /\ wrk'.sel = wrk.sel
    BY <1>0, <1>5
  <2>2. t = wrk.sel
    BY <1>0, <1>2, <1>5
  <2> QED
    BY <2>1, <2>2
<1>6. CASE wrk.s = s /\ wrk.pc = "transfer" /\ wip'[s] = [wip[s] EXCEPT ![wrk.sel] = 0]
  BY <1>0, <1>2, <1>6
<1>7. CASE /\ wrk.s = s /\ wrk.pc = "transfer" => wrk' = wrk
           /\ \A u \in Times : wip'[s][u] \in {0, wip[s][u]}
  BY <1>2, <1>7
<1> QED
  BY <1>3, <1>4, <1>5, <1>6, <1>7, TransferMoves

\* Both hold in every state.
LEMMA CareInvariants == Spec => []Untorn /\ []Tidy
<1>1. Init => Untorn /\ Tidy
  BY DEF Init, Untorn, Tidy, NoDirs
<1>2. TypeInv /\ Control /\ Untorn /\ [Next]_vars => Untorn'
  BY UntornStep
<1>3. TypeInv /\ Control /\ Tidy /\ [Next]_vars => Tidy'
  BY TidyStep
<1> QED
  BY <1>1, <1>2, <1>3, TypesAndControl, PTL DEF Spec

\* README.md:276 says that snapshots are complete directories; it is so when nothing
\* crashes and no capture of a direct target fails (the two causes that the runs
\* of the pipeline show), with a capture of a direct target under way excepted.
THEOREM SnapshotsAreComplete ==
  ASSUME "crash" \notin Faults,
         \A f \in TargetChoices : \A s \in Servers : f[s] \in {"local", "nas"} => "copy" \notin Faults
  PROVE  Spec => []SnapshotsComplete
<1>1. Spec => []HotCovered
  BY TiersCovered DEF Countable
<1>2. TypeInv /\ HotCovered /\ Untorn => SnapshotsComplete
  <2> SUFFICES ASSUME TypeInv, HotCovered, Untorn, NEW s \in Servers, NEW t \in Times
               PROVE  /\ hot[s][t] # "torn"
                      /\ cold[s][t] = "torn" => cyc.pc = "copy" /\ cyc.s = s /\ cyc.ts = t
    BY DEF SnapshotsComplete
  <2>1. KeepsWhole(target[s])
    BY DEF TypeInv, TypeOK, KeepsWhole
  <2> QED
    BY <2>1 DEF HotCovered, Covered, Untorn
<1> QED
  BY <1>1, <1>2, CareInvariants, TypesAndControl, PTL DEF Spec

-----------------------------------------------------------------------------
(***************************************************************************)
(* The hot tier is ahead of the cold one                                   *)
(***************************************************************************)

\* A crash brings no snapshot back.
LEMMA CrashLeaves ==
  ASSUME TypeInv, Crash, NEW s \in Servers, NEW t \in Times, cold'[s][t] # "none"
  PROVE  cold[s][t] # "none"
<1>0. /\ cold \in [Servers -> [Times -> Dir]] /\ wrk.s \in Servers /\ cyc.s \in Servers
  BY DEF TypeInv, TypeOK
<1>1. CASE cold' = cold
  BY <1>1
<1>2. CASE cold' # cold
  <2>1. "crash" \in Faults /\ \E p \in {cyc, wrk} : \E E \in ColdDoomed(p.s) :
          \E d \in Torn(cold[p.s], Finished(E)) : cold' = [cold EXCEPT ![p.s] = d]
    BY <1>2, TornPruneShape DEF Crash, disk
  <2>2. PICK p \in {cyc, wrk} : \E E \in ColdDoomed(p.s) :
          \E d \in Torn(cold[p.s], Finished(E)) : cold' = [cold EXCEPT ![p.s] = d]
    BY <2>1
  <2>3. PICK E \in ColdDoomed(p.s) :
          \E d \in Torn(cold[p.s], Finished(E)) : cold' = [cold EXCEPT ![p.s] = d]
    BY <2>2
  <2>4. PICK d \in Torn(cold[p.s], Finished(E)) : cold' = [cold EXCEPT ![p.s] = d]
    BY <2>3
  <2>5. p.s \in Servers
    BY <1>0, <2>2
  <2>6. Pruned(cold[p.s], d, Finished(E))
    BY <1>0, <2>1, <2>4, <2>5, PrunedFacts
  <2>7. Finished(E) \in SUBSET Present(cold[p.s])
    BY ColdDoomedPresent
  <2>8. \A u \in Times : d[u] # "none" => cold[p.s][u] # "none"
    BY <1>0, <2>5, <2>6, <2>7, NewestPruned
  <2> QED
    BY <1>0, <2>4, <2>5, <2>8
<1> QED
  BY <1>1, <1>2

\* A snapshot appears in the cold tier of a tiered server by a transfer.
LEMMA ColdArrives ==
  ASSUME TypeInv, Control, [Next]_vars, NEW s \in Servers, Tiered(s), NEW t \in Times,
         cold'[s][t] # "none", cold[s][t] = "none"
  PROVE  /\ wrk.s = s /\ wrk.pc = "transfer" /\ wrk.sel = t /\ hot' = hot
         /\ WorkerStored \/ WorkerReplyLost
<1>0. cold[s] \in [Times -> Dir]
  BY DEF TypeInv, TypeOK
<1>1. ~Crash
  BY CrashLeaves
<1>2. CASE /\ wrk.s = s /\ wrk.pc = "transfer" /\ hot' = hot
           /\ cold'[s] = [cold[s] EXCEPT ![wrk.sel] = "whole"]
           /\ WorkerStored \/ WorkerReplyLost
  BY <1>0, <1>2
<1>3. CASE \E E \in ColdDoomed(s) : cold'[s] = Without(cold[s], Finished(E))
  BY <1>3 DEF Without
<1> QED
  BY <1>1, <1>2, <1>3, ColdMoves

\* The newest capture is never pruned by count: the hot tier's newest only moves on.
LEMMA HotNewestGrows ==
  ASSUME TypeInv, Control, HotPruneDays = 0, [Next]_vars, NEW s \in Servers
  PROVE  Newest(Present(hot[s])) <= Newest(Present(hot'[s]))
<1>0. /\ hot \in [Servers -> [Times -> Dir]] /\ hot[s] \in [Times -> Dir]
      /\ cyc.s \in Servers /\ wrk.s \in Servers
      /\ Newest(Present(hot[s])) \in Nat /\ Newest(Present(hot'[s])) \in Nat
  BY NewestFacts, TimesFacts DEF TypeInv, TypeOK
<1>1. CASE hot'[s] = hot[s]
  BY <1>0, <1>1
<1>2. CASE cyc.pc = "copy" /\ cyc.s = s /\ hot' = [hot EXCEPT ![cyc.s][cyc.ts] = "whole"]
  <2>1. PICK x \in Times : x = cyc.ts
    BY <1>2 DEF TypeInv, PcInv
  <2>2. PICK d2 : d2 = hot'[s]
    OBVIOUS
  <2>3. d2[x] # "none" /\ \A u \in Times : u # x => d2[u] = hot[s][u]
    BY <1>0, <1>2, <2>1, <2>2
  <2>4. Newest(Present(d2)) = IF x > Newest(Present(hot[s])) THEN x ELSE Newest(Present(hot[s]))
    BY <2>3, NewestAdded
  <2>5. x \in Nat
    BY TimesFacts
  <2> QED
    BY <1>0, <2>2, <2>4, <2>5
<1>3. CASE wrk.s = s /\ Pruned(hot[wrk.s], hot'[wrk.s], HotDoomed(wrk.s))
  <2> DEFINE S == Present(hot[s])
  <2>1. Pruned(hot[s], hot'[s], LocalDoomed(S, 0, HotPruneCount, now))
    BY <1>3 DEF HotDoomed
  <2>2. S \in SUBSET Int /\ IsFiniteSet(S)
    BY TimesFacts DEF Present
  <2>3. Newest(S) \notin LocalDoomed(S, 0, HotPruneCount, now)
    <3>1. CASE S = {}
      BY <3>1, DoomedPresent
    <3>2. CASE S # {}
      <4>1. Newest(S) \notin DaysDoomed(S, 0, now)
        BY DEF DaysDoomed
      <4> QED
        BY <2>2, <3>2, <4>1, LocalSparesNewest, Numbers
    <3> QED
      BY <3>1, <3>2
  <2>4. LocalDoomed(S, 0, HotPruneCount, now) \in SUBSET S
    BY DoomedPresent
  <2>5. Newest(Present(hot'[s])) = Newest(S)
    <3>1. PICK d2 : d2 = hot'[s]
      OBVIOUS
    <3> QED
      BY <1>0, <2>1, <2>3, <2>4, <3>1, NewestPruned
  <2> QED
    BY <1>0, <2>5
<1> QED
  BY <1>0, <1>1, <1>2, <1>3, HotStep

\* The hot tier of a tiered server is never behind its cold tier, nor is the capture
\* that the worker is about to store.
Ahead ==
    \A s \in Servers : Tiered(s) =>
        \A t \in Times : cold[s][t] # "none" =>
            /\ t <= Newest(Present(hot[s]))
            /\ wrk.s = s /\ wrk.pc \in {"begin", "transfer"} => t <= wrk.sel

\* The worker offloads the newest capture it finds, and a count prune spares it.
LEMMA AheadStep ==
  ASSUME TypeInv, Control, TransferSourceWhole, Ahead, HotPruneDays = 0, [Next]_vars
  PROVE  Ahead'
<1> SUFFICES ASSUME NEW s \in Servers, Tiered(s)', NEW t \in Times, cold'[s][t] # "none"
             PROVE  /\ t <= Newest(Present(hot'[s]))
                    /\ wrk'.s = s /\ wrk'.pc \in {"begin", "transfer"} => t <= wrk'.sel
  BY DEF Ahead
<1>0. /\ Tiered(s) /\ t \in Nat /\ wrk.s \in Servers /\ wrk.sel \in Stamps
      /\ Newest(Present(hot[s])) \in Nat /\ Newest(Present(hot'[s])) \in Nat
  BY TargetConstant, TimesFacts, NewestFacts DEF TypeInv, TypeOK
<1>1. \/ /\ cold[s][t] # "none" /\ t <= Newest(Present(hot[s]))
         /\ wrk.s = s /\ wrk.pc \in {"begin", "transfer"} => t <= wrk.sel
      \/ wrk.s = s /\ wrk.pc = "transfer" /\ wrk.sel = t /\ hot' = hot
  BY <1>0, ColdArrives DEF Ahead
<1>2. t <= Newest(Present(hot[s]))
  <2>1. CASE wrk.s = s /\ wrk.pc = "transfer" /\ wrk.sel = t
    <3>1. hot[s][t] = "whole"
      BY <2>1 DEF TransferSourceWhole
    <3> QED
      BY <3>1, NewestFacts
  <2> QED
    BY <1>1, <2>1
<1>3. t <= Newest(Present(hot'[s]))
  BY <1>0, <1>2, HotNewestGrows
<1>4. ASSUME wrk.s = s, wrk.pc \in {"begin", "transfer"} PROVE t <= wrk.sel
  BY <1>0, <1>1, <1>4
<1>5. ASSUME wrk'.s = s, wrk'.pc \in {"begin", "transfer"} PROVE t <= wrk'.sel
  <2>0. NoWork.pc = "idle"
    BY IdleFacts
  <2>1. CASE wrk' = wrk
    BY <1>4, <1>5, <2>1
  <2>2. CASE WorkerSelect
    <3>1. wrk'.sel = Newest(Present(hot[wrk.s])) /\ wrk.s = s
      BY <1>5, <2>0, <2>2, WorkerMoves
    <3> QED
      BY <1>2, <3>1
  <2>3. CASE WorkerBegin
    <3>1. wrk.pc = "begin" /\ wrk'.sel = wrk.sel /\ wrk.s = s
      BY <1>5, <2>3, WorkerMoves
    <3> QED
      BY <1>4, <3>1
  <2>4. ~Crash
    BY <1>5, <2>0 DEF Crash
  <2>5. ASSUME WorkerStep PROVE WorkerSelect \/ WorkerBegin
    BY <1>5, <2>0, <2>5, WorkerMoves DEF WorkerStep
  <2> QED
    BY <2>1, <2>2, <2>3, <2>4, <2>5, Frames
<1> QED
  BY <1>3, <1>5

\* So without day pruning the hot tier is ahead at all times.
LEMMA AheadInvariant ==
  ASSUME HotPruneDays = 0
  PROVE  Spec => []Ahead
<1>1. Init => Ahead
  BY DEF Init, Ahead, NoDirs
<1>2. TypeInv /\ Control /\ TransferSourceWhole /\ Ahead /\ [Next]_vars => Ahead'
  BY AheadStep
<1>3. Spec => []TransferSourceWhole
  BY SourceIsWhole
<1> QED
  BY <1>1, <1>2, <1>3, TypesAndControl, PTL DEF Spec

-----------------------------------------------------------------------------
(***************************************************************************)
(* Modification times on the NAS                                           *)
(***************************************************************************)

\* Nothing makes the worker repeat a rename on the NAS.
Timely(tg) == tg = "tiered-nas" => "crash" \notin Faults /\ "reply" \notin Faults

\* The record then covers what such a NAS has, which is nothing before the start.
Recorded ==
    \A s \in Servers, t \in Times :
        target[s] = "tiered-nas" /\ Timely(target[s]) /\ cold[s][t] # "none" =>
            /\ phase = "up"
            /\ t <= last[s].cold \/ (wrk.s = s /\ wrk.pc = "record" /\ t = wrk.sel)

\* So every finished directory keeps the time of its capture; on other targets no
\* transfer is ever put into one.
Timed ==
    \A s \in Servers : Timely(target[s]) => \A t \in Times : again[s][t] = 0

\* A step keeps the record ahead of such a NAS.
LEMMA RecordedStep ==
  ASSUME TypeInv, Control, Behind, Recorded, [Next]_vars
  PROVE  Recorded'
<1> SUFFICES ASSUME NEW s \in Servers, NEW t \in Times, target'[s] = "tiered-nas",
                    Timely(target'[s]), cold'[s][t] # "none"
             PROVE  /\ phase' = "up"
                    /\ t <= last'[s].cold \/ (wrk'.s = s /\ wrk'.pc = "record" /\ t = wrk'.sel)
  BY DEF Recorded, Timely
<1>0. /\ target[s] = "tiered-nas" /\ Timely(target[s]) /\ Tiered(s)
      /\ "crash" \notin Faults /\ "reply" \notin Faults
  BY TargetConstant DEF Timely, Tiered
<1>1. ~Crash /\ ~WorkerReplyLost
  BY <1>0 DEF Crash, WorkerReplyLost
<1>2. /\ last \in [Servers -> Record] /\ wrk.s \in Servers /\ cyc.s \in Servers
      /\ last[s].cold \in Nat /\ t \in Nat /\ wrk.sel \in Nat
  BY TimesFacts DEF TypeInv, TypeOK, Record
<1>3. CASE cold[s][t] = "none"
  <2>1. wrk.s = s /\ wrk.pc = "transfer" /\ wrk.sel = t /\ WorkerStored
    BY <1>0, <1>1, <1>3, ColdArrives
  <2>2. phase' = "up"
    BY <2>1 DEF Control, WorkerStored, WorkerUnchanged
  <2> QED
    BY <2>1, <2>2, WorkerMoves
<1>4. CASE cold[s][t] # "none"
  <2>1. phase = "up" /\ (t <= last[s].cold \/ (wrk.s = s /\ wrk.pc = "record" /\ t = wrk.sel))
    BY <1>0, <1>4 DEF Recorded
  <2>2. ~Start /\ ~BootRecord
    BY <2>1 DEF Start, BootRecord, Control
  <2>3. phase' = "up"
    BY <1>1, <2>1, <2>2, Frames
  <2>4. CASE t <= last[s].cold
    <3>1. last'[s].cold >= last[s].cold /\ last'[s].cold \in Nat
      <4>1. CASE CycleRecord
        <5>1. last' = [last EXCEPT ![cyc.s].hot = cyc.ts] \/ (cyc.s # s /\ last' = SetCold(cyc.s, cyc.ts))
          BY <1>0, <4>1 DEF CycleRecord
        <5>2. last'[s].cold = last[s].cold
          BY <1>2, <5>1 DEF SetCold, Record
        <5> QED
          BY <1>2, <5>2
      <4>2. CASE WorkerRecord
        <5>1. wrk.pc = "record" /\ last' = SetOffloaded(wrk.s, wrk.sel)
          BY <4>2 DEF WorkerRecord
        <5>2. wrk.s = s => last[s].cold < wrk.sel
          BY <5>1 DEF Behind
        <5> QED
          BY <1>2, <5>1, <5>2, OffloadedRecord
      <4> QED
        BY <1>1, <1>2, <2>2, <4>1, <4>2, Frames
    <3> QED
      BY <1>2, <2>3, <2>4, <3>1
  <2>5. CASE wrk.s = s /\ wrk.pc = "record" /\ t = wrk.sel
    <3>1. CASE WorkerRecord
      <4>1. last'[s].cold = wrk.sel
        BY <2>5, <3>1, OffloadedRecord DEF WorkerRecord
      <4> QED
        BY <1>2, <2>3, <2>5, <4>1
    <3>2. CASE ~WorkerRecord
      <4>1. wrk' = wrk
        BY <1>1, <2>5, <3>2, Frames, WorkerMoves DEF WorkerStep
      <4> QED
        BY <2>3, <2>5, <4>1
    <3> QED
      BY <3>1, <3>2
  <2> QED
    BY <2>1, <2>4, <2>5
<1> QED
  BY <1>3, <1>4

\* Who changes the times of finished directories: a prune forgets some, a transfer
\* put into one sets it.
LEMMA AgainMoves ==
  ASSUME TypeInv, Control, [Next]_vars, NEW s \in Servers
  PROVE  \/ \A t \in Times : again'[s][t] \in {0, again[s][t]}
         \/ /\ wrk.s = s /\ wrk.pc = "transfer" /\ target[s] = "tiered-nas" /\ phase = "up"
            /\ cold[s][wrk.sel] # "none"
<1>0. /\ again \in [Servers -> [Times -> Stamps]] /\ wrk.s \in Servers /\ cyc.s \in Servers
      /\ wrk.pc # "idle" => Tiered(wrk.s) /\ phase = "up"
  BY DEF TypeInv, TypeOK, Control
<1>1. CASE WorkerStored \/ WorkerReplyLost
  <2>1. wrk.pc = "transfer" /\ ColdRename(wrk.s, wrk.sel)
    BY <1>1 DEF WorkerStored, WorkerReplyLost
  <2>2. CASE cold[wrk.s][wrk.sel] = "none"
    <3>1. again' = again
      BY <2>1, <2>2 DEF ColdRename
    <3> QED
      BY <3>1
  <2>3. CASE cold[wrk.s][wrk.sel] # "none"
    <3>1. again' = [again EXCEPT ![wrk.s][wrk.sel] = now] /\ OnNas(wrk.s)
      BY <2>1, <2>3 DEF ColdRename, Blocked
    <3>2. target[wrk.s] = "tiered-nas"
      BY <1>0, <2>1, <3>1 DEF OnNas, Tiered
    <3>3. wrk.s # s => again'[s] = again[s]
      BY <1>0, <3>1
    <3> QED
      BY <1>0, <2>1, <2>3, <3>2, <3>3
  <2> QED
    BY <2>2, <2>3
<1>2. ASSUME NEW x \in Servers, NEW T, again' = [again EXCEPT ![x] = Forgotten(@, T)]
      PROVE  \A t \in Times : again'[s][t] \in {0, again[s][t]}
  BY <1>0, <1>2 DEF Forgotten
<1>3. CASE WorkerPruneCold \/ CyclePrune
  <2>1. PICK x \in {wrk.s, cyc.s} : PruneCold(x)
    BY <1>3 DEF WorkerPruneCold, CyclePrune
  <2>2. PICK T : again' = [again EXCEPT ![x] = Forgotten(@, T)]
    BY <2>1 DEF PruneCold
  <2> QED
    BY <1>0, <1>2, <2>1, <2>2
<1>4. CASE Crash
  <2>1. CASE again' = again
    BY <2>1
  <2>2. CASE again' # again
    <3>1. PICK p \in {cyc, wrk} : TornPrune(p.s)
      BY <1>4, <2>2 DEF Crash, disk
    <3>2. PICK T : again' = [again EXCEPT ![p.s] = Forgotten(@, T)]
      BY <3>1 DEF TornPrune
    <3>3. p.s \in Servers
      BY <1>0
    <3> QED
      BY <1>2, <3>2, <3>3
  <2> QED
    BY <2>1, <2>2
<1>5. CASE ~(WorkerStored \/ WorkerReplyLost \/ WorkerPruneCold \/ CyclePrune \/ Crash)
  <2>1. again' = again
    BY <1>5 DEF Next, vars, disk, Tick, ClockBack, Start, CycleStart, BootList, CopyProgress,
       CycleStep, WorkerProgress, WorkerStep, BootLoad, BootFileRead, BootFileRename,
       BootRecord, BootUnchanged, CycleFails, CopyStart, CopyOk, CopyFail, SaveOnFail, CycleRecord,
       CycleFileRead, CycleFileRename, CycleAnnounce, CycleEnqueue, WorkerTake, WorkerSelect,
       WorkerBegin, WorkerFail, WorkerRecord, WorkerFileRead, WorkerFileRename, WorkerPruneHot
  <2> QED
    BY <2>1
<1> QED
  BY <1>1, <1>3, <1>4, <1>5

\* A step keeps the times.
LEMMA TimedStep ==
  ASSUME TypeInv, Control, Behind, Recorded, Timed, [Next]_vars
  PROVE  Timed'
<1> SUFFICES ASSUME NEW s \in Servers, Timely(target'[s]), NEW t \in Times PROVE again'[s][t] = 0
  BY DEF Timed, Timely
<1>1. Timely(target[s]) /\ again[s][t] = 0
  BY TargetConstant DEF Timed
<1>2. ASSUME wrk.s = s, wrk.pc = "transfer", target[s] = "tiered-nas", cold[s][wrk.sel] # "none"
      PROVE  FALSE
  <2>1. wrk.sel \in Times /\ last[s].cold \in Nat /\ wrk.sel \in Nat
    BY <1>2, TimesFacts DEF TypeInv, TypeOK, PcInv, Record
  <2>2. wrk.sel <= last[s].cold
    BY <1>1, <1>2, <2>1 DEF Recorded
  <2>3. last[s].cold < wrk.sel
    BY <1>2 DEF Behind
  <2> QED
    BY <2>1, <2>2, <2>3
<1> QED
  BY <1>1, <1>2, AgainMoves

\* They hold in every state.
LEMMA TimesKept == Spec => []Timed
<1>1. Init => Recorded /\ Timed
  BY DEF Init, Recorded, Timed, NoDirs
<1>2. TypeInv /\ Control /\ Behind /\ Recorded /\ [Next]_vars => Recorded'
  BY RecordedStep
<1>3. TypeInv /\ Control /\ Behind /\ Recorded /\ Timed /\ [Next]_vars => Timed'
  BY TimedStep
<1> QED
  BY <1>1, <1>2, <1>3, CoverInvariants, PTL DEF Spec

-----------------------------------------------------------------------------
(***************************************************************************)
(* Retention                                                               *)
(***************************************************************************)

\* A prune removes complete snapshots for the reasons the README gives.
LEMMA PruneHasReason ==
  ASSUME TypeInv, NEW d \in [Times -> Dir], NEW days \in Nat, NEW n \in Nat,
         Countable(days), Covered(d, n), NEW d2,
         Pruned(d, d2, LocalDoomed(Present(d), days, n, now))
  PROVE  RemovedForReason(d, d2, days, n)
<1> SUFFICES ASSUME NEW t \in Times, d[t] = "whole", d2[t] = "none"
             PROVE  \/ days > 0 /\ t < now - days * DayLength
                    \/ n > 0 /\ Cardinality({u \in Times : u > t /\ d2[u] = "whole"}) >= n
  BY DEF RemovedForReason
<1>1. \/ t \in DaysDoomed(Present(d), days, now)
      \/ n > 0 /\ Cardinality(NewerThan(Whole(d2), t)) >= n
  BY PruneKeeps, Numbers
<1>2. NewerThan(Whole(d2), t) = {u \in Times : u > t /\ d2[u] = "whole"}
  BY DEF NewerThan, Whole
<1>3. t \in DaysDoomed(Present(d), days, now) => days > 0 /\ t < now - days * DayLength
  BY DEF DaysDoomed
<1> QED
  BY <1>1, <1>2, <1>3

\* Nothing complete disappears from a tier that keeps what it has.
LEMMA KeptHasReason ==
  ASSUME NEW d, NEW d2, NEW days, NEW n, \A t \in Times : d[t] = "whole" => d2[t] # "none"
  PROVE  RemovedForReason(d, d2, days, n)
BY DEF RemovedForReason

\* What a step removes from the hot tier.
LEMMA HotRemoved ==
  ASSUME TypeInv, Control, HotCovered, Countable(HotPruneDays), [Next]_vars, NEW s \in Servers
  PROVE  RemovedForReason(hot[s], hot'[s], HotPruneDays, HotPruneCount)
<1>1. /\ hot \in [Servers -> [Times -> Dir]] /\ hot[s] \in [Times -> Dir]
      /\ cyc.s \in Servers /\ wrk.s \in Servers
  BY DEF TypeInv, TypeOK
<1>2. CASE hot'[s] = hot[s]
  BY <1>2, KeptHasReason
<1>3. CASE cyc.pc = "copy" /\ hot' = [hot EXCEPT ![cyc.s][cyc.ts] = "whole"]
  <2>1. \A t \in Times : hot[s][t] = "whole" => hot'[s][t] # "none"
    BY <1>1, <1>3
  <2> QED
    BY <2>1, KeptHasReason
<1>4. CASE wrk.s = s /\ Pruned(hot[wrk.s], hot'[wrk.s], HotDoomed(wrk.s))
  <2>1. Pruned(hot[s], hot'[s], LocalDoomed(Present(hot[s]), HotPruneDays, HotPruneCount, now))
    BY <1>4 DEF HotDoomed
  <2> QED
    BY <1>1, <2>1, PruneHasReason, Numbers DEF HotCovered
<1> QED
  BY <1>2, <1>3, <1>4, HotStep

\* What a step removes from local cold storage.
LEMMA ColdRemoved ==
  ASSUME TypeInv, Control, ColdCovered, Countable(PruneDays), [Next]_vars,
         NEW s \in Servers, target[s] = "tiered-local"
  PROVE  RemovedForReason(cold[s], cold'[s], PruneDays, PruneCount)
<1>1. cold[s] \in [Times -> Dir]
  BY DEF TypeInv, TypeOK
<1>2. CASE cold'[s] = cold[s]
  BY <1>2, KeptHasReason
<1>3. CASE cold'[s] = [cold[s] EXCEPT ![wrk.sel] = "whole"]
  <2>1. \A t \in Times : cold[s][t] = "whole" => cold'[s][t] # "none"
    BY <1>1, <1>3
  <2> QED
    BY <2>1, KeptHasReason
<1>4. CASE Pruned(cold[s], cold'[s], LocalDoomed(Present(cold[s]), PruneDays, PruneCount, now))
  BY <1>1, <1>4, PruneHasReason, Numbers DEF ColdCovered
<1> QED
  BY <1>2, <1>3, <1>4, ColdStep

\* Entries and names of finished snapshots go together.
LEMMA EntriesOfNames ==
  ASSUME NEW X, NEW Y
  PROVE  /\ Finished(FinishedEntries(X)) = X
         /\ FinishedEntries(X) \cup FinishedEntries(Y) = FinishedEntries(X \cup Y)
         /\ FinishedEntries(X) \ FinishedEntries(Y) = FinishedEntries(X \ Y)
<1> DEFINE F(t) == [name |-> t, mtime |-> t, wip |-> FALSE]
<1>1. \A t : F(t).name = t /\ F(t).wip = FALSE
  OBVIOUS
<1>2. \A Z : FinishedEntries(Z) = {F(t) : t \in Z}
  BY DEF FinishedEntries
<1>3. \A t, u : F(t) = F(u) => t = u
  BY <1>1
<1> HIDE DEF F
<1>4. Finished(FinishedEntries(X)) = X
  BY <1>1, <1>2 DEF Finished
<1>5. FinishedEntries(X) \cup FinishedEntries(Y) = FinishedEntries(X \cup Y)
  BY <1>2
<1>6. FinishedEntries(X) \ FinishedEntries(Y) = FinishedEntries(X \ Y)
  BY <1>2, <1>3
<1> QED
  BY <1>4, <1>5, <1>6

\* Without unfinished transfers and repeated renames the prunes of any cold tier
\* remove snapshots that are too old and then, unless that fails, all but the newest
\* of the others.
LEMMA ColdPruneShape ==
  ASSUME TypeInv, NEW s \in Servers,
         OnNas(s) => \A t \in Times : wip[s][t] = 0 /\ again[s][t] = 0,
         NEW E \in ColdDoomed(s)
  PROVE  \E old \in SUBSET DaysDoomed(Present(cold[s]), PruneDays, now) :
           \/ Finished(E) = old
           \/ Finished(E) = old \cup CountDoomed(Present(cold[s]) \ old, PruneCount)
<1> DEFINE P == Present(cold[s])
<1>0. /\ P \in SUBSET Int /\ IsFiniteSet(P) /\ now \in Int /\ PruneDays \in Int /\ PruneCount \in Int
      /\ \A Z \in SUBSET P : IsFiniteSet(Z) /\ Z \in SUBSET Int
  <2>1. P \in SUBSET Times
    BY DEF Present
  <2>2. \A Z \in SUBSET P : Z \in SUBSET Times
    BY <2>1
  <2>3. PruneDays \in Int /\ PruneCount \in Int /\ now \in Int
    BY Numbers
  <2> HIDE DEF P
  <2> QED
    BY <2>1, <2>2, <2>3, TimesFacts
<1>1. CASE ~OnNas(s)
  <2>1. Finished(E) = LocalDoomed(P, PruneDays, PruneCount, now)
    BY <1>1, LocalColdDoomed
  <2> QED
    BY <2>1 DEF LocalDoomed
<1>2. CASE OnNas(s)
  <2>1. NasEntries(s) = FinishedEntries(P)
    <3>1. {u \in Times : wip[s][u] # 0} = {} /\ \A t \in P : MTime(s, t) = t
      BY <1>2 DEF MTime, Present
    <3> QED
      BY <3>1, Zenon DEF NasEntries, FinishedEntries
  <2>2. PICK d \in NasWorks, c \in NasWorks : E \in NasDoomed(s, d, c)
    BY <1>2 DEF ColdDoomed
  <2> HIDE DEF P
  <2> DEFINE gone == NasDaysDoomed(FinishedEntries(P), PruneDays, now)
             old  == IF d THEN {e.name : e \in gone} ELSE {}
  <2>3. {e.name : e \in gone} \subseteq DaysDoomed(P, PruneDays, now)
    <3> DEFINE m == [t \in P |-> t]
    <3>1. /\ EntriesAt(P, m) = FinishedEntries(P)
          /\ EntriesAt(P, m) \cup {} = EntriesAt(P, m)
      BY DEF EntriesAt, FinishedEntries
    <3>2. m \in [P -> Int] /\ \A t \in P : m[t] >= t
      BY <1>0
    <3> HIDE DEF m
    <3>3. {e.name : e \in NasDaysDoomed(EntriesAt(P, m) \cup {}, PruneDays, now)}
            \subseteq DaysDoomed(P, PruneDays, now)
      BY <1>0, <3>2, NasWaitsUnderADay
    <3> QED
      BY <3>1, <3>3
  <2>4. gone = FinishedEntries({e.name : e \in gone})
    <3>1. gone \subseteq FinishedEntries(P)
      BY DEF NasDaysDoomed
    <3> HIDE DEF gone
    <3> DEFINE F(t) == [name |-> t, mtime |-> t, wip |-> FALSE]
    <3>2. \A t : F(t).name = t
      OBVIOUS
    <3>3. \A Z : FinishedEntries(Z) = {F(t) : t \in Z}
      BY DEF FinishedEntries
    <3> HIDE DEF F
    <3>4. \A e \in gone : e = F(e.name)
      BY <3>1, <3>2, <3>3
    <3>5. {F(t) : t \in {e.name : e \in gone}} = gone
      BY <3>4
    <3> QED
      BY <3>3, <3>5
  <2>5. (IF d THEN gone ELSE {}) = FinishedEntries(old)
    <3>1. FinishedEntries({}) = {}
      BY DEF FinishedEntries
    <3> HIDE DEF gone
    <3> QED
      BY <2>4, <3>1
  <2>6. old \subseteq DaysDoomed(P, PruneDays, now)
    BY <2>3
  <2> HIDE DEF old, gone
  <2>7. PICK more \in IF c THEN NasCountDoomed(FinishedEntries(P) \ FinishedEntries(old), PruneCount)
                            ELSE {{}} :
          E = FinishedEntries(old) \cup more
    BY <2>1, <2>2, <2>5 DEF NasDoomed, gone
  <2>8. c => more = FinishedEntries(CountDoomed(P \ old, PruneCount))
    <3>1. P \ old \in SUBSET Int /\ IsFiniteSet(P \ old)
      BY <1>0
    <3>2. FinishedEntries(P) \ FinishedEntries(old) = FinishedEntries(P \ old)
      BY EntriesOfNames
    <3> QED
      BY <1>0, <2>7, <3>1, <3>2, NasCountsLikeLocal
  <2>9. E = FinishedEntries(old) \/ E = FinishedEntries(old \cup CountDoomed(P \ old, PruneCount))
    <3>1. FinishedEntries(old) \cup FinishedEntries(CountDoomed(P \ old, PruneCount))
            = FinishedEntries(old \cup CountDoomed(P \ old, PruneCount))
      BY EntriesOfNames
    <3>2. CASE c
      BY <2>7, <2>8, <3>1, <3>2
    <3>3. CASE ~c
      <4>1. E = FinishedEntries(old)
        BY <2>7, <3>3
      <4> QED
        BY <4>1
    <3> QED
      BY <3>2, <3>3
  <2>10. Finished(E) = old \/ Finished(E) = old \cup CountDoomed(P \ old, PruneCount)
    BY <2>9, EntriesOfNames
  <2> QED
    BY <2>6, <2>10 DEF P
<1> QED
  BY <1>1, <1>2

\* The count prune spares n newer names for each it removes.
LEMMA CountSpares ==
  ASSUME NEW L \in SUBSET Times, NEW n \in Nat, NEW t \in CountDoomed(L, n)
  PROVE  /\ n > 0
         /\ \E K \in SUBSET (L \ CountDoomed(L, n)) :
              IsFiniteSet(K) /\ Cardinality(K) = n /\ \A u \in K : u > t
<1> DEFINE K == L \ CountDoomed(L, n)
<1>1. n > 0 /\ t \in L /\ CountDoomed(L, n) # {}
  BY DEF CountDoomed
<1>2. IsFiniteSet(L) /\ L \in SUBSET Int /\ IsFiniteSet(K) /\ Times \subseteq Int
  BY TimesFacts
<1>3. Cardinality(K) = n
  BY <1>1, <1>2, CountKeepsExactly
<1>4. ASSUME NEW u \in K PROVE u > t
  <2>1. ~(u <= t)
    BY <1>1, <1>2, CountPrunesOldest
  <2> QED
    BY <1>1, <1>2, <2>1
<1> QED
  BY <1>1, <1>2, <1>3, <1>4

\* A prune of that shape, of a tier that is complete, removes for a reason.
LEMMA ShapeHasReason ==
  ASSUME TypeInv, NEW d \in [Times -> Dir], \A t \in Times : d[t] # "torn",
         NEW days \in Nat, NEW n \in Nat, NEW old \in SUBSET DaysDoomed(Present(d), days, now),
         NEW X \in {old, old \cup CountDoomed(Present(d) \ old, n)},
         NEW d2, d2 = Without(d, X)
  PROVE  RemovedForReason(d, d2, days, n)
<1> SUFFICES ASSUME NEW t \in Times, d[t] = "whole", d2[t] = "none"
             PROVE  \/ days > 0 /\ t < now - days * DayLength
                    \/ n > 0 /\ Cardinality({u \in Times : u > t /\ d2[u] = "whole"}) >= n
  BY DEF RemovedForReason
<1> DEFINE L == Present(d) \ old
           N == {u \in Times : u > t /\ d2[u] = "whole"}
<1>1. t \in X
  BY DEF Without
<1>2. CASE t \in old
  BY <1>2 DEF DaysDoomed
<1>3. CASE t \in CountDoomed(L, n) /\ X = old \cup CountDoomed(L, n)
  <2>0. L \in SUBSET Times
    BY DEF Present
  <2>1. n > 0 /\ \E K \in SUBSET (L \ CountDoomed(L, n)) :
              IsFiniteSet(K) /\ Cardinality(K) = n /\ \A u \in K : u > t
    BY <1>3, <2>0, CountSpares
  <2>2. PICK K \in SUBSET (L \ CountDoomed(L, n)) :
              IsFiniteSet(K) /\ Cardinality(K) = n /\ \A u \in K : u > t
    BY <2>1
  <2>3. ASSUME NEW u \in K PROVE u \in N
    <3>1. u \in Times /\ d[u] # "none" /\ u \notin X /\ u > t
      BY <1>3, <2>2 DEF Present
    <3>2. d[u] = "whole" /\ d2[u] = d[u]
      BY <3>1 DEF Dir, Without
    <3> QED
      BY <3>1, <3>2
  <2>4. IsFiniteSet(N)
    BY TimesFacts
  <2> HIDE DEF N
  <2>5. Cardinality(K) <= Cardinality(N) /\ Cardinality(N) \in Nat
    BY <2>3, <2>4, FS_Subset, FS_CardinalityType
  <2>6. n > 0 /\ Cardinality(N) >= n
    BY <2>1, <2>2, <2>5
  <2> QED
    BY <2>6 DEF N
<1> QED
  BY <1>1, <1>2, <1>3

\* While the cold tier of s is pruned no transfer to it is under way.
LEMMA PruneFindsTidy ==
  ASSUME TypeInv, Control, Untorn, Tidy, Timed, NEW s \in Servers,
         \/ cyc.s = s /\ cyc.pc = "prune" /\ ~Tiered(s)
         \/ wrk.s = s /\ wrk.pc = "pruneCold" /\ Tiered(s)
  PROVE  /\ KeepsWhole(target[s]) => \A t \in Times : cold[s][t] # "torn"
         /\ CleansUp(target[s]) => \A t \in Times : wip[s][t] = 0
         /\ Timely(target[s]) => \A t \in Times : again[s][t] = 0
BY DEF Control, Untorn, Tidy, Timed

\* What a step removes from a cold tier of any kind.
LEMMA CarefulColdRemoved ==
  ASSUME TypeInv, Control, Untorn, Tidy, Timed, [Next]_vars, NEW s \in Servers,
         KeepsWhole(target[s]), CleansUp(target[s]), Timely(target[s])
  PROVE  RemovedForReason(cold[s], cold'[s], PruneDays, PruneCount)
<1>0. cold[s] \in [Times -> Dir] /\ now \in Times
  BY DEF TypeInv, TypeOK
<1>1. ~Crash
  BY DEF Crash, KeepsWhole
<1>2. CASE cold'[s] = cold[s]
  BY <1>2, KeptHasReason
<1>3. ASSUME NEW x, NEW v \in {"whole", "torn"}, cold'[s] = [cold[s] EXCEPT ![x] = v]
      PROVE  RemovedForReason(cold[s], cold'[s], PruneDays, PruneCount)
  <2>1. \A t \in Times : cold[s][t] = "whole" => cold'[s][t] # "none"
    BY <1>0, <1>3
  <2> QED
    BY <2>1, KeptHasReason
<1>4. CASE /\ \/ cyc.s = s /\ cyc.pc = "prune" /\ ~Tiered(s)
              \/ wrk.s = s /\ wrk.pc = "pruneCold" /\ Tiered(s)
           /\ \E E \in ColdDoomed(s) : cold'[s] = Without(cold[s], Finished(E))
  <2>1. /\ \A t \in Times : cold[s][t] # "torn"
        /\ \A t \in Times : wip[s][t] = 0 /\ again[s][t] = 0
    BY <1>4, PruneFindsTidy
  <2>2. PICK E \in ColdDoomed(s) : cold'[s] = Without(cold[s], Finished(E))
    BY <1>4
  <2>3. PICK old \in SUBSET DaysDoomed(Present(cold[s]), PruneDays, now) :
           \/ Finished(E) = old
           \/ Finished(E) = old \cup CountDoomed(Present(cold[s]) \ old, PruneCount)
    BY <2>1, ColdPruneShape
  <2> QED
    BY <1>0, <2>1, <2>2, <2>3, ShapeHasReason, Numbers
<1> QED
  BY <1>1, <1>2, <1>3, <1>4, ColdMoves

\* What the retention of a server's cold tier needs: either its storage is local
\* behind a hot tier and pruned by count only, or nothing damages or litters it or
\* changes its times.
Tended(tg) ==
    \/ tg = "tiered-local" /\ PruneDays = 0
    \/ KeepsWhole(tg) /\ CleansUp(tg) /\ Timely(tg)

AllTended == \A f \in TargetChoices : \A s \in Servers : Tended(f[s])

\* A complete snapshot goes only because it is too old or because enough complete
\* newer ones stay, for every mix of targets: behind a hot tier also when a crash
\* cuts a prune short and the next one continues; on the NAS and in place as long as
\* no crash, failed capture or failed clean-up leaves something incomplete there and
\* no lost reply makes the worker repeat a rename.
THEOREM RetentionIsSafe ==
  ASSUME AllTended, HotPruneDays = 0 \/ "crash" \notin Faults
  PROVE  Spec => RetentionKeepsNewest
<1> DEFINE Step == \A s \in Servers :
             /\ RemovedForReason(hot[s], hot'[s], HotPruneDays, HotPruneCount)
             /\ RemovedForReason(cold[s], cold'[s], PruneDays, PruneCount)
           Cold == Countable(PruneDays) => ColdCovered
<1>1. Countable(HotPruneDays)
  BY DEF Countable
<1>2. Spec => []HotCovered
  BY <1>1, TiersCovered
<1>3. Spec => []Cold
  <2>1. CASE Countable(PruneDays)
    <3>1. Spec => []ColdCovered
      BY <2>1, TiersCovered
    <3>2. ColdCovered => Cold
      OBVIOUS
    <3> QED
      BY <3>1, <3>2, PTL
  <2>2. CASE ~Countable(PruneDays)
    <3>1. Cold
      BY <2>2
    <3> QED
      BY <3>1, PTL
  <2> QED
    BY <2>1, <2>2
<1>4. TypeInv /\ Control /\ HotCovered /\ Cold /\ Untorn /\ Tidy /\ Timed /\ [Next]_vars => [Step]_vars
  <2> SUFFICES ASSUME TypeInv, Control, HotCovered, Cold, Untorn, Tidy, Timed, [Next]_vars,
                      NEW s \in Servers
               PROVE  /\ RemovedForReason(hot[s], hot'[s], HotPruneDays, HotPruneCount)
                      /\ RemovedForReason(cold[s], cold'[s], PruneDays, PruneCount)
    OBVIOUS
  <2>1. Tended(target[s])
    BY DEF TypeInv, TypeOK, AllTended
  <2>2. CASE target[s] = "tiered-local" /\ PruneDays = 0
    BY <1>1, <2>2, HotRemoved, ColdRemoved DEF Countable
  <2>3. CASE KeepsWhole(target[s]) /\ CleansUp(target[s]) /\ Timely(target[s])
    BY <1>1, <2>3, HotRemoved, CarefulColdRemoved
  <2> QED
    BY <2>1, <2>2, <2>3 DEF Tended
<1>5. RetentionKeepsNewest <=> [][Step]_vars
  BY PTL DEF RetentionKeepsNewest
<1> QED
  BY <1>2, <1>3, <1>4, <1>5, CareInvariants, TimesKept, TypesAndControl, PTL DEF Spec

\* What a prune of a tidy NAS removes was modified too long ago, or enough stays that
\* was not modified before it.
LEMMA NasPruneHasReason ==
  ASSUME TypeInv, NEW s \in Servers, \A t \in Times : cold[s][t] # "torn" /\ wip[s][t] = 0,
         NEW d, NEW c, NEW E \in NasDoomed(s, d, c),
         NEW t \in Finished(E)
  PROVE  \/ PruneDays > 0 /\ MTime(s, t) < now - PruneDays * DayLength
         \/ /\ PruneCount > 0
            /\ \E K \in SUBSET (Present(cold[s]) \ Finished(E)) :
                 /\ IsFiniteSet(K) /\ Cardinality(K) = PruneCount
                 /\ \A u \in K : MTime(s, u) >= MTime(s, t)
<1> DEFINE P == Present(cold[s])
           F(u) == [name |-> u, mtime |-> MTime(s, u), wip |-> FALSE]
           old == IF d THEN NasDaysDoomed(NasEntries(s), PruneDays, now) ELSE {}
           left == NasEntries(s) \ old
<1>0. /\ \A u \in Times : MTime(s, u) \in Int
      /\ now \in Int /\ PruneDays \in Nat /\ PruneCount \in Nat /\ P \subseteq Times
      /\ IsFiniteSet(Times)
  <2>1. again[s] \in [Times -> Stamps] /\ IsFiniteSet(Times) /\ Times \subseteq Int
        /\ Stamps \subseteq Int
    BY TimesFacts DEF TypeInv, TypeOK
  <2>2. \A u \in Times : MTime(s, u) \in Int
    BY <2>1 DEF MTime
  <2> QED
    BY <2>1, <2>2, Numbers DEF Present
<1>1. NasEntries(s) = {F(u) : u \in P}
  <2>1. {u \in Times : wip[s][u] # 0} = {}
    OBVIOUS
  <2> QED
    BY <2>1, Zenon DEF NasEntries
<1>2. PICK more \in IF c THEN NasCountDoomed(left, PruneCount) ELSE {{}} : E = old \cup more
  BY DEF NasDoomed
<1>3. \A u, v : /\ F(u).name = u /\ F(u).mtime = MTime(s, u) /\ F(u).wip = FALSE
                /\ F(u) = F(v) => u = v
  OBVIOUS
<1>4. old \subseteq NasEntries(s) /\ more \subseteq left
  <2>1. old \subseteq NasEntries(s)
    BY DEF NasDaysDoomed
  <2> HIDE DEF old
  <2>2. more \subseteq left
    BY <1>2 DEF NasCountDoomed, TailsAfter
  <2> QED
    BY <2>1, <2>2
<1> HIDE DEF F, P, left
<1>5. PICK e \in E : e.name = t /\ e = F(t) /\ t \in P
  <2>1. PICK e \in E : e.name = t
    BY DEF Finished
  <2>2. e \in NasEntries(s)
    BY <1>2, <1>4, <2>1 DEF left
  <2>3. PICK u \in P : e = F(u)
    BY <1>1, <2>2
  <2> QED
    BY <1>3, <2>1, <2>3
<1>6. CASE e \in old
  <2>1. PruneDays > 0 /\ (now - MTime(s, t)) \div DayLength > PruneDays
    BY <1>0, <1>3, <1>5, <1>6 DEF NasDaysDoomed
  <2> HIDE DEF old
  <2>2. MTime(s, t) \in Int
    BY <1>0, <1>5
  <2>3. now - MTime(s, t) >= (PruneDays + 1) * DayLength
    BY <1>0, <2>1, <2>2, WholeDays
  <2>4. /\ (PruneDays + 1) * DayLength = PruneDays * DayLength + DayLength
        /\ PruneDays * DayLength \in Int /\ DayLength > 0 /\ DayLength \in Int
    BY <1>0, DayLengthAssumption
  <2> QED
    BY <1>0, <2>1, <2>2, <2>3, <2>4
<1>7. CASE e \in more /\ e \notin old
  <2> HIDE DEF old
  <2>1. PruneCount > 0 /\ more \in NasCountDoomed(left, PruneCount)
    BY <1>0, <1>2, <1>7 DEF NasCountDoomed
  <2>2. /\ Cardinality(left \ more) = PruneCount
        /\ \A k \in left \ more : e.mtime <= k.mtime
    <3>1. PruneCount \in Nat \ {0}
      BY <1>0, <2>1
    <3> QED
      BY <1>7, <2>1, <3>1, NasKeepsLatest
  <2> DEFINE K == {u \in P : F(u) \in left \ more}
             g == [u \in K |-> F(u)]
  <2>3. \A k \in left \ more : \E u \in K : k = F(u)
    BY <1>1 DEF left
  <2>4. g \in Bijection(K, left \ more)
    BY <1>3, <2>3 DEF Bijection, Injection, Surjection, IsInjective
  <2>5. IsFiniteSet(K)
    <3>1. K \subseteq Times
      BY <1>0
    <3> QED
      BY <1>0, <3>1, FS_Subset
  <2>6. Cardinality(K) = PruneCount
    <3>1. ExistsBijection(K, left \ more)
      BY <2>4 DEF ExistsBijection
    <3> HIDE DEF K, g
    <3> QED
      BY <2>2, <2>5, <3>1, FS_Bijection
  <2>7. ASSUME NEW u \in K PROVE u \in P \ Finished(E) /\ MTime(s, u) >= MTime(s, t)
    <3>1. F(u) \notin E
      BY <1>2 DEF left
    <3>2. u \notin Finished(E)
      <4> SUFFICES ASSUME u \in Finished(E) PROVE FALSE
        OBVIOUS
      <4>1. PICK k \in E : k.name = u
        BY DEF Finished
      <4>2. k \in NasEntries(s)
        BY <1>2, <1>4, <4>1 DEF left
      <4>3. k = F(u)
        BY <1>1, <1>3, <4>1, <4>2
      <4> QED
        BY <3>1, <4>3
    <3>3. F(t).mtime <= F(u).mtime
      BY <1>5, <2>2
    <3>4. MTime(s, t) <= MTime(s, u) /\ MTime(s, t) \in Int /\ MTime(s, u) \in Int
      BY <1>0, <1>3, <1>5, <3>3
    <3> QED
      BY <3>2, <3>4
  <2> HIDE DEF K
  <2>8. K \in SUBSET (P \ Finished(E)) /\ \A u \in K : MTime(s, u) >= MTime(s, t)
    BY <2>7
  <2> QED
    BY <2>1, <2>5, <2>6, <2>8 DEF P
<1> QED
  BY <1>2, <1>6, <1>7

\* No crash, failed capture or failed clean-up leaves anything incomplete on a NAS.
NasTidy ==
    \A f \in TargetChoices : \A s \in Servers :
        f[s] \in {"nas", "tiered-nas"} => KeepsWhole(f[s]) /\ CleansUp(f[s])

\* A complete snapshot on such a NAS goes only because it was modified too long ago or
\* because prune_count complete ones stay that were not modified before it, also when
\* a lost reply makes the worker put a second copy into an old one: then it may go for
\* a snapshot with an older name, and that is all that goes wrong.
THEOREM RetentionGoesByTime ==
  ASSUME NasTidy
  PROVE  Spec => RetentionKeepsLatest
<1> DEFINE Step == \A s \in Servers, t \in Times :
             OnNas(s) /\ cold[s][t] = "whole" /\ cold'[s][t] = "none" =>
                 \/ PruneDays > 0 /\ MTime(s, t) < now - PruneDays * DayLength
                 \/ /\ PruneCount > 0
                    /\ Cardinality({u \in Times : /\ cold'[s][u] = "whole"
                                                  /\ MTime(s, u) >= MTime(s, t)}) >= PruneCount
<1>1. TypeInv /\ Control /\ Untorn /\ Tidy /\ [Next]_vars => [Step]_vars
  <2> SUFFICES ASSUME TypeInv, Control, Untorn, Tidy, [Next]_vars, NEW s \in Servers, NEW t \in Times,
                      OnNas(s), cold[s][t] = "whole", cold'[s][t] = "none"
               PROVE  \/ PruneDays > 0 /\ MTime(s, t) < now - PruneDays * DayLength
                      \/ /\ PruneCount > 0
                         /\ Cardinality({u \in Times : /\ cold'[s][u] = "whole"
                                                       /\ MTime(s, u) >= MTime(s, t)}) >= PruneCount
    OBVIOUS
  <2> DEFINE N == {u \in Times : cold'[s][u] = "whole" /\ MTime(s, u) >= MTime(s, t)}
  <2>1. KeepsWhole(target[s]) /\ CleansUp(target[s]) /\ ~Crash
    BY DEF TypeInv, TypeOK, NasTidy, OnNas, KeepsWhole, Crash
  <2>2. cold[s] \in [Times -> Dir] /\ now \in Times
    BY DEF TypeInv, TypeOK
  <2>3. /\ \/ cyc.s = s /\ cyc.pc = "prune" /\ ~Tiered(s)
           \/ wrk.s = s /\ wrk.pc = "pruneCold" /\ Tiered(s)
        /\ \E E \in ColdDoomed(s) : cold'[s] = Without(cold[s], Finished(E))
    <3>1. cold'[s] # cold[s]
      OBVIOUS
    <3>2. \A x : /\ cold'[s] # [cold[s] EXCEPT ![x] = "torn"]
                 /\ cold'[s] # [cold[s] EXCEPT ![x] = "whole"]
      BY <2>2
    <3> QED
      BY <2>1, <3>1, <3>2, ColdMoves
  <2>4. \A u \in Times : cold[s][u] # "torn" /\ wip[s][u] = 0
    BY <2>1, <2>3 DEF Control, Untorn, Tidy
  <2>5. PICK E \in ColdDoomed(s) : cold'[s] = Without(cold[s], Finished(E))
    BY <2>3
  <2>6. PICK d \in NasWorks, c \in NasWorks : E \in NasDoomed(s, d, c)
    BY <2>5 DEF ColdDoomed
  <2>7. t \in Finished(E)
    BY <2>5 DEF Without
  <2>8. CASE PruneDays > 0 /\ MTime(s, t) < now - PruneDays * DayLength
    BY <2>8
  <2>9. ASSUME PruneCount > 0, NEW K \in SUBSET (Present(cold[s]) \ Finished(E)),
               IsFiniteSet(K), Cardinality(K) = PruneCount, \A u \in K : MTime(s, u) >= MTime(s, t)
        PROVE  Cardinality(N) >= PruneCount
    <3>1. ASSUME NEW u \in K PROVE u \in N
      <4>1. u \in Times /\ cold[s][u] # "none" /\ u \notin Finished(E)
        BY DEF Present
      <4>2. cold[s][u] = "whole"
        BY <2>2, <2>4, <4>1 DEF Dir
      <4> QED
        BY <2>5, <2>9, <4>1, <4>2 DEF Without
    <3>2. IsFiniteSet(N)
      BY TimesFacts
    <3> HIDE DEF N
    <3>3. Cardinality(K) <= Cardinality(N) /\ Cardinality(N) \in Nat
      BY <3>1, <3>2, FS_Subset, FS_CardinalityType
    <3> QED
      BY <2>9, <3>3
  <2> QED
    BY <2>4, <2>6, <2>7, <2>9, NasPruneHasReason
<1>2. RetentionKeepsLatest <=> [][Step]_vars
  BY PTL DEF RetentionKeepsLatest
<1> QED
  BY <1>1, <1>2, CareInvariants, TypesAndControl, PTL DEF Spec

-----------------------------------------------------------------------------
(***************************************************************************)
(* The newest snapshots and the remembered ones                            *)
(***************************************************************************)

\* Neither snapshot of the record r is left incomplete.
Sound(s, r) ==
    /\ r.hot # 0 => hot[s][r.hot] # "torn"
    /\ r.cold # 0 => cold[s][r.cold] # "torn"

\* Whatever is, or is about to be, the record of s is sound.
SoundAt(s) ==
    /\ Sound(s, last[s])
    /\ boot.s = s /\ boot.pc \in {"read", "rename", "record"} => Sound(s, boot.rec)
    /\ cyc.s = s /\ cyc.pc = "record" => hot[s][cyc.ts] # "torn"
    /\ wrk.s = s /\ wrk.pc \in {"begin", "transfer", "record"} => hot[s][wrk.sel] # "torn"
    /\ wrk.s = s /\ wrk.pc = "record" => cold[s][wrk.sel] # "torn"

Remembered == \A s \in Servers : target[s] = "tiered-local" => SoundAt(s)

\* Only a crash leaves a snapshot incomplete.
LEMMA OnlyCrashTears ==
  ASSUME TypeInv, Control, [Next]_vars, ~Crash, NEW s \in Servers, target[s] = "tiered-local",
         NEW t \in Times
  PROVE  /\ hot[s][t] # "torn" => hot'[s][t] # "torn"
         /\ cold[s][t] # "torn" => cold'[s][t] # "torn"
<1>1. /\ hot \in [Servers -> [Times -> Dir]] /\ cold[s] \in [Times -> Dir]
      /\ cyc.s \in Servers /\ wrk.s \in Servers
  BY DEF TypeInv, TypeOK
<1>2. ASSUME hot[s][t] # "torn" PROVE hot'[s][t] # "torn"
  <2>1. CASE hot'[s] = hot[s]
    BY <1>2, <2>1
  <2>2. CASE hot' = [hot EXCEPT ![cyc.s][cyc.ts] = "whole"]
    BY <1>1, <1>2, <2>2
  <2>3. CASE wrk.s = s /\ hot'[wrk.s] = Without(hot[wrk.s], HotDoomed(wrk.s))
    BY <1>2, <2>3 DEF Without
  <2> QED
    BY <2>1, <2>2, <2>3, HotStep
<1>3. ASSUME cold[s][t] # "torn" PROVE cold'[s][t] # "torn"
  <2>1. CASE cold'[s] = cold[s]
    BY <1>3, <2>1
  <2>2. CASE cold'[s] = [cold[s] EXCEPT ![wrk.sel] = "whole"]
    BY <1>1, <1>3, <2>2
  <2>3. CASE cold'[s] = Without(cold[s], LocalDoomed(Present(cold[s]), PruneDays, PruneCount, now))
    BY <1>3, <2>3 DEF Without
  <2> QED
    BY <2>1, <2>2, <2>3, ColdStep
<1> QED
  BY <1>2, <1>3

\* A sound record stays sound.
LEMMA SoundKept ==
  ASSUME TypeInv, Control, [Next]_vars, ~Crash, NEW s \in Servers, target[s] = "tiered-local",
         NEW r \in Record, Sound(s, r)
  PROVE  Sound(s, r)'
<1>1. (r.hot # 0 => r.hot \in Times) /\ (r.cold # 0 => r.cold \in Times)
  BY TimesFacts DEF Record
<1> QED
  BY <1>1, OnlyCrashTears DEF Sound

\* The later of a stored name and the newest snapshot is no incomplete snapshot.
LEMMA LaterSound ==
  ASSUME NEW d \in [Times -> Dir], NEW n \in Nat, Covered(d, n), NEW a \in Stamps,
         Later(a, Newest(Present(d))) # 0
  PROVE  d[Later(a, Newest(Present(d)))] # "torn"
<1> DEFINE h == Newest(Present(d))
<1>1. h \in Stamps /\ \A u \in Times : d[u] # "none" => u <= h
  BY NewestFacts
<1>2. h # 0 => d[h] = "whole"
  BY NewestWhole
<1>3. h \in Nat /\ a \in Nat /\ Stamps = Times \cup {0}
  BY <1>1, TimesFacts
<1> HIDE DEF h
<1>4. CASE h > a
  BY <1>2, <1>3, <1>4 DEF Later, h
<1>5. CASE ~(h > a)
  <2>1. Later(a, Newest(Present(d))) = a /\ a \in Times
    BY <1>3, <1>5 DEF Later, h
  <2>2. d[a] = "torn" => a = h
    BY <1>1, <1>3, <1>5, <2>1
  <2> QED
    BY <1>2, <1>3, <2>1, <2>2, TimesFacts
<1> QED
  BY <1>4, <1>5

\* A step keeps what is remembered sound.
LEMMA RememberedStep ==
  ASSUME TypeInv, Control, HotCovered, ColdCovered, Remembered, [Next]_vars
  PROVE  Remembered'
<1> SUFFICES ASSUME NEW s \in Servers, target'[s] = "tiered-local" PROVE SoundAt(s)'
  BY DEF Remembered
<1>0. /\ hot \in [Servers -> [Times -> Dir]] /\ cold \in [Servers -> [Times -> Dir]]
      /\ hot[s] \in [Times -> Dir] /\ cold[s] \in [Times -> Dir]
      /\ cyc.s \in Servers /\ wrk.s \in Servers /\ boot.s \in Servers
      /\ last \in [Servers -> Record] /\ boot.rec \in Record
      /\ wrk.pc \in {"begin", "transfer", "record"} => wrk.sel \in Times
      /\ cyc.pc \in {"copy", "record"} => cyc.ts \in Times
      /\ boot.stored[s] \in Record
  BY DEF TypeInv, TypeOK, PcInv, Files
<1>1. target[s] = "tiered-local" /\ Tiered(s) /\ ~OnNas(s) /\ SoundAt(s)
  BY TargetConstant DEF Tiered, OnNas, Remembered
<1>2. /\ NoCycle.pc = "idle" /\ NoWork.pc = "idle" /\ NoBoot.pc = "done"
      /\ NoRecord.hot = 0 /\ NoRecord.cold = 0 /\ NoFile[s] = NoRecord
  BY IdleFacts
<1>3. CASE Crash
  <2>1. last'[s] = NoRecord /\ cyc' = NoCycle /\ wrk' = NoWork /\ boot' = NoBoot
    BY <1>2, <1>3 DEF Crash
  <2> QED
    BY <1>2, <2>1 DEF SoundAt, Sound
<1>4. CASE ~Crash
  <2>0. \A r \in Record : Sound(s, r) => Sound(s, r)'
    BY <1>1, <1>4, SoundKept
  <2>a. \A t \in Times : /\ hot[s][t] # "torn" => hot'[s][t] # "torn"
                         /\ cold[s][t] # "torn" => cold'[s][t] # "torn"
    BY <1>1, <1>4, OnlyCrashTears
  <2>1. Sound(s, last[s])'
    <3>1. CASE last'[s] = last[s]
      <4>1. PICK r \in Record : r = last[s]
        BY <1>0
      <4>2. Sound(s, r)'
        BY <1>1, <2>0, <4>1 DEF SoundAt
      <4> QED
        BY <3>1, <4>1, <4>2 DEF Sound
    <3>2. CASE CycleRecord /\ cyc.s = s
      <4>1. /\ cyc.pc = "record" /\ hot' = hot /\ cold' = cold
            /\ last' = [last EXCEPT ![s].hot = cyc.ts]
        BY <1>1, <3>2 DEF CycleRecord, disk
      <4>2. last'[s].hot = cyc.ts /\ last'[s].cold = last[s].cold
        BY <1>0, <4>1 DEF Record
      <4> QED
        BY <1>1, <3>2, <4>1, <4>2 DEF SoundAt, Sound
    <3>3. CASE WorkerRecord /\ wrk.s = s
      <4>1. /\ wrk.pc = "record" /\ hot' = hot /\ cold' = cold
            /\ last' = SetOffloaded(wrk.s, wrk.sel)
        BY <3>3 DEF WorkerRecord, disk
      <4>2. last'[s].cold = wrk.sel /\ last'[s].hot \in {wrk.sel, last[s].hot}
        BY <3>3, <4>1, OffloadedRecord
      <4> QED
        BY <1>1, <3>3, <4>1, <4>2 DEF SoundAt, Sound
    <3>4. CASE BootRecord /\ boot.s = s
      <4>1. boot.pc = "record" /\ last'[s] = boot.rec /\ hot' = hot /\ cold' = cold
        BY <1>0, <3>4 DEF BootRecord, BootUnchanged, disk
      <4> QED
        BY <1>1, <3>4, <4>1 DEF SoundAt, Sound
    <3>5. (CycleRecord /\ cyc.s # s) => last'[s] = last[s]
      BY <1>0 DEF CycleRecord, SetCold
    <3>6. (WorkerRecord /\ wrk.s # s) => last'[s] = last[s]
      BY <1>0, OffloadedRecord DEF WorkerRecord
    <3>7. (BootRecord /\ boot.s # s) => last'[s] = last[s]
      BY <1>0 DEF BootRecord
    <3> QED
      BY <1>4, <3>1, <3>2, <3>3, <3>4, <3>5, <3>6, <3>7, Frames
  <2>2. ASSUME boot'.s = s, boot'.pc \in {"read", "rename", "record"} PROVE Sound(s, boot.rec)'
    <3>1. CASE BootList(s)
      <4>1. PICK found \in ColdListed(s) : boot'.rec = Reconciled(s, found)
        BY <3>1, BootMoves
      <4>2. /\ boot'.rec.hot = Later(boot.stored[s].hot, Newest(Present(hot[s])))
            /\ boot'.rec.cold = Later(boot.stored[s].cold, Newest(Present(cold[s])))
        BY <1>1, <4>1, ListedFacts DEF Reconciled
      <4>3. hot' = hot /\ cold' = cold
        BY <3>1 DEF BootList, BootUnchanged, disk
      <4>4. boot.stored[s].hot \in Stamps /\ boot.stored[s].cold \in Stamps
        BY <1>0 DEF Record
      <4>5. Covered(hot[s], HotPruneCount) /\ Covered(cold[s], PruneCount)
        BY <1>1 DEF HotCovered, ColdCovered
      <4>6. boot'.rec.hot # 0 => hot[s][boot'.rec.hot] # "torn"
        BY <1>0, <4>2, <4>4, <4>5, LaterSound, Numbers
      <4>7. boot'.rec.cold # 0 => cold[s][boot'.rec.cold] # "torn"
        BY <1>0, <4>2, <4>4, <4>5, LaterSound, Numbers
      <4> QED
        BY <4>3, <4>6, <4>7 DEF Sound
    <3>2. CASE /\ boot'.rec = boot.rec /\ boot'.s = boot.s
               /\ boot.pc \in {"read", "rename", "record"}
      <4>1. PICK r \in Record : r = boot.rec
        BY <1>0
      <4>2. Sound(s, r)'
        BY <1>1, <2>0, <2>2, <3>2, <4>1 DEF SoundAt
      <4> QED
        BY <3>2, <4>1, <4>2 DEF Sound
    <3>3. CASE boot' = boot
      BY <2>2, <3>2, <3>3
    <3>4. CASE BootFileRead \/ BootFileRename
      BY <3>2, <3>4, BootMoves
    <3>5. ~Start /\ ~BootLoad /\ ~BootRecord
      BY <1>2, <2>2, BootMoves DEF Start, NoBoot
    <3>6. ASSUME NEW u \in Servers, BootList(u) PROVE u = s
      BY <2>2, <3>6, BootMoves
    <3> QED
      BY <1>4, <3>1, <3>3, <3>4, <3>5, <3>6, Frames
  <2>3. ASSUME cyc'.s = s, cyc'.pc = "record" PROVE hot'[s][cyc'.ts] # "torn"
    <3>1. CASE cyc' = cyc
      BY <1>0, <1>1, <2>3, <2>a, <3>1 DEF SoundAt
    <3>2. CASE CopyOk
      <4>1. cyc.pc = "copy" /\ cyc'.ts = cyc.ts /\ cyc.s = s
        BY <2>3, <3>2, CycleMoves
      <4>2. hot' = [hot EXCEPT ![s][cyc.ts] = "whole"]
        BY <1>1, <3>2, <4>1 DEF CopyOk, Stored
      <4> QED
        BY <1>0, <4>1, <4>2
    <3>3. ASSUME CycleStep \/ \E u \in Servers : CycleStart(u) PROVE CopyOk
      BY <1>2, <2>3, <3>3, CycleMoves DEF CycleStep
    <3> QED
      BY <1>4, <3>1, <3>2, <3>3, Frames
  <2>4. ASSUME wrk'.s = s, wrk'.pc \in {"begin", "transfer", "record"}
        PROVE  /\ hot'[s][wrk'.sel] # "torn"
               /\ wrk'.pc = "record" => cold'[s][wrk'.sel] # "torn"
    <3>1. CASE wrk' = wrk
      BY <1>0, <1>1, <2>4, <2>a, <3>1 DEF SoundAt
    <3>2. CASE WorkerSelect
      <4>1. /\ wrk'.pc = "begin" /\ wrk.s = s /\ wrk'.sel = Newest(Present(hot[s])) /\ hot' = hot
        BY <1>2, <2>4, <3>2, WorkerMoves DEF WorkerSelect, disk
      <4>2. Newest(Present(hot[s])) # 0
        <5>1. ASSUME Newest(Present(hot[s])) = 0 PROVE wrk' = NoWork
          BY <3>2, <4>1, <5>1 DEF WorkerSelect
        <5> QED
          BY <1>2, <4>1, <5>1
      <4>3. hot[s][Newest(Present(hot[s]))] = "whole"
        BY <1>0, <4>2, NewestWhole, Numbers DEF HotCovered
      <4> QED
        BY <4>1, <4>3
    <3>3. CASE WorkerBegin
      <4>1. wrk.pc = "begin" /\ wrk'.pc = "transfer" /\ wrk'.s = wrk.s /\ wrk'.sel = wrk.sel
        BY <3>3, WorkerMoves
      <4> QED
        BY <1>0, <1>1, <2>4, <2>a, <4>1 DEF SoundAt
    <3>4. CASE WorkerStored
      <4>1. wrk.pc = "transfer" /\ wrk'.pc = "record" /\ wrk'.s = wrk.s /\ wrk'.sel = wrk.sel
        BY <3>4, WorkerMoves
      <4>2. hot'[s][wrk'.sel] # "torn"
        BY <1>0, <1>1, <2>4, <2>a, <4>1 DEF SoundAt
      <4>3. cold' = [cold EXCEPT ![s][wrk.sel] = "whole"]
        BY <1>1, <2>4, <3>4, <4>1 DEF WorkerStored, ColdRename, Blocked
      <4>4. cold'[s][wrk.sel] = "whole"
        BY <1>0, <4>1, <4>3
      <4> QED
        BY <4>1, <4>2, <4>4
    <3>5. ASSUME WorkerStep PROVE WorkerSelect \/ WorkerBegin \/ WorkerStored
      BY <1>2, <2>4, <3>5, WorkerMoves DEF WorkerStep
    <3> QED
      BY <1>4, <3>1, <3>2, <3>3, <3>4, <3>5, Frames
  <2> QED
    BY <2>1, <2>2, <2>3, <2>4 DEF SoundAt
<1> QED
  BY <1>3, <1>4

\* Every server is tiered, with local cold storage, or of either kind.
AllTieredLocally == \A f \in TargetChoices : \A s \in Servers : f[s] = "tiered-local"
AllTiered ==
    \A f \in TargetChoices : \A s \in Servers : f[s] \in {"tiered-local", "tiered-nas"}

\* With local cold storage and count pruning, whatever crashed before.
LEMMA NewestWholeLocally ==
  ASSUME AllTieredLocally, PruneDays = 0, HotPruneDays = 0
  PROVE  Spec => []NewestComplete
<1>1. Countable(PruneDays) /\ Countable(HotPruneDays)
  BY DEF Countable
<1>2. Spec => []HotCovered /\ []ColdCovered
  BY <1>1, TiersCovered
<1>3. Init => Remembered
  BY IdleFacts DEF Init, Remembered, SoundAt, Sound
<1>4. TypeInv /\ Control /\ HotCovered /\ ColdCovered /\ Remembered /\ [Next]_vars => Remembered'
  BY RememberedStep
<1>5. TypeInv /\ HotCovered /\ ColdCovered /\ Remembered => NewestComplete
  <2> SUFFICES ASSUME TypeInv, HotCovered, ColdCovered, Remembered, NEW s \in Servers
               PROVE  /\ Newest(Present(hot[s])) # 0 => hot[s][Newest(Present(hot[s]))] = "whole"
                      /\ Newest(Present(cold[s])) # 0 => cold[s][Newest(Present(cold[s]))] = "whole"
                      /\ last[s].hot # 0 => hot[s][last[s].hot] # "torn"
                      /\ last[s].cold # 0 => cold[s][last[s].cold] # "torn"
    BY DEF NewestComplete
  <2>1. target[s] = "tiered-local" /\ hot[s] \in [Times -> Dir] /\ cold[s] \in [Times -> Dir]
    BY DEF TypeInv, TypeOK, AllTieredLocally
  <2>2. Covered(hot[s], HotPruneCount) /\ Covered(cold[s], PruneCount) /\ Sound(s, last[s])
    BY <2>1 DEF HotCovered, ColdCovered, Remembered, SoundAt
  <2> QED
    BY <2>1, <2>2, NewestWhole, Numbers DEF Sound
<1> QED
  BY <1>2, <1>3, <1>4, <1>5, TypesAndControl, PTL DEF Spec

\* The newest snapshot of each tier is complete and nothing incomplete is remembered
\* as the last snapshot: with local cold storage and count pruning whatever crashed
\* before, on the NAS or with day pruning as long as nothing crashes.
THEOREM NewestIsComplete ==
  ASSUME \/ AllTieredLocally /\ PruneDays = 0 /\ HotPruneDays = 0
         \/ AllTiered /\ "crash" \notin Faults
  PROVE  Spec => []NewestComplete
<1>1. CASE AllTieredLocally /\ PruneDays = 0 /\ HotPruneDays = 0
  BY <1>1, NewestWholeLocally
<1>2. CASE AllTiered /\ "crash" \notin Faults
  <2>1. Spec => []HotCovered
    BY <1>2, TiersCovered DEF Countable
  <2>2. TypeInv /\ HotCovered /\ Untorn => NewestComplete
    <3> SUFFICES ASSUME TypeInv, HotCovered, Untorn, NEW s \in Servers
                 PROVE  /\ Newest(Present(hot[s])) # 0 => hot[s][Newest(Present(hot[s]))] = "whole"
                        /\ Newest(Present(cold[s])) # 0 => cold[s][Newest(Present(cold[s]))] = "whole"
                        /\ last[s].hot # 0 => hot[s][last[s].hot] # "torn"
                        /\ last[s].cold # 0 => cold[s][last[s].cold] # "torn"
      BY DEF NewestComplete
    <3>1. /\ target[s] \in {"tiered-local", "tiered-nas"} /\ last[s] \in Record
          /\ hot[s] \in [Times -> Dir] /\ cold[s] \in [Times -> Dir]
      BY <1>2 DEF TypeInv, TypeOK, AllTiered
    <3>2. \A t \in Times : hot[s][t] # "torn"
      BY <1>2 DEF HotCovered, Covered
    <3>3. \A t \in Times : cold[s][t] # "torn"
      BY <1>2, <3>1 DEF Untorn, KeepsWhole, Tiered
    <3>4. /\ last[s].hot # 0 => last[s].hot \in Times
          /\ last[s].cold # 0 => last[s].cold \in Times
      BY <3>1, TimesFacts DEF Record
    <3>5. ASSUME NEW d \in [Times -> Dir], \A t \in Times : d[t] # "torn", Newest(Present(d)) # 0
          PROVE  d[Newest(Present(d))] = "whole"
      <4>1. Newest(Present(d)) \in Times /\ d[Newest(Present(d))] # "none"
        BY <3>5, NewestFacts, TimesFacts
      <4> QED
        BY <3>5, <4>1 DEF Dir
    <3> QED
      BY <3>1, <3>2, <3>3, <3>4, <3>5
  <2> QED
    BY <2>1, <2>2, CareInvariants, TypesAndControl, PTL DEF Spec
<1> QED
  BY <1>1, <1>2

-----------------------------------------------------------------------------
(***************************************************************************)
(* The tiers implement TieredStore                                         *)
(***************************************************************************)

\* The two tiers as TieredStore sees them.
Kept == [s \in Servers |-> Complete(s, hot[s])]
StoredSet == [s \in Servers |-> Complete(s, cold[s])]

\* What TieredStore sees before and after a step.
LEMMA Seen ==
  ASSUME [Next]_vars
  PROVE  /\ DOMAIN Kept = Servers /\ DOMAIN StoredSet = Servers
         /\ Kept' \in [Servers -> SUBSET Times] /\ StoredSet' \in [Servers -> SUBSET Times]
         /\ Kept \in [Servers -> SUBSET Times] /\ StoredSet \in [Servers -> SUBSET Times]
         /\ \A s \in Servers :
              /\ Kept[s] = (IF Tiered(s) THEN Whole(hot[s]) ELSE {})
              /\ Kept'[s] = (IF Tiered(s) THEN Whole(hot'[s]) ELSE {})
              /\ StoredSet[s] = (IF Tiered(s) THEN Whole(cold[s]) ELSE {})
              /\ StoredSet'[s] = (IF Tiered(s) THEN Whole(cold'[s]) ELSE {})
<1>1. \A s : Tiered(s)' = Tiered(s)
  BY TargetConstant
<1> QED
  BY <1>1 DEF Kept, StoredSet, Complete, Whole

\* A prune takes dispensable snapshots only, even if it is cut short.
LEMMA PruneDispensable ==
  ASSUME NEW d \in [Times -> Dir], NEW n \in Nat, NEW m \in Int, Covered(d, n), NEW d2,
         Pruned(d, d2, LocalDoomed(Present(d), 0, n, m))
  PROVE  /\ Whole(d2) \subseteq Whole(d)
         /\ \A t \in Whole(d) \ Whole(d2) : \E u \in Whole(d2) : u > t
<1>1. Whole(d2) \subseteq Whole(d)
  BY DEF Pruned, Whole
<1>2. ASSUME NEW t \in Whole(d) \ Whole(d2) PROVE \E u \in Whole(d2) : u > t
  <2>1. t \in Times /\ d[t] # "none" /\ d2[t] # d[t]
    BY <1>2 DEF Whole
  <2>2. t \notin DaysDoomed(Present(d), 0, m)
    BY DEF DaysDoomed
  <2>3. \E u \in Times : u > t /\ d[u] = "whole" /\ d2[u] = "whole"
    BY <2>1, <2>2, PruneKeeps DEF Countable
  <2> QED
    BY <2>3 DEF Whole
<1> QED
  BY <1>1, <1>2

\* What the worker stores is newer than everything in cold storage.
LEMMA StoresNewer ==
  ASSUME TypeInv, Ahead, wrk.pc = "transfer", wrk.s \in Servers, Tiered(wrk.s),
         cold[wrk.s][wrk.sel] = "none", NEW u \in Times, cold[wrk.s][u] # "none"
  PROVE  u < wrk.sel
<1>1. u <= wrk.sel /\ u # wrk.sel
  BY DEF Ahead
<1>2. u \in Nat /\ wrk.sel \in Nat
  BY TimesFacts DEF TypeInv, TypeOK
<1> QED
  BY <1>1, <1>2

\* Tiered servers on the NAS are left nothing incomplete and no rename is repeated.
NasTended ==
    \A f \in TargetChoices : \A s \in Servers :
        f[s] = "tiered-nas" => {"crash", "cleanup", "reply"} \cap Faults = {}

\* The cold tier of a tiered server changes by a transfer, or by a prune that takes
\* dispensable snapshots only.
LEMMA ColdChanges ==
  ASSUME NasTended, PruneDays = 0, TypeInv, Control, ColdCovered, Untorn, Tidy, Timed, [Next]_vars,
         NEW s \in Servers, Tiered(s), cold'[s] # cold[s]
  PROVE  /\ \A u \in Servers : u # s => cold'[u] = cold[u]
         /\ \/ /\ wrk.s = s /\ wrk.pc = "transfer" /\ cold[s][wrk.sel] = "none"
               /\ cold'[s] = [cold[s] EXCEPT ![wrk.sel] = "whole"]
            \/ /\ Whole(cold'[s]) \subseteq Whole(cold[s])
               /\ \A t \in Whole(cold[s]) \ Whole(cold'[s]) : \E u \in Whole(cold'[s]) : u > t
<1>0. cold \in [Servers -> [Times -> Dir]] /\ cold[s] \in [Times -> Dir]
  BY DEF TypeInv, TypeOK
<1>1. CASE target[s] = "tiered-local"
  <2>1. CASE /\ wrk.s = s /\ wrk.pc = "transfer" /\ cold[s][wrk.sel] = "none"
             /\ cold'[s] = [cold[s] EXCEPT ![wrk.sel] = "whole"]
             /\ cold' = [cold EXCEPT ![s] = cold'[s]]
    BY <1>0, <2>1
  <2>2. CASE /\ Pruned(cold[s], cold'[s], LocalDoomed(Present(cold[s]), PruneDays, PruneCount, now))
             /\ \A u \in Servers : u # s => cold'[u] = cold[u]
    <3>1. Pruned(cold[s], cold'[s], LocalDoomed(Present(cold[s]), 0, PruneCount, now))
      BY <2>2
    <3>2. /\ Whole(cold'[s]) \subseteq Whole(cold[s])
          /\ \A t \in Whole(cold[s]) \ Whole(cold'[s]) : \E u \in Whole(cold'[s]) : u > t
      BY <1>0, <1>1, <3>1, PruneDispensable, Numbers DEF ColdCovered
    <3> QED
      BY <2>2, <3>2
  <2> QED
    BY <1>1, <2>1, <2>2, ColdStep
<1>2. CASE target[s] = "tiered-nas"
  <2>1. KeepsWhole(target[s]) /\ CleansUp(target[s]) /\ Timely(target[s])
    BY <1>2 DEF NasTended, KeepsWhole, CleansUp, Timely, TypeInv, TypeOK
  <2>2. ~Crash
    BY <2>1 DEF Crash, KeepsWhole
  <2>3. CASE /\ wrk.s = s /\ wrk.pc = "transfer" /\ cold[s][wrk.sel] = "none"
             /\ cold'[s] = [cold[s] EXCEPT ![wrk.sel] = "whole"]
             /\ \A u \in Servers : u # s => cold'[u] = cold[u]
    BY <2>3
  <2>4. CASE /\ wrk.s = s /\ wrk.pc = "pruneCold"
             /\ \E E \in ColdDoomed(s) : cold'[s] = Without(cold[s], Finished(E))
             /\ \A u \in Servers : u # s => cold'[u] = cold[u]
    <3> DEFINE P == Present(cold[s])
    <3>1. /\ \A t \in Times : cold[s][t] # "torn"
          /\ \A t \in Times : wip[s][t] = 0 /\ again[s][t] = 0
      BY <2>1, <2>4, PruneFindsTidy DEF Tiered
    <3>2. PICK E \in ColdDoomed(s) : cold'[s] = Without(cold[s], Finished(E))
      BY <2>4
    <3>3. PICK old \in SUBSET DaysDoomed(P, PruneDays, now) :
             Finished(E) = old \/ Finished(E) = old \cup CountDoomed(P \ old, PruneCount)
      BY <3>1, ColdPruneShape
    <3>4. old = {}
      BY <3>3 DEF DaysDoomed
    <3>5. Finished(E) \in {{}, CountDoomed(P, PruneCount)}
      BY <3>3, <3>4
    <3>6. Whole(cold'[s]) \subseteq Whole(cold[s])
      BY <3>2 DEF Whole, Without
    <3>7. ASSUME NEW t \in Whole(cold[s]) \ Whole(cold'[s])
          PROVE  \E u \in Whole(cold'[s]) : u > t
      <4>1. t \in Finished(E)
        BY <3>2, <3>7 DEF Whole, Without
      <4>2. t \in CountDoomed(P, PruneCount) /\ Finished(E) = CountDoomed(P, PruneCount)
        BY <3>5, <4>1
      <4>3. P \in SUBSET Times /\ PruneCount \in Nat
        BY Numbers DEF Present
      <4>4. /\ PruneCount > 0
            /\ \E K \in SUBSET (P \ CountDoomed(P, PruneCount)) :
                 IsFiniteSet(K) /\ Cardinality(K) = PruneCount /\ \A u \in K : u > t
        <5>1. \A L \in SUBSET Times : \A n \in Nat : \A x \in CountDoomed(L, n) :
                /\ n > 0
                /\ \E K \in SUBSET (L \ CountDoomed(L, n)) :
                     IsFiniteSet(K) /\ Cardinality(K) = n /\ \A u \in K : u > x
          BY CountSpares
        <5> HIDE DEF P
        <5> QED
          BY <4>2, <4>3, <5>1
      <4>5. PICK K \in SUBSET (P \ CountDoomed(P, PruneCount)) :
                 IsFiniteSet(K) /\ Cardinality(K) = PruneCount /\ \A u \in K : u > t
        BY <4>4
      <4>6. K # {}
        BY <4>4, <4>5, FS_EmptySet
      <4>7. PICK u \in K : TRUE
        BY <4>6
      <4>8. u \in P /\ u \notin CountDoomed(P, PruneCount) /\ u > t
        BY <4>5, <4>7
      <4>9. u \in Times /\ cold[s][u] # "none" /\ cold[s][u] # "torn"
        BY <3>1, <4>8 DEF Present
      <4>10. cold[s][u] = "whole"
        BY <1>0, <4>9 DEF Dir
      <4>11. u \notin Finished(E)
        BY <4>2, <4>8
      <4>12. cold'[s][u] = "whole"
        BY <3>2, <4>9, <4>10, <4>11 DEF Without
      <4>13. u \in Whole(cold'[s])
        BY <4>9, <4>12 DEF Whole
      <4> QED
        BY <4>8, <4>13
    <3> QED
      BY <2>4, <3>6, <3>7
  <2> QED
    BY <2>2, <2>3, <2>4, ColdMoves
<1> QED
  BY <1>1, <1>2 DEF Tiered

\* Every step is one of TieredStore's or invisible to it.
LEMMA StoreStep ==
  ASSUME NasTended, PruneDays = 0, HotPruneDays = 0, TypeInv, Control, HotCovered, ColdCovered,
         TransferSourceWhole, Ahead, Untorn, Tidy, Timed, [Next]_vars
  PROVE  [Store!Next]_(Store!tiers)
<1>0. /\ hot \in [Servers -> [Times -> Dir]] /\ cold \in [Servers -> [Times -> Dir]]
      /\ cyc.s \in Servers /\ wrk.s \in Servers
      /\ cyc.pc = "copy" => cyc.ts \in Times
      /\ wrk.pc = "transfer" => wrk.sel \in Times
  BY DEF TypeInv, TypeOK, PcInv
<1>2. CASE Kept' = Kept /\ StoredSet' = StoredSet
  BY <1>2 DEF Store!tiers, Kept, StoredSet
<1>3. ASSUME NEW s \in Servers, NEW x \in Times, x \notin Kept[s],
             Kept' = [Kept EXCEPT ![s] = Kept[s] \cup {x}], StoredSet' = StoredSet
      PROVE  Store!Next
  <2>1. Kept'[s] # Kept[s]
    BY <1>3, Seen
  <2>2. Store!Capture(s, x)
    BY <1>3 DEF Store!Capture, Kept, StoredSet
  <2> QED
    BY <2>1, <2>2 DEF Store!Next, Store!tiers, Kept
<1>4. ASSUME NEW s \in Servers, NEW x \in Times, x \in Kept[s], \A u \in StoredSet[s] : u < x,
             x \notin StoredSet[s],
             StoredSet' = [StoredSet EXCEPT ![s] = StoredSet[s] \cup {x}], Kept' = Kept
      PROVE  Store!Next
  <2>1. StoredSet'[s] # StoredSet[s]
    BY <1>4, Seen
  <2>2. Store!Offload(s, x)
    BY <1>4 DEF Store!Offload, Kept, StoredSet
  <2> QED
    BY <2>1, <2>2 DEF Store!Next, Store!tiers, StoredSet
<1>5. ASSUME NEW s \in Servers, NEW R \in SUBSET Kept[s], R # {},
             \A t \in R : \E u \in Kept[s] \ R : u > t,
             Kept' = [Kept EXCEPT ![s] = Kept[s] \ R], StoredSet' = StoredSet
      PROVE  Store!Next
  <2>1. Kept'[s] # Kept[s]
    BY <1>5, Seen
  <2>2. Store!ForgetKept(s)
    BY <1>5 DEF Store!ForgetKept, Store!Dispensable, Kept, StoredSet
  <2> QED
    BY <2>1, <2>2 DEF Store!Next, Store!tiers, Kept
<1>6. ASSUME NEW s \in Servers, NEW R \in SUBSET StoredSet[s], R # {},
             \A t \in R : \E u \in StoredSet[s] \ R : u > t,
             StoredSet' = [StoredSet EXCEPT ![s] = StoredSet[s] \ R], Kept' = Kept
      PROVE  Store!Next
  <2>1. StoredSet'[s] # StoredSet[s]
    BY <1>6, Seen
  <2>2. Store!ForgetStored(s)
    BY <1>6 DEF Store!ForgetStored, Store!Dispensable, Kept, StoredSet
  <2> QED
    BY <2>1, <2>2 DEF Store!Next, Store!tiers, StoredSet
<1>7. CASE hot' # hot
  <2>1. CASE /\ cyc.pc = "copy" /\ Tiered(cyc.s) /\ hot[cyc.s][cyc.ts] = "none" /\ cold' = cold
             /\ hot' = [hot EXCEPT ![cyc.s][cyc.ts] = "whole"]
    <3>1. /\ hot'[cyc.s] = [hot[cyc.s] EXCEPT ![cyc.ts] = "whole"]
          /\ \A u \in Servers : u # cyc.s => hot'[u] = hot[u]
      BY <1>0, <2>1
    <3>2. /\ cyc.ts \in Times /\ cyc.ts \notin Whole(hot[cyc.s])
          /\ Whole(hot'[cyc.s]) = Whole(hot[cyc.s]) \cup {cyc.ts}
      BY <1>0, <2>1, <3>1 DEF Whole
    <3>0. StoredSet' = StoredSet
      BY <2>1, Seen
    <3>3. /\ Kept[cyc.s] = Whole(hot[cyc.s]) /\ Kept'[cyc.s] = Whole(hot'[cyc.s])
          /\ \A u \in Servers : u # cyc.s => Kept'[u] = Kept[u]
      <4>1. Tiered(cyc.s) /\ cyc.s \in Servers
        BY <1>0, <2>1
      <4>2. \A u \in Servers : u # cyc.s => hot'[u] = hot[u]
        BY <3>1
      <4> QED
        BY <4>1, <4>2, Seen
    <3>4. Kept' = [Kept EXCEPT ![cyc.s] = Kept[cyc.s] \cup {cyc.ts}]
      BY <1>0, <3>2, <3>3, Seen
    <3>5. cyc.ts \notin Kept[cyc.s]
      BY <3>2, <3>3
    <3> QED
      BY <1>0, <1>3, <3>0, <3>2, <3>4, <3>5
  <2>2. CASE /\ wrk.pc = "pruneHot" /\ cold' = cold
             /\ Pruned(hot[wrk.s], hot'[wrk.s], HotDoomed(wrk.s))
             /\ \A s \in Servers : s # wrk.s => hot'[s] = hot[s]
    <3> DEFINE R == Whole(hot[wrk.s]) \ Whole(hot'[wrk.s])
    <3>1. Tiered(wrk.s)
      BY <2>2 DEF Control
    <3>2. Pruned(hot[wrk.s], hot'[wrk.s], LocalDoomed(Present(hot[wrk.s]), 0, HotPruneCount, now))
      BY <2>2 DEF HotDoomed
    <3>3. /\ Whole(hot'[wrk.s]) \subseteq Whole(hot[wrk.s])
          /\ \A t \in R : \E u \in Whole(hot'[wrk.s]) : u > t
      BY <1>0, <3>2, PruneDispensable, Numbers DEF HotCovered
    <3>4. Kept[wrk.s] = Whole(hot[wrk.s]) /\ Kept'[wrk.s] = Whole(hot'[wrk.s]) /\ StoredSet' = StoredSet
      BY <1>0, <2>2, <3>1, Seen
    <3>5. \A s \in Servers : s # wrk.s => Kept'[s] = Kept[s]
      BY <2>2, Seen
    <3>6. R \in SUBSET Kept[wrk.s] /\ Whole(hot'[wrk.s]) = Kept[wrk.s] \ R
      BY <3>3, <3>4
    <3> HIDE DEF R
    <3>7. Kept' = [Kept EXCEPT ![wrk.s] = Kept[wrk.s] \ R]
      BY <1>0, <3>4, <3>5, <3>6, Seen
    <3>8. CASE R # {}
      <4>1. \A t \in R : \E u \in Kept[wrk.s] \ R : u > t
        BY <3>3, <3>6
      <4> QED
        BY <1>0, <1>5, <3>4, <3>6, <3>7, <3>8, <4>1
    <3>9. CASE R = {}
      <4>1. Kept' = Kept
        BY <3>7, <3>9, Seen
      <4> QED
        BY <1>2, <3>4, <4>1
    <3> QED
      BY <3>8, <3>9
  <2> QED
    BY <1>7, <2>1, <2>2, HotStep
<1>8. CASE hot' = hot
  <2>0. Kept' = Kept
    BY <1>8, Seen
  <2>1. CASE \A s \in Servers : Tiered(s) => cold'[s] = cold[s]
    <3>1. StoredSet' = StoredSet
      BY <2>1, Seen
    <3> QED
      BY <1>2, <2>0, <3>1
  <2>2. ASSUME NEW s \in Servers, Tiered(s), cold'[s] # cold[s]
        PROVE  [Store!Next]_(Store!tiers)
    <3>0. \A u \in Servers : u # s => cold'[u] = cold[u]
      BY <2>2, ColdChanges
    <3>1. CASE /\ wrk.s = s /\ wrk.pc = "transfer" /\ cold[s][wrk.sel] = "none"
               /\ cold'[s] = [cold[s] EXCEPT ![wrk.sel] = "whole"]
      <4>1. wrk.sel \in Times /\ hot[s][wrk.sel] = "whole"
        BY <1>0, <3>1 DEF TransferSourceWhole
      <4>2. Whole(cold'[s]) = Whole(cold[s]) \cup {wrk.sel} /\ wrk.sel \notin Whole(cold[s])
        BY <1>0, <3>1, <4>1 DEF Whole
      <4>4. /\ Kept[s] = Whole(hot[s]) /\ StoredSet[s] = Whole(cold[s])
            /\ StoredSet'[s] = Whole(cold'[s])
            /\ \A u \in Servers : u # s => StoredSet'[u] = StoredSet[u]
        BY <2>2, <3>0, Seen
      <4>5. StoredSet' = [StoredSet EXCEPT ![s] = StoredSet[s] \cup {wrk.sel}]
        BY <4>2, <4>4, Seen
      <4>6. \A u \in StoredSet[s] : u < wrk.sel
        BY <2>2, <3>1, <4>4, StoresNewer DEF Whole
      <4>7. wrk.sel \in Kept[s]
        BY <4>1, <4>4 DEF Whole
      <4> QED
        BY <1>4, <2>0, <4>1, <4>2, <4>4, <4>5, <4>6, <4>7
    <3>2. CASE /\ Whole(cold'[s]) \subseteq Whole(cold[s])
               /\ \A t \in Whole(cold[s]) \ Whole(cold'[s]) : \E u \in Whole(cold'[s]) : u > t
      <4> DEFINE R == Whole(cold[s]) \ Whole(cold'[s])
      <4>2. /\ Whole(cold'[s]) \subseteq Whole(cold[s])
            /\ \A t \in R : \E u \in Whole(cold'[s]) : u > t
        BY <3>2
      <4>3. /\ StoredSet[s] = Whole(cold[s]) /\ StoredSet'[s] = Whole(cold'[s])
            /\ \A u \in Servers : u # s => StoredSet'[u] = StoredSet[u]
        BY <2>2, <3>0, Seen
      <4>4. R \in SUBSET StoredSet[s] /\ Whole(cold'[s]) = StoredSet[s] \ R
        BY <4>2, <4>3
      <4> HIDE DEF R
      <4>5. StoredSet' = [StoredSet EXCEPT ![s] = StoredSet[s] \ R]
        BY <4>3, <4>4, Seen
      <4>6. CASE R # {}
        <5>1. \A t \in R : \E u \in StoredSet[s] \ R : u > t
          BY <4>2, <4>4
        <5> QED
          BY <1>6, <2>0, <4>4, <4>5, <4>6, <5>1
      <4>7. CASE R = {}
        <5>1. StoredSet' = StoredSet
          BY <4>5, <4>7, Seen
        <5> QED
          BY <1>2, <2>0, <5>1
      <4> QED
        BY <4>6, <4>7
    <3> QED
      BY <2>2, <3>1, <3>2, ColdChanges
  <2> QED
    BY <2>1, <2>2
<1> QED
  BY <1>7, <1>8

\* The two tiers of a tiered server with count pruning behave like TieredStore, beside
\* servers with direct targets, through failing captures and transfers and a clock set
\* back; with local cold storage also through crashes at any point, on the NAS as long
\* as nothing crashes, clean-up works and no answer is lost.
THEOREM TiersImplementStore ==
  ASSUME NasTended, PruneDays = 0, HotPruneDays = 0
  PROVE  Spec => StoreSpec
<1>1. Spec => []HotCovered /\ []ColdCovered
  BY TiersCovered DEF Countable
<1>2. Spec => []TransferSourceWhole /\ []Ahead
  BY SourceIsWhole, AheadInvariant
<1>3. Init => Store!Init
  <2> SUFFICES ASSUME Init
               PROVE  \A s \in Servers : Complete(s, hot[s]) = {} /\ Complete(s, cold[s]) = {}
    BY DEF Store!Init
  <2> QED
    BY DEF Init, Complete, NoDirs
<1>4. TypeInv /\ Control /\ HotCovered /\ ColdCovered /\ TransferSourceWhole /\ Ahead
        /\ Untorn /\ Tidy /\ Timed /\ [Next]_vars => [Store!Next]_(Store!tiers)
  BY StoreStep
<1> QED
  BY <1>1, <1>2, <1>3, <1>4, CareInvariants, TimesKept, TypesAndControl, PTL
     DEF Spec, StoreSpec, Store!Spec

=============================================================================
