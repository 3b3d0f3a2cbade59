-------------------------- MODULE Retention_proofs --------------------------
(***************************************************************************)
(* What the prunes remove, for every finite directory and every setting.   *)
(* The existence of a largest name rests on the strict subset order of a   *)
(* finite set being well-founded, so no induction over data is needed.     *)
(***************************************************************************)
EXTENDS Retention, FiniteSetTheorems, WellFoundedInduction, TLAPS

\* The names later than t are finitely many, fewer for a later t.
LEMMA NewerThanFacts ==
  ASSUME NEW S \in SUBSET Int, IsFiniteSet(S), NEW t \in Int
  PROVE  /\ NewerThan(S, t) \subseteq S
         /\ IsFiniteSet(NewerThan(S, t))
         /\ Cardinality(NewerThan(S, t)) \in Nat
         /\ \A u \in Int : u <= t => NewerThan(S, t) \subseteq NewerThan(S, u)
<1>1. NewerThan(S, t) \subseteq S
  BY DEF NewerThan
<1>2. IsFiniteSet(NewerThan(S, t))
  BY <1>1, FS_Subset
<1>3. Cardinality(NewerThan(S, t)) \in Nat
  BY <1>2, FS_CardinalityType
<1>4. ASSUME NEW u \in Int, u <= t
      PROVE  NewerThan(S, t) \subseteq NewerThan(S, u)
  <2>1. SUFFICES ASSUME NEW v \in NewerThan(S, t)
                 PROVE  v \in NewerThan(S, u)
    OBVIOUS
  <2>2. v \in S /\ v \in Int /\ v > t
    BY <2>1 DEF NewerThan
  <2> QED
    BY <1>4, <2>2 DEF NewerThan
<1> QED
  BY <1>1, <1>2, <1>3, <1>4

\* A finite non-empty directory has a last name: the scans of discoverSnapshots
\* and processOffloadJob find one.
LEMMA HasLast ==
  ASSUME NEW S \in SUBSET Int, IsFiniteSet(S), S # {}
  PROVE  \E m \in S : \A u \in S : u <= m
<1> DEFINE T == {NewerThan(S, m) : m \in S}
<1>1. T \subseteq FiniteSubsetsOf(S)
  BY NewerThanFacts DEF FiniteSubsetsOf
<1>2. T # {}
  OBVIOUS
<1>3. IsWellFoundedOn(StrictSubsetOrdering(S), FiniteSubsetsOf(S))
  BY FS_StrictSubsetOrderingWellFounded
<1> HIDE DEF T
<1>4. PICK x \in T : \A y \in T : <<y, x>> \notin StrictSubsetOrdering(S)
  BY <1>1, <1>2, <1>3, WFMin
<1>5. PICK m \in S : x = NewerThan(S, m)
  BY <1>4 DEF T
<1>6. SUFFICES ASSUME NEW u \in S, ~(u <= m)
               PROVE  FALSE
  BY <1>5
<1>7. u \in Int /\ m \in Int /\ m <= u
  BY <1>5, <1>6
<1>8. NewerThan(S, u) \subseteq x /\ x \subseteq S
  BY <1>5, <1>7, NewerThanFacts
<1>9. NewerThan(S, u) # x
  <2>1. u \in x
    BY <1>5, <1>6, <1>7 DEF NewerThan
  <2>2. u \notin NewerThan(S, u)
    BY <1>7 DEF NewerThan
  <2> QED
    BY <2>1, <2>2
<1>10. NewerThan(S, u) \in T
  BY DEF T
<1> QED
  BY <1>4, <1>8, <1>9, <1>10 DEF StrictSubsetOrdering

\* Likewise a first name.
LEMMA HasFirst ==
  ASSUME NEW S \in SUBSET Int, IsFiniteSet(S), S # {}
  PROVE  \E m \in S : \A u \in S : m <= u
<1> DEFINE Older(m) == {u \in S : u < m}
           T == {Older(m) : m \in S}
<1>1. T \subseteq FiniteSubsetsOf(S)
  BY FS_Subset DEF FiniteSubsetsOf
<1>2. T # {}
  OBVIOUS
<1>3. IsWellFoundedOn(StrictSubsetOrdering(S), FiniteSubsetsOf(S))
  BY FS_StrictSubsetOrderingWellFounded
<1> HIDE DEF T
<1>4. PICK x \in T : \A y \in T : <<y, x>> \notin StrictSubsetOrdering(S)
  BY <1>1, <1>2, <1>3, WFMin
<1>5. PICK m \in S : x = Older(m)
  BY <1>4 DEF T
<1>6. SUFFICES ASSUME NEW u \in S, ~(m <= u)
               PROVE  FALSE
  BY <1>5
<1>7. u \in Int /\ m \in Int /\ u < m
  BY <1>5, <1>6
<1>8. Older(u) \subseteq x /\ x \subseteq S
  <2>1. ASSUME NEW v \in S, v < u
        PROVE  v < m
    <3>1. v \in Int
      OBVIOUS
    <3> QED
      BY <1>7, <2>1, <3>1
  <2> QED
    BY <1>5, <2>1
<1>9. Older(u) # x
  <2>1. u \in x
    BY <1>5, <1>7
  <2>2. u \notin Older(u)
    BY <1>7
  <2> QED
    BY <2>1, <2>2
<1>10. Older(u) \in T
  BY DEF T
<1> QED
  BY <1>4, <1>8, <1>9, <1>10 DEF StrictSubsetOrdering

\* Newest is the last name of a directory that has one.
LEMMA NewestIsLast ==
  ASSUME NEW S \in SUBSET Int, IsFiniteSet(S), S # {}
  PROVE  Newest(S) \in S /\ \A u \in S : u <= Newest(S)
BY HasLast DEF Newest

\* The count prune cuts the sorted list at one place: with a name it removes
\* every older one.
THEOREM CountPrunesOldest ==
  ASSUME NEW S \in SUBSET Int, IsFiniteSet(S), NEW keep \in Int,
         NEW t \in CountDoomed(S, keep), NEW u \in S, u <= t
  PROVE  u \in CountDoomed(S, keep)
<1>1. keep > 0 /\ t \in S /\ Cardinality(NewerThan(S, t)) >= keep
  BY DEF CountDoomed
<1>2. NewerThan(S, t) \subseteq NewerThan(S, u)
  BY <1>1, NewerThanFacts
<1>3. Cardinality(NewerThan(S, t)) <= Cardinality(NewerThan(S, u))
  BY <1>2, NewerThanFacts, FS_Subset
<1>4. /\ Cardinality(NewerThan(S, t)) \in Nat
      /\ Cardinality(NewerThan(S, u)) \in Nat
  BY <1>1, NewerThanFacts
<1> QED
  BY <1>1, <1>3, <1>4 DEF CountDoomed

\* pruneLocalByCount keeps the newest prune_count snapshots, exactly that many
\* when it removes anything ("keeps only the configured number").
THEOREM CountKeepsExactly ==
  ASSUME NEW S \in SUBSET Int, IsFiniteSet(S), NEW keep \in Nat \ {0}
  PROVE  LET kept == S \ CountDoomed(S, keep)
         IN  /\ Cardinality(kept) <= keep
             /\ CountDoomed(S, keep) # {} => Cardinality(kept) = keep
<1> DEFINE doomed == CountDoomed(S, keep)
           kept   == S \ doomed
<1>0. /\ doomed \subseteq S /\ IsFiniteSet(doomed)
      /\ IsFiniteSet(kept) /\ Cardinality(kept) \in Nat
  <2>1. doomed \subseteq S
    BY DEF CountDoomed
  <2>2. IsFiniteSet(doomed) /\ IsFiniteSet(kept)
    BY <2>1, FS_Subset
  <2> QED
    BY <2>1, <2>2, FS_CardinalityType
<1>1. \A t \in S : t \in doomed <=> Cardinality(NewerThan(S, t)) >= keep
  BY DEF CountDoomed
<1>2. \A t \in doomed : \A u \in S : u <= t => u \in doomed
  BY CountPrunesOldest
<1> HIDE DEF doomed
<1>3. Cardinality(kept) <= keep
  <2>1. CASE kept = {}
    BY <2>1, FS_EmptySet
  <2>2. CASE kept # {}
    <3>1. PICK m \in kept : \A u \in kept : m <= u
      BY <1>0, <2>2, HasFirst
    <3>2. kept \ {m} \subseteq NewerThan(S, m)
      <4>1. ASSUME NEW u \in kept, u # m
            PROVE  u > m
        <5>1. u \in Int /\ m \in Int /\ m <= u
          BY <3>1
        <5> QED
          BY <4>1, <5>1
      <4> QED
        BY <4>1 DEF NewerThan
    <3>3. Cardinality(NewerThan(S, m)) < keep
      BY <1>1, <3>1, NewerThanFacts
    <3>4. Cardinality(kept \ {m}) <= Cardinality(NewerThan(S, m))
      BY <3>1, <3>2, NewerThanFacts, FS_Subset
    <3>5. Cardinality(kept \ {m}) = Cardinality(kept) - 1
      BY <1>0, <3>1, FS_RemoveElement
    <3> QED
      BY <1>0, <3>1, <3>3, <3>4, <3>5, NewerThanFacts
  <2> QED
    BY <2>1, <2>2
<1>4. ASSUME doomed # {}
      PROVE  Cardinality(kept) >= keep
  <2>1. PICK d \in doomed : \A u \in doomed : u <= d
    BY <1>0, <1>4, HasLast
  <2>2. NewerThan(S, d) \subseteq kept
    <3>1. ASSUME NEW u \in S, u > d
          PROVE  u \notin doomed
      <4>1. u \in Int /\ d \in Int
        BY <1>0, <2>1
      <4> QED
        BY <2>1, <3>1, <4>1
    <3> QED
      BY <3>1 DEF NewerThan
  <2>3. Cardinality(NewerThan(S, d)) >= keep
    BY <1>0, <1>1, <2>1
  <2>4. Cardinality(NewerThan(S, d)) <= Cardinality(kept)
    BY <1>0, <2>2, FS_Subset
  <2>5. Cardinality(NewerThan(S, d)) \in Nat
    BY <1>0, <2>1, NewerThanFacts
  <2> QED
    BY <1>0, <2>3, <2>4, <2>5
<1> QED
  BY <1>0, <1>3, <1>4 DEF doomed

\* The local retention (days, then count) keeps the newest snapshot unless the
\* day prune itself removes it.
THEOREM LocalSparesNewest ==
  ASSUME NEW S \in SUBSET Int, IsFiniteSet(S), S # {},
         NEW days \in Int, NEW keep \in Int, NEW now \in Int,
         Newest(S) \notin DaysDoomed(S, days, now)
  PROVE  Newest(S) \notin LocalDoomed(S, days, keep, now)
<1> DEFINE left == S \ DaysDoomed(S, days, now)
           n    == Newest(S)
<1>1. n \in left /\ left \subseteq S /\ IsFiniteSet(left)
  BY NewestIsLast, FS_Subset
<1>2. NewerThan(left, n) = {}
  <2>1. ASSUME NEW u \in left
        PROVE  ~(u > n)
    <3>1. u \in S /\ u \in Int /\ n \in Int
      BY <1>1
    <3>2. u <= n
      BY <3>1, NewestIsLast
    <3> QED
      BY <3>1, <3>2
  <2> QED
    BY <2>1 DEF NewerThan
<1>3. n \notin CountDoomed(left, keep)
  <2>1. Cardinality(NewerThan(left, n)) = 0
    BY <1>2, FS_EmptySet
  <2> QED
    BY <2>1 DEF CountDoomed
<1> QED
  BY <1>1, <1>3 DEF LocalDoomed

-----------------------------------------------------------------------------
(***************************************************************************)
(* The NAS                                                                 *)
(***************************************************************************)

\* The entries of the finished snapshots with the names S.
FinishedEntries(S) == {[name |-> t, mtime |-> t, wip |-> FALSE] : t \in S}

\* More than d whole days have gone by exactly when d + 1 of them have.
LEMMA WholeDays ==
  ASSUME NEW x \in Int, NEW d \in Int
  PROVE  x \div DayLength > d <=> x >= (d + 1) * DayLength
<1>1. DayLength \in Int /\ DayLength > 0
  BY DayLengthAssumption
<1>2. PICK q \in Int : q = x \div DayLength
  BY <1>1
<1>3. q * DayLength <= x /\ x < (q + 1) * DayLength
  BY <1>1, <1>2
<1>4. ASSUME q > d PROVE q * DayLength >= (d + 1) * DayLength
  BY <1>1, <1>4
<1>5. ASSUME q <= d PROVE (q + 1) * DayLength <= (d + 1) * DayLength
  BY <1>1, <1>5
<1>6. (d + 1) * DayLength \in Int /\ q * DayLength \in Int /\ (q + 1) * DayLength \in Int
  BY <1>1
<1> QED
  BY <1>2, <1>3, <1>4, <1>5, <1>6

\* The entries of the finished snapshots S with the modification times m.
EntriesAt(S, m) == {[name |-> t, mtime |-> m[t], wip |-> FALSE] : t \in S}

\* The two day prunes: what the NAS removes the local prune would remove too, and
\* the NAS removes at most a day later what was not modified again, whatever
\* unfinished transfers there are (prune.go:41-88; find -mtime counts whole days).
THEOREM NasWaitsUnderADay ==
  ASSUME NEW S \in SUBSET Int, NEW m \in [S -> Int], \A t \in S : m[t] >= t,
         NEW U, \A e \in U : e.wip,
         NEW days \in Int, NEW now \in Int
  PROVE  LET nas == {e.name : e \in NasDaysDoomed(EntriesAt(S, m) \cup U, days, now)}
         IN  /\ nas \subseteq DaysDoomed(S, days, now)
             /\ days > 0 => {t \in DaysDoomed(S, days + 1, now) : m[t] = t} \subseteq nas
<1> DEFINE E    == EntriesAt(S, m) \cup U
           nas  == {e.name : e \in NasDaysDoomed(E, days, now)}
           F(t) == [name |-> t, mtime |-> m[t], wip |-> FALSE]
<1>1. CASE days <= 0
  BY <1>1 DEF NasDaysDoomed, DaysDoomed
<1>2. CASE days > 0
  <2>0. days * DayLength \in Int /\ (days + 1) * DayLength \in Int
        /\ days * DayLength <= (days + 1) * DayLength /\ DayLength > 0
        /\ (days + 1) * DayLength = days * DayLength + DayLength
    BY DayLengthAssumption
  <2>1. ASSUME NEW e \in NasDaysDoomed(E, days, now)
        PROVE  e.name \in DaysDoomed(S, days, now)
    <3>1. e \in E /\ ~e.wip /\ (now - e.mtime) \div DayLength > days
      BY <1>2, <2>1 DEF NasDaysDoomed
    <3>2. PICK t \in S : e = F(t)
      BY <3>1 DEF EntriesAt
    <3>3. e.name = t /\ e.mtime = m[t] /\ t \in Int /\ m[t] \in Int /\ m[t] >= t
      BY <3>2
    <3>4. now - m[t] >= (days + 1) * DayLength
      BY <3>1, <3>3, WholeDays
    <3> HIDE DEF E, F
    <3>5. t < now - days * DayLength
      BY <2>0, <3>3, <3>4, DayLengthAssumption
    <3> QED
      BY <1>2, <3>3, <3>5 DEF DaysDoomed
  <2>2. ASSUME NEW t \in DaysDoomed(S, days + 1, now), m[t] = t
        PROVE  t \in nas
    <3>1. t \in S /\ t < now - (days + 1) * DayLength /\ t \in Int
      BY <1>2 DEF DaysDoomed
    <3>2. now - t >= (days + 1) * DayLength /\ now - t \in Int
      BY <2>0, <3>1
    <3>3. (now - t) \div DayLength > days
      BY <3>2, WholeDays
    <3>4. F(t) \in E /\ F(t).mtime = t /\ F(t).wip = FALSE /\ F(t).name = t
      BY <2>2, <3>1 DEF EntriesAt
    <3>5. F(t) \in NasDaysDoomed(E, days, now)
      BY <1>2, <3>3, <3>4 DEF NasDaysDoomed
    <3> QED
      BY <3>4, <3>5
  <2> QED
    BY <2>1, <2>2
<1>3. days <= 0 \/ days > 0
  OBVIOUS
<1> QED
  BY <1>1, <1>2, <1>3, Zenon

\* As many entries as names.
LEMMA EntriesCount ==
  ASSUME NEW S, IsFiniteSet(S)
  PROVE  IsFiniteSet(FinishedEntries(S)) /\ Cardinality(FinishedEntries(S)) = Cardinality(S)
<1> DEFINE f == [t \in S |-> [name |-> t, mtime |-> t, wip |-> FALSE]]
<1>1. f \in Bijection(S, FinishedEntries(S))
  BY DEF Bijection, Injection, Surjection, IsInjective, FinishedEntries
<1>2. ExistsBijection(S, FinishedEntries(S))
  BY <1>1 DEF ExistsBijection
<1> QED
  BY <1>2, FS_Bijection

\* The NAS count prune never removes an entry for one modified before it: when it
\* removes one, exactly count others stay, none of them modified earlier.
LEMMA NasKeepsLatest ==
  ASSUME NEW E, NEW count \in Nat \ {0}, NEW D \in NasCountDoomed(E, count), NEW e \in D
  PROVE  /\ D \subseteq E
         /\ Cardinality(E \ D) = count
         /\ \A k \in E \ D : e.mtime <= k.mtime
<1>1. D \in TailsAfter(E, count)
  BY DEF NasCountDoomed
<1> QED
  BY <1>1 DEF TailsAfter

\* The NAS count prune keeps enough when unfinished transfers are few: each of them
\* takes the place of at most one finished snapshot.  A finished one with count
\* newer ones always goes (prune.go:90-103).
THEOREM NasCountBounds ==
  ASSUME NEW S \in SUBSET Int, IsFiniteSet(S), NEW U, IsFiniteSet(U), \A e \in U : e.wip,
         NEW count \in Nat \ {0},
         NEW D \in NasCountDoomed(FinishedEntries(S) \cup U, count), NEW t \in S
  PROVE  LET e == [name |-> t, mtime |-> t, wip |-> FALSE]
         IN  /\ e \in D => Cardinality(NewerThan(S, t)) + Cardinality(U) >= count
             /\ t \in CountDoomed(S, count) => e \in D
<1> DEFINE F(u) == [name |-> u, mtime |-> u, wip |-> FALSE]
           E == FinishedEntries(S) \cup U
           newer == FinishedEntries(NewerThan(S, t))
           kept == E \ D
<1>1. /\ IsFiniteSet(newer) /\ Cardinality(newer) = Cardinality(NewerThan(S, t))
      /\ Cardinality(newer) \in Nat
  BY NewerThanFacts, EntriesCount
<1>2. /\ IsFiniteSet(newer \cup U) /\ Cardinality(U) \in Nat
      /\ Cardinality(newer \cup U) <= Cardinality(newer) + Cardinality(U)
      /\ Cardinality(newer \cup U) \in Nat
  <2>1. IsFiniteSet(newer \cup U) /\ IsFiniteSet(newer \cap U)
    BY <1>1, FS_Union, FS_Subset
  <2> HIDE DEF newer
  <2>2. Cardinality(newer \cup U) = Cardinality(newer) + Cardinality(U) - Cardinality(newer \cap U)
    BY <1>1, FS_Union
  <2> QED
    BY <1>1, <2>1, <2>2, FS_CardinalityType
<1>3. IsFiniteSet(kept) /\ Cardinality(kept) \in Nat
  <2>1. IsFiniteSet(E)
    BY EntriesCount, FS_Union
  <2> HIDE DEF E
  <2> QED
    BY <2>1, FS_Subset, FS_CardinalityType
<1>4. /\ D \subseteq E /\ Cardinality(kept) <= count
      /\ \A d \in D, k \in kept : d.mtime <= k.mtime
  <2>1. D \in TailsAfter(E, count)
    BY DEF NasCountDoomed
  <2> HIDE DEF E
  <2> QED
    BY <2>1 DEF TailsAfter
<1>5. /\ \A u \in S : F(u) \in E /\ F(u).mtime = u /\ u \in Int
      /\ \A u \in S : F(u) \in newer <=> u > t
      /\ newer \subseteq E
      /\ \A k \in E : k \in U \/ \E u \in S : k = F(u)
  <2>1. \A u : u \in NewerThan(S, t) <=> u \in S /\ u > t
    BY DEF NewerThan
  <2>2. \A u \in S : F(u) \in E /\ F(u).mtime = u /\ u \in Int
    BY DEF FinishedEntries
  <2>3. newer \subseteq E
    BY <2>1 DEF FinishedEntries
  <2>4. \A u, v : F(u) = F(v) => u = v
    <3>1. \A u : F(u).name = u
      OBVIOUS
    <3> HIDE DEF F
    <3> QED
      BY <3>1
  <2>5. \A u : F(u) \in newer <=> u \in NewerThan(S, t)
    <3>1. newer = {F(u) : u \in NewerThan(S, t)}
      BY DEF FinishedEntries
    <3> HIDE DEF newer, F
    <3> QED
      BY <2>4, <3>1
  <2>6. \A k \in E : k \in U \/ \E u \in S : k = F(u)
    BY Zenon DEF FinishedEntries
  <2> HIDE DEF newer, F, E
  <2> QED
    BY <2>1, <2>2, <2>3, <2>5, <2>6
<1>6. ASSUME F(t) \in D
      PROVE  Cardinality(NewerThan(S, t)) + Cardinality(U) >= count
  <2>1. Cardinality(kept) = count
    <3> HIDE DEF E, F
    <3> QED
      BY <1>6, NasKeepsLatest DEF E
  <2>2. kept \subseteq newer \cup U
    <3> HIDE DEF E, F, newer
    <3>1. SUFFICES ASSUME NEW k \in kept, k \notin U PROVE k \in newer
      OBVIOUS
    <3>2. PICK u \in S : k = F(u)
      BY <1>5, <3>1
    <3>3. t <= u /\ u # t
      BY <1>4, <1>5, <1>6, <3>1, <3>2
    <3> QED
      BY <1>5, <3>2, <3>3
  <2> HIDE DEF kept, newer
  <2>3. Cardinality(kept) <= Cardinality(newer \cup U)
    BY <1>2, <2>2, FS_Subset
  <2> QED
    BY <1>1, <1>2, <1>3, <2>1, <2>3
<1>7. ASSUME t \in CountDoomed(S, count), F(t) \notin D
      PROVE  FALSE
  <2>1. Cardinality(newer) >= count
    BY <1>1, <1>7 DEF CountDoomed
  <2>2. F(t) \in kept /\ F(t) \notin newer
    <3> HIDE DEF E, F, newer
    <3>1. F(t) \in E /\ ~(t > t)
      BY <1>5
    <3> QED
      BY <1>5, <1>7, <3>1
  <2>3. newer \subseteq kept
    <3>1. SUFFICES ASSUME NEW u \in S, u > t, F(u) \in D PROVE FALSE
      BY <1>5 DEF FinishedEntries, NewerThan
    <3> HIDE DEF E, F, newer
    <3>2. F(u).mtime <= F(t).mtime
      BY <1>4, <2>2, <3>1
    <3> QED
      BY <1>5, <3>1, <3>2
  <2> HIDE DEF kept, newer, F
  <2>4. newer \cup {F(t)} \subseteq kept
    BY <2>2, <2>3
  <2>5. Cardinality(newer \cup {F(t)}) = Cardinality(newer) + 1
    BY <1>1, <2>2, FS_AddElement
  <2>6. Cardinality(newer \cup {F(t)}) <= Cardinality(kept)
    BY <1>3, <2>4, FS_Subset
  <2> QED
    BY <1>1, <1>3, <1>4, <2>1, <2>5, <2>6
<1> QED
  BY <1>6, <1>7

\* Without unfinished transfers and second copies the NAS count prune removes the
\* same snapshots as the local one (prune.go:13-39, 90-103).
THEOREM NasCountsLikeLocal ==
  ASSUME NEW S \in SUBSET Int, IsFiniteSet(S), NEW count \in Int,
         NEW D \in NasCountDoomed(FinishedEntries(S), count)
  PROVE  D = FinishedEntries(CountDoomed(S, count))
<1>1. CASE count <= 0
  BY <1>1 DEF NasCountDoomed, CountDoomed, FinishedEntries
<1>2. CASE count > 0
  <2> DEFINE F(t) == [name |-> t, mtime |-> t, wip |-> FALSE]
  <2>1. ASSUME NEW t \in S
        PROVE  F(t) \in D <=> t \in CountDoomed(S, count)
    <3>1. /\ FinishedEntries(S) \cup {} = FinishedEntries(S)
          /\ IsFiniteSet({}) /\ Cardinality({}) = 0 /\ Cardinality(NewerThan(S, t)) \in Nat
      BY FS_EmptySet, NewerThanFacts
    <3>2. t \in CountDoomed(S, count) <=> Cardinality(NewerThan(S, t)) + 0 >= count
      BY <1>2, <3>1 DEF CountDoomed
    <3>3. /\ F(t) \in D => Cardinality(NewerThan(S, t)) + Cardinality({}) >= count
          /\ t \in CountDoomed(S, count) => F(t) \in D
      BY <1>2, <3>1, NasCountBounds
    <3> QED
      BY <3>1, <3>2, <3>3
  <2>2. D \subseteq FinishedEntries(S)
    BY <1>2 DEF NasCountDoomed, TailsAfter
  <2>3. CountDoomed(S, count) \subseteq S
    BY DEF CountDoomed
  <2> QED
    BY <2>1, <2>2, <2>3 DEF FinishedEntries
<1> QED
  BY <1>1, <1>2

=============================================================================
