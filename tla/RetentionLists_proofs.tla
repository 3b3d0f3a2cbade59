----------------------- MODULE RetentionLists_proofs ------------------------
(***************************************************************************)
(* The prunes on sorted lists remove what Retention says, for every input. *)
(* A listing of a finite set exists (the least set without one would be    *)
(* listed by putting its last element after the rest), it names every      *)
(* element once, and as many elements come before its i-th as i - 1: so    *)
(* cutting the list is counting what comes before.                         *)
(***************************************************************************)
EXTENDS RetentionLists, Retention_proofs, SequenceTheorems

\* R is a strict total order of S.
Orders(R, A) ==
    /\ \A x \in A : <<x, x>> \notin R
    /\ \A x, y, z \in A : <<x, y>> \in R /\ <<y, z>> \in R => <<x, z>> \in R
    /\ \A x, y \in A : x # y => <<x, y>> \in R \/ <<y, x>> \in R

\* l names elements of S in the order R, as many as S has.
Lists(l, A, R) ==
    /\ l \in [1..Cardinality(A) -> A]
    /\ \A i, j \in 1..Cardinality(A) : i < j => <<l[i], l[j]>> \in R

\* How many elements come before t.
Rank(A, R, t) == Cardinality({u \in A : <<u, t>> \in R})

\* A finite set has a last element in every total order.
LEMMA LastInOrder ==
  ASSUME NEW A, IsFiniteSet(A), A # {}, NEW R, Orders(R, A)
  PROVE  \E m \in A : \A u \in A : u # m => <<u, m>> \in R
<1> DEFINE After(m) == {u \in A : <<m, u>> \in R}
           T == {After(m) : m \in A}
<1>1. T \subseteq FiniteSubsetsOf(A)
  BY FS_Subset DEF FiniteSubsetsOf
<1>2. T # {}
  OBVIOUS
<1>3. IsWellFoundedOn(StrictSubsetOrdering(A), FiniteSubsetsOf(A))
  BY FS_StrictSubsetOrderingWellFounded
<1> HIDE DEF T
<1>4. PICK x \in T : \A y \in T : <<y, x>> \notin StrictSubsetOrdering(A)
  BY <1>1, <1>2, <1>3, WFMin
<1>5. PICK m \in A : x = After(m)
  BY <1>4 DEF T
<1>6. SUFFICES ASSUME NEW u \in A, u # m, <<u, m>> \notin R
               PROVE  FALSE
  BY <1>5
<1>7. <<m, u>> \in R
  BY <1>5, <1>6 DEF Orders
<1>8. After(u) \subseteq x /\ x \subseteq A /\ u \in x /\ u \notin After(u)
  BY <1>5, <1>6, <1>7 DEF Orders
<1>9. After(u) \in T
  BY DEF T
<1> QED
  BY <1>4, <1>8, <1>9 DEF StrictSubsetOrdering

\* Every finite set has a listing in a total order: a sort has a result.
LEMMA ListingExists ==
  ASSUME NEW S0, IsFiniteSet(S0), NEW R, Orders(R, S0)
  PROVE  \E l : Lists(l, S0, R)
<1> DEFINE T == {A \in SUBSET S0 : ~\E l : Lists(l, A, R)}
<1>1. T \subseteq FiniteSubsetsOf(S0)
  BY FS_Subset DEF FiniteSubsetsOf
<1>2. IsWellFoundedOn(StrictSubsetOrdering(S0), FiniteSubsetsOf(S0))
  BY FS_StrictSubsetOrderingWellFounded
<1>3. SUFFICES ASSUME T # {} PROVE FALSE
  OBVIOUS
<1> HIDE DEF T
<1>4. PICK A \in T : \A y \in T : <<y, A>> \notin StrictSubsetOrdering(S0)
  BY <1>1, <1>2, <1>3, WFMin
<1>5. A \in SUBSET S0 /\ ~\E l : Lists(l, A, R)
  BY <1>4 DEF T
<1>6. IsFiniteSet(A) /\ Cardinality(A) \in Nat /\ Orders(R, A)
  BY <1>5, FS_Subset, FS_CardinalityType DEF Orders
<1>7. A # {}
  <2>1. SUFFICES ASSUME A = {} PROVE FALSE
    OBVIOUS
  <2>2. Cardinality(A) = 0
    BY <2>1, FS_EmptySet
  <2>3. Lists([i \in 1..0 |-> i], A, R)
    BY <2>1, <2>2 DEF Lists
  <2> QED
    BY <1>5, <2>3
<1>8. PICK m \in A : \A u \in A : u # m => <<u, m>> \in R
  BY <1>6, <1>7, LastInOrder
<1> DEFINE B == A \ {m}
<1>9. B \in SUBSET S0 /\ <<B, A>> \in StrictSubsetOrdering(S0)
  BY <1>5, <1>8 DEF StrictSubsetOrdering
<1>10. PICK l : Lists(l, B, R)
  BY <1>4, <1>9 DEF T
<1> DEFINE n == Cardinality(A)
           k == [i \in 1..n |-> IF i = n THEN m ELSE l[i]]
<1>11. Cardinality(B) = n - 1 /\ n \in Nat
  BY <1>6, <1>8, FS_RemoveElement
<1>12. ASSUME NEW i \in 1..n, i # n
       PROVE  l[i] \in B /\ k[i] = l[i]
  <2>1. i \in 1..Cardinality(B)
    BY <1>11, <1>12
  <2> QED
    BY <1>10, <1>12, <2>1 DEF Lists
<1>13. k \in [1..n -> A]
  BY <1>8, <1>12
<1>14. ASSUME NEW i \in 1..n, NEW j \in 1..n, i < j
       PROVE  <<k[i], k[j]>> \in R
  <2>1. i # n /\ i \in 1..Cardinality(B)
    BY <1>11, <1>14
  <2>2. CASE j = n
    <3>1. k[j] = m /\ k[i] \in B
      BY <1>12, <2>1, <2>2
    <3> QED
      BY <1>8, <3>1
  <2>3. CASE j # n
    <3>1. j \in 1..Cardinality(B) /\ k[i] = l[i] /\ k[j] = l[j]
      BY <1>11, <1>12, <2>1, <2>3
    <3> QED
      BY <1>10, <1>14, <2>1, <3>1 DEF Lists
  <2> QED
    BY <2>2, <2>3
<1>15. Lists(k, A, R)
  BY <1>13, <1>14 DEF Lists
<1> QED
  BY <1>5, <1>15

\* A listing names every element, and i - 1 of them before the i-th.
LEMMA ListingRanks ==
  ASSUME NEW A, IsFiniteSet(A), NEW R, Orders(R, A), NEW l, Lists(l, A, R)
  PROVE  /\ Cardinality(A) \in Nat
         /\ \A u \in A : \E i \in 1..Cardinality(A) : u = l[i]
         /\ \A i \in 1..Cardinality(A) : Rank(A, R, l[i]) = i - 1
<1> DEFINE n == Cardinality(A)
<1>0. n \in Nat /\ l \in [1..n -> A]
  BY FS_CardinalityType DEF Lists
<1>1. ASSUME NEW i \in 1..n, NEW j \in 1..n
      PROVE  <<l[i], l[j]>> \in R <=> i < j
  <2>1. l[i] \in A /\ l[j] \in A /\ i \in Int /\ j \in Int
    BY <1>0
  <2>2. i < j => <<l[i], l[j]>> \in R
    BY DEF Lists
  <2>3. i = j => <<l[i], l[j]>> \notin R
    BY <2>1 DEF Orders
  <2>4. j < i => <<l[i], l[j]>> \notin R
    BY <2>1 DEF Lists, Orders
  <2> QED
    BY <2>1, <2>2, <2>3, <2>4
<1>2. \A i, j \in 1..n : l[i] = l[j] => i = j
  <2>1. SUFFICES ASSUME NEW i \in 1..n, NEW j \in 1..n, l[i] = l[j], i # j PROVE FALSE
    OBVIOUS
  <2>2. ~(i < i) /\ (i < j \/ j < i)
    BY <1>0, <2>1
  <2> QED
    BY <1>1, <2>1, <2>2
<1>3. \A u \in A : \E i \in 1..n : u = l[i]
  <2>1. l \in Injection(1..n, A)
    BY <1>0, <1>2 DEF Injection, IsInjective
  <2>2. Cardinality(1..n) = n
    BY <1>0, FS_Interval
  <2>3. l \in Surjection(1..n, A)
    BY <2>1, <2>2, FS_Injection
  <2> QED
    BY <2>3 DEF Surjection
<1>4. ASSUME NEW i \in 1..n
      PROVE  Rank(A, R, l[i]) = i - 1
  <2> DEFINE B == {u \in A : <<u, l[i]>> \in R}
             f == [j \in 1..(i - 1) |-> l[j]]
  <2>1. i - 1 \in Nat /\ 1..(i - 1) \subseteq 1..n /\ \A j \in 1..n : j < i <=> j \in 1..(i - 1)
    BY <1>0
  <2>2. f \in [1..(i - 1) -> B]
    BY <1>0, <1>1, <2>1
  <2>3. \A u \in B : \E j \in 1..(i - 1) : f[j] = u
    BY <1>1, <1>3, <2>1
  <2>4. \A j, h \in 1..(i - 1) : f[j] = f[h] => j = h
    BY <1>2, <2>1
  <2> HIDE DEF B
  <2>5. f \in Bijection(1..(i - 1), B)
    BY <2>2, <2>3, <2>4 DEF Bijection, Injection, Surjection, IsInjective
  <2> HIDE DEF f
  <2>6. ExistsBijection(1..(i - 1), B)
    BY <2>5 DEF ExistsBijection
  <2>7. IsFiniteSet(1..(i - 1)) /\ Cardinality(1..(i - 1)) = i - 1
    BY <2>1, FS_Interval
  <2> QED
    BY <2>6, <2>7, FS_Bijection DEF B, Rank
<1> QED
  BY <1>0, <1>3, <1>4

\* What is left of a listing from index keep on: the elements that at least keep
\* others come before.
LEMMA ListingTail ==
  ASSUME NEW A, IsFiniteSet(A), NEW R, Orders(R, A), NEW l, Lists(l, A, R),
         NEW keep \in Nat
  PROVE  /\ Len(l) = Cardinality(A)
         /\ ToSet(SubSeq(l, keep + 1, Len(l))) =
              {t \in A : Rank(A, R, t) >= keep}
<1> DEFINE n == Cardinality(A)
           s == SubSeq(l, keep + 1, n)
<1>0. /\ n \in Nat /\ l \in [1..n -> A]
      /\ \A u \in A : \E i \in 1..n : u = l[i]
      /\ \A i \in 1..n : Rank(A, R, l[i]) = i - 1
  <2>1. l \in [1..n -> A]
    BY DEF Lists
  <2> QED
    BY <2>1, ListingRanks
<1> HIDE DEF n
<1>1. Len(l) = n /\ l \in Seq(A)
  BY <1>0, LenProperties
<1>2. \A i \in (keep + 1)..n : l[i] \in A
  BY <1>0
<1>3. /\ Len(s) = IF keep + 1 <= n THEN n - keep ELSE 0
      /\ \A i \in 1..(n - keep) : s[i] = l[keep + i]
      /\ s \in Seq(A)
  <2>1. keep + 1 \in Int /\ n \in Int
    BY <1>0
  <2>2. /\ s \in Seq(A)
        /\ Len(s) = IF keep + 1 <= n THEN n - (keep + 1) + 1 ELSE 0
        /\ \A i \in 1 .. n - (keep + 1) + 1 : s[i] = l[(keep + 1) + i - 1]
    BY <1>2, <2>1, SubSeqProperties
  <2>3. n - (keep + 1) + 1 = n - keep /\ \A i \in Int : (keep + 1) + i - 1 = keep + i
    BY <2>1
  <2> QED
    BY <2>2, <2>3
<1> HIDE DEF s
<1>4. DOMAIN s = 1..(n - keep)
  BY <1>0, <1>3, LenProperties
<1>5. ASSUME NEW i \in DOMAIN s
      PROVE  s[i] \in A /\ Rank(A, R, s[i]) >= keep
  <2>0. i \in 1..(n - keep) /\ i \in Int /\ n \in Int
    BY <1>0, <1>4, <1>5
  <2>1. keep + i \in 1..n /\ s[i] = l[keep + i] /\ i - 1 >= 0
    BY <1>3, <2>0
  <2>2. Rank(A, R, l[keep + i]) = (keep + i) - 1 /\ l[keep + i] \in A
    BY <1>0, <2>1
  <2> QED
    BY <2>0, <2>1, <2>2
<1>6. ASSUME NEW t \in A, Rank(A, R, t) >= keep
      PROVE  \E i \in DOMAIN s : t = s[i]
  <2>1. PICK j \in 1..n : t = l[j]
    BY <1>0
  <2>2. j - 1 >= keep /\ j \in Int
    BY <1>0, <1>6, <2>1
  <2>3. j - keep \in DOMAIN s /\ keep + (j - keep) = j
    BY <1>0, <1>4, <2>1, <2>2
  <2> QED
    BY <1>3, <1>4, <2>1, <2>3
<1>7. ToSet(s) = {t \in A : Rank(A, R, t) >= keep}
  BY <1>5, <1>6 DEF ToSet
<1> QED
  BY <1>1, <1>7 DEF n, s

-----------------------------------------------------------------------------
(***************************************************************************)
(* The local prune                                                         *)
(***************************************************************************)

\* Cutting the sorted list is counting what is newer, for every directory and
\* every prune_count (prune.go:13-39).
THEOREM LocalListAgrees ==
  ASSUME NEW A \in SUBSET Int, IsFiniteSet(A), NEW keep \in Int
  PROVE  CountDoomedList(A, keep) = CountDoomed(A, keep)
<1> DEFINE R == {p \in A \X A : p[1] > p[2]}
           l == SortedDirs(A)
           n == Cardinality(A)
<1>1. \A x, y \in A : <<x, y>> \in R <=> x > y
  OBVIOUS
<1>2. Orders(R, A)
  <2>1. \A x \in A : x \in Int
    OBVIOUS
  <2> HIDE DEF R
  <2> QED
    BY <1>1, <2>1 DEF Orders
<1> HIDE DEF R
<1>3. Lists(l, A, R)
  <2>1. PICK k : Lists(k, A, R)
    BY <1>2, ListingExists
  <2>2. k \in [1..n -> A] /\ \A i, j \in 1..n : i < j => k[i] > k[j]
    <3>1. \A i \in 1..n : k[i] \in A
      BY <2>1 DEF Lists
    <3> QED
      BY <1>1, <2>1, <3>1 DEF Lists
  <2>3. l \in [1..n -> A] /\ \A i, j \in 1..n : i < j => l[i] > l[j]
    BY <2>2 DEF SortedDirs
  <2> HIDE DEF l
  <2>4. \A i \in 1..n : l[i] \in A
    BY <2>3
  <2> QED
    BY <1>1, <2>3, <2>4 DEF Lists
<1> HIDE DEF l
<1>4. CASE keep <= 0
  BY <1>4 DEF CountDoomedList, CountDoomed
<1>5. CASE keep > 0
  <2>0. keep \in Nat /\ n \in Nat
    BY <1>5, FS_CardinalityType
  <2>1. /\ Len(l) = n
        /\ ToSet(SubSeq(l, keep + 1, Len(l))) =
             {t \in A : Rank(A, R, t) >= keep}
    BY <1>2, <1>3, <2>0, ListingTail
  <2>2. \A t \in A : {u \in A : <<u, t>> \in R} = NewerThan(A, t)
    BY <1>1 DEF NewerThan
  <2>3. ToSet(SubSeq(l, keep + 1, Len(l))) = CountDoomed(A, keep)
    <3> DEFINE Count(t) == Cardinality(NewerThan(A, t))
    <3>1. \A t \in A : Rank(A, R, t) = Count(t)
      BY <2>2 DEF Rank
    <3>2. CountDoomed(A, keep) = {t \in A : Count(t) >= keep}
      BY <1>5 DEF CountDoomed
    <3>3. ToSet(SubSeq(l, keep + 1, Len(l))) = {t \in A : Rank(A, R, t) >= keep}
      BY <2>1
    <3> HIDE DEF Count
    <3> QED
      BY <3>1, <3>2, <3>3
  <2>4. CASE Len(l) <= keep
    <3>1. SubSeq(l, keep + 1, Len(l)) = << >>
      BY <2>0, <2>1, <2>4, SubSeqEmpty
    <3>2. CountDoomed(A, keep) = {}
      <4>1. ToSet(<< >>) = {}
        BY DEF ToSet
      <4> QED
        BY <2>3, <3>1, <4>1
    <3> QED
      BY <2>4, <3>2 DEF CountDoomedList, l
  <2>5. CASE ~(Len(l) <= keep)
    BY <1>5, <2>3, <2>5 DEF CountDoomedList, l
  <2> QED
    BY <2>4, <2>5
<1> QED
  BY <1>4, <1>5

-----------------------------------------------------------------------------
(***************************************************************************)
(* The NAS                                                                 *)
(***************************************************************************)

Entry == [name : Int, mtime : Int, wip : BOOLEAN]

\* An order of a directory in which what stays comes before what goes, and of both
\* the entry modified last comes first.
Before(x, y, D) ==
    \/ x \notin D /\ y \in D
    \/ /\ x \in D <=> y \in D
       /\ \/ x.mtime > y.mtime
          \/ x.mtime = y.mtime /\ x.wip /\ ~y.wip
          \/ x.mtime = y.mtime /\ x.wip = y.wip /\ x.name < y.name

LEMMA BeforeOrders ==
  ASSUME NEW E \in SUBSET Entry, NEW D
  PROVE  /\ \A x \in E : ~Before(x, x, D)
         /\ \A x, y, z \in E : Before(x, y, D) /\ Before(y, z, D) => Before(x, z, D)
         /\ \A x, y \in E : x # y => Before(x, y, D) \/ Before(y, x, D)
<1>0. \A x \in E : x.name \in Int /\ x.mtime \in Int /\ x.wip \in BOOLEAN
  BY DEF Entry
<1>1. ASSUME NEW x \in E PROVE ~Before(x, x, D)
  BY <1>0 DEF Before
<1>2. ASSUME NEW x \in E, NEW y \in E, NEW z \in E, Before(x, y, D), Before(y, z, D)
      PROVE  Before(x, z, D)
  BY <1>0, <1>2 DEF Before
<1>3. ASSUME NEW x \in E, NEW y \in E, x # y
      PROVE  Before(x, y, D) \/ Before(y, x, D)
  <2>1. x.name # y.name \/ x.mtime # y.mtime \/ x.wip # y.wip
    BY <1>3 DEF Entry
  <2> QED
    BY <1>0, <2>1 DEF Before
<1> QED
  BY <1>1, <1>2, <1>3

\* Cutting a listing of a directory leaves the first count entries, and nothing
\* that goes was modified after something that stays.
LEMMA ListingIsTail ==
  ASSUME NEW E, IsFiniteSet(E), NEW ls \in Listings(E), NEW count \in Nat
  PROVE  ToSet(SubSeq(ls, count + 1, Len(ls))) \in TailsAfter(E, count)
<1> DEFINE n == Cardinality(E)
           B == {p \in E \X E : \E i, j \in 1..n : i < j /\ p = <<ls[i], ls[j]>>}
           D == ToSet(SubSeq(ls, count + 1, Len(ls)))
           m == IF n < count THEN n ELSE count
<1>1. /\ n \in Nat /\ ls \in [1..n -> E]
      /\ \A i, j \in 1..n : i < j => ls[i] # ls[j] /\ ls[i].mtime >= ls[j].mtime
  BY FS_CardinalityType DEF Listings
<1>2. \A i, j \in 1..n : ls[i] = ls[j] => i = j
  <2>1. SUFFICES ASSUME NEW i \in 1..n, NEW j \in 1..n, ls[i] = ls[j], i # j PROVE FALSE
    OBVIOUS
  <2>2. i < j \/ j < i
    BY <1>1, <2>1
  <2> QED
    BY <1>1, <2>1, <2>2
<1>3. \A x \in E : \E i \in 1..n : x = ls[i]
  <2>1. ls \in Injection(1..n, E)
    BY <1>1, <1>2 DEF Injection, IsInjective
  <2>2. Cardinality(1..n) = n
    BY <1>1, FS_Interval
  <2>3. ls \in Surjection(1..n, E)
    BY <2>1, <2>2, FS_Injection
  <2> QED
    BY <2>3 DEF Surjection
<1>4. \A i, j \in 1..n : <<ls[i], ls[j]>> \in B <=> i < j
  <2>1. ASSUME NEW i \in 1..n, NEW j \in 1..n, <<ls[i], ls[j]>> \in B PROVE i < j
    <3>1. PICK h, k \in 1..n : h < k /\ ls[i] = ls[h] /\ ls[j] = ls[k]
      BY <2>1
    <3> QED
      BY <1>2, <3>1
  <2>2. ASSUME NEW i \in 1..n, NEW j \in 1..n, i < j PROVE <<ls[i], ls[j]>> \in B
    BY <1>1, <2>2
  <2> QED
    BY <2>1, <2>2
<1>5. Orders(B, E) /\ Lists(ls, E, B)
  <2> HIDE DEF B
  <2>1. \A x \in E : <<x, x>> \notin B
    <3>1. SUFFICES ASSUME NEW i \in 1..n, <<ls[i], ls[i]>> \in B PROVE FALSE
      BY <1>3
    <3> QED
      BY <1>1, <1>4, <3>1
  <2>2. ASSUME NEW x \in E, NEW y \in E, NEW z \in E, <<x, y>> \in B, <<y, z>> \in B
        PROVE  <<x, z>> \in B
    <3>1. PICK i, j, k \in 1..n : x = ls[i] /\ y = ls[j] /\ z = ls[k]
      BY <1>3
    <3>2. i < j /\ j < k
      BY <1>4, <2>2, <3>1
    <3>3. i < k
      BY <1>1, <3>2
    <3> QED
      BY <1>4, <3>1, <3>3
  <2>3. ASSUME NEW x \in E, NEW y \in E, x # y
        PROVE  <<x, y>> \in B \/ <<y, x>> \in B
    <3>1. PICK i, j \in 1..n : x = ls[i] /\ y = ls[j]
      BY <1>3
    <3>2. i < j \/ j < i
      BY <1>1, <2>3, <3>1
    <3> QED
      BY <1>4, <3>1, <3>2
  <2>4. Orders(B, E)
    BY <2>1, <2>2, <2>3 DEF Orders
  <2> QED
    BY <1>1, <1>4, <2>4 DEF Lists
<1> HIDE DEF B
<1>6. /\ D = {x \in E : Rank(E, B, x) >= count}
      /\ \A i \in 1..n : Rank(E, B, ls[i]) = i - 1
  BY <1>5, ListingTail, ListingRanks
<1> HIDE DEF D
<1>7. D \subseteq E /\ \A i \in 1..n : ls[i] \in D <=> i > count
  <2>1. ASSUME NEW i \in 1..n PROVE ls[i] \in D <=> i > count
    <3>1. ls[i] \in E /\ i \in Int
      BY <1>1
    <3>2. ls[i] \in D <=> i - 1 >= count
      BY <1>6, <3>1
    <3> QED
      BY <3>1, <3>2
  <2> QED
    BY <1>6, <2>1
<1>8. Cardinality(E \ D) = m
  <2> DEFINE f == [i \in 1..m |-> ls[i]]
             K == E \ D
  <2>1. m \in Nat /\ \A i \in 1..n : i \in 1..m <=> ~(i > count)
    BY <1>1
  <2>2. 1..m \subseteq 1..n
    BY <1>1
  <2> HIDE DEF m
  <2>3. f \in [1..m -> K]
    BY <1>1, <1>7, <2>1, <2>2
  <2>4. \A x \in K : \E i \in 1..m : f[i] = x
    BY <1>3, <1>7, <2>1
  <2>5. \A i, j \in 1..m : f[i] = f[j] => i = j
    BY <1>2, <2>2
  <2> HIDE DEF K
  <2>6. f \in Bijection(1..m, K)
    BY <2>3, <2>4, <2>5 DEF Bijection, Injection, Surjection, IsInjective
  <2> HIDE DEF f
  <2>7. ExistsBijection(1..m, K)
    BY <2>6 DEF ExistsBijection
  <2>8. IsFiniteSet(1..m) /\ Cardinality(1..m) = m
    BY <2>1, FS_Interval
  <2> QED
    BY <2>7, <2>8, FS_Bijection DEF K
<1>9. m <= count /\ (D # {} => m = count)
  <2>1. m <= count
    BY <1>1
  <2>2. ASSUME NEW x \in D PROVE m = count
    <3>1. PICK i \in 1..n : x = ls[i]
      BY <1>3, <1>7, <2>2
    <3>2. i > count
      BY <1>7, <2>2, <3>1
    <3> QED
      BY <1>1, <3>2
  <2> QED
    BY <2>1, <2>2
<1>10. ASSUME NEW d \in D, NEW k \in E \ D PROVE d.mtime <= k.mtime
  <2>1. PICK i, j \in 1..n : d = ls[i] /\ k = ls[j]
    BY <1>3, <1>7, <1>10
  <2>2. i > count /\ ~(j > count)
    BY <1>7, <1>10, <2>1
  <2>3. j < i
    BY <1>1, <2>2
  <2>4. ls[j].mtime >= ls[i].mtime
    BY <1>1, <2>3
  <2> QED
    BY <2>1, <2>4
<1> HIDE DEF m
<1> QED
  BY <1>7, <1>8, <1>9, <1>10 DEF TailsAfter, D

\* What the prune may remove is the tail of some listing.
LEMMA TailIsListed ==
  ASSUME NEW E \in SUBSET Entry, IsFiniteSet(E), NEW count \in Nat, NEW D \in TailsAfter(E, count)
  PROVE  \E ls \in Listings(E) : ToSet(SubSeq(ls, count + 1, Len(ls))) = D
<1> DEFINE R == {p \in E \X E : Before(p[1], p[2], D)}
           n == Cardinality(E)
<1>1. \A x, y \in E : <<x, y>> \in R <=> Before(x, y, D)
  OBVIOUS
<1> HIDE DEF R
<1>2. Orders(R, E)
  <2>1. /\ \A x \in E : ~Before(x, x, D)
        /\ \A x, y, z \in E : Before(x, y, D) /\ Before(y, z, D) => Before(x, z, D)
        /\ \A x, y \in E : x # y => Before(x, y, D) \/ Before(y, x, D)
    BY BeforeOrders
  <2> QED
    BY <1>1, <2>1 DEF Orders
<1>3. PICK ls : Lists(ls, E, R)
  BY <1>2, ListingExists
<1>4. /\ D \subseteq E /\ Cardinality(E \ D) <= count
      /\ D # {} => Cardinality(E \ D) = count
      /\ \A d \in D, k \in E \ D : d.mtime <= k.mtime
      /\ IsFiniteSet(E \ D) /\ Cardinality(E \ D) \in Nat
  BY FS_Subset, FS_CardinalityType DEF TailsAfter
<1>5. ls \in Listings(E)
  <2>1. ls \in [1..n -> E]
    BY <1>3 DEF Lists
  <2>2. ASSUME NEW i \in 1..n, NEW j \in 1..n, i < j
        PROVE  ls[i] # ls[j] /\ ls[i].mtime >= ls[j].mtime
    <3>0. ls[i] \in E /\ ls[j] \in E
      BY <2>1
    <3>1. <<ls[i], ls[j]>> \in R
      BY <1>3, <2>2 DEF Lists
    <3>2. ls[i] # ls[j]
      BY <1>2, <3>0, <3>1 DEF Orders
    <3>3. Before(ls[i], ls[j], D)
      BY <1>1, <3>0, <3>1
    <3>4. ls[i].mtime \in Int /\ ls[j].mtime \in Int
      BY <3>0 DEF Entry
    <3> QED
      BY <1>4, <3>0, <3>2, <3>3, <3>4 DEF Before
  <2> QED
    BY <2>1, <2>2 DEF Listings
<1>6. ASSUME NEW x \in D PROVE x \in E /\ Rank(E, R, x) >= count
  <2> DEFINE P == {u \in E : <<u, x>> \in R}
  <2>1. E \ D \subseteq P
    BY <1>1, <1>4, <1>6 DEF Before
  <2>2. IsFiniteSet(P) /\ Cardinality(P) \in Nat
    BY FS_Subset, FS_CardinalityType
  <2> HIDE DEF P
  <2>3. Cardinality(E \ D) <= Cardinality(P)
    BY <2>1, <2>2, FS_Subset
  <2> QED
    BY <1>4, <1>6, <2>2, <2>3 DEF P, Rank
<1>7. ASSUME NEW x \in E, x \notin D PROVE ~(Rank(E, R, x) >= count)
  <2> DEFINE P == {u \in E : <<u, x>> \in R}
             K == E \ D
  <2>1. P \subseteq K \ {x}
    <3>1. SUFFICES ASSUME NEW u \in E, <<u, x>> \in R PROVE u \notin D /\ u # x
      OBVIOUS
    <3>2. Before(u, x, D) /\ u # x
      BY <1>1, <1>2, <3>1 DEF Orders
    <3> QED
      BY <1>7, <3>2 DEF Before
  <2>2. x \in K
    BY <1>7
  <2>3. IsFiniteSet(P) /\ Cardinality(P) \in Nat
    BY FS_Subset, FS_CardinalityType
  <2>4. IsFiniteSet(K) /\ Cardinality(K) \in Nat /\ Cardinality(K) <= count
    BY <1>4
  <2> HIDE DEF P, K
  <2>5. /\ Cardinality(K \ {x}) = Cardinality(K) - 1 /\ IsFiniteSet(K \ {x})
    BY <2>2, <2>4, FS_RemoveElement
  <2>6. Cardinality(P) <= Cardinality(K \ {x})
    BY <2>1, <2>5, FS_Subset
  <2>7. ~(Cardinality(P) >= count)
    BY <2>3, <2>4, <2>5, <2>6
  <2> QED
    BY <2>7 DEF P, Rank
<1>8. ToSet(SubSeq(ls, count + 1, Len(ls))) = {x \in E : Rank(E, R, x) >= count}
  BY <1>2, <1>3, ListingTail
<1>9. {x \in E : Rank(E, R, x) >= count} = D
  <2> DEFINE r(x) == Rank(E, R, x)
  <2>1. /\ \A x \in D : x \in E /\ r(x) >= count
        /\ \A x \in E : x \notin D => ~(r(x) >= count)
    BY <1>6, <1>7
  <2> HIDE DEF r
  <2>2. {x \in E : r(x) >= count} = D
    BY <2>1
  <2> QED
    BY <2>2 DEF r
<1> QED
  BY <1>5, <1>8, <1>9

\* The tails of ls -dt are what Retention says, no more and no less, for every
\* directory and every count (prune.go:90-103).
THEOREM NasListAgrees ==
  ASSUME NEW E \in SUBSET Entry, IsFiniteSet(E), NEW count \in Int
  PROVE  NasCountDoomed(E, count) = {NasCountDoomedList(ls, count) : ls \in Listings(E)}
<1>1. CASE count <= 0
  <2>1. {} \in TailsAfter(E, Cardinality(E))
    BY FS_CardinalityType DEF TailsAfter
  <2>2. Cardinality(E) \in Nat
    BY FS_CardinalityType
  <2>3. PICK ls : ls \in Listings(E)
    BY <2>1, <2>2, TailIsListed
  <2>4. \A l \in Listings(E) : NasCountDoomedList(l, count) = {}
    BY <1>1 DEF NasCountDoomedList
  <2>5. NasCountDoomed(E, count) = {{}}
    BY <1>1 DEF NasCountDoomed
  <2> QED
    BY <2>3, <2>4, <2>5
<1>2. CASE count > 0
  <2>0. count \in Nat
    BY <1>2
  <2>1. \A l : NasCountDoomedList(l, count) = ToSet(SubSeq(l, count + 1, Len(l)))
    BY <1>2 DEF NasCountDoomedList
  <2>2. NasCountDoomed(E, count) = TailsAfter(E, count)
    BY <1>2 DEF NasCountDoomed
  <2>3. \A l \in Listings(E) : NasCountDoomedList(l, count) \in TailsAfter(E, count)
    BY <2>0, <2>1, ListingIsTail
  <2>4. \A D \in TailsAfter(E, count) : \E l \in Listings(E) : NasCountDoomedList(l, count) = D
    BY <2>0, <2>1, TailIsListed
  <2> QED
    BY <2>2, <2>3, <2>4
<1> QED
  BY <1>1, <1>2

-----------------------------------------------------------------------------
(***************************************************************************)
(* The specification                                                       *)
(***************************************************************************)

Inputs ==
    /\ S \in SUBSET Names
    /\ W \in [Names -> 0..MaxName]
    /\ again \in Later
    /\ limit \in 0..MaxKeep

\* The input of a behaviour stays what it is.
LEMMA InputsInvariant == Spec => []Inputs
<1>1. Init => Inputs
  BY DEF Init, Inputs, Later
<1>2. Inputs /\ [Next]_vars => Inputs'
  BY DEF Inputs, Next, vars
<1> QED
  BY <1>1, <1>2, PTL DEF Spec

\* Modification times of the finished snapshots.
Times == [t \in S |-> MTime(t)]

\* The entries: the finished snapshots and, apart from them, the transfers.
LEMMA EntriesFacts ==
  ASSUME Inputs
  PROVE  /\ S \in SUBSET Int /\ IsFiniteSet(S) /\ limit \in Nat
         /\ Times \in [S -> Int] /\ \A t \in S : Times[t] >= t
         /\ \A t \in S : again[t] = 0 => Times[t] = t
         /\ Entries \in SUBSET Entry /\ IsFiniteSet(Entries)
         /\ \E U : (\A e \in U : e.wip) /\ Entries = EntriesAt(S, Times) \cup U
         /\ (\A t \in Names : W[t] = 0 /\ again[t] = 0) => Entries = FinishedEntries(S)
<1> DEFINE T == {u \in Names : W[u] # 0}
           U == {[name |-> t, mtime |-> W[t], wip |-> TRUE] : t \in T}
           N == EntriesAt(S, Times)
<1>1. /\ Names \subseteq Int /\ IsFiniteSet(Names) /\ S \subseteq Names /\ T \subseteq Names
      /\ limit \in Nat
  <2>1. MaxName \in Int /\ 1 \in Int
    BY InputBounds
  <2>2. Names \subseteq Int /\ IsFiniteSet(Names)
    BY <2>1, FS_Interval DEF Names
  <2>3. S \subseteq Names /\ T \subseteq Names /\ limit \in Nat
    BY InputBounds DEF Inputs
  <2> QED
    BY <2>2, <2>3
<1>2. IsFiniteSet(S) /\ IsFiniteSet(T) /\ S \in SUBSET Int
  BY <1>1, FS_Subset
<1>a. /\ \A t \in Names : again[t] \in Int /\ (again[t] = 0 \/ again[t] >= t)
      /\ \A t \in S : MTime(t) \in Int /\ MTime(t) >= t /\ (again[t] = 0 => MTime(t) = t)
  <2>1. \A t \in Names : again[t] \in Int /\ (again[t] = 0 \/ again[t] >= t)
    BY InputBounds DEF Inputs, Later
  <2>2. ASSUME NEW t \in S
        PROVE  MTime(t) \in Int /\ MTime(t) >= t /\ (again[t] = 0 => MTime(t) = t)
    <3>1. t \in Int /\ again[t] \in Int /\ (again[t] = 0 \/ again[t] >= t)
      BY <1>1, <2>1
    <3> QED
      BY <3>1 DEF MTime
  <2> QED
    BY <2>1, <2>2
<1>b. /\ Times \in [S -> Int] /\ \A t \in S : Times[t] >= t
      /\ \A t \in S : again[t] = 0 => Times[t] = t
      /\ \A t \in S : Times[t] = MTime(t)
  BY <1>a DEF Times
<1>3. Entries = N \cup U
  <2>1. N = {[name |-> t, mtime |-> MTime(t), wip |-> FALSE] : t \in S}
    BY <1>b DEF EntriesAt
  <2> QED
    BY <2>1, Zenon DEF Entries
<1>4. IsFiniteSet(U)
  <2> DEFINE f == [t \in T |-> [name |-> t, mtime |-> W[t], wip |-> TRUE]]
  <2>1. f \in Surjection(T, U)
    BY DEF Surjection
  <2> HIDE DEF f, T, U
  <2> QED
    BY <1>2, <2>1, FS_Surjection
<1>c. IsFiniteSet(N)
  <2> DEFINE f == [t \in S |-> [name |-> t, mtime |-> Times[t], wip |-> FALSE]]
  <2>1. f \in Surjection(S, N)
    BY DEF Surjection, EntriesAt
  <2> HIDE DEF f, N
  <2> QED
    BY <1>2, <2>1, FS_Surjection
<1>5. IsFiniteSet(Entries)
  <2> HIDE DEF N, U
  <2> QED
    BY <1>3, <1>4, <1>c, FS_Union
<1>6. Entries \in SUBSET Entry
  <2>1. \A t \in Names : W[t] \in Int /\ t \in Int
    BY <1>1, InputBounds DEF Inputs
  <2>3. ASSUME NEW e \in N PROVE e \in Entry
    <3>1. PICK t \in S : e = [name |-> t, mtime |-> Times[t], wip |-> FALSE]
      BY <2>3 DEF EntriesAt
    <3>2. t \in Int /\ Times[t] \in Int
      BY <1>2, <1>b
    <3> QED
      BY <3>1, <3>2 DEF Entry
  <2>4. ASSUME NEW e \in U PROVE e \in Entry
    <3>1. PICK t \in T : e = [name |-> t, mtime |-> W[t], wip |-> TRUE]
      BY <2>4
    <3> QED
      BY <1>1, <2>1, <3>1 DEF Entry
  <2> QED
    BY <1>3, <2>3, <2>4, Zenon
<1>7. \A e \in U : e.wip
  OBVIOUS
<1>8. ASSUME \A t \in Names : W[t] = 0 /\ again[t] = 0
      PROVE  Entries = FinishedEntries(S)
  <2>1. U = {}
    BY <1>8
  <2>2. \A t \in S : Times[t] = t
    BY <1>1, <1>8, <1>b
  <2>3. N = FinishedEntries(S)
    BY <2>2 DEF EntriesAt, FinishedEntries
  <2> QED
    BY <1>3, <2>1, <2>3
<1> HIDE DEF U
<1> QED
  BY <1>1, <1>2, <1>3, <1>5, <1>6, <1>7, <1>8, <1>b

\* The sorted-list prune of pruneLocalByCount removes what Retention says and keeps
\* the newest prune_count snapshots, or all when there are fewer.
THEOREM LocalCountIsExact == Spec => []LocalCountAgrees
<1>1. Inputs => LocalCountAgrees
  <2> SUFFICES ASSUME Inputs PROVE LocalCountAgrees
    OBVIOUS
  <2> DEFINE doomed == CountDoomed(S, limit)
             kept == S \ doomed
  <2>0. S \in SUBSET Int /\ IsFiniteSet(S) /\ limit \in Nat
    BY EntriesFacts
  <2>1. doomed = CountDoomedList(S, limit)
    BY <2>0, LocalListAgrees
  <2>2. ASSUME limit > 0
        PROVE  /\ Cardinality(kept) = IF Cardinality(S) < limit THEN Cardinality(S) ELSE limit
               /\ \A k \in kept, d \in doomed : k > d
    <3>1. Cardinality(kept) <= limit /\ (doomed # {} => Cardinality(kept) = limit)
      BY <2>0, <2>2, CountKeepsExactly
    <3>2. \A d \in doomed : \A k \in S : k <= d => k \in doomed
      BY <2>0, CountPrunesOldest
    <3>3. doomed \subseteq S
      BY DEF CountDoomed
    <3> HIDE DEF doomed
    <3>4. /\ IsFiniteSet(kept) /\ Cardinality(kept) \in Nat /\ Cardinality(S) \in Nat
          /\ Cardinality(kept) <= Cardinality(S) /\ (doomed = {} => kept = S)
      BY <2>0, FS_Subset, FS_CardinalityType
    <3>5. Cardinality(kept) = IF Cardinality(S) < limit THEN Cardinality(S) ELSE limit
      <4>1. CASE doomed = {}
        BY <2>0, <3>1, <3>4, <4>1
      <4>2. CASE doomed # {}
        BY <2>0, <3>1, <3>4, <4>2
      <4> QED
        BY <4>1, <4>2
    <3>6. ASSUME NEW k \in kept, NEW d \in doomed PROVE k > d
      <4>1. k \in Int /\ d \in Int /\ ~(k <= d)
        BY <2>0, <3>2, <3>3, <3>6
      <4> QED
        BY <4>1
    <3> QED
      BY <3>5, <3>6
  <2> QED
    BY <2>1, <2>2 DEF LocalCountAgrees
<1> QED
  BY <1>1, InputsInvariant, PTL

\* The shell pipeline on the NAS removes what Retention says, unfinished transfers
\* and second copies counted, and agrees with the local prune when there are none.
THEOREM NasCountIsExact == Spec => []NasCountAgrees
<1>1. Inputs => NasCountAgrees
  <2> SUFFICES ASSUME Inputs PROVE NasCountAgrees
    OBVIOUS
  <2>0. /\ S \in SUBSET Int /\ IsFiniteSet(S) /\ limit \in Nat /\ limit \in Int
        /\ Entries \in SUBSET Entry /\ IsFiniteSet(Entries)
        /\ (\A t \in Names : W[t] = 0 /\ again[t] = 0) => Entries = FinishedEntries(S)
    BY EntriesFacts
  <2>1. NasCountDoomed(Entries, limit) = {NasCountDoomedList(ls, limit) : ls \in Listings(Entries)}
    BY <2>0, NasListAgrees
  <2>2. ASSUME \A t \in Names : W[t] = 0 /\ again[t] = 0, NEW D \in NasCountDoomed(Entries, limit)
        PROVE  {e.name : e \in D} = CountDoomed(S, limit)
    <3>1. D = FinishedEntries(CountDoomed(S, limit))
      BY <2>0, <2>2, NasCountsLikeLocal
    <3>2. {e.name : e \in FinishedEntries(CountDoomed(S, limit))} = CountDoomed(S, limit)
      <4> DEFINE C == CountDoomed(S, limit)
                 F(t) == [name |-> t, mtime |-> t, wip |-> FALSE]
      <4>1. \A t \in C : F(t).name = t
        OBVIOUS
      <4>2. FinishedEntries(C) = {F(t) : t \in C}
        BY DEF FinishedEntries
      <4> HIDE DEF F, C
      <4>3. {e.name : e \in {F(t) : t \in C}} = C
        BY <4>1
      <4> QED
        BY <4>2, <4>3 DEF C
    <3> QED
      BY <3>1, <3>2
  <2> QED
    BY <2>1, <2>2 DEF NasCountAgrees
<1> QED
  BY <1>1, InputsInvariant, PTL

\* The day prune of the NAS removes nothing the local one would keep, and what it
\* spares it removes within a day, unless a second copy made it look newer.
THEOREM DayPrunesDifferByADay == Spec => []DayPrunesAgree
<1>1. Inputs => DayPrunesAgree
  <2> SUFFICES ASSUME Inputs, NEW now \in 1..(2 * MaxName)
               PROVE  LET loc == DaysDoomed(S, limit, now)
                          nas == {e.name : e \in NasDaysDoomed(Entries, limit, now)}
                      IN  /\ nas \subseteq loc
                          /\ limit > 0 =>
                               {t \in DaysDoomed(S, limit + 1, now) : again[t] = 0} \subseteq nas
    BY DEF DayPrunesAgree
  <2>1. S \in SUBSET Int /\ limit \in Int /\ now \in Int /\ Times \in [S -> Int]
        /\ (\A t \in S : Times[t] >= t) /\ (\A t \in S : again[t] = 0 => Times[t] = t)
    BY EntriesFacts, InputBounds
  <2>2. PICK U : (\A e \in U : e.wip) /\ Entries = EntriesAt(S, Times) \cup U
    BY EntriesFacts
  <2> DEFINE nas == {e.name : e \in NasDaysDoomed(Entries, limit, now)}
  <2>3. /\ nas \subseteq DaysDoomed(S, limit, now)
        /\ limit > 0 => {t \in DaysDoomed(S, limit + 1, now) : Times[t] = t} \subseteq nas
    BY <2>1, <2>2, NasWaitsUnderADay
  <2>4. DaysDoomed(S, limit + 1, now) \subseteq S
    BY DEF DaysDoomed
  <2> HIDE DEF nas
  <2>5. limit > 0 => {t \in DaysDoomed(S, limit + 1, now) : again[t] = 0} \subseteq nas
    BY <2>1, <2>3, <2>4
  <2> QED
    BY <2>3, <2>5 DEF nas
<1> QED
  BY <1>1, InputsInvariant, PTL

=============================================================================
