--------------------------- MODULE RetentionLists ---------------------------
(***************************************************************************)
(* The prunes as the code computes them, on sorted lists, against the      *)
(* definitions of Retention, which count how many entries are newer.  One  *)
(* state per input: a set of snapshots, unfinished transfers, limits.      *)
(***************************************************************************)
EXTENDS Retention, SequencesExt

CONSTANTS
    MaxName,    \* bound: names and times are 1..MaxName
    MaxKeep     \* bound: limits are 0..MaxKeep

ASSUME InputBounds == MaxName \in Nat \ {0} /\ MaxKeep \in Nat

VARIABLES
    S,          \* names of the finished snapshots of a directory
    W,          \* unfinished transfers of the same directory: name -> start time
    again,      \* when a second copy was put into a finished snapshot, 0 if never
    limit       \* the count or the days

Names == 1..MaxName
vars == <<S, W, again, limit>>

\* Times of something done to a name: never, or not before its capture.
Later == {w \in [Names -> 0..MaxName] : \A t \in Names : w[t] = 0 \/ w[t] >= t}

Init ==
    /\ S \in SUBSET Names
    /\ W \in Later /\ again \in Later
    /\ \A t \in Names \ S : again[t] = 0
    /\ Cardinality({t \in Names : W[t] # 0}) + Cardinality({t \in Names : again[t] # 0}) <= 2
    /\ limit \in 0..MaxKeep

\* Every input is a behaviour of its own.
Next == UNCHANGED vars

Spec == Init /\ [][Next]_vars

MTime(t) == IF again[t] # 0 THEN again[t] ELSE t

Entries ==
    {[name |-> t, mtime |-> MTime(t), wip |-> FALSE] : t \in S} \cup
    {[name |-> t, mtime |-> W[t], wip |-> TRUE] : t \in {u \in Names : W[u] # 0}}

-----------------------------------------------------------------------------
\* sort.Sort(sort.Reverse(...)): the names, each once, the latest first.
SortedDirs(names) ==
    CHOOSE l \in [1..Cardinality(names) -> names] :
        \A i, j \in 1..Cardinality(names) : i < j => l[i] > l[j]

\* pruneLocalByCount: everything from index keep on.
CountDoomedList(names, keep) ==
    LET dirs == SortedDirs(names)
    IN  IF keep <= 0 \/ Len(dirs) <= keep THEN {}
        ELSE ToSet(SubSeq(dirs, keep + 1, Len(dirs)))

\* ls -dt: the entries, each once, the one modified last first.
Listings(E) ==
    {l \in [1..Cardinality(E) -> E] :
        \A i, j \in 1..Cardinality(E) : i < j => l[i] # l[j] /\ l[i].mtime >= l[j].mtime}

\* The shell pipeline on one such listing: tail -n +(count+1).
NasCountDoomedList(ls, count) ==
    IF count <= 0 THEN {} ELSE ToSet(SubSeq(ls, count + 1, Len(ls)))

-----------------------------------------------------------------------------
\* The list algorithm of pruneLocalByCount removes what Retention says, and keeps
\* exactly the newest limit snapshots (prune.go:13-39).
LocalCountAgrees ==
    /\ CountDoomed(S, limit) = CountDoomedList(S, limit)
    /\ limit > 0 =>
         LET kept == S \ CountDoomed(S, limit)
         IN  /\ Cardinality(kept) = IF Cardinality(S) < limit THEN Cardinality(S) ELSE limit
             /\ \A k \in kept, d \in CountDoomed(S, limit) : k > d

\* The NAS pipeline removes one of the sets Retention says, and each of them for
\* some order of ls; without unfinished transfers and second copies that is what
\* the local prune removes (prune.go:90-103).
NasCountAgrees ==
    /\ NasCountDoomed(Entries, limit) =
         {NasCountDoomedList(ls, limit) : ls \in Listings(Entries)}
    /\ (\A t \in Names : W[t] = 0 /\ again[t] = 0) =>
         \A D \in NasCountDoomed(Entries, limit) :
             {e.name : e \in D} = CountDoomed(S, limit)

\* The NAS is the more patient of the two day prunes, by less than a day, since
\* -mtime +N counts whole days, unless a second copy made the snapshot look newer
\* (prune.go:41-88).
DayPrunesAgree ==
    \A now \in 1..(2 * MaxName) :
        LET loc == DaysDoomed(S, limit, now)
            nas == {e.name : e \in NasDaysDoomed(Entries, limit, now)}
        IN  /\ nas \subseteq loc
            /\ limit > 0 =>
                 {t \in DaysDoomed(S, limit + 1, now) : again[t] = 0} \subseteq nas

=============================================================================
