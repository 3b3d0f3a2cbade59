----------------------------- MODULE Retention ------------------------------
(***************************************************************************)
(* Which snapshots a prune removes.  A snapshot is named after the minute  *)
(* it was taken in; here a name is that minute, a positive number, and the *)
(* order of the names is the order of the numbers.                         *)
(*                                                                         *)
(* The local prunes work on names.  The NAS prunes are shell commands that *)
(* work on modification times: a finished snapshot has the time of its     *)
(* capture (rsync -a copies it from the hot directory), unless a second    *)
(* mv put something into it later; an unfinished transfer has the time it  *)
(* was started at.                                                         *)
(***************************************************************************)
EXTENDS Integers, FiniteSets

CONSTANT DayLength      \* ticks of the clock per day

ASSUME DayLengthAssumption == DayLength \in Nat \ {0}

\* The elements of S that come later than t.
NewerThan(S, t) == {u \in S : u > t}

\* The scan that keeps the largest name of a directory.
Newest(S) == IF S = {} THEN 0 ELSE CHOOSE m \in S : \A u \in S : u <= m

\* mutant: the newest keep - 1 are kept
CountDoomedOffByOne(S, keep) ==
    IF keep <= 0 THEN {}
    ELSE {t \in S : Cardinality(NewerThan(S, t)) >= keep - 1}

\* pruneLocalByCount: all but the newest keep; zero disables the prune.
CountDoomed(S, keep) ==
    IF keep <= 0 THEN {}
    ELSE {t \in S : Cardinality(NewerThan(S, t)) >= keep}

\* pruneLocalByDays: the names strictly before now - days.
DaysDoomed(S, days, now) ==
    IF days <= 0 THEN {}
    ELSE {t \in S : t < now - days * DayLength}

\* Day prune, then count prune on what is left, as the callers run them.
LocalDoomed(S, days, keep, now) ==
    LET old == DaysDoomed(S, days, now)
    IN  old \cup CountDoomed(S \ old, keep)

-----------------------------------------------------------------------------
(***************************************************************************)
(* The NAS.  A directory entry is [name, mtime, wip]: the entry of an      *)
(* unfinished transfer has the suffix .inprogress.                         *)
(***************************************************************************)

\* mutant: -mtime +(days-1)
NasDaysDoomedEarly(E, days, now) ==
    IF days <= 0 THEN {}
    ELSE {e \in E : ~e.wip /\ (now - e.mtime) \div DayLength >= days}

\* find -mtime +days, with the exact name pattern: whole days of age, more than
\* days of them, finished snapshots only.
NasDaysDoomed(E, days, now) ==
    IF days <= 0 THEN {}
    ELSE {e \in E : ~e.wip /\ (now - e.mtime) \div DayLength > days}

\* What tail -n +(keep+1) may cut off the output of ls -dt: all but the keep
\* entries modified last.  Times are minutes here and finer on the NAS, so entries
\* of one minute come in any order.
TailsAfter(E, keep) ==
    {D \in SUBSET E :
        /\ Cardinality(E \ D) <= keep
        /\ D # {} => Cardinality(E \ D) = keep
        /\ \A d \in D, k \in E \ D : d.mtime <= k.mtime}

\* mutant: tail -n +count
NasCountDoomedTail(E, count) ==
    IF count <= 0 THEN {{}} ELSE TailsAfter(E, count - 1)

\* ls -dt .../[0-9]*-[0-9]* | tail -n +(count+1) | xargs rm: the sets this may
\* remove.  The pattern matches unfinished transfers too.
NasCountDoomed(E, count) ==
    IF count <= 0 THEN {{}} ELSE TailsAfter(E, count)

=============================================================================
