-------------------------- MODULE Autosave_proofs ---------------------------
(***************************************************************************)
(* Proofs about Autosave, for every number of servers, every set of API    *)
(* goroutines and every retry count.                                       *)
(*                                                                         *)
(* None of the safety properties is inductive.  They follow from four      *)
(* facts that hold together: cycleMu is held by exactly the thread that is *)
(* between Lock and Unlock (LockInv); the thread in a cycle's body owns    *)
(* cancelFn (CancelReaches); a thread past save-off in an online backup    *)
(* still finds autosave off (QuietInv); and, when replies are not lost,    *)
(* autosave is off only inside a bracket or after a logged failure         *)
(* (OffInv, tighter than AutosaveRestored: the save-off attempts are not   *)
(* part of it).                                                            *)
(***************************************************************************)
EXTENDS Autosave, TLAPS

\* cycleMu is held by exactly the thread that is between Lock and Unlock.
LockInv ==
    \A t \in Threads : pc[t] \in Locked <=> lock = t

\* A thread that works on a server is at one that exists; an offline backup
\* uses no RCON, and only API goroutines run one.
WorkInv ==
    /\ \A t \in Threads : pc[t] \in Bracket \cup {"save-off"} => srv[t] \in Servers
    /\ \A t \in Threads : pc[t] \in {"save-off", "flush", "save-on"} => ~offline[t]
    /\ ~offline[Main]
    /\ proc = "exited" => pc[Main] = "exit"

\* Between a successful save-off and the save-on, autosave is off.
QuietInv ==
    \A t \in Threads :
        pc[t] \in {"flush", "copy"} /\ ~offline[t] => ~autosave[srv[t]]

\* Autosave is off only inside a bracket or after a logged failure.
OffInv ==
    \A s \in Servers :
        ~autosave[s] => (s \in reported \/ \E t \in Threads : lock = t /\ InBracket(t, s))

USE DEF Servers, Threads, Bracket, Body, Locked, PCs

-----------------------------------------------------------------------------
\* Every step keeps the types.
LEMMA TypeStep ==
  ASSUME TypeOK, WorkInv, [Next]_vars
  PROVE  TypeOK'
<1>1. CASE Boot
  BY <1>1, NAssumption, RetriesAssumption, ThreadAssumption
     DEF Boot, At, Goto, TypeOK, WorkInv, CtxDone, CycleVars, ControlVars,
         ProcessVars, WorldVars
<1>2. CASE Tick
  BY <1>2, NAssumption, RetriesAssumption, ThreadAssumption
     DEF Tick, At, Goto, TypeOK, WorkInv, CtxDone, CycleVars, ControlVars,
         ProcessVars, WorldVars
<1>3. CASE MainStop
  BY <1>3, NAssumption, RetriesAssumption, ThreadAssumption
     DEF MainStop, At, Goto, TypeOK, WorkInv, CtxDone, CycleVars, ControlVars,
         ProcessVars, WorldVars
<1>4. CASE WorkerExit
  BY <1>4, NAssumption, RetriesAssumption, ThreadAssumption
     DEF WorkerExit, TypeOK, WorkInv, CtxDone, CycleVars, ControlVars,
         ProcessVars, WorldVars
<1>5. CASE MainExit
  BY <1>5, NAssumption, RetriesAssumption, ThreadAssumption
     DEF MainExit, At, Goto, TypeOK, WorkInv, CtxDone, CycleVars, ControlVars,
         ProcessVars, WorldVars
<1>6. CASE Sigterm
  BY <1>6, NAssumption, RetriesAssumption, ThreadAssumption
     DEF Sigterm, TypeOK, WorkInv, CtxDone, CycleVars, ControlVars,
         ProcessVars, WorldVars
<1>7. CASE Cancel
  BY <1>7, NAssumption, RetriesAssumption, ThreadAssumption
     DEF Cancel, TypeOK, WorkInv, CtxDone, CycleVars, ControlVars, ProcessVars,
         WorldVars
<1>8. ASSUME NEW t \in Threads, Trigger(t)
      PROVE  TypeOK'
  BY <1>8, NAssumption, RetriesAssumption, ThreadAssumption
     DEF Trigger, At, Goto, TypeOK, WorkInv, CtxDone, CycleVars, ControlVars,
         ProcessVars, WorldVars
<1>9. ASSUME NEW t \in Threads, LockCycle(t)
      PROVE  TypeOK'
  BY <1>9, NAssumption, RetriesAssumption, ThreadAssumption
     DEF LockCycle, At, Goto, TypeOK, WorkInv, CtxDone, CycleVars, ControlVars,
         ProcessVars, WorldVars
<1>10. ASSUME NEW t \in Threads, OpenCycle(t)
      PROVE  TypeOK'
  BY <1>10, NAssumption, RetriesAssumption, ThreadAssumption
     DEF OpenCycle, At, Goto, TypeOK, WorkInv, CtxDone, CycleVars, ControlVars,
         ProcessVars, WorldVars
<1>11. ASSUME NEW t \in Threads, CloseCycle(t)
      PROVE  TypeOK'
  BY <1>11, NAssumption, RetriesAssumption, ThreadAssumption
     DEF CloseCycle, At, Goto, TypeOK, WorkInv, CtxDone, CycleVars,
         ControlVars, ProcessVars, WorldVars
<1>12. ASSUME NEW t \in Threads, UnlockCycle(t)
      PROVE  TypeOK'
  BY <1>12, NAssumption, RetriesAssumption, ThreadAssumption
     DEF UnlockCycle, At, Goto, TypeOK, WorkInv, CtxDone, CycleVars,
         ControlVars, ProcessVars, WorldVars
<1>13. ASSUME NEW t \in Threads, SkipServer(t)
      PROVE  TypeOK'
  BY <1>13, NAssumption, RetriesAssumption, ThreadAssumption
     DEF SkipServer, At, Goto, NextServer, TypeOK, WorkInv, CtxDone, CycleVars,
         ControlVars, ProcessVars, WorldVars
<1>14. ASSUME NEW t \in Threads, BeginServer(t)
      PROVE  TypeOK'
  BY <1>14, NAssumption, RetriesAssumption, ThreadAssumption
     DEF BeginServer, At, Goto, TypeOK, WorkInv, CtxDone, CycleVars,
         ControlVars, ProcessVars, WorldVars
<1>15. ASSUME NEW t \in Threads, SaveOffOk(t)
      PROVE  TypeOK'
  BY <1>15, NAssumption, RetriesAssumption, ThreadAssumption
     DEF SaveOffOk, At, Goto, RconOk, TypeOK, WorkInv, CtxDone, CycleVars,
         ControlVars, ProcessVars, WorldVars
<1>16. ASSUME NEW t \in Threads, SaveOffFail(t)
      PROVE  TypeOK'
  <2>1. autosave' \in [Servers -> BOOLEAN]
    BY <1>16 DEF SaveOffFail, At, RconFail, TypeOK
  <2>2. try' \in [Threads -> 0..Retries]
    BY <1>16, RetriesAssumption DEF SaveOffFail, At, RconFail, TypeOK
  <2>3. QED
    BY <1>16, <2>1, <2>2
       DEF SaveOffFail, At, RconFail, TypeOK, CycleVars, ControlVars,
           ProcessVars
<1>17. ASSUME NEW t \in Threads, SaveOffGiveUp(t)
      PROVE  TypeOK'
  <2>1. srv[t] \in 1..N
    BY <1>17 DEF SaveOffGiveUp, At, Goto, RconGiveUp, NextServer, WorkInv
  <2>2. srv' \in [Threads -> 1..(N + 1)]
    BY <1>17, <2>1, NAssumption
       DEF SaveOffGiveUp, At, Goto, RconGiveUp, NextServer, TypeOK
  <2>3. pc' \in [Threads -> PCs] /\ try' \in [Threads -> 0..Retries]
    BY <1>17, RetriesAssumption
       DEF SaveOffGiveUp, At, Goto, RconGiveUp, NextServer, TypeOK
  <2>4. autosave' \in [Servers -> BOOLEAN] /\ reported' \subseteq Servers
    BY <1>17, <2>1
       DEF SaveOffGiveUp, At, Goto, RconGiveUp, NextServer, TypeOK, WorldVars
  <2>5. QED
    BY <1>17, <2>2, <2>3, <2>4
       DEF SaveOffGiveUp, At, Goto, RconGiveUp, NextServer, TypeOK,
           ControlVars, ProcessVars
<1>18. ASSUME NEW t \in Threads, FlushOk(t)
      PROVE  TypeOK'
  BY <1>18, NAssumption, RetriesAssumption, ThreadAssumption
     DEF FlushOk, At, Goto, RconOk, TypeOK, WorkInv, CtxDone, CycleVars,
         ControlVars, ProcessVars, WorldVars
<1>19. ASSUME NEW t \in Threads, FlushFail(t)
      PROVE  TypeOK'
  BY <1>19, NAssumption, RetriesAssumption, ThreadAssumption
     DEF FlushFail, At, RconFail, TypeOK, WorkInv, CtxDone, CycleVars,
         ControlVars, ProcessVars, WorldVars
<1>20. ASSUME NEW t \in Threads, FlushGiveUp(t)
      PROVE  TypeOK'
  BY <1>20, NAssumption, RetriesAssumption, ThreadAssumption
     DEF FlushGiveUp, At, Goto, RconGiveUp, TypeOK, WorkInv, CtxDone,
         CycleVars, ControlVars, ProcessVars, WorldVars
<1>21. ASSUME NEW t \in Threads, CopyEnds(t)
      PROVE  TypeOK'
  <2>1. srv[t] \in 1..N
    BY <1>21 DEF CopyEnds, At, Goto, NextServer, WorkInv
  <2>2. srv' \in [Threads -> 1..(N + 1)]
    <3>1. CASE offline[t]
      BY <1>21, <2>1, <3>1, NAssumption DEF CopyEnds, NextServer, TypeOK
    <3>2. CASE ~offline[t]
      BY <1>21, <3>2 DEF CopyEnds, TypeOK
    <3>3. QED
      BY <3>1, <3>2
  <2>3. pc' \in [Threads -> PCs] /\ try' \in [Threads -> 0..Retries]
    BY <1>21, RetriesAssumption DEF CopyEnds, At, Goto, NextServer, TypeOK
  <2>4. autosave' \in [Servers -> BOOLEAN] /\ reported' \subseteq Servers
    BY <1>21, <2>1 DEF CopyEnds, At, Goto, NextServer, TypeOK, WorldVars
  <2>5. QED
    BY <1>21, <2>2, <2>3, <2>4
       DEF CopyEnds, At, Goto, NextServer, TypeOK, ControlVars, ProcessVars
<1>22. ASSUME NEW t \in Threads, SaveOnOk(t)
      PROVE  TypeOK'
  <2>1. srv[t] \in 1..N
    BY <1>22 DEF SaveOnOk, At, Goto, RconOk, NextServer, WorkInv
  <2>2. srv' \in [Threads -> 1..(N + 1)]
    BY <1>22, <2>1, NAssumption
       DEF SaveOnOk, At, Goto, RconOk, NextServer, TypeOK
  <2>3. pc' \in [Threads -> PCs] /\ try' \in [Threads -> 0..Retries]
    BY <1>22, RetriesAssumption
       DEF SaveOnOk, At, Goto, RconOk, NextServer, TypeOK
  <2>4. autosave' \in [Servers -> BOOLEAN] /\ reported' \subseteq Servers
    BY <1>22, <2>1
       DEF SaveOnOk, At, Goto, RconOk, NextServer, TypeOK, WorldVars
  <2>5. QED
    BY <1>22, <2>2, <2>3, <2>4
       DEF SaveOnOk, At, Goto, RconOk, NextServer, TypeOK, ControlVars,
           ProcessVars
<1>23. ASSUME NEW t \in Threads, SaveOnFail(t)
      PROVE  TypeOK'
  <2>1. autosave' \in [Servers -> BOOLEAN]
    BY <1>23 DEF SaveOnFail, At, RconFail, TypeOK
  <2>2. try' \in [Threads -> 0..Retries]
    BY <1>23, RetriesAssumption DEF SaveOnFail, At, RconFail, TypeOK
  <2>3. QED
    BY <1>23, <2>1, <2>2
       DEF SaveOnFail, At, RconFail, TypeOK, CycleVars, ControlVars,
           ProcessVars
<1>24. ASSUME NEW t \in Threads, SaveOnGiveUp(t)
      PROVE  TypeOK'
  <2>1. srv[t] \in 1..N
    BY <1>24 DEF SaveOnGiveUp, At, Goto, RconGiveUp, NextServer, WorkInv
  <2>2. srv' \in [Threads -> 1..(N + 1)]
    BY <1>24, <2>1, NAssumption
       DEF SaveOnGiveUp, At, Goto, RconGiveUp, NextServer, TypeOK
  <2>3. pc' \in [Threads -> PCs] /\ try' \in [Threads -> 0..Retries]
    BY <1>24, RetriesAssumption
       DEF SaveOnGiveUp, At, Goto, RconGiveUp, NextServer, TypeOK
  <2>4. autosave' \in [Servers -> BOOLEAN] /\ reported' \subseteq Servers
    BY <1>24, <2>1
       DEF SaveOnGiveUp, At, Goto, RconGiveUp, NextServer, TypeOK, WorldVars
  <2>5. QED
    BY <1>24, <2>2, <2>3, <2>4
       DEF SaveOnGiveUp, At, Goto, RconGiveUp, NextServer, TypeOK, ControlVars,
           ProcessVars
<1>25. CASE UNCHANGED vars
  BY <1>25, NAssumption, RetriesAssumption, ThreadAssumption
     DEF vars, CycleVars, ControlVars, ProcessVars, WorldVars, TypeOK, WorkInv,
         CtxDone, CycleVars, ControlVars, ProcessVars, WorldVars
<1>26. QED
  BY <1>1, <1>2, <1>3, <1>4, <1>5, <1>6, <1>7, <1>8, <1>9, <1>10, <1>11, <1>12,
     <1>13, <1>14, <1>15, <1>16, <1>17, <1>18, <1>19, <1>20, <1>21, <1>22,
     <1>23, <1>24, <1>25
     DEF Next, CycleStep

\* Every step keeps cycleMu's ownership.
LEMMA LockStep ==
  ASSUME TypeOK, LockInv, [Next]_vars
  PROVE  LockInv'
<1>1. CASE Boot
  BY <1>1, ThreadAssumption
     DEF Boot, At, Goto, TypeOK, LockInv, CycleVars, ControlVars, ProcessVars,
         WorldVars
<1>2. CASE Tick
  BY <1>2, ThreadAssumption
     DEF Tick, At, Goto, TypeOK, LockInv, CycleVars, ControlVars, ProcessVars,
         WorldVars
<1>3. CASE MainStop
  BY <1>3, ThreadAssumption
     DEF MainStop, At, Goto, TypeOK, LockInv, CycleVars, ControlVars,
         ProcessVars, WorldVars
<1>4. CASE WorkerExit
  BY <1>4, ThreadAssumption
     DEF WorkerExit, TypeOK, LockInv, CycleVars, ControlVars, ProcessVars,
         WorldVars
<1>5. CASE MainExit
  BY <1>5, ThreadAssumption
     DEF MainExit, At, Goto, TypeOK, LockInv, CycleVars, ControlVars,
         ProcessVars, WorldVars
<1>6. CASE Sigterm
  BY <1>6, ThreadAssumption
     DEF Sigterm, TypeOK, LockInv, CycleVars, ControlVars, ProcessVars,
         WorldVars
<1>7. CASE Cancel
  BY <1>7, ThreadAssumption
     DEF Cancel, TypeOK, LockInv, CycleVars, ControlVars, ProcessVars,
         WorldVars
<1>8. ASSUME NEW t \in Threads, Trigger(t)
      PROVE  LockInv'
  BY <1>8, ThreadAssumption
     DEF Trigger, At, Goto, TypeOK, LockInv, CycleVars, ControlVars,
         ProcessVars, WorldVars
<1>9. ASSUME NEW t \in Threads, LockCycle(t)
      PROVE  LockInv'
  BY <1>9, ThreadAssumption
     DEF LockCycle, At, Goto, TypeOK, LockInv, CycleVars, ControlVars,
         ProcessVars, WorldVars
<1>10. ASSUME NEW t \in Threads, OpenCycle(t)
      PROVE  LockInv'
  BY <1>10, ThreadAssumption
     DEF OpenCycle, At, Goto, TypeOK, LockInv, CycleVars, ControlVars,
         ProcessVars, WorldVars
<1>11. ASSUME NEW t \in Threads, CloseCycle(t)
      PROVE  LockInv'
  BY <1>11, ThreadAssumption
     DEF CloseCycle, At, Goto, TypeOK, LockInv, CycleVars, ControlVars,
         ProcessVars, WorldVars
<1>12. ASSUME NEW t \in Threads, UnlockCycle(t)
      PROVE  LockInv'
  BY <1>12, ThreadAssumption
     DEF UnlockCycle, At, Goto, TypeOK, LockInv, CycleVars, ControlVars,
         ProcessVars, WorldVars
<1>13. ASSUME NEW t \in Threads, SkipServer(t)
      PROVE  LockInv'
  BY <1>13, ThreadAssumption
     DEF SkipServer, At, Goto, NextServer, TypeOK, LockInv, CycleVars,
         ControlVars, ProcessVars, WorldVars
<1>14. ASSUME NEW t \in Threads, BeginServer(t)
      PROVE  LockInv'
  BY <1>14, ThreadAssumption
     DEF BeginServer, At, Goto, TypeOK, LockInv, CycleVars, ControlVars,
         ProcessVars, WorldVars
<1>15. ASSUME NEW t \in Threads, SaveOffOk(t)
      PROVE  LockInv'
  BY <1>15, ThreadAssumption
     DEF SaveOffOk, At, Goto, RconOk, TypeOK, LockInv, CycleVars, ControlVars,
         ProcessVars, WorldVars
<1>16. ASSUME NEW t \in Threads, SaveOffFail(t)
      PROVE  LockInv'
  BY <1>16, ThreadAssumption
     DEF SaveOffFail, At, RconFail, TypeOK, LockInv, CycleVars, ControlVars,
         ProcessVars, WorldVars
<1>17. ASSUME NEW t \in Threads, SaveOffGiveUp(t)
      PROVE  LockInv'
  BY <1>17, ThreadAssumption
     DEF SaveOffGiveUp, At, Goto, RconGiveUp, NextServer, TypeOK, LockInv,
         CycleVars, ControlVars, ProcessVars, WorldVars
<1>18. ASSUME NEW t \in Threads, FlushOk(t)
      PROVE  LockInv'
  BY <1>18, ThreadAssumption
     DEF FlushOk, At, Goto, RconOk, TypeOK, LockInv, CycleVars, ControlVars,
         ProcessVars, WorldVars
<1>19. ASSUME NEW t \in Threads, FlushFail(t)
      PROVE  LockInv'
  BY <1>19, ThreadAssumption
     DEF FlushFail, At, RconFail, TypeOK, LockInv, CycleVars, ControlVars,
         ProcessVars, WorldVars
<1>20. ASSUME NEW t \in Threads, FlushGiveUp(t)
      PROVE  LockInv'
  BY <1>20, ThreadAssumption
     DEF FlushGiveUp, At, Goto, RconGiveUp, TypeOK, LockInv, CycleVars,
         ControlVars, ProcessVars, WorldVars
<1>21. ASSUME NEW t \in Threads, CopyEnds(t)
      PROVE  LockInv'
  BY <1>21, ThreadAssumption
     DEF CopyEnds, At, Goto, NextServer, TypeOK, LockInv, CycleVars,
         ControlVars, ProcessVars, WorldVars
<1>22. ASSUME NEW t \in Threads, SaveOnOk(t)
      PROVE  LockInv'
  BY <1>22, ThreadAssumption
     DEF SaveOnOk, At, Goto, RconOk, NextServer, TypeOK, LockInv, CycleVars,
         ControlVars, ProcessVars, WorldVars
<1>23. ASSUME NEW t \in Threads, SaveOnFail(t)
      PROVE  LockInv'
  BY <1>23, ThreadAssumption
     DEF SaveOnFail, At, RconFail, TypeOK, LockInv, CycleVars, ControlVars,
         ProcessVars, WorldVars
<1>24. ASSUME NEW t \in Threads, SaveOnGiveUp(t)
      PROVE  LockInv'
  BY <1>24, ThreadAssumption
     DEF SaveOnGiveUp, At, Goto, RconGiveUp, NextServer, TypeOK, LockInv,
         CycleVars, ControlVars, ProcessVars, WorldVars
<1>25. CASE UNCHANGED vars
  BY <1>25, ThreadAssumption
     DEF vars, CycleVars, ControlVars, ProcessVars, WorldVars, TypeOK, LockInv,
         CycleVars, ControlVars, ProcessVars, WorldVars
<1>26. QED
  BY <1>1, <1>2, <1>3, <1>4, <1>5, <1>6, <1>7, <1>8, <1>9, <1>10, <1>11, <1>12,
     <1>13, <1>14, <1>15, <1>16, <1>17, <1>18, <1>19, <1>20, <1>21, <1>22,
     <1>23, <1>24, <1>25
     DEF Next, CycleStep

\* Every step keeps the cancel function with the running cycle.
LEMMA CancelStep ==
  ASSUME TypeOK, LockInv, CancelReaches, [Next]_vars
  PROVE  CancelReaches'
<1>1. CASE Boot
  BY <1>1, ThreadAssumption
     DEF Boot, At, Goto, TypeOK, LockInv, CancelReaches, CycleVars,
         ControlVars, ProcessVars, WorldVars
<1>2. CASE Tick
  BY <1>2, ThreadAssumption
     DEF Tick, At, Goto, TypeOK, LockInv, CancelReaches, CycleVars,
         ControlVars, ProcessVars, WorldVars
<1>3. CASE MainStop
  BY <1>3, ThreadAssumption
     DEF MainStop, At, Goto, TypeOK, LockInv, CancelReaches, CycleVars,
         ControlVars, ProcessVars, WorldVars
<1>4. CASE WorkerExit
  BY <1>4, ThreadAssumption
     DEF WorkerExit, TypeOK, LockInv, CancelReaches, CycleVars, ControlVars,
         ProcessVars, WorldVars
<1>5. CASE MainExit
  BY <1>5, ThreadAssumption
     DEF MainExit, At, Goto, TypeOK, LockInv, CancelReaches, CycleVars,
         ControlVars, ProcessVars, WorldVars
<1>6. CASE Sigterm
  BY <1>6, ThreadAssumption
     DEF Sigterm, TypeOK, LockInv, CancelReaches, CycleVars, ControlVars,
         ProcessVars, WorldVars
<1>7. CASE Cancel
  BY <1>7, ThreadAssumption
     DEF Cancel, TypeOK, LockInv, CancelReaches, CycleVars, ControlVars,
         ProcessVars, WorldVars
<1>8. ASSUME NEW t \in Threads, Trigger(t)
      PROVE  CancelReaches'
  BY <1>8, ThreadAssumption
     DEF Trigger, At, Goto, TypeOK, LockInv, CancelReaches, CycleVars,
         ControlVars, ProcessVars, WorldVars
<1>9. ASSUME NEW t \in Threads, LockCycle(t)
      PROVE  CancelReaches'
  BY <1>9, ThreadAssumption
     DEF LockCycle, At, Goto, TypeOK, LockInv, CancelReaches, CycleVars,
         ControlVars, ProcessVars, WorldVars
<1>10. ASSUME NEW t \in Threads, OpenCycle(t)
      PROVE  CancelReaches'
  BY <1>10, ThreadAssumption
     DEF OpenCycle, At, Goto, TypeOK, LockInv, CancelReaches, CycleVars,
         ControlVars, ProcessVars, WorldVars
<1>11. ASSUME NEW t \in Threads, CloseCycle(t)
      PROVE  CancelReaches'
  BY <1>11, ThreadAssumption
     DEF CloseCycle, At, Goto, TypeOK, LockInv, CancelReaches, CycleVars,
         ControlVars, ProcessVars, WorldVars
<1>12. ASSUME NEW t \in Threads, UnlockCycle(t)
      PROVE  CancelReaches'
  BY <1>12, ThreadAssumption
     DEF UnlockCycle, At, Goto, TypeOK, LockInv, CancelReaches, CycleVars,
         ControlVars, ProcessVars, WorldVars
<1>13. ASSUME NEW t \in Threads, SkipServer(t)
      PROVE  CancelReaches'
  BY <1>13, ThreadAssumption
     DEF SkipServer, At, Goto, NextServer, TypeOK, LockInv, CancelReaches,
         CycleVars, ControlVars, ProcessVars, WorldVars
<1>14. ASSUME NEW t \in Threads, BeginServer(t)
      PROVE  CancelReaches'
  BY <1>14, ThreadAssumption
     DEF BeginServer, At, Goto, TypeOK, LockInv, CancelReaches, CycleVars,
         ControlVars, ProcessVars, WorldVars
<1>15. ASSUME NEW t \in Threads, SaveOffOk(t)
      PROVE  CancelReaches'
  BY <1>15, ThreadAssumption
     DEF SaveOffOk, At, Goto, RconOk, TypeOK, LockInv, CancelReaches,
         CycleVars, ControlVars, ProcessVars, WorldVars
<1>16. ASSUME NEW t \in Threads, SaveOffFail(t)
      PROVE  CancelReaches'
  BY <1>16, ThreadAssumption
     DEF SaveOffFail, At, RconFail, TypeOK, LockInv, CancelReaches, CycleVars,
         ControlVars, ProcessVars, WorldVars
<1>17. ASSUME NEW t \in Threads, SaveOffGiveUp(t)
      PROVE  CancelReaches'
  BY <1>17, ThreadAssumption
     DEF SaveOffGiveUp, At, Goto, RconGiveUp, NextServer, TypeOK, LockInv,
         CancelReaches, CycleVars, ControlVars, ProcessVars, WorldVars
<1>18. ASSUME NEW t \in Threads, FlushOk(t)
      PROVE  CancelReaches'
  BY <1>18, ThreadAssumption
     DEF FlushOk, At, Goto, RconOk, TypeOK, LockInv, CancelReaches, CycleVars,
         ControlVars, ProcessVars, WorldVars
<1>19. ASSUME NEW t \in Threads, FlushFail(t)
      PROVE  CancelReaches'
  BY <1>19, ThreadAssumption
     DEF FlushFail, At, RconFail, TypeOK, LockInv, CancelReaches, CycleVars,
         ControlVars, ProcessVars, WorldVars
<1>20. ASSUME NEW t \in Threads, FlushGiveUp(t)
      PROVE  CancelReaches'
  BY <1>20, ThreadAssumption
     DEF FlushGiveUp, At, Goto, RconGiveUp, TypeOK, LockInv, CancelReaches,
         CycleVars, ControlVars, ProcessVars, WorldVars
<1>21. ASSUME NEW t \in Threads, CopyEnds(t)
      PROVE  CancelReaches'
  BY <1>21, ThreadAssumption
     DEF CopyEnds, At, Goto, NextServer, TypeOK, LockInv, CancelReaches,
         CycleVars, ControlVars, ProcessVars, WorldVars
<1>22. ASSUME NEW t \in Threads, SaveOnOk(t)
      PROVE  CancelReaches'
  BY <1>22, ThreadAssumption
     DEF SaveOnOk, At, Goto, RconOk, NextServer, TypeOK, LockInv,
         CancelReaches, CycleVars, ControlVars, ProcessVars, WorldVars
<1>23. ASSUME NEW t \in Threads, SaveOnFail(t)
      PROVE  CancelReaches'
  BY <1>23, ThreadAssumption
     DEF SaveOnFail, At, RconFail, TypeOK, LockInv, CancelReaches, CycleVars,
         ControlVars, ProcessVars, WorldVars
<1>24. ASSUME NEW t \in Threads, SaveOnGiveUp(t)
      PROVE  CancelReaches'
  BY <1>24, ThreadAssumption
     DEF SaveOnGiveUp, At, Goto, RconGiveUp, NextServer, TypeOK, LockInv,
         CancelReaches, CycleVars, ControlVars, ProcessVars, WorldVars
<1>25. CASE UNCHANGED vars
  BY <1>25, ThreadAssumption
     DEF vars, CycleVars, ControlVars, ProcessVars, WorldVars, TypeOK, LockInv,
         CancelReaches, CycleVars, ControlVars, ProcessVars, WorldVars
<1>26. QED
  BY <1>1, <1>2, <1>3, <1>4, <1>5, <1>6, <1>7, <1>8, <1>9, <1>10, <1>11, <1>12,
     <1>13, <1>14, <1>15, <1>16, <1>17, <1>18, <1>19, <1>20, <1>21, <1>22,
     <1>23, <1>24, <1>25
     DEF Next, CycleStep

\* Every step keeps the working threads at existing servers.
LEMMA WorkStep ==
  ASSUME TypeOK, WorkInv, [Next]_vars
  PROVE  WorkInv'
<1>1. CASE Boot
  BY <1>1, NAssumption, ThreadAssumption
     DEF Boot, At, Goto, TypeOK, WorkInv, CycleVars, ControlVars, ProcessVars,
         WorldVars
<1>2. CASE Tick
  BY <1>2, NAssumption, ThreadAssumption
     DEF Tick, At, Goto, TypeOK, WorkInv, CycleVars, ControlVars, ProcessVars,
         WorldVars
<1>3. CASE MainStop
  BY <1>3, NAssumption, ThreadAssumption
     DEF MainStop, At, Goto, TypeOK, WorkInv, CycleVars, ControlVars,
         ProcessVars, WorldVars
<1>4. CASE WorkerExit
  BY <1>4, NAssumption, ThreadAssumption
     DEF WorkerExit, TypeOK, WorkInv, CycleVars, ControlVars, ProcessVars,
         WorldVars
<1>5. CASE MainExit
  BY <1>5, NAssumption, ThreadAssumption
     DEF MainExit, At, Goto, TypeOK, WorkInv, CycleVars, ControlVars,
         ProcessVars, WorldVars
<1>6. CASE Sigterm
  BY <1>6, NAssumption, ThreadAssumption
     DEF Sigterm, TypeOK, WorkInv, CycleVars, ControlVars, ProcessVars,
         WorldVars
<1>7. CASE Cancel
  BY <1>7, NAssumption, ThreadAssumption
     DEF Cancel, TypeOK, WorkInv, CycleVars, ControlVars, ProcessVars,
         WorldVars
<1>8. ASSUME NEW t \in Threads, Trigger(t)
      PROVE  WorkInv'
  BY <1>8, NAssumption, ThreadAssumption
     DEF Trigger, At, Goto, TypeOK, WorkInv, CycleVars, ControlVars,
         ProcessVars, WorldVars
<1>9. ASSUME NEW t \in Threads, LockCycle(t)
      PROVE  WorkInv'
  BY <1>9, NAssumption, ThreadAssumption
     DEF LockCycle, At, Goto, TypeOK, WorkInv, CycleVars, ControlVars,
         ProcessVars, WorldVars
<1>10. ASSUME NEW t \in Threads, OpenCycle(t)
      PROVE  WorkInv'
  BY <1>10, NAssumption, ThreadAssumption
     DEF OpenCycle, At, Goto, TypeOK, WorkInv, CycleVars, ControlVars,
         ProcessVars, WorldVars
<1>11. ASSUME NEW t \in Threads, CloseCycle(t)
      PROVE  WorkInv'
  BY <1>11, NAssumption, ThreadAssumption
     DEF CloseCycle, At, Goto, TypeOK, WorkInv, CycleVars, ControlVars,
         ProcessVars, WorldVars
<1>12. ASSUME NEW t \in Threads, UnlockCycle(t)
      PROVE  WorkInv'
  BY <1>12, NAssumption, ThreadAssumption
     DEF UnlockCycle, At, Goto, TypeOK, WorkInv, CycleVars, ControlVars,
         ProcessVars, WorldVars
<1>13. ASSUME NEW t \in Threads, SkipServer(t)
      PROVE  WorkInv'
  BY <1>13, NAssumption, ThreadAssumption
     DEF SkipServer, At, Goto, NextServer, TypeOK, WorkInv, CycleVars,
         ControlVars, ProcessVars, WorldVars
<1>14. ASSUME NEW t \in Threads, BeginServer(t)
      PROVE  WorkInv'
  BY <1>14, NAssumption, ThreadAssumption
     DEF BeginServer, At, Goto, TypeOK, WorkInv, CycleVars, ControlVars,
         ProcessVars, WorldVars
<1>15. ASSUME NEW t \in Threads, SaveOffOk(t)
      PROVE  WorkInv'
  BY <1>15, NAssumption, ThreadAssumption
     DEF SaveOffOk, At, Goto, RconOk, TypeOK, WorkInv, CycleVars, ControlVars,
         ProcessVars, WorldVars
<1>16. ASSUME NEW t \in Threads, SaveOffFail(t)
      PROVE  WorkInv'
  BY <1>16, NAssumption, ThreadAssumption
     DEF SaveOffFail, At, RconFail, TypeOK, WorkInv, CycleVars, ControlVars,
         ProcessVars, WorldVars
<1>17. ASSUME NEW t \in Threads, SaveOffGiveUp(t)
      PROVE  WorkInv'
  BY <1>17, NAssumption, ThreadAssumption
     DEF SaveOffGiveUp, At, Goto, RconGiveUp, NextServer, TypeOK, WorkInv,
         CycleVars, ControlVars, ProcessVars, WorldVars
<1>18. ASSUME NEW t \in Threads, FlushOk(t)
      PROVE  WorkInv'
  BY <1>18, NAssumption, ThreadAssumption
     DEF FlushOk, At, Goto, RconOk, TypeOK, WorkInv, CycleVars, ControlVars,
         ProcessVars, WorldVars
<1>19. ASSUME NEW t \in Threads, FlushFail(t)
      PROVE  WorkInv'
  BY <1>19, NAssumption, ThreadAssumption
     DEF FlushFail, At, RconFail, TypeOK, WorkInv, CycleVars, ControlVars,
         ProcessVars, WorldVars
<1>20. ASSUME NEW t \in Threads, FlushGiveUp(t)
      PROVE  WorkInv'
  BY <1>20, NAssumption, ThreadAssumption
     DEF FlushGiveUp, At, Goto, RconGiveUp, TypeOK, WorkInv, CycleVars,
         ControlVars, ProcessVars, WorldVars
<1>21. ASSUME NEW t \in Threads, CopyEnds(t)
      PROVE  WorkInv'
  BY <1>21, NAssumption, ThreadAssumption
     DEF CopyEnds, At, Goto, NextServer, TypeOK, WorkInv, CycleVars,
         ControlVars, ProcessVars, WorldVars
<1>22. ASSUME NEW t \in Threads, SaveOnOk(t)
      PROVE  WorkInv'
  BY <1>22, NAssumption, ThreadAssumption
     DEF SaveOnOk, At, Goto, RconOk, NextServer, TypeOK, WorkInv, CycleVars,
         ControlVars, ProcessVars, WorldVars
<1>23. ASSUME NEW t \in Threads, SaveOnFail(t)
      PROVE  WorkInv'
  BY <1>23, NAssumption, ThreadAssumption
     DEF SaveOnFail, At, RconFail, TypeOK, WorkInv, CycleVars, ControlVars,
         ProcessVars, WorldVars
<1>24. ASSUME NEW t \in Threads, SaveOnGiveUp(t)
      PROVE  WorkInv'
  BY <1>24, NAssumption, ThreadAssumption
     DEF SaveOnGiveUp, At, Goto, RconGiveUp, NextServer, TypeOK, WorkInv,
         CycleVars, ControlVars, ProcessVars, WorldVars
<1>25. CASE UNCHANGED vars
  BY <1>25, NAssumption, ThreadAssumption
     DEF vars, CycleVars, ControlVars, ProcessVars, WorldVars, TypeOK, WorkInv,
         CycleVars, ControlVars, ProcessVars, WorldVars
<1>26. QED
  BY <1>1, <1>2, <1>3, <1>4, <1>5, <1>6, <1>7, <1>8, <1>9, <1>10, <1>11, <1>12,
     <1>13, <1>14, <1>15, <1>16, <1>17, <1>18, <1>19, <1>20, <1>21, <1>22,
     <1>23, <1>24, <1>25
     DEF Next, CycleStep

\* No step switches autosave on under another thread's copy.
LEMMA QuietStep ==
  ASSUME TypeOK, LockInv, WorkInv, QuietInv, [Next]_vars
  PROVE  QuietInv'
<1>1. CASE Boot
  BY <1>1, ThreadAssumption
     DEF Boot, At, Goto, TypeOK, LockInv, WorkInv, QuietInv, CycleVars,
         ControlVars, ProcessVars, WorldVars
<1>2. CASE Tick
  BY <1>2, ThreadAssumption
     DEF Tick, At, Goto, TypeOK, LockInv, WorkInv, QuietInv, CycleVars,
         ControlVars, ProcessVars, WorldVars
<1>3. CASE MainStop
  BY <1>3, ThreadAssumption
     DEF MainStop, At, Goto, TypeOK, LockInv, WorkInv, QuietInv, CycleVars,
         ControlVars, ProcessVars, WorldVars
<1>4. CASE WorkerExit
  BY <1>4, ThreadAssumption
     DEF WorkerExit, TypeOK, LockInv, WorkInv, QuietInv, CycleVars,
         ControlVars, ProcessVars, WorldVars
<1>5. CASE MainExit
  BY <1>5, ThreadAssumption
     DEF MainExit, At, Goto, TypeOK, LockInv, WorkInv, QuietInv, CycleVars,
         ControlVars, ProcessVars, WorldVars
<1>6. CASE Sigterm
  BY <1>6, ThreadAssumption
     DEF Sigterm, TypeOK, LockInv, WorkInv, QuietInv, CycleVars, ControlVars,
         ProcessVars, WorldVars
<1>7. CASE Cancel
  BY <1>7, ThreadAssumption
     DEF Cancel, TypeOK, LockInv, WorkInv, QuietInv, CycleVars, ControlVars,
         ProcessVars, WorldVars
<1>8. ASSUME NEW t \in Threads, Trigger(t)
      PROVE  QuietInv'
  BY <1>8, ThreadAssumption
     DEF Trigger, At, Goto, TypeOK, LockInv, WorkInv, QuietInv, CycleVars,
         ControlVars, ProcessVars, WorldVars
<1>9. ASSUME NEW t \in Threads, LockCycle(t)
      PROVE  QuietInv'
  BY <1>9, ThreadAssumption
     DEF LockCycle, At, Goto, TypeOK, LockInv, WorkInv, QuietInv, CycleVars,
         ControlVars, ProcessVars, WorldVars
<1>10. ASSUME NEW t \in Threads, OpenCycle(t)
      PROVE  QuietInv'
  BY <1>10, ThreadAssumption
     DEF OpenCycle, At, Goto, TypeOK, LockInv, WorkInv, QuietInv, CycleVars,
         ControlVars, ProcessVars, WorldVars
<1>11. ASSUME NEW t \in Threads, CloseCycle(t)
      PROVE  QuietInv'
  BY <1>11, ThreadAssumption
     DEF CloseCycle, At, Goto, TypeOK, LockInv, WorkInv, QuietInv, CycleVars,
         ControlVars, ProcessVars, WorldVars
<1>12. ASSUME NEW t \in Threads, UnlockCycle(t)
      PROVE  QuietInv'
  BY <1>12, ThreadAssumption
     DEF UnlockCycle, At, Goto, TypeOK, LockInv, WorkInv, QuietInv, CycleVars,
         ControlVars, ProcessVars, WorldVars
<1>13. ASSUME NEW t \in Threads, SkipServer(t)
      PROVE  QuietInv'
  BY <1>13, ThreadAssumption
     DEF SkipServer, At, Goto, NextServer, TypeOK, LockInv, WorkInv, QuietInv,
         CycleVars, ControlVars, ProcessVars, WorldVars
<1>14. ASSUME NEW t \in Threads, BeginServer(t)
      PROVE  QuietInv'
  BY <1>14, ThreadAssumption
     DEF BeginServer, At, Goto, TypeOK, LockInv, WorkInv, QuietInv, CycleVars,
         ControlVars, ProcessVars, WorldVars
<1>15. ASSUME NEW t \in Threads, SaveOffOk(t)
      PROVE  QuietInv'
  BY <1>15, ThreadAssumption
     DEF SaveOffOk, At, Goto, RconOk, TypeOK, LockInv, WorkInv, QuietInv,
         CycleVars, ControlVars, ProcessVars, WorldVars
<1>16. ASSUME NEW t \in Threads, SaveOffFail(t)
      PROVE  QuietInv'
  BY <1>16, ThreadAssumption
     DEF SaveOffFail, At, RconFail, TypeOK, LockInv, WorkInv, QuietInv,
         CycleVars, ControlVars, ProcessVars, WorldVars
<1>17. ASSUME NEW t \in Threads, SaveOffGiveUp(t)
      PROVE  QuietInv'
  BY <1>17, ThreadAssumption
     DEF SaveOffGiveUp, At, Goto, RconGiveUp, NextServer, TypeOK, LockInv,
         WorkInv, QuietInv, CycleVars, ControlVars, ProcessVars, WorldVars
<1>18. ASSUME NEW t \in Threads, FlushOk(t)
      PROVE  QuietInv'
  BY <1>18, ThreadAssumption
     DEF FlushOk, At, Goto, RconOk, TypeOK, LockInv, WorkInv, QuietInv,
         CycleVars, ControlVars, ProcessVars, WorldVars
<1>19. ASSUME NEW t \in Threads, FlushFail(t)
      PROVE  QuietInv'
  BY <1>19, ThreadAssumption
     DEF FlushFail, At, RconFail, TypeOK, LockInv, WorkInv, QuietInv,
         CycleVars, ControlVars, ProcessVars, WorldVars
<1>20. ASSUME NEW t \in Threads, FlushGiveUp(t)
      PROVE  QuietInv'
  BY <1>20, ThreadAssumption
     DEF FlushGiveUp, At, Goto, RconGiveUp, TypeOK, LockInv, WorkInv, QuietInv,
         CycleVars, ControlVars, ProcessVars, WorldVars
<1>21. ASSUME NEW t \in Threads, CopyEnds(t)
      PROVE  QuietInv'
  BY <1>21, ThreadAssumption
     DEF CopyEnds, At, Goto, NextServer, TypeOK, LockInv, WorkInv, QuietInv,
         CycleVars, ControlVars, ProcessVars, WorldVars
<1>22. ASSUME NEW t \in Threads, SaveOnOk(t)
      PROVE  QuietInv'
  BY <1>22, ThreadAssumption
     DEF SaveOnOk, At, Goto, RconOk, NextServer, TypeOK, LockInv, WorkInv,
         QuietInv, CycleVars, ControlVars, ProcessVars, WorldVars
<1>23. ASSUME NEW t \in Threads, SaveOnFail(t)
      PROVE  QuietInv'
  BY <1>23, ThreadAssumption
     DEF SaveOnFail, At, RconFail, TypeOK, LockInv, WorkInv, QuietInv,
         CycleVars, ControlVars, ProcessVars, WorldVars
<1>24. ASSUME NEW t \in Threads, SaveOnGiveUp(t)
      PROVE  QuietInv'
  BY <1>24, ThreadAssumption
     DEF SaveOnGiveUp, At, Goto, RconGiveUp, NextServer, TypeOK, LockInv,
         WorkInv, QuietInv, CycleVars, ControlVars, ProcessVars, WorldVars
<1>25. CASE UNCHANGED vars
  BY <1>25, ThreadAssumption
     DEF vars, CycleVars, ControlVars, ProcessVars, WorldVars, TypeOK, LockInv,
         WorkInv, QuietInv, CycleVars, ControlVars, ProcessVars, WorldVars
<1>26. QED
  BY <1>1, <1>2, <1>3, <1>4, <1>5, <1>6, <1>7, <1>8, <1>9, <1>10, <1>11, <1>12,
     <1>13, <1>14, <1>15, <1>16, <1>17, <1>18, <1>19, <1>20, <1>21, <1>22,
     <1>23, <1>24, <1>25
     DEF Next, CycleStep

\* With reliable replies, no step leaves autosave off outside a bracket.
LEMMA OffStep ==
  ASSUME LostReply = FALSE, TypeOK, LockInv, WorkInv, OffInv, [Next]_vars
  PROVE  OffInv'
<1>1. CASE Boot
  BY <1>1, ThreadAssumption
     DEF Boot, At, Goto, TypeOK, LockInv, WorkInv, OffInv, InBracket,
         CycleVars, ControlVars, ProcessVars, WorldVars
<1>2. CASE Tick
  BY <1>2, ThreadAssumption
     DEF Tick, At, Goto, TypeOK, LockInv, WorkInv, OffInv, InBracket,
         CycleVars, ControlVars, ProcessVars, WorldVars
<1>3. CASE MainStop
  BY <1>3, ThreadAssumption
     DEF MainStop, At, Goto, TypeOK, LockInv, WorkInv, OffInv, InBracket,
         CycleVars, ControlVars, ProcessVars, WorldVars
<1>4. CASE WorkerExit
  BY <1>4, ThreadAssumption
     DEF WorkerExit, TypeOK, LockInv, WorkInv, OffInv, InBracket, CycleVars,
         ControlVars, ProcessVars, WorldVars
<1>5. CASE MainExit
  BY <1>5, ThreadAssumption
     DEF MainExit, At, Goto, TypeOK, LockInv, WorkInv, OffInv, InBracket,
         CycleVars, ControlVars, ProcessVars, WorldVars
<1>6. CASE Sigterm
  BY <1>6, ThreadAssumption
     DEF Sigterm, TypeOK, LockInv, WorkInv, OffInv, InBracket, CycleVars,
         ControlVars, ProcessVars, WorldVars
<1>7. CASE Cancel
  BY <1>7, ThreadAssumption
     DEF Cancel, TypeOK, LockInv, WorkInv, OffInv, InBracket, CycleVars,
         ControlVars, ProcessVars, WorldVars
<1>8. ASSUME NEW t \in Threads, Trigger(t)
      PROVE  OffInv'
  BY <1>8, ThreadAssumption
     DEF Trigger, At, Goto, TypeOK, LockInv, WorkInv, OffInv, InBracket,
         CycleVars, ControlVars, ProcessVars, WorldVars
<1>9. ASSUME NEW t \in Threads, LockCycle(t)
      PROVE  OffInv'
  BY <1>9, ThreadAssumption
     DEF LockCycle, At, Goto, TypeOK, LockInv, WorkInv, OffInv, InBracket,
         CycleVars, ControlVars, ProcessVars, WorldVars
<1>10. ASSUME NEW t \in Threads, OpenCycle(t)
      PROVE  OffInv'
  BY <1>10, ThreadAssumption
     DEF OpenCycle, At, Goto, TypeOK, LockInv, WorkInv, OffInv, InBracket,
         CycleVars, ControlVars, ProcessVars, WorldVars
<1>11. ASSUME NEW t \in Threads, CloseCycle(t)
      PROVE  OffInv'
  BY <1>11, ThreadAssumption
     DEF CloseCycle, At, Goto, TypeOK, LockInv, WorkInv, OffInv, InBracket,
         CycleVars, ControlVars, ProcessVars, WorldVars
<1>12. ASSUME NEW t \in Threads, UnlockCycle(t)
      PROVE  OffInv'
  BY <1>12, ThreadAssumption
     DEF UnlockCycle, At, Goto, TypeOK, LockInv, WorkInv, OffInv, InBracket,
         CycleVars, ControlVars, ProcessVars, WorldVars
<1>13. ASSUME NEW t \in Threads, SkipServer(t)
      PROVE  OffInv'
  BY <1>13, ThreadAssumption
     DEF SkipServer, At, Goto, NextServer, TypeOK, LockInv, WorkInv, OffInv,
         InBracket, CycleVars, ControlVars, ProcessVars, WorldVars
<1>14. ASSUME NEW t \in Threads, BeginServer(t)
      PROVE  OffInv'
  BY <1>14, ThreadAssumption
     DEF BeginServer, At, Goto, TypeOK, LockInv, WorkInv, OffInv, InBracket,
         CycleVars, ControlVars, ProcessVars, WorldVars
<1>15. ASSUME NEW t \in Threads, SaveOffOk(t)
      PROVE  OffInv'
  BY <1>15, ThreadAssumption
     DEF SaveOffOk, At, Goto, RconOk, TypeOK, LockInv, WorkInv, OffInv,
         InBracket, CycleVars, ControlVars, ProcessVars, WorldVars
<1>16. ASSUME NEW t \in Threads, SaveOffFail(t)
      PROVE  OffInv'
  BY <1>16, ThreadAssumption
     DEF SaveOffFail, At, RconFail, TypeOK, LockInv, WorkInv, OffInv,
         InBracket, CycleVars, ControlVars, ProcessVars, WorldVars
<1>17. ASSUME NEW t \in Threads, SaveOffGiveUp(t)
      PROVE  OffInv'
  BY <1>17, ThreadAssumption
     DEF SaveOffGiveUp, At, Goto, RconGiveUp, NextServer, TypeOK, LockInv,
         WorkInv, OffInv, InBracket, CycleVars, ControlVars, ProcessVars,
         WorldVars
<1>18. ASSUME NEW t \in Threads, FlushOk(t)
      PROVE  OffInv'
  BY <1>18, ThreadAssumption
     DEF FlushOk, At, Goto, RconOk, TypeOK, LockInv, WorkInv, OffInv,
         InBracket, CycleVars, ControlVars, ProcessVars, WorldVars
<1>19. ASSUME NEW t \in Threads, FlushFail(t)
      PROVE  OffInv'
  BY <1>19, ThreadAssumption
     DEF FlushFail, At, RconFail, TypeOK, LockInv, WorkInv, OffInv, InBracket,
         CycleVars, ControlVars, ProcessVars, WorldVars
<1>20. ASSUME NEW t \in Threads, FlushGiveUp(t)
      PROVE  OffInv'
  BY <1>20, ThreadAssumption
     DEF FlushGiveUp, At, Goto, RconGiveUp, TypeOK, LockInv, WorkInv, OffInv,
         InBracket, CycleVars, ControlVars, ProcessVars, WorldVars
<1>21. ASSUME NEW t \in Threads, CopyEnds(t)
      PROVE  OffInv'
  BY <1>21, ThreadAssumption
     DEF CopyEnds, At, Goto, NextServer, TypeOK, LockInv, WorkInv, OffInv,
         InBracket, CycleVars, ControlVars, ProcessVars, WorldVars
<1>22. ASSUME NEW t \in Threads, SaveOnOk(t)
      PROVE  OffInv'
  BY <1>22, ThreadAssumption
     DEF SaveOnOk, At, Goto, RconOk, NextServer, TypeOK, LockInv, WorkInv,
         OffInv, InBracket, CycleVars, ControlVars, ProcessVars, WorldVars
<1>23. ASSUME NEW t \in Threads, SaveOnFail(t)
      PROVE  OffInv'
  <2>1. UNCHANGED <<autosave, reported, pc, srv, offline, lock>>
    BY <1>23 DEF SaveOnFail, RconFail, CycleVars, ControlVars
  <2>2. QED
    BY <2>1 DEF OffInv, InBracket
<1>24. ASSUME NEW t \in Threads, SaveOnGiveUp(t)
      PROVE  OffInv'
  BY <1>24, ThreadAssumption
     DEF SaveOnGiveUp, At, Goto, RconGiveUp, NextServer, TypeOK, LockInv,
         WorkInv, OffInv, InBracket, CycleVars, ControlVars, ProcessVars,
         WorldVars
<1>25. CASE UNCHANGED vars
  BY <1>25, ThreadAssumption
     DEF vars, CycleVars, ControlVars, ProcessVars, WorldVars, TypeOK, LockInv,
         WorkInv, OffInv, InBracket, CycleVars, ControlVars, ProcessVars,
         WorldVars
<1>26. QED
  BY <1>1, <1>2, <1>3, <1>4, <1>5, <1>6, <1>7, <1>8, <1>9, <1>10, <1>11, <1>12,
     <1>13, <1>14, <1>15, <1>16, <1>17, <1>18, <1>19, <1>20, <1>21, <1>22,
     <1>23, <1>24, <1>25
     DEF Next, CycleStep

-----------------------------------------------------------------------------
(***************************************************************************)
(* Theorems of the specification                                           *)
(***************************************************************************)

IInv == TypeOK /\ LockInv /\ WorkInv /\ CancelReaches /\ QuietInv

\* The strengthened invariant holds initially and every step keeps it.
LEMMA Inductive ==
  /\ Init => IInv
  /\ IInv /\ [Next]_vars => IInv'
<1>1. Init => IInv
  <2> SUFFICES ASSUME Init PROVE IInv
    OBVIOUS
  <2>1. TypeOK
    <3>1. autosave \in [Servers -> BOOLEAN] /\ offline \in [Threads -> BOOLEAN]
      BY Zenon DEF Init
    <3>2. srv \in [Threads -> 1..(N + 1)] /\ try \in [Threads -> 0..Retries]
      BY NAssumption, RetriesAssumption DEF Init
    <3>3. pc \in [Threads -> PCs]
      BY DEF Init
    <3>4. QED
      BY <3>1, <3>2, <3>3 DEF Init, TypeOK
  <2>2. \A t \in Threads : pc[t] \in {"boot", "idle"}
    BY DEF Init
  <2>3. LockInv /\ WorkInv
    BY <2>2, ThreadAssumption DEF Init, LockInv, WorkInv
  <2>4. CancelReaches /\ QuietInv
    BY <2>2 DEF CancelReaches, QuietInv
  <2>5. QED
    BY <2>1, <2>3, <2>4 DEF IInv
<1>2. IInv /\ [Next]_vars => IInv'
  BY TypeStep, LockStep, WorkStep, CancelStep, QuietStep DEF IInv
<1>3. QED
  BY <1>1, <1>2

\* The invariant holds throughout.
LEMMA Invariance == Spec => []IInv
BY Inductive, PTL DEF Spec

\* Type correctness of the cycle model.
THEOREM TypeCorrect == Spec => []TypeOK
<1>1. IInv => TypeOK
  BY DEF IInv
<1>2. QED
  BY <1>1, Invariance, PTL

\* No copy of a running server ever runs with autosave on, however many cycles
\* are requested at once and even if RCON replies are lost (backup.go:192-276,
\* under cycleMu, daemon.go:589).
THEOREM CopyIsQuiesced == Spec => []CopyQuiesced
<1>1. IInv => CopyQuiesced
  BY DEF IInv, QuietInv, CopyQuiesced
<1>2. QED
  BY <1>1, Invariance, PTL

\* A cancel request always reaches the running cycle (daemon.go:146-152,
\* 592-601).
THEOREM CancelAlwaysReaches == Spec => []CancelReaches
<1>1. IInv => CancelReaches
  BY DEF IInv
<1>2. QED
  BY <1>1, Invariance, PTL

\* With reliable replies the tight autosave invariant holds throughout.
LEMMA OffInvariance ==
  ASSUME LostReply = FALSE
  PROVE  Spec => []OffInv
<1>1. Init => OffInv
  BY DEF Init, OffInv
<1>2. IInv /\ OffInv /\ [Next]_vars => OffInv'
  BY OffStep DEF IInv
<1>3. QED
  BY <1>1, <1>2, Invariance, PTL DEF Spec

\* With reliable replies autosave is never left off silently, whatever fails,
\* is cancelled or runs beside the cycle (backup.go:192-209).
THEOREM AutosaveIsRestored ==
  ASSUME LostReply = FALSE
  PROVE  Spec => []AutosaveRestored
<1>1. OffInv => AutosaveRestored
  BY DEF OffInv, AutosaveRestored, AtWork
<1>2. QED
  BY <1>1, OffInvariance, PTL

\* With reliable replies, a stopped daemon has finished the bracket of every
\* cycle its main goroutine started (daemon.go:375-378).
THEOREM StopFinishes ==
  ASSUME LostReply = FALSE
  PROVE  Spec => []StopFinishesOwnCycle
<1>1. IInv /\ OffInv => StopFinishesOwnCycle
  BY ThreadAssumption
  DEF IInv, TypeOK, WorkInv, OffInv, InBracket, StopFinishesOwnCycle
<1>2. QED
  BY <1>1, Invariance, OffInvariance, PTL

\* Hence, where no cycle is ever started by the API or by discovery, the README's
\* promise about a graceful stop (README.md:272) holds.
THEOREM StopRestoresWithoutApi ==
  ASSUME LostReply = FALSE, Api = {}
  PROVE  Spec => []StopRestoresAutosave
<1>1. StopFinishesOwnCycle => StopRestoresAutosave
  BY DEF StopFinishesOwnCycle, StopRestoresAutosave
<1>2. QED
  BY <1>1, StopFinishes, PTL

=============================================================================
