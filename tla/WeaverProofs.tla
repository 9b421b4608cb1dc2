----------------------------- MODULE WeaverProofs -----------------------------
(***************************************************************************)
(* Proofs about Weaver, for any number of threads, users and jobs, any     *)
(* dependencies, priorities and caps.                                      *)
(***************************************************************************)
EXTENDS WeaverInvariants, SequenceLemmas, FiniteSetTheorems

-------------------------------------------------------------------------------
(* Lemmas about the operators the steps are built from *)

(* Started threads are unused ones, finitely many.                         *)
LEMMA NewThreadsProperties ==
  ASSUME NEW n, NEW max
  PROVE  /\ NewThreads(n, max) \subseteq {t \in Threads : pc[t] = "none"}
         /\ Cardinality(NewThreads(n, max)) \in Nat
<1>1. NewThreads(n, max) \subseteq {t \in Threads : pc[t] = "none"}
  BY DEF NewThreads
<1>2. IsFiniteSet(NewThreads(n, max))
  BY <1>1, ThreadsAssumption, FS_Subset
<1>3. QED
  BY <1>1, <1>2, FS_CardinalityType

-------------------------------------------------------------------------------
(* Type correctness, and the exclusion it rests on *)

Typed == TypeOK /\ MutexInv

LEMMA TypedInit == Init => Typed
  BY JobsAssumption, DependsOnAssumption, CapsAssumption
  DEF Init, Typed, TypeOK, MutexInv, StateIds, ThreadSteps, UserSteps, Statuses

LEMMA TypedLockFree ==
  ASSUME Typed, NEW t \in Threads, LockFreeStep(t)
  PROVE  Typed'
<1> USE DEF Typed, TypeOK, MutexInv, StateIds, ThreadSteps, UserSteps, Statuses, weaverVars,
        queueVars, threadVars, jobVars, shutVars
<1>1. CASE EnterRun(t)
  BY <1>1 DEF EnterRun
<1>2. CASE ApplyForWork(t)
  BY <1>2 DEF ApplyForWork
<1>3. CASE WaitCall(t)
  BY <1>3 DEF WaitCall
<1>4. CASE BeginRun(t)
  BY <1>4 DEF BeginRun
<1>5. CASE FinishRun(t)
  BY <1>5, OutcomesAssumption, ZenonT(60) DEF FinishRun
<1>6. CASE EndJob(t)
  BY <1>6 DEF EndJob, ResolveDependencies
<1>7. CASE Exit(t)
  BY <1>7 DEF Exit
<1>8. CASE ExamineTake(t)
  <2>1. cursor \in 1..Len(assignments)
    BY <1>8 DEF ExamineTake
  <2>2. assignments' \in Seq(Jobs)
    BY <1>8, <2>1, RemoveAtProperties DEF ExamineTake, WithoutCandidate
  <2>3. assignments[cursor] \in Jobs
    BY <2>1, ElementOfSeq
  <2>4. QED
    BY <1>8, <2>2, <2>3 DEF ExamineTake
<1>9. CASE ExaminePass(t)
  BY <1>9 DEF ExaminePass
<1>10. CASE ScanWait(t)
  BY <1>10 DEF ScanWait
<1>11. QED
  BY <1>1, <1>2, <1>3, <1>4, <1>5, <1>6, <1>7, <1>8, <1>9, <1>10, LockFreeStep(t)
  DEF LockFreeStep

(* What every call of takeFirstAvailableJobOrSuspendOrWait() begins with.  *)
LEMMA TypedBeginTake ==
  ASSUME Typed, NEW t \in Threads, NEW next \in ThreadSteps, NEW leaving \in SUBSET {t},
         BeginTake(t, next, leaving)
  PROVE  /\ inventory' \subseteq Threads /\ expired' \subseteq Threads
         /\ active' \in Int /\ createdThreads' \in Nat
         /\ pc' \in [Threads -> ThreadSteps] /\ wasBusy' \in [Threads -> BOOLEAN]
         /\ upc' \in [Users -> UserSteps]
         /\ \A u \in Users : upc'[u] # "enqueueing"
         /\ \A s \in Threads \ {t} : pc'[s] # "scan"
         /\ pc'[t] = next
<1> DEFINE new == NewThreads(1, inventoryMax)
<1>1. new \subseteq Threads /\ Cardinality(new) \in Nat
  BY NewThreadsProperties
<1>2. /\ inventory' \subseteq Threads /\ expired' \subseteq Threads
      /\ createdThreads' \in Nat /\ wasBusy' \in [Threads -> BOOLEAN]
  BY <1>1 DEF BeginTake, ExpiredAfter, Typed, TypeOK
<1>3. /\ pc' \in [Threads -> ThreadSteps] /\ pc'[t] = next
      /\ \A s \in Threads \ {t} : pc'[s] # "scan"
  <2>1. \A s \in Threads : pc[s] # "scan" /\ pc[s] \in ThreadSteps
    BY DEF BeginTake, MutexFree, Typed, TypeOK
  <2>2. "none" \in ThreadSteps /\ "created" \in ThreadSteps
    BY DEF ThreadSteps
  <2>3. pc' = [x \in Threads |-> IF x = t THEN next
                                ELSE IF x \in expired THEN "none"
                                ELSE IF x \in new THEN "created" ELSE pc[x]]
    BY DEF BeginTake
  <2>4. \A x \in Threads : /\ pc'[x] \in ThreadSteps
                           /\ x # t => pc'[x] # "scan"
                           /\ x = t => pc'[x] = next
    BY <2>1, <2>2, <2>3
  <2>5. QED
    BY <2>3, <2>4
<1>4. /\ active' \in Int /\ upc' \in [Users -> UserSteps]
      /\ \A u \in Users : upc'[u] # "enqueueing"
  <2>1. /\ upc \in [Users -> UserSteps] /\ active \in Int
        /\ \A u \in Users : upc[u] # "enqueueing"
    BY DEF BeginTake, MutexFree, Typed, TypeOK
  <2>2. /\ FinishersWoken \in [Users -> UserSteps]
        /\ \A u \in Users : FinishersWoken[u] # "enqueueing"
    BY <2>1 DEF FinishersWoken, UserSteps
  <2>3. \/ active' = active - 1 /\ upc' = FinishersWoken
        \/ active' = active /\ upc' = upc
    BY DEF BeginTake, ReportBack
  <2>4. QED
    BY <2>1, <2>2, <2>3
<1>5. QED
  BY <1>2, <1>3, <1>4

LEMMA TypedLocking ==
  ASSUME Typed, NEW t \in Threads, LockingStep(t)
  PROVE  Typed'
<1> USE DEF Typed, TypeOK, MutexInv
<1>1. CASE TakeReturn(t)
  <2>1. "apply" \in ThreadSteps
    BY DEF ThreadSteps
  <2>2. QED
    BY <1>1, <2>1, TypedBeginTake DEF TakeReturn, BeginTake, jobVars, shutVars
<1>2. CASE TakeExpire(t)
  <2>1. "exiting" \in ThreadSteps
    BY DEF ThreadSteps
  <2>2. QED
    BY <1>2, <2>1, TypedBeginTake DEF TakeExpire, BeginTake, jobVars, shutVars
<1>3. CASE TakeScan(t)
  <2>1. "scan" \in ThreadSteps
    BY DEF ThreadSteps
  <2>2. TypeOK'
    BY <1>3, <2>1, TypedBeginTake DEF TakeScan, BeginTake, jobVars, shutVars
  <2>3. MutexInv'
    BY <1>3, <2>1, TypedBeginTake DEF TakeScan
  <2>4. QED
    BY <2>2, <2>3
<1>4. CASE TakeSuspending(t)
  <2>1. "waitCall" \in ThreadSteps
    BY DEF ThreadSteps
  <2>2. state' \in StateIds
    BY <1>4 DEF TakeSuspending, StateIds
  <2>3. TypeOK'
    BY <1>4, <2>1, <2>2, TypedBeginTake DEF TakeSuspending, BeginTake, jobVars, shutVars
  <2>4. MutexInv'
    BY <1>4, <2>1, TypedBeginTake DEF TakeSuspending
  <2>5. QED
    BY <2>3, <2>4
<1>5. CASE Block(t)
  BY <1>5 DEF Block, ThreadSteps, weaverVars, queueVars, jobVars, shutVars
<1>6. QED
  BY <1>1, <1>2, <1>3, <1>4, <1>5, LockingStep(t) DEF LockingStep

LEMMA WokenProperties ==
  ASSUME NEW p \in [Threads -> ThreadSteps]
  PROVE  /\ Woken(p) \in [Threads -> ThreadSteps]
         /\ \A t \in Threads : Woken(p)[t] = IF p[t] = "waiting" THEN "apply" ELSE p[t]
BY DEF Woken, ThreadSteps

(* The users' steps that neither insert a job nor start a thread.          *)
LEMMA TypedApiCall ==
  ASSUME Typed, NEW u \in Users, ApiCall(u)
  PROVE  Typed'
<1> USE DEF Typed, TypeOK, MutexInv, UserSteps, weaverVars, queueVars, threadVars, jobVars,
        shutVars
<1>1. CASE Enqueue(u)
  BY <1>1, BatchesAssumption DEF Enqueue, MutexFree
<1>2. CASE DequeueJob(u)
  <2>1. PICK i \in DOMAIN assignments :
          /\ status' = DequeuedStatus(assignments[i])
          /\ assignments' = RemoveAt(assignments, i)
    BY <1>2 DEF DequeueJob
  <2>2. i \in 1..Len(assignments)
    BY <2>1
  <2>3. assignments' \in Seq(Jobs)
    BY <2>1, <2>2, RemoveAtProperties
  <2>4. status' \in [Jobs -> Statuses]
    BY <2>1 DEF DequeuedStatus, Statuses
  <2>5. upc' \in [Users -> UserSteps] /\ \A v \in Users : upc'[v] # "enqueueing"
    BY <1>2 DEF DequeueJob, FinishersWoken, MutexFree
  <2>6. QED
    BY <1>2, <2>3, <2>4, <2>5 DEF DequeueJob
<1>3. CASE DequeueAll(u)
  BY <1>3 DEF DequeueAll
<1>4. CASE Finish(u)
  BY <1>4 DEF Finish
<1>5. CASE Suspend(u)
  BY <1>5 DEF Suspend
<1>6. CASE Resume(u)
  BY <1>6 DEF Resume
<1>7. CASE SetMax(u)
  <2>1. PICK cap \in Caps :
          LET new == IF inventoryMax = 0 /\ cap > 0 THEN NewThreads(1, cap) ELSE {} IN
          /\ inventoryMax' = cap
          /\ inventory' = inventory \cup new
          /\ createdThreads' = createdThreads + Cardinality(new)
          /\ pc' = Woken(Started(pc, new))
    BY <1>7 DEF SetMax
  <2> DEFINE new == IF inventoryMax = 0 /\ cap > 0 THEN NewThreads(1, cap) ELSE {}
  <2>2. new \subseteq Threads /\ Cardinality(new) \in Nat
    BY NewThreadsProperties, FS_EmptySet
  <2>3. Started(pc, new) \in [Threads -> ThreadSteps]
    BY DEF Started, ThreadSteps
  <2>4. pc' \in [Threads -> ThreadSteps] /\ \A t \in Threads : pc'[t] = "scan" => pc[t] = "scan"
    BY <2>1, <2>3, WokenProperties DEF Started
  <2>5. inventoryMax' \in Nat /\ inventory' \subseteq Threads /\ createdThreads' \in Nat
    BY <2>1, <2>2, CapsAssumption
  <2>6. QED
    BY <1>7, <2>4, <2>5 DEF SetMax
<1>8. CASE Reschedule(u)
  <2>1. pc' \in [Threads -> ThreadSteps] /\ \A t \in Threads : pc'[t] = "scan" => pc[t] = "scan"
    BY <1>8, WokenProperties DEF Reschedule
  <2>2. QED
    BY <1>8, <2>1 DEF Reschedule
<1>9. CASE ShutDown(u)
  BY <1>9 DEF ShutDown
<1>10. QED
  BY <1>1, <1>2, <1>3, <1>4, <1>5, <1>6, <1>7, <1>8, <1>9, ApiCall(u) DEF ApiCall

LEMMA TypedSetState ==
  ASSUME Typed, NEW id \in StateIds, SetState(id)
  PROVE  /\ state' \in StateIds /\ pc' \in [Threads -> ThreadSteps]
         /\ \A t \in Threads : pc'[t] # "scan"
<1>1. \A t \in Threads : pc[t] # "scan"
  BY DEF SetState, MutexFree
<1>2. CASE pc' = pc
  BY <1>1, <1>2 DEF SetState, Typed, TypeOK
<1>3. CASE pc' = Woken(pc)
  BY <1>1, <1>3, WokenProperties DEF SetState, Typed, TypeOK
<1>4. QED
  BY <1>2, <1>3 DEF SetState

LEMMA TypedEnqueueJob ==
  ASSUME Typed, NEW u \in Users, EnqueueJob(u)
  PROVE  Typed'
<1> DEFINE j == Head(pending)
           new == NewThreads(batch, inventoryMax)
<1>1. pending # <<>> /\ j \in Jobs /\ Tail(pending) \in Seq(Jobs)
  BY HeadTailProperties DEF EnqueueJob, Typed, TypeOK, MutexInv
<1>2. new \subseteq Threads /\ Cardinality(new) \in Nat
  BY NewThreadsProperties
<1>3. inventory' \subseteq Threads /\ createdThreads' \in Nat
  BY <1>2 DEF EnqueueJob, Typed, TypeOK
<1>4. assignments' \in Seq(Jobs)
  <2>1. PICK i \in 0..Len(assignments) : assignments' = InsertAt(assignments, i + 1, j)
    BY DEF EnqueueJob
  <2>2. i + 1 \in 1..Len(assignments) + 1
    BY <2>1 DEF Typed, TypeOK
  <2>3. QED
    BY <1>1, <2>1, <2>2, InsertAtProperties DEF Typed, TypeOK
<1>5. status' \in [Jobs -> Statuses]
  BY <1>1 DEF EnqueueJob, Typed, TypeOK, Statuses
<1>6. pc' \in [Threads -> ThreadSteps] /\ \A t \in Threads : pc'[t] = "scan" => pc[t] = "scan"
  <2>1. /\ Started(pc, new) \in [Threads -> ThreadSteps]
        /\ \A t \in Threads : Started(pc, new)[t] = "scan" => pc[t] = "scan"
    BY DEF Started, ThreadSteps, Typed, TypeOK
  <2>2. pc' = Woken(Started(pc, new))
    BY DEF EnqueueJob
  <2>3. QED
    BY <2>1, <2>2, WokenProperties
<1>7. pending' \in Seq(Jobs) /\ batch' \in Nat /\ upc' \in [Users -> UserSteps]
  <2>1. pending' \in Seq(Jobs)
    BY <1>1 DEF EnqueueJob
  <2>2. CASE Tail(pending) = <<>>
    <3>1. upc' = [upc EXCEPT ![u] = "ready"] /\ batch' = 0
      BY <2>2 DEF EnqueueJob
    <3>2. "ready" \in UserSteps
      BY DEF UserSteps
    <3>3. QED
      BY <2>1, <3>1, <3>2 DEF Typed, TypeOK
  <2>3. CASE Tail(pending) # <<>>
    BY <2>1, <2>3 DEF EnqueueJob, Typed, TypeOK
  <2>4. QED
    BY <2>2, <2>3
<1>8. TypeOK'
  BY <1>3, <1>4, <1>5, <1>6, <1>7 DEF EnqueueJob, Typed, TypeOK, shutVars
<1>9. MutexInv'
  <2>1. \A t \in Threads : pc'[t] # "scan"
    BY <1>6 DEF EnqueueJob, Typed, MutexInv
  <2>2. \A v \in Users : upc'[v] = "enqueueing" => v = u /\ pending' # <<>>
    BY DEF EnqueueJob, Typed, TypeOK, MutexInv
  <2>3. QED
    BY <2>1, <2>2 DEF MutexInv
<1>10. QED
  BY <1>8, <1>9 DEF Typed

LEMMA TypedCallStep ==
  ASSUME Typed, NEW u \in Users, CallStep(u)
  PROVE  Typed'
<1> USE DEF UserSteps, StateIds, weaverVars, queueVars, threadVars, jobVars, shutVars
<1>1. /\ Woken(pc) \in [Threads -> ThreadSteps]
      /\ \A t \in Threads : Woken(pc)[t] = "scan" => pc[t] = "scan"
  BY WokenProperties DEF Typed, TypeOK
<1>2. CASE EnqueueJob(u)
  BY <1>2, TypedEnqueueJob
<1>3. CASE FinishCheck(u)
  BY <1>3 DEF FinishCheck, Typed, TypeOK, MutexInv
<1>4. CASE FinishTimeout(u)
  BY <1>1, <1>4 DEF FinishTimeout, Typed, TypeOK, MutexInv
<1>5. CASE SuspendSet(u)
  BY <1>5, TypedSetState DEF SuspendSet, Typed, TypeOK, MutexInv
<1>6. CASE ResumeSet(u)
  BY <1>6, TypedSetState DEF ResumeSet, Typed, TypeOK, MutexInv
<1>7. CASE SdAcquire(u)
  BY <1>7 DEF SdAcquire, Typed, TypeOK, MutexInv
<1>8. CASE SdFinish(u)
  BY <1>8 DEF SdFinish, Typed, TypeOK, MutexInv
<1>9. CASE SdFinishTimeout(u)
  BY <1>1, <1>9 DEF SdFinishTimeout, Typed, TypeOK, MutexInv
<1>10. CASE SdSuspend(u)
  BY <1>10 DEF SdSuspend, Typed, TypeOK, MutexInv
<1>11. CASE SdSuspendSet(u)
  BY <1>11, TypedSetState DEF SdSuspendSet, Typed, TypeOK, MutexInv
<1>12. CASE SdSet(u)
  BY <1>12, TypedSetState DEF SdSet, Typed, TypeOK, MutexInv
<1>13. CASE SdReschedule(u)
  BY <1>1, <1>13 DEF SdReschedule, Typed, TypeOK, MutexInv
<1>14. CASE SdTake(u)
  BY <1>14, SMTT(30) DEF SdTake, Typed, TypeOK, MutexInv
<1>15. CASE SdWake(u)
  BY <1>1, <1>15 DEF SdWake, Typed, TypeOK, MutexInv
<1>16. CASE SdDelete(u)
  BY <1>16 DEF SdDelete, ThreadSteps, Typed, TypeOK, MutexInv
<1>17. CASE SdDestruct(u)
  BY <1>17, TypedSetState DEF SdDestruct, Typed, TypeOK, MutexInv
<1>18. QED
  BY <1>2, <1>3, <1>4, <1>5, <1>6, <1>7, <1>8, <1>9, <1>10, <1>11, <1>12, <1>13, <1>14,
     <1>15, <1>16, <1>17, CallStep(u) DEF CallStep

LEMMA TypedStutter ==
  ASSUME Typed, UNCHANGED vars
  PROVE  Typed'
BY DEF Typed, TypeOK, MutexInv, vars, weaverVars, queueVars, threadVars, jobVars, shutVars

(* Type correctness: every variable of the weaver keeps its type, for any  *)
(* number of threads and jobs.                                             *)
THEOREM TypeCorrect == Spec => []TypeOK
<1>1. Init => Typed
  BY TypedInit
<1>2. Typed /\ [Next]_vars => Typed'
  BY TypedLockFree, TypedLocking, TypedApiCall, TypedCallStep, TypedStutter DEF Next
<1>3. Typed => TypeOK
  BY DEF Typed
<1>4. QED
  BY <1>1, <1>2, <1>3, PTL DEF Spec

-------------------------------------------------------------------------------
(* What the users' steps leave alone *)

Asleep == {"none", "created", "scan", "waitCall", "block", "waiting", "exiting", "exited"}

(* A user's step starts threads, wakes them or deletes them, and touches   *)
(* neither what they hold nor the policies.                                *)
UserFrame ==
  /\ UNCHANGED <<job, wasBusy, active, cursor, dependencies, customers>>
  /\ \A t \in Threads :
       \/ pc'[t] = pc[t]
       \/ pc[t] \in {"none", "waiting", "exited"} /\ pc'[t] \in {"none", "created", "apply"}

LEMMA UserStepFrame ==
  ASSUME Typed, NEW u \in Users, ApiCall(u) \/ CallStep(u)
  PROVE  UserFrame
<1> USE DEF UserFrame, weaverVars, queueVars, threadVars, jobVars, shutVars
<1>1. \A t \in Threads :
        \/ Woken(pc)[t] = pc[t]
        \/ pc[t] = "waiting" /\ Woken(pc)[t] = "apply"
  BY WokenProperties DEF Typed, TypeOK
<1>2. ASSUME NEW n, NEW max, pc' = Woken(Started(pc, NewThreads(n, max)))
      PROVE  \A t \in Threads : \/ pc'[t] = pc[t]
                                \/ pc[t] \in {"none", "waiting"} /\ pc'[t] \in {"created", "apply"}
  BY <1>2, NewThreadsProperties DEF Woken, Started
<1>3. ASSUME NEW id \in StateIds, SetState(id)
      PROVE  \A t \in Threads : \/ pc'[t] = pc[t]
                                \/ pc[t] = "waiting" /\ pc'[t] = "apply"
  BY <1>1, <1>3 DEF SetState
<1>4. CASE Enqueue(u)
  BY <1>4 DEF Enqueue
<1>5. CASE DequeueJob(u)
  BY <1>5 DEF DequeueJob
<1>6. CASE DequeueAll(u)
  BY <1>6 DEF DequeueAll
<1>7. CASE Finish(u)
  BY <1>7 DEF Finish
<1>8. CASE Suspend(u)
  BY <1>8 DEF Suspend
<1>9. CASE Resume(u)
  BY <1>9 DEF Resume
<1>10. CASE SetMax(u)
  <2>1. PICK cap \in Caps :
          pc' = Woken(Started(pc, IF inventoryMax = 0 /\ cap > 0 THEN NewThreads(1, cap) ELSE {}))
    BY <1>10 DEF SetMax
  <2>2. \A t \in Threads : \/ pc'[t] = pc[t]
                           \/ pc[t] \in {"none", "waiting"} /\ pc'[t] \in {"created", "apply"}
    BY <2>1, NewThreadsProperties DEF Woken, Started
  <2>3. QED
    BY <1>10, <2>2 DEF SetMax
<1>11. CASE Reschedule(u)
  BY <1>1, <1>11 DEF Reschedule
<1>12. CASE ShutDown(u)
  BY <1>12 DEF ShutDown
<1>13. CASE EnqueueJob(u)
  BY <1>2, <1>13 DEF EnqueueJob
<1>14. CASE FinishCheck(u)
  BY <1>14 DEF FinishCheck
<1>15. CASE FinishTimeout(u)
  BY <1>1, <1>15 DEF FinishTimeout
<1>16. CASE SuspendSet(u)
  BY <1>3, <1>16 DEF SuspendSet, StateIds
<1>17. CASE ResumeSet(u)
  BY <1>3, <1>17 DEF ResumeSet, StateIds
<1>18. CASE SdAcquire(u)
  BY <1>18 DEF SdAcquire
<1>19. CASE SdFinish(u)
  BY <1>19 DEF SdFinish
<1>20. CASE SdFinishTimeout(u)
  BY <1>1, <1>20 DEF SdFinishTimeout
<1>21. CASE SdSuspend(u)
  BY <1>21 DEF SdSuspend
<1>22. CASE SdSuspendSet(u)
  BY <1>3, <1>22 DEF SdSuspendSet, StateIds
<1>23. CASE SdSet(u)
  BY <1>3, <1>23 DEF SdSet, StateIds
<1>24. CASE SdReschedule(u)
  BY <1>1, <1>24 DEF SdReschedule
<1>25. CASE SdTake(u)
  BY <1>25 DEF SdTake
<1>26. CASE SdWake(u)
  BY <1>1, <1>26 DEF SdWake
<1>27. CASE SdDelete(u)
  BY <1>27 DEF SdDelete, Typed, TypeOK
<1>28. CASE SdDestruct(u)
  BY <1>3, <1>28 DEF SdDestruct, StateIds
<1>29. QED
  BY <1>4, <1>5, <1>6, <1>7, <1>8, <1>9, <1>10, <1>11, <1>12, <1>13, <1>14, <1>15, <1>16,
     <1>17, <1>18, <1>19, <1>20, <1>21, <1>22, <1>23, <1>24, <1>25, <1>26, <1>27, <1>28
  DEF ApiCall, CallStep

-------------------------------------------------------------------------------
(***************************************************************************)
(* The number of active jobs is exact, and a queue that is suspended or    *)
(* shutting down executes nothing.                                         *)
(*                                                                         *)
(* These parts of the invariant hold each other up: a thread that reports  *)
(* back is one of those counted (ThreadInv), the state Suspended is        *)
(* entered when the count says zero, and shutDown() relies on the idleness *)
(* its finish() has seen (ClosingInv).                                     *)
(***************************************************************************)

ActiveInv == Typed /\ ThreadInv /\ ActiveCount /\ ClosingInv /\ SuspendedMeansIdle

BusyThreads == {t \in Threads : Busy(t)}

LEMMA CountZero ==
  ASSUME NEW S \in SUBSET Threads
  PROVE  IsFiniteSet(S) /\ Cardinality(S) \in Nat /\ (Cardinality(S) = 0 <=> S = {})
BY ThreadsAssumption, FS_Subset, FS_EmptySet, FS_CardinalityType

LEMMA ActiveInit == Init => ActiveInv
<1> SUFFICES ASSUME Init PROVE ActiveInv
  OBVIOUS
<1>1. Typed
  BY TypedInit
<1>2. ThreadInv /\ ClosingInv /\ SuspendedMeansIdle
  BY DEF Init, ThreadInv, ClosingInv, SuspendedMeansIdle, Closing, ClosedToJobs
<1>3. ActiveCount
  <2>1. BusyThreads = {} /\ active = 0
    BY DEF Init, BusyThreads, Busy
  <2>2. QED
    BY <2>1, FS_EmptySet DEF ActiveCount, BusyThreads
<1>4. QED
  BY <1>1, <1>2, <1>3 DEF ActiveInv

-------------------------------------------------------------------------------
(* Steps of the threads *)

(* Steps that change neither job nor wasBusy of anybody keep the count.    *)
LEMMA CountFrame ==
  ASSUME ActiveCount, UNCHANGED <<job, wasBusy, active>>
  PROVE  ActiveCount'
BY DEF ActiveCount, Busy

LEMMA BeginTakeCount ==
  ASSUME Typed, ThreadInv, ActiveCount, NEW t \in Threads,
         NEW next \in {"apply", "exiting", "scan", "waitCall"}, NEW leaving,
         pc[t] \in {"takeWork", "takeSuspending"}, BeginTake(t, next, leaving)
  PROVE  /\ ThreadInv' /\ ActiveCount'
         /\ active = 0 => active' = 0
<1> DEFINE new == NewThreads(1, inventoryMax)
<1>1. \A x \in new : pc[x] = "none"
  BY NewThreadsProperties
<1>2. /\ pc' = [x \in Threads |-> IF x = t THEN next
                                 ELSE IF x \in expired THEN "none"
                                 ELSE IF x \in new THEN "created" ELSE pc[x]]
      /\ wasBusy' = [wasBusy EXCEPT ![t] = FALSE]
      /\ job' = job
      /\ \A x \in expired : pc[x] = "exited"
  BY DEF BeginTake
<1> HIDE DEF new
<1>3. ThreadInv'
  <2>1. SUFFICES ASSUME NEW s \in Threads
                 PROVE  /\ job'[s] # NoJob <=> pc'[s] \in {"assigned", "running", "ending"}
                        /\ wasBusy'[s] => pc'[s] \in {"running", "ending", "apply", "takeWork",
                                                      "takeSuspending"}
                        /\ pc'[s] \in {"running", "ending"} => wasBusy'[s]
    BY DEF ThreadInv
  <2>2. CASE s = t
    BY <1>2, <2>2 DEF ThreadInv, Typed, TypeOK
  <2>3. CASE s # t
    BY <1>1, <1>2, <2>3 DEF ThreadInv, Typed, TypeOK
  <2>4. QED
    BY <2>2, <2>3
<1>4. job[t] = NoJob
  BY DEF ThreadInv
<1>5. CASE wasBusy[t]
  <2>1. BusyThreads' = BusyThreads \ {t} /\ t \in BusyThreads
    BY <1>2, <1>4, <1>5 DEF BusyThreads, Busy, Typed, TypeOK
  <2>2. IsFiniteSet(BusyThreads) /\ (Cardinality(BusyThreads) = 0 <=> BusyThreads = {})
    BY CountZero DEF BusyThreads
  <2>3. Cardinality(BusyThreads') = Cardinality(BusyThreads) - 1
    BY <2>1, <2>2, FS_RemoveElement
  <2>4. active' = active - 1
    BY <1>5 DEF BeginTake, ReportBack
  <2>5. QED
    BY <1>3, <2>1, <2>2, <2>3, <2>4 DEF ActiveCount, BusyThreads
<1>6. CASE ~ wasBusy[t]
  <2>1. active' = active
    BY <1>6 DEF BeginTake, ReportBack
  <2>2. wasBusy' = wasBusy
    BY <1>2, <1>6 DEF Typed, TypeOK
  <2>3. QED
    BY <1>2, <1>3, <2>1, <2>2, CountFrame
<1>7. QED
  BY <1>5, <1>6

LEMMA ThreadStepCount ==
  ASSUME ActiveInv, NEW t \in Threads, LockFreeStep(t) \/ LockingStep(t)
  PROVE  /\ ThreadInv' /\ ActiveCount'
         /\ active = 0 /\ active' # 0 => state = "WorkingHard" /\ assignments # <<>>
<1> USE DEF weaverVars, queueVars, threadVars, jobVars, shutVars
<1> Typed /\ ThreadInv /\ ActiveCount /\ SuspendedMeansIdle
  BY DEF ActiveInv
<1>1. CASE EnterRun(t) \/ ApplyForWork(t) \/ WaitCall(t) \/ Exit(t) \/ Block(t)
  <2>1. UNCHANGED <<job, wasBusy, active>>
    BY <1>1 DEF EnterRun, ApplyForWork, WaitCall, Exit, Block
  <2>2. /\ \A s \in Threads \ {t} : pc'[s] = pc[s]
        /\ pc[t] \in {"created", "apply", "waitCall", "exiting", "block"}
    BY <1>1 DEF EnterRun, ApplyForWork, WaitCall, Exit, Block, Typed, TypeOK
  <2>3. pc'[t] \notin {"assigned", "running", "ending"}
    BY <1>1 DEF EnterRun, ApplyForWork, WaitCall, Exit, Block, Typed, TypeOK
  <2>4. ASSUME wasBusy[t] PROVE pc'[t] \in {"takeWork", "takeSuspending"}
    <3>1. ApplyForWork(t)
      BY <1>1, <2>4 DEF EnterRun, WaitCall, Exit, Block, ThreadInv
    <3>2. state \in {"WorkingHard", "Suspending"}
      BY <2>4 DEF SuspendedMeansIdle, Busy, Typed, TypeOK, StateIds
    <3>3. QED
      BY <3>1, <3>2 DEF ApplyForWork, Typed, TypeOK
  <2>5. QED
    BY <2>1, <2>2, <2>3, <2>4, CountFrame DEF ThreadInv
<1>2. CASE BeginRun(t) \/ FinishRun(t) \/ EndJob(t)
  <2>1. active' = active
    BY <1>2 DEF BeginRun, FinishRun, EndJob
  <2>2. \A s \in Threads \ {t} : pc'[s] = pc[s] /\ job'[s] = job[s] /\ wasBusy'[s] = wasBusy[s]
    BY <1>2 DEF BeginRun, FinishRun, EndJob, Typed, TypeOK
  <2>3. /\ job'[t] # NoJob <=> pc'[t] \in {"assigned", "running", "ending"}
        /\ wasBusy'[t]
        /\ pc'[t] \in {"running", "ending", "apply"}
        /\ Busy(t)
    BY <1>2 DEF BeginRun, FinishRun, EndJob, Typed, TypeOK, ThreadInv, Busy
  <2>4. ThreadInv'
    BY <2>2, <2>3 DEF ThreadInv
  <2>5. BusyThreads' = BusyThreads
    BY <2>2, <2>3 DEF BusyThreads, Busy
  <2>6. QED
    BY <2>1, <2>4, <2>5 DEF ActiveCount, BusyThreads
<1>3. CASE ExamineTake(t)
  <2>1. cursor \in 1..Len(assignments) /\ pc[t] = "scan"
    BY <1>3 DEF ExamineTake, Typed, TypeOK, MutexInv
  <2>2. assignments[cursor] \in Jobs /\ assignments # <<>>
    BY <2>1 DEF Typed, TypeOK
  <2>3. /\ job' = [job EXCEPT ![t] = assignments[cursor]] /\ wasBusy' = wasBusy
        /\ pc' = [pc EXCEPT ![t] = "assigned"] /\ active' = active + 1
    BY <1>3 DEF ExamineTake
  <2>4. ~ Busy(t)
    BY <2>1 DEF ThreadInv, Busy
  <2>5. ThreadInv'
    BY <2>2, <2>3, <2>1, JobsAssumption DEF ThreadInv, Typed, TypeOK
  <2>6. BusyThreads' = BusyThreads \cup {t} /\ t \notin BusyThreads
    BY <2>2, <2>3, <2>4, JobsAssumption DEF BusyThreads, Busy, Typed, TypeOK
  <2>7. Cardinality(BusyThreads') = Cardinality(BusyThreads) + 1
    BY <2>6, CountZero, FS_AddElement DEF BusyThreads
  <2>8. QED
    BY <2>1, <2>2, <2>3, <2>5, <2>7 DEF ActiveCount, BusyThreads, Typed, MutexInv
<1>4. CASE ExaminePass(t) \/ ScanWait(t)
  <2>1. UNCHANGED <<job, wasBusy, active>>
    BY <1>4 DEF ExaminePass, ScanWait
  <2>2. /\ \A s \in Threads \ {t} : pc'[s] = pc[s]
        /\ pc[t] = "scan" /\ pc'[t] \in {"scan", "waiting"}
    BY <1>4 DEF ExaminePass, ScanWait, Typed, TypeOK
  <2>3. QED
    BY <2>1, <2>2, CountFrame DEF ThreadInv
<1>5. CASE TakeReturn(t) \/ TakeExpire(t) \/ TakeScan(t) \/ TakeSuspending(t)
  BY <1>5, BeginTakeCount DEF TakeReturn, TakeExpire, TakeScan, TakeSuspending
<1>6. QED
  BY <1>1, <1>2, <1>3, <1>4, <1>5 DEF LockFreeStep, LockingStep

(* Waking those in finish() brings nobody closer to the end of shutDown(). *)
LEMMA FinishersWokenClosing ==
  ASSUME Typed, ClosingInv, upc' = FinishersWoken \/ upc' = upc,
         assignments' = assignments, active = 0 => active' = 0
  PROVE  ClosingInv'
<1>1. \A u \in Users : /\ upc'[u] \in Closing <=> upc[u] \in Closing
                       /\ upc'[u] \in ClosedToJobs <=> upc[u] \in ClosedToJobs
                       /\ upc'[u] = "ready" <=> upc[u] = "ready"
  BY DEF FinishersWoken, Closing, ClosedToJobs, Typed, TypeOK
<1>2. QED
  BY <1>1 DEF ClosingInv

LEMMA ThreadStepActive ==
  ASSUME ActiveInv, NEW t \in Threads, LockFreeStep(t) \/ LockingStep(t)
  PROVE  ClosingInv' /\ SuspendedMeansIdle'
<1> USE DEF weaverVars, queueVars, threadVars, jobVars, shutVars
<1>1. /\ ActiveCount' /\ ThreadInv'
      /\ active = 0 /\ active' # 0 => state = "WorkingHard" /\ assignments # <<>>
  BY ThreadStepCount
<1>2. (\A s \in Threads : ~ Busy(s)') <=> active' = 0
  <2>1. BusyThreads' = {} <=> Cardinality(BusyThreads') = 0
    BY CountZero DEF BusyThreads
  <2>2. QED
    BY <1>1, <2>1 DEF ActiveCount, BusyThreads
<1>3. CASE ExamineTake(t)
  <2>1. cursor \in 1..Len(assignments) /\ state = "WorkingHard" /\ state' = state /\ upc' = upc
    BY <1>3 DEF ExamineTake, ActiveInv, Typed, TypeOK, MutexInv
  <2>2. assignments # <<>>
    BY <2>1 DEF ActiveInv, Typed, TypeOK
  <2>3. \A u \in Users : upc[u] \notin ClosedToJobs
    BY <2>2 DEF ActiveInv, ClosingInv
  <2>4. QED
    BY <2>1, <2>3 DEF ActiveInv, ClosingInv, SuspendedMeansIdle
<1>4. CASE ~ ExamineTake(t)
  <2>1. assignments' = assignments /\ (upc' = FinishersWoken \/ upc' = upc)
    BY <1>4 DEF LockFreeStep, LockingStep, EnterRun, ApplyForWork, WaitCall, BeginRun, FinishRun,
                EndJob, Exit, ExaminePass, ScanWait, TakeReturn, TakeExpire, TakeScan,
                TakeSuspending, BeginTake, ReportBack, Block
  <2>2. active = 0 => active' = 0
    <3>1. CASE LockFreeStep(t) \/ Block(t)
      BY <1>4, <3>1 DEF LockFreeStep, EnterRun, ApplyForWork, WaitCall, BeginRun, FinishRun,
                        EndJob, Exit, ExaminePass, ScanWait, Block
    <3>2. CASE LockingStep(t) /\ ~ Block(t)
      BY <3>2, BeginTakeCount DEF LockingStep, TakeReturn, TakeExpire, TakeScan, TakeSuspending,
                                  ActiveInv
    <3>3. QED
      BY <3>1, <3>2
  <2>3. ClosingInv'
    BY <2>1, <2>2, FinishersWokenClosing DEF ActiveInv
  <2>4. state' = state \/ active' = 0
    BY <1>4 DEF LockFreeStep, LockingStep, EnterRun, ApplyForWork, WaitCall, BeginRun, FinishRun,
                EndJob, Exit, ExaminePass, ScanWait, TakeReturn, TakeExpire, TakeScan,
                TakeSuspending, NowSuspended, Block
  <2>5. QED
    BY <1>2, <2>2, <2>3, <2>4 DEF ActiveInv, SuspendedMeansIdle
<1>5. QED
  BY <1>3, <1>4

-------------------------------------------------------------------------------
(* Steps of the users *)

LEMMA UserStepCount ==
  ASSUME Typed, ThreadInv, ActiveCount, UserFrame
  PROVE  ThreadInv' /\ ActiveCount'
<1>1. ActiveCount'
  BY CountFrame DEF UserFrame
<1>2. ASSUME NEW t \in Threads
      PROVE  /\ job'[t] # NoJob <=> pc'[t] \in {"assigned", "running", "ending"}
             /\ wasBusy'[t] => pc'[t] \in {"running", "ending", "apply", "takeWork",
                                           "takeSuspending"}
             /\ pc'[t] \in {"running", "ending"} => wasBusy'[t]
  BY DEF UserFrame, ThreadInv
<1>3. QED
  BY <1>1, <1>2 DEF ThreadInv

LEMMA UserStepClosing ==
  ASSUME ActiveInv, NEW u \in Users, ApiCall(u) \/ CallStep(u)
  PROVE  ClosingInv'
<1> USE DEF MayCall, Open
<1> Typed /\ ClosingInv
  BY DEF ActiveInv
<1>1. upc \in [Users -> UserSteps] /\ active' = active
  BY UserStepFrame DEF UserFrame, Typed, TypeOK
<1>2. ASSUME \A v \in Users : upc'[v] \notin Closing PROVE ClosingInv'
  BY <1>2 DEF ClosingInv, ClosedToJobs
<1>3. CASE ApiCall(u) /\ ~ ShutDown(u)
  <2>1. \A v \in Users : upc[v] \notin Closing
    BY <1>3 DEF ApiCall, Enqueue, DequeueJob, DequeueAll, Finish, Suspend, Resume, SetMax,
                Reschedule, Closing
  <2>2. CASE upc' = FinishersWoken
    BY <1>1, <1>2, <2>1, <2>2 DEF FinishersWoken, Closing
  <2>3. CASE \E x \in {"ready", "enqueueing", "finishWait", "suspendSet", "resumeSet"} :
               upc' = [upc EXCEPT ![u] = x]
    BY <1>1, <1>2, <2>1, <2>3 DEF Closing
  <2>4. CASE upc' = upc
    BY <1>2, <2>1, <2>4
  <2>5. QED
    BY <1>3, <2>2, <2>3, <2>4 DEF ApiCall, Enqueue, DequeueJob, DequeueAll, Finish, Suspend,
                                  Resume, SetMax, Reschedule
<1>4. CASE ShutDown(u)
  BY <1>1, <1>4 DEF ShutDown, ClosingInv, Closing, ClosedToJobs
<1>5. CASE CallStep(u) /\ upc[u] \notin Closing
  <2>1. \A v \in Users : upc[v] \notin Closing
    BY <1>5 DEF CallStep, EnqueueJob, FinishCheck, FinishTimeout, SuspendSet, ResumeSet,
                SdAcquire, SdFinish, SdFinishTimeout, SdSuspend, SdSuspendSet, SdSet,
                SdReschedule, SdTake, SdWake, SdDelete, SdDestruct, Closing, ClosingInv
  <2>2. upc' = upc \/ \E x \in {"ready", "finishWait"} : upc' = [upc EXCEPT ![u] = x]
    BY <1>5 DEF CallStep, EnqueueJob, FinishCheck, FinishTimeout, SuspendSet, ResumeSet,
                SdAcquire, SdFinish, SdFinishTimeout, SdSuspend, SdSuspendSet, SdSet,
                SdReschedule, SdTake, SdWake, SdDelete, SdDestruct, Closing
  <2>3. QED
    BY <1>1, <1>2, <2>1, <2>2 DEF Closing
<1>6. CASE CallStep(u) /\ upc[u] \in Closing
  <2>1. \A v \in Users \ {u} : upc[v] = "ready"
    BY <1>6 DEF ClosingInv
  <2>2. /\ assignments' = assignments
        /\ \E x \in Closing : upc' = [upc EXCEPT ![u] = x]
    BY <1>1, <1>6 DEF CallStep, EnqueueJob, FinishCheck, FinishTimeout, SuspendSet, ResumeSet,
                SdAcquire, SdFinish, SdFinishTimeout, SdSuspend, SdSuspendSet, SdSet,
                SdReschedule, SdTake, SdWake, SdDelete, SdDestruct, Closing, queueVars
  <2>3. upc'[u] \in ClosedToJobs => upc[u] \in ClosedToJobs \/ IsIdle
    BY <1>1, <1>6 DEF CallStep, EnqueueJob, FinishCheck, FinishTimeout, SuspendSet, ResumeSet,
                SdAcquire, SdFinish, SdFinishTimeout, SdSuspend, SdSuspendSet, SdSet,
                SdReschedule, SdTake, SdWake, SdDelete, SdDestruct, Closing, ClosedToJobs
  <2>4. \A v \in Users \ {u} : upc'[v] = "ready"
    BY <1>1, <2>1, <2>2
  <2>5. QED
    BY <1>1, <2>2, <2>3, <2>4 DEF ClosingInv, IsIdle, Closing, ClosedToJobs
<1>7. QED
  BY <1>3, <1>4, <1>5, <1>6

LEMMA UserStepActive ==
  ASSUME ActiveInv, NEW u \in Users, ApiCall(u) \/ CallStep(u)
  PROVE  SuspendedMeansIdle'
<1>1. UserFrame
  BY UserStepFrame DEF ActiveInv
<1>2. CASE SuspendedMeansIdle'
  BY <1>2
<1>3. CASE state' # state
  <2>1. SetState("Suspending") \/ SetState("WorkingHard") \/ upc[u] \in ClosedToJobs
    BY <1>3 DEF ApiCall, Enqueue, DequeueJob, DequeueAll, Finish, Suspend, Resume, SetMax,
                Reschedule, ShutDown, CallStep, EnqueueJob, FinishCheck, FinishTimeout,
                SuspendSet, ResumeSet, SdAcquire, SdFinish, SdFinishTimeout, SdSuspend,
                SdSuspendSet, SdSet, SdReschedule, SdTake, SdWake, SdDelete, SdDestruct,
                Closing, ClosedToJobs
  <2>2. CASE upc[u] \in ClosedToJobs
    <3>1. active = 0
      BY <2>2 DEF ActiveInv, ClosingInv
    <3>2. BusyThreads = {}
      BY <3>1, CountZero DEF ActiveInv, ActiveCount, BusyThreads
    <3>3. QED
      BY <1>1, <3>1, <3>2 DEF SuspendedMeansIdle, UserFrame, BusyThreads, Busy
  <2>3. CASE upc[u] \notin ClosedToJobs
    BY <2>1, <2>3 DEF SetState, SuspendedMeansIdle
  <2>4. QED
    BY <2>2, <2>3
<1>4. CASE state' = state
  BY <1>1, <1>4 DEF ActiveInv, SuspendedMeansIdle, UserFrame, Busy
<1>5. QED
  BY <1>3, <1>4

LEMMA ActiveStep == ActiveInv /\ [Next]_vars => ActiveInv'
<1> SUFFICES ASSUME ActiveInv, [Next]_vars PROVE ActiveInv'
  OBVIOUS
<1>1. CASE UNCHANGED vars
  BY <1>1, TypedStutter DEF ActiveInv, ThreadInv, ActiveCount, Busy, ClosingInv,
     SuspendedMeansIdle, vars, weaverVars, queueVars, threadVars
<1>2. ASSUME NEW t \in Threads, LockFreeStep(t) \/ LockingStep(t) PROVE ActiveInv'
  BY <1>2, TypedLockFree, TypedLocking, ThreadStepCount, ThreadStepActive DEF ActiveInv
<1>3. ASSUME NEW u \in Users, ApiCall(u) \/ CallStep(u) PROVE ActiveInv'
  BY <1>3, TypedApiCall, TypedCallStep, UserStepFrame, UserStepCount, UserStepClosing,
     UserStepActive DEF ActiveInv
<1>4. QED
  BY <1>1, <1>2, <1>3 DEF Next

LEMMA ActiveInvariant == Spec => []ActiveInv
  BY ActiveInit, ActiveStep, PTL DEF Spec

(* The count that decides whether finish() returns and whether Suspending  *)
(* becomes Suspended is exact: no job is forgotten or counted twice, even  *)
(* though a thread reports back long after its job has ended.              *)
THEOREM ActiveIsExact == Spec => []ActiveCount
<1>1. ActiveInv => ActiveCount
  BY DEF ActiveInv
<1>2. QED
  BY <1>1, ActiveInvariant, PTL

(* Nothing is executed in a queue that is suspended or shutting down: the  *)
(* asserts of SuspendedState and ShuttingDownState::applyForWork().        *)
THEOREM SuspendedIsIdle == Spec => []SuspendedMeansIdle
<1>1. ActiveInv => SuspendedMeansIdle
  BY DEF ActiveInv
<1>2. QED
  BY <1>1, ActiveInvariant, PTL

(* A thread gets a job only from a queue that works: the state cannot      *)
(* change while a scan is under way.                                       *)
THEOREM HandOutWhileWorking == Spec => HandsOutOnlyWhileWorking
<1> DEFINE A == \A t \in Threads : job[t] = NoJob /\ job'[t] # NoJob => state = "WorkingHard"
<1>1. ActiveInv /\ [Next]_vars => [A]_vars
  <2> SUFFICES ASSUME ActiveInv, Next PROVE A
    OBVIOUS
  <2>1. ASSUME NEW t \in Threads, LockFreeStep(t) \/ LockingStep(t) PROVE A
    <3>1. CASE ExamineTake(t)
      BY <3>1 DEF ExamineTake, ActiveInv, Typed, MutexInv
    <3>2. CASE EndJob(t)
      BY <3>2 DEF EndJob, ActiveInv, Typed, TypeOK
    <3>3. CASE UNCHANGED job
      BY <3>3
    <3>4. QED
      BY <2>1, <3>1, <3>2, <3>3
      DEF LockFreeStep, LockingStep, EnterRun, ApplyForWork, WaitCall, BeginRun, FinishRun, Exit,
          ExaminePass, ScanWait, TakeReturn, TakeExpire, TakeScan, TakeSuspending, BeginTake,
          Block, threadVars
  <2>2. ASSUME NEW u \in Users, ApiCall(u) \/ CallStep(u) PROVE A
    BY <2>2, UserStepFrame DEF UserFrame, ActiveInv
  <2>3. QED
    BY <2>1, <2>2 DEF Next
<1>2. QED
  BY <1>1, ActiveInvariant, PTL DEF Spec, HandsOutOnlyWhileWorking

-------------------------------------------------------------------------------
(* The state of the weaver follows the steps of shutDown() *)

LEMMA ThreadStepState ==
  ASSUME Typed, NEW t \in Threads, LockFreeStep(t) \/ LockingStep(t)
  PROVE  /\ state' = state \/ (state = "Suspending" /\ state' = "Suspended")
         /\ upc' = upc \/ upc' = FinishersWoken
<1>1. CASE TakeSuspending(t)
  <2>1. state' = IF active' = 0 /\ state = "Suspending" THEN "Suspended" ELSE state
    BY <1>1 DEF TakeSuspending, NowSuspended
  <2>2. upc' = upc \/ upc' = FinishersWoken
    BY <1>1 DEF TakeSuspending, BeginTake, ReportBack
  <2>3. QED
    BY <1>1, <2>1, <2>2
<1>2. CASE TakeReturn(t) \/ TakeExpire(t) \/ TakeScan(t)
  BY <1>2 DEF TakeReturn, TakeExpire, TakeScan, BeginTake, ReportBack
<1>3. CASE LockFreeStep(t) \/ Block(t)
  BY <1>3 DEF LockFreeStep, EnterRun, ApplyForWork, WaitCall, BeginRun, FinishRun, EndJob, Exit,
              ExamineTake, ExaminePass, ScanWait, Block
<1>4. QED
  BY <1>1, <1>2, <1>3 DEF LockingStep

LEMMA ShutStateThread ==
  ASSUME Typed, ShutStateInv, NEW t \in Threads, LockFreeStep(t) \/ LockingStep(t)
  PROVE  ShutStateInv'
<1>1. \A u \in Users : /\ upc'[u] = "sdSet" <=> upc[u] = "sdSet"
                       /\ upc'[u] \in AfterSet <=> upc[u] \in AfterSet
  BY ThreadStepState DEF FinishersWoken, AfterSet, Typed, TypeOK
<1>2. QED
  BY <1>1, ThreadStepState DEF ShutStateInv

LEMMA ShutStateUser ==
  ASSUME Typed, ClosingInv, ShutStateInv, NEW u \in Users, ApiCall(u) \/ CallStep(u)
  PROVE  ShutStateInv'
<1> USE DEF MayCall, Open
<1>1. upc \in [Users -> UserSteps] /\ state \in StateIds
  BY DEF Typed, TypeOK
<1>2. CASE \A v \in Users : upc[v] \notin Closing
  <2>1. state \notin {"ShuttingDown", "Destructed"}
    BY <1>2 DEF ShutStateInv, Closing, AfterSet
  <2>2. \A v \in Users : upc'[v] \notin {"sdSet"} \cup AfterSet
    <3>1. CASE ApiCall(u)
      BY <1>1, <1>2, <3>1 DEF ApiCall, Enqueue, DequeueJob, DequeueAll, Finish, Suspend, Resume,
         SetMax, Reschedule, ShutDown, FinishersWoken, Closing, AfterSet
    <3>2. CASE CallStep(u)
      BY <1>1, <1>2, <3>2 DEF CallStep, EnqueueJob, FinishCheck, FinishTimeout, SuspendSet,
         ResumeSet, SdAcquire, SdFinish, SdFinishTimeout, SdSuspend, SdSuspendSet, SdSet,
         SdReschedule, SdTake, SdWake, SdDelete, SdDestruct, Closing, AfterSet
    <3>3. QED
      BY <3>1, <3>2
  <2>3. state' \in {state, "Suspending", "WorkingHard"}
    <3>1. CASE ApiCall(u)
      BY <3>1 DEF ApiCall, Enqueue, DequeueJob, DequeueAll, Finish, Suspend, Resume, SetMax,
         Reschedule, ShutDown
    <3>2. CASE CallStep(u)
      BY <1>2, <3>2 DEF CallStep, EnqueueJob, FinishCheck, FinishTimeout, SuspendSet,
         ResumeSet, SdAcquire, SdFinish, SdFinishTimeout, SdSuspend, SdSuspendSet, SdSet,
         SdReschedule, SdTake, SdWake, SdDelete, SdDestruct, SetState, Closing
    <3>3. QED
      BY <3>1, <3>2
  <2>4. QED
    BY <2>1, <2>2, <2>3 DEF ShutStateInv, AfterSet
<1>3. CASE \E v \in Users : upc[v] \in Closing
  <2>1. CallStep(u)
    BY <1>3 DEF ApiCall, Enqueue, DequeueJob, DequeueAll, Finish, Suspend, Resume, SetMax,
       Reschedule, ShutDown, Closing
  <2>2. upc[u] # "ready"
    BY <2>1 DEF CallStep, EnqueueJob, FinishCheck, FinishTimeout, SuspendSet, ResumeSet,
       SdAcquire, SdFinish, SdFinishTimeout, SdSuspend, SdSuspendSet, SdSet, SdReschedule,
       SdTake, SdWake, SdDelete, SdDestruct
  <2>3. upc[u] \in Closing /\ \A v \in Users \ {u} : upc[v] = "ready"
    BY <1>3, <2>2 DEF ClosingInv
  <2>4. upc[u] \in AfterSet <=> state \in {"ShuttingDown", "Destructed"}
    BY <2>3 DEF ShutStateInv, AfterSet
  <2>5. \A v \in Users \ {u} : upc'[v] = upc[v]
    BY <1>1, <2>1 DEF CallStep, EnqueueJob, FinishCheck, FinishTimeout, SuspendSet, ResumeSet,
       SdAcquire, SdFinish, SdFinishTimeout, SdSuspend, SdSuspendSet, SdSet, SdReschedule,
       SdTake, SdWake, SdDelete, SdDestruct
  <2>6. /\ upc'[u] = "sdSet" => state' \in {"Suspending", "Suspended"}
        /\ upc'[u] \in AfterSet <=> state' \in {"ShuttingDown", "Destructed"}
    <3>1. CASE upc[u] \in AfterSet
      BY <1>1, <2>1, <2>4, <3>1 DEF CallStep, EnqueueJob, FinishCheck, FinishTimeout, SuspendSet,
         ResumeSet, SdAcquire, SdFinish, SdFinishTimeout, SdSuspend, SdSuspendSet, SdSet,
         SdReschedule, SdTake, SdWake, SdDelete, SdDestruct, SetState, AfterSet
    <3>2. CASE upc[u] = "sdSet"
      BY <1>1, <2>1, <3>2 DEF CallStep, EnqueueJob, FinishCheck, FinishTimeout, SuspendSet,
         ResumeSet, SdAcquire, SdFinish, SdFinishTimeout, SdSuspend, SdSuspendSet, SdSet,
         SdReschedule, SdTake, SdWake, SdDelete, SdDestruct, SetState, AfterSet
    <3>3. CASE upc[u] \in {"sdAcquire", "sdFinish", "sdFinishWait", "sdSuspend", "sdSuspendSet"}
      <4>1. state \in {"WorkingHard", "Suspending", "Suspended"}
        BY <1>1, <2>4, <3>3 DEF AfterSet, StateIds
      <4>2. QED
        BY <1>1, <2>1, <3>3, <4>1 DEF CallStep, EnqueueJob, FinishCheck, FinishTimeout,
           SuspendSet, ResumeSet, SdAcquire, SdFinish, SdFinishTimeout, SdSuspend, SdSuspendSet,
           SdSet, SdReschedule, SdTake, SdWake, SdDelete, SdDestruct, SetState, AfterSet
    <3>4. QED
      BY <2>3, <3>1, <3>2, <3>3 DEF Closing, AfterSet
  <2>7. QED
    BY <2>3, <2>5, <2>6 DEF ShutStateInv, AfterSet
<1>4. QED
  BY <1>2, <1>3

LEMMA ShutStateInvariant == Spec => []ShutStateInv
<1>1. Init => ShutStateInv
  BY DEF Init, ShutStateInv, AfterSet
<1>2. ActiveInv /\ ShutStateInv /\ [Next]_vars => ShutStateInv'
  <2> SUFFICES ASSUME ActiveInv, ShutStateInv, [Next]_vars PROVE ShutStateInv'
    OBVIOUS
  <2>1. CASE UNCHANGED vars
    BY <2>1 DEF ShutStateInv, vars
  <2>2. CASE Next
    BY <2>2, ShutStateThread, ShutStateUser DEF Next, ActiveInv
  <2>3. QED
    BY <2>1, <2>2
<1>3. QED
  BY <1>1, <1>2, ActiveInvariant, PTL DEF Spec

-------------------------------------------------------------------------------
(***************************************************************************)
(* Threads come and go through the inventory only, which never outgrows    *)
(* its maximum; shutDown() leaves at most an expired thread behind; and in *)
(* a program that never calls suspend() no job is abandoned.               *)
(***************************************************************************)

-------------------------------------------------------------------------------
(* The threads adjustInventory() starts *)

(* There is room for all of them: their ranks among the unused threads are *)
(* different numbers below what is reserved.                               *)
LEMMA NewThreadsFit ==
  ASSUME Typed, NEW n \in Int, NEW max \in Int, NewThreads(n, max) # {}
  PROVE  Cardinality(inventory) + Cardinality(NewThreads(n, max)) <= max
<1> DEFINE unused == {t \in Threads : pc[t] = "none"}
           below(t) == {s \in unused : s < t}
           count == IF Reserve(max) < n THEN Reserve(max) ELSE n
           new == {t \in unused : Cardinality(below(t)) < count}
           rank == [t \in new |-> Cardinality(below(t))]
<1>1. new = NewThreads(n, max)
  BY DEF NewThreads
<1>2. Cardinality(inventory) \in Nat
  BY CountZero DEF Typed, TypeOK
<1>3. count \in Int /\ count <= max - Cardinality(inventory)
  BY <1>2 DEF Reserve
<1> HIDE DEF count
<1>4. new \subseteq unused /\ unused \subseteq Threads /\ unused \subseteq Nat
  BY ThreadsAssumption
<1>5. \A t \in Threads : IsFiniteSet(below(t)) /\ Cardinality(below(t)) \in Nat
  BY CountZero
<1>6. IsFiniteSet(new) /\ Cardinality(new) \in Nat
  BY CountZero
<1>7. count > 0 /\ rank \in [new -> 0..count - 1]
  <2>1. \A s \in new : /\ Cardinality(below(s)) \in Nat
                       /\ Cardinality(below(s)) < count
    BY <1>4, <1>5
  <2>2. \E s \in new : TRUE
    BY <1>1
  <2> HIDE DEF new, below
  <2>3. QED
    BY <1>3, <2>1, <2>2
<1>8. ASSUME NEW s \in unused, NEW t \in unused, s < t
      PROVE  Cardinality(below(s)) # Cardinality(below(t))
  <2>1. s \in Nat /\ t \in Nat /\ t \in Threads
    BY <1>4
  <2>2. below(s) \subseteq below(t)
    <3>1. \A x \in unused : x < s => x < t
      BY <1>4, <1>8, <2>1
    <3>2. QED
      BY <3>1
  <2>3. s \in below(t) /\ s \notin below(s)
    BY <1>8, <2>1
  <2>4. IsFiniteSet(below(t))
    BY <1>5, <2>1
  <2> HIDE DEF below
  <2>5. QED
    BY <2>2, <2>3, <2>4, FS_Subset
<1>9. \A s, t \in new : rank[s] = rank[t] => s = t
  <2>1. \A s, t \in new : s < t \/ t < s \/ s = t
    BY <1>4
  <2>2. \A s \in new : s \in unused /\ rank[s] = Cardinality(below(s))
    BY <1>4
  <2> HIDE DEF new, rank, below, unused
  <2>3. QED
    BY <1>8, <2>1, <2>2
<1>10. IsFiniteSet(0..count - 1) /\ Cardinality(0..count - 1) = count
  <2>1. count - 1 \in Int /\ ~ 0 > count - 1
    BY <1>3, <1>7
  <2>2. Cardinality(0..count - 1) = count - 1 - 0 + 1
    BY <2>1, FS_Interval
  <2>3. QED
    BY <1>3, <2>1, <2>2, FS_Interval
<1> HIDE DEF new, rank
<1>11. Cardinality(new) <= count
  <2>1. ASSUME Cardinality(0..count - 1) < Cardinality(new)
        PROVE  \E s, t \in new : s # t /\ rank[s] = rank[t]
    BY <1>6, <1>7, <1>10, <2>1, FS_PigeonHole
  <2>2. QED
    BY <1>3, <1>6, <1>9, <1>10, <2>1
<1>12. QED
  <2>1. Cardinality(inventory) + Cardinality(new) <= max
    BY <1>2, <1>3, <1>6, <1>11
  <2>2. QED
    BY <1>1, <2>1

LEMMA GrownInventory ==
  ASSUME Typed, NEW n \in Int, NEW max \in Int
  PROVE  \/ NewThreads(n, max) = {}
         \/ Cardinality(inventory \cup NewThreads(n, max)) <= max
<1> DEFINE new == NewThreads(n, max)
<1> HIDE DEF new
<1>1. /\ IsFiniteSet(inventory) /\ Cardinality(inventory) \in Nat
      /\ IsFiniteSet(new) /\ Cardinality(new) \in Nat
      /\ Cardinality(inventory \cap new) \in Nat
  BY NewThreadsProperties, CountZero, ThreadsAssumption, FS_Subset DEF new, Typed, TypeOK
<1>2. Cardinality(inventory \cup new) <= Cardinality(inventory) + Cardinality(new)
  <2>1. Cardinality(inventory \cup new)
          = Cardinality(inventory) + Cardinality(new) - Cardinality(inventory \cap new)
    BY <1>1, FS_Union
  <2>2. QED
    BY <1>1, <2>1
<1>3. CASE new # {}
  <2>1. Cardinality(inventory) + Cardinality(new) <= max
    BY <1>3, NewThreadsFit DEF new
  <2>2. inventory \cup new \subseteq Threads
    BY NewThreadsProperties DEF new, Typed, TypeOK
  <2>3. Cardinality(inventory \cup new) \in Nat
    BY <2>2, CountZero
  <2>4. QED
    BY <1>1, <1>2, <2>1, <2>3 DEF new
<1>4. QED
  BY <1>3 DEF new

-------------------------------------------------------------------------------
(* What the steps do to the inventory *)

(* All threads that wait are woken, the others go on as they were, but for *)
(* those that are started.                                                 *)
Adjusted(new) ==
  /\ new \subseteq {t \in Threads : pc[t] = "none"}
  /\ inventory' = inventory \cup new
  /\ new = {} \/ Cardinality(inventory') <= inventoryMax'
  /\ \A t \in Threads : pc'[t] = IF t \in new THEN "created"
                                 ELSE IF pc[t] = "waiting" THEN "apply" ELSE pc[t]

Undisturbed ==
  /\ inventory' = inventory /\ inventoryMax' = inventoryMax
  /\ \A t \in Threads : \/ pc'[t] = pc[t]
                        \/ pc[t] = "waiting" /\ pc'[t] = "apply"

LEMMA AdjustMoves ==
  ASSUME Typed, NEW u \in Users, EnqueueJob(u) \/ SetMax(u)
  PROVE  (\E new : Adjusted(new)) /\ expired' = expired /\ joining' = joining
<1>1. ASSUME NEW n \in Int, NEW max \in Int,
             pc' = Woken(Started(pc, NewThreads(n, max))),
             inventory' = inventory \cup NewThreads(n, max), inventoryMax' = max
      PROVE  Adjusted(NewThreads(n, max))
  BY <1>1, GrownInventory, NewThreadsProperties DEF Adjusted, Woken, Started
<1>2. CASE EnqueueJob(u)
  <2>1. batch \in Int /\ inventoryMax \in Int
    BY DEF Typed, TypeOK
  <2>2. Adjusted(NewThreads(batch, inventoryMax))
    BY <1>1, <1>2, <2>1 DEF EnqueueJob
  <2>3. QED
    BY <1>2, <2>2 DEF EnqueueJob, shutVars
<1>3. CASE SetMax(u)
  <2>1. PICK cap \in Caps :
          LET new == IF inventoryMax = 0 /\ cap > 0 THEN NewThreads(1, cap) ELSE {} IN
          /\ inventoryMax' = cap
          /\ inventory' = inventory \cup new
          /\ pc' = Woken(Started(pc, new))
    BY <1>3 DEF SetMax
  <2>2. CASE inventoryMax = 0 /\ cap > 0
    <3>1. Adjusted(NewThreads(1, cap))
      BY <1>1, <2>1, <2>2, CapsAssumption
    <3>2. QED
      BY <1>3, <3>1 DEF SetMax, shutVars
  <2>3. CASE ~ (inventoryMax = 0 /\ cap > 0)
    <3>1. Adjusted({})
      BY <2>1, <2>3 DEF Adjusted, Woken, Started
    <3>2. QED
      BY <1>3, <3>1 DEF SetMax, shutVars
  <2>4. QED
    BY <2>2, <2>3
<1>4. QED
  BY <1>2, <1>3

LEMMA UserMoves ==
  ASSUME Typed, NEW u \in Users, ApiCall(u) \/ CallStep(u)
  PROVE  \/ EnqueueJob(u) \/ SetMax(u) \/ SdTake(u) \/ SdDelete(u)
         \/ Undisturbed /\ joining' = joining /\ expired' = expired
<1> USE DEF weaverVars, queueVars, threadVars, jobVars, shutVars
<1>1. \A t \in Threads : \/ Woken(pc)[t] = pc[t]
                         \/ pc[t] = "waiting" /\ Woken(pc)[t] = "apply"
  BY DEF Woken
<1>2. ASSUME NEW id \in StateIds, SetState(id), UNCHANGED weaverVars
      PROVE  Undisturbed
  BY <1>1, <1>2 DEF SetState, Undisturbed
<1>3. CASE ApiCall(u) /\ ~ SetMax(u)
  BY <1>1, <1>3 DEF ApiCall, Enqueue, DequeueJob, DequeueAll, Finish, Suspend, Resume,
                    Reschedule, ShutDown, Undisturbed
<1>4. CASE FinishCheck(u) \/ FinishTimeout(u) \/ SdAcquire(u) \/ SdFinish(u)
           \/ SdFinishTimeout(u) \/ SdSuspend(u) \/ SdReschedule(u) \/ SdWake(u)
  BY <1>1, <1>4 DEF FinishCheck, FinishTimeout, SdAcquire, SdFinish, SdFinishTimeout, SdSuspend,
                    SdReschedule, SdWake, Undisturbed
<1>5. CASE SuspendSet(u) \/ ResumeSet(u) \/ SdSuspendSet(u) \/ SdSet(u) \/ SdDestruct(u)
  BY <1>2, <1>5 DEF SuspendSet, ResumeSet, SdSuspendSet, SdSet, SdDestruct, StateIds
<1>6. QED
  BY <1>3, <1>4, <1>5 DEF CallStep

(* A thread that searches for a job, or comes back from one without.       *)
LEMMA TakeMoves ==
  ASSUME Typed, NEW t \in Threads, NEW next, NEW leaving, BeginTake(t, next, leaving)
  PROVE  \E new \in SUBSET {x \in Threads : pc[x] = "none"} :
           /\ inventory' = (inventory \cup new) \ leaving
           /\ new = {} \/ Cardinality(inventory \cup new) <= inventoryMax
           /\ \A x \in Threads : pc'[x] = IF x = t THEN next
                                          ELSE IF x \in expired THEN "none"
                                          ELSE IF x \in new THEN "created" ELSE pc[x]
<1> DEFINE new == NewThreads(1, inventoryMax)
<1>1. new \in SUBSET {x \in Threads : pc[x] = "none"}
  BY NewThreadsProperties
<1>2. new = {} \/ Cardinality(inventory \cup new) <= inventoryMax
  BY GrownInventory DEF Typed, TypeOK
<1>3. QED
  BY <1>1, <1>2 DEF BeginTake

(* The other steps of the threads.                                         *)
LEMMA ThreadMoves ==
  ASSUME Typed, NEW t \in Threads, LockFreeStep(t) \/ Block(t)
  PROVE  /\ UNCHANGED <<inventory, expired, joining, inventoryMax, state, upc>>
         /\ \A s \in Threads \ {t} : pc'[s] = pc[s]
         /\ pc[t] \notin {"none", "exited", "takeWork", "takeSuspending", "waiting"}
         /\ pc'[t] # "none"
         /\ pc[t] = "exiting" <=> pc'[t] = "exited"
BY DEF LockFreeStep, EnterRun, ApplyForWork, WaitCall, BeginRun, FinishRun, EndJob, Exit,
       ExamineTake, ExaminePass, ScanWait, Block, Typed, TypeOK, weaverVars, queueVars, threadVars,
       jobVars, shutVars

(* The inventory grows only up to its maximum, and a thread is started     *)
(* only into the inventory.                                                *)
THEOREM InventoryStaysBounded == Spec => InventoryBounded
<1> DEFINE A == /\ inventory' \subseteq inventory \/ Cardinality(inventory') <= inventoryMax'
                /\ \A t \in Threads : pc[t] = "none" /\ pc'[t] # "none" => t \in inventory'
<1>1. ActiveInv /\ [Next]_vars => [A]_vars
  <2> SUFFICES ASSUME ActiveInv, Next PROVE A
    OBVIOUS
  <2> Typed
    BY DEF ActiveInv
  <2>1. ASSUME NEW t \in Threads, LockFreeStep(t) \/ Block(t) PROVE A
    BY <2>1, ThreadMoves
  <2>2. ASSUME NEW t \in Threads, NEW next, NEW leaving \in SUBSET {t},
               pc[t] \in {"takeWork", "takeSuspending"}, BeginTake(t, next, leaving)
        PROVE  A
    <3>1. PICK new \in SUBSET {x \in Threads : pc[x] = "none"} :
            /\ inventory' = (inventory \cup new) \ leaving
            /\ new = {} \/ Cardinality(inventory \cup new) <= inventoryMax
            /\ \A x \in Threads : pc'[x] = IF x = t THEN next
                                           ELSE IF x \in expired THEN "none"
                                           ELSE IF x \in new THEN "created" ELSE pc[x]
      BY <2>2, TakeMoves
    <3>2. Cardinality(inventory') <= Cardinality(inventory \cup new)
      <4>1. IsFiniteSet(inventory \cup new)
        BY CountZero DEF Typed, TypeOK
      <4>2. QED
        BY <3>1, <4>1, FS_Subset
    <3>3. Cardinality(inventory') \in Nat /\ Cardinality(inventory \cup new) \in Nat
      BY <3>1, CountZero DEF Typed, TypeOK
    <3>4. inventoryMax' = inventoryMax /\ inventoryMax \in Nat
      BY <2>2 DEF BeginTake, Typed, TypeOK
    <3>5. \A x \in Threads : pc[x] = "none" /\ pc'[x] # "none" => x \in new /\ x # t
      BY <2>2, <3>1
    <3>6. inventory' \subseteq inventory \/ Cardinality(inventory') <= inventoryMax'
      BY <3>1, <3>2, <3>3, <3>4
    <3>7. QED
      BY <2>2, <3>1, <3>5, <3>6
  <2>3. ASSUME NEW t \in Threads, LockingStep(t), ~ Block(t) PROVE A
    BY <2>2, <2>3 DEF LockingStep, TakeReturn, TakeExpire, TakeScan, TakeSuspending
  <2>4. ASSUME NEW u \in Users, ApiCall(u) \/ CallStep(u) PROVE A
    <3>1. CASE Undisturbed
      BY <3>1 DEF Undisturbed
    <3>2. CASE EnqueueJob(u) \/ SetMax(u)
      BY <3>2, AdjustMoves DEF Adjusted
    <3>3. CASE SdTake(u) \/ SdDelete(u)
      BY <3>3 DEF SdTake, SdDelete, weaverVars, queueVars, threadVars
    <3>4. QED
      BY <2>4, <3>1, <3>2, <3>3, UserMoves
  <2>5. QED
    BY <2>1, <2>3, <2>4 DEF Next
<1>2. QED
  BY <1>1, ActiveInvariant, PTL DEF Spec, InventoryBounded

-------------------------------------------------------------------------------
(* Everybody who was started is in the inventory, expired or awaited *)

LEMMA InventoryThread ==
  ASSUME ActiveInv, ActiveInv', ShutStateInv, InventoryInv, NEW t \in Threads,
         LockFreeStep(t) \/ LockingStep(t)
  PROVE  InventoryInv'
<1> USE DEF ActiveInv
<1>1. /\ \A u \in Users : /\ upc'[u] = "sdJoin" <=> upc[u] = "sdJoin"
                          /\ upc'[u] = "done" <=> upc[u] = "done"
                          /\ upc'[u] = "sdDestruct" <=> upc[u] = "sdDestruct"
      /\ state' = "Destructed" => state = "Destructed"
  BY ThreadStepState DEF FinishersWoken, Typed, TypeOK
<1>2. \A x \in Threads : pc'[x] \in {"exiting", "exited"} => ~ Busy(x)'
  BY DEF ThreadInv, Busy
<1>3. CASE LockFreeStep(t) \/ Block(t)
  <2>1. AtMostOneExpired'
    BY <1>2, <1>3, ThreadMoves DEF InventoryInv, AtMostOneExpired, Typed, TypeOK
  <2>2. QED
    BY <1>1, <1>3, <2>1, ThreadMoves, SMTT(30) DEF InventoryInv, Typed, TypeOK
<1>4. ASSUME NEW next \in {"apply", "exiting", "scan", "waitCall"}, NEW leaving \in SUBSET {t},
             pc[t] \in {"takeWork", "takeSuspending"}, BeginTake(t, next, leaving),
             leaving # {} => state = "WorkingHard" /\ next = "exiting"
      PROVE  InventoryInv'
  <2>1. PICK new \in SUBSET {x \in Threads : pc[x] = "none"} :
          /\ inventory' = (inventory \cup new) \ leaving
          /\ new = {} \/ Cardinality(inventory \cup new) <= inventoryMax
          /\ \A x \in Threads : pc'[x] = IF x = t THEN next
                                         ELSE IF x \in expired THEN "none"
                                         ELSE IF x \in new THEN "created" ELSE pc[x]
    BY <1>4, TakeMoves
  <2>2. expired' = leaving /\ joining' = joining
    BY <1>4 DEF BeginTake, ExpiredAfter, shutVars
  <2>3. /\ t \notin expired /\ t \in inventory \cup joining /\ t \notin new
        /\ new \cap (inventory \cup expired \cup joining) = {}
        /\ expired \cap (inventory \cup joining) = {}
    BY <1>4, <2>1 DEF InventoryInv, AtMostOneExpired
  <2>4. leaving # {} => joining = {} /\ t \in inventory
    BY <1>4, <2>3 DEF InventoryInv, ShutStateInv, AfterSet
  <2>5. \A x \in Threads : pc'[x] = "none" <=> x \notin inventory' \cup expired' \cup joining'
    BY <2>1, <2>2, <2>3, <2>4 DEF InventoryInv, Typed, TypeOK
  <2>6. AtMostOneExpired'
    <3>1. leaving = {} \/ leaving = {t}
      OBVIOUS
    <3>2. Cardinality({}) = 0 /\ Cardinality({t}) = 1
      BY FS_EmptySet, FS_Singleton
    <3>3. Cardinality(expired') \in {0, 1}
      BY <2>2, <3>1, <3>2
    <3>4. QED
      BY <1>2, <1>4, <2>1, <2>2, <3>1, <3>3 DEF AtMostOneExpired
  <2>7. joining' \cap (inventory' \cup expired') = {}
    BY <2>1, <2>2, <2>3, <2>4 DEF InventoryInv
  <2>8. \A u \in Users : upc'[u] \in {"sdDestruct", "done"} => inventory' = {}
    <3>1. SUFFICES ASSUME NEW u \in Users, upc[u] \in {"sdDestruct", "done"} PROVE FALSE
      BY <1>1
    <3>2. inventory = {}
      BY <3>1 DEF InventoryInv
    <3>3. PICK v \in Users : upc[v] = "sdJoin"
      BY <2>3, <3>2 DEF InventoryInv
    <3>4. QED
      BY <3>1, <3>3 DEF ClosingInv, Closing
  <2>9. QED
    BY <1>1, <2>2, <2>5, <2>6, <2>7, <2>8 DEF InventoryInv
<1>5. CASE LockingStep(t) /\ ~ Block(t)
  BY <1>4, <1>5 DEF LockingStep, TakeReturn, TakeExpire, TakeScan, TakeSuspending
<1>6. QED
  BY <1>3, <1>5

LEMMA InventoryUser ==
  ASSUME ActiveInv, ActiveInv', InventoryInv, NEW u \in Users, ApiCall(u) \/ CallStep(u)
  PROVE  InventoryInv'
<1> USE DEF ActiveInv, MayCall, Open
<1>1. upc \in [Users -> UserSteps] /\ expired' = expired
  BY UserMoves, AdjustMoves DEF SdTake, SdDelete, weaverVars, Typed, TypeOK
<1>2. \A x \in Threads : pc'[x] \in {"exiting", "exited"} => ~ Busy(x)'
  BY DEF ThreadInv, Busy
<1>3. ASSUME \A v \in Users : upc[v] \notin Closing
      PROVE  /\ \A v \in Users : upc'[v] \notin {"sdJoin", "sdDestruct", "done"}
             /\ state' # state => state' # "Destructed"
  <2>1. CASE ApiCall(u)
    BY <1>1, <1>3, <2>1 DEF ApiCall, Enqueue, DequeueJob, DequeueAll, Finish, Suspend, Resume,
       SetMax, Reschedule, ShutDown, FinishersWoken, Closing
  <2>2. CASE CallStep(u)
    BY <1>1, <1>3, <2>2 DEF CallStep, EnqueueJob, FinishCheck, FinishTimeout, SuspendSet,
       ResumeSet, SdAcquire, SdFinish, SdFinishTimeout, SdSuspend, SdSuspendSet, SdSet,
       SdReschedule, SdTake, SdWake, SdDelete, SdDestruct, SetState, Closing
  <2>3. QED
    BY <2>1, <2>2
<1>4. CASE EnqueueJob(u) \/ SetMax(u)
  <2>1. PICK new : Adjusted(new)
    BY <1>4, AdjustMoves
  <2>2. \A v \in Users : upc[v] \notin Closing
    BY <1>4 DEF EnqueueJob, SetMax, ClosingInv, Closing
  <2>3. state' = state
    BY <1>4 DEF EnqueueJob, SetMax
  <2>4. joining = {} /\ joining' = {}
    BY <1>4, <2>2, AdjustMoves DEF InventoryInv, Closing
  <2>5. \A x \in Threads : pc'[x] = "none" <=> x \notin inventory' \cup expired' \cup joining'
    BY <1>1, <2>1, <2>4 DEF Adjusted, InventoryInv
  <2>6. AtMostOneExpired'
    BY <1>1, <1>2, <2>1 DEF Adjusted, InventoryInv, AtMostOneExpired, Typed, TypeOK
  <2>7. QED
    BY <1>3, <2>2, <2>3, <2>4, <2>5, <2>6 DEF InventoryInv, Closing
<1>5. CASE SdTake(u)
  <2>1. /\ upc[u] = "sdTake" /\ pc' = pc /\ state' = state
        /\ \A v \in Users \ {u} : upc[v] = "ready" /\ upc'[v] = upc[v]
    BY <1>1, <1>5 DEF SdTake, ClosingInv, Closing, threadVars
  <2>2. joining = {}
    BY <2>1 DEF InventoryInv
  <2>3. AtMostOneExpired'
    BY <1>1, <1>2, <1>5, <2>1 DEF SdTake, InventoryInv, AtMostOneExpired, Typed, TypeOK
  <2>4. state' # "Destructed"
    BY <2>1 DEF InventoryInv
  <2>5. CASE inventory = {}
    <3>1. upc'[u] = "sdDestruct" /\ inventory' = {} /\ joining' = {}
      BY <1>1, <1>5, <2>2, <2>5 DEF SdTake, InventoryEmpty
    <3>2. QED
      BY <1>1, <2>1, <2>2, <2>3, <2>4, <2>5, <3>1 DEF InventoryInv
  <2>6. CASE inventory # {}
    <3>1. PICK t \in inventory : inventory' = inventory \ {t} /\ joining' = {t}
      BY <1>5, <2>6 DEF SdTake, InventoryEmpty
    <3>2. upc'[u] = "sdJoin"
      BY <1>1, <1>5, <2>6 DEF SdTake, InventoryEmpty
    <3>3. t \notin expired
      BY DEF InventoryInv, AtMostOneExpired
    <3>4. QED
      BY <1>1, <2>1, <2>2, <2>3, <2>4, <3>1, <3>2, <3>3 DEF InventoryInv
  <2>7. QED
    BY <2>5, <2>6
<1>6. CASE SdDelete(u)
  <2>1. /\ upc[u] = "sdJoin" /\ upc'[u] = "sdTake" /\ state' = state /\ joining' = {}
        /\ inventory' = inventory
        /\ \A x \in Threads : pc'[x] = IF x \in joining THEN "none" ELSE pc[x]
        /\ \A v \in Users \ {u} : upc[v] = "ready" /\ upc'[v] = upc[v]
    BY <1>1, <1>6 DEF SdDelete, ClosingInv, Closing, weaverVars
  <2>2. AtMostOneExpired'
    BY <1>1, <1>2, <2>1 DEF InventoryInv, AtMostOneExpired, Typed, TypeOK
  <2>3. QED
    BY <1>1, <2>1, <2>2 DEF InventoryInv
<1>7. CASE /\ Undisturbed /\ joining' = joining
           /\ ~ SdTake(u) /\ ~ SdDelete(u)
  <2>1. \A x \in Threads : pc'[x] = "none" <=> x \notin inventory' \cup expired' \cup joining'
    BY <1>1, <1>7 DEF Undisturbed, InventoryInv
  <2>2. AtMostOneExpired'
    BY <1>1, <1>2, <1>7 DEF Undisturbed, InventoryInv, AtMostOneExpired, Typed, TypeOK
  <2>3. CASE \A v \in Users : upc[v] \notin Closing
    BY <1>1, <1>3, <1>7, <2>1, <2>2, <2>3 DEF Undisturbed, InventoryInv, Closing
  <2>4. CASE \E v \in Users : upc[v] \in Closing
    <3>1. CallStep(u)
      BY <2>4 DEF ApiCall, Enqueue, DequeueJob, DequeueAll, Finish, Suspend, Resume, SetMax,
         Reschedule, ShutDown, Closing
    <3>2. upc[u] # "ready"
      BY <3>1 DEF CallStep, EnqueueJob, FinishCheck, FinishTimeout, SuspendSet, ResumeSet,
         SdAcquire, SdFinish, SdFinishTimeout, SdSuspend, SdSuspendSet, SdSet, SdReschedule,
         SdTake, SdWake, SdDelete, SdDestruct
    <3>3. upc[u] \in Closing /\ \A v \in Users \ {u} : upc[v] = "ready"
      BY <2>4, <3>2 DEF ClosingInv
    <3>4. /\ \A v \in Users \ {u} : upc'[v] = upc[v]
          /\ upc'[u] = "sdJoin" <=> upc[u] = "sdJoin"
          /\ upc'[u] \in {"sdDestruct", "done"} => upc[u] = "sdDestruct"
          /\ upc[u] # "done"
          /\ state' = "Destructed" /\ state # "Destructed" => upc'[u] = "done"
      BY <1>1, <1>7, <3>1, <3>3 DEF CallStep, EnqueueJob, FinishCheck, FinishTimeout,
         SuspendSet, ResumeSet, SdAcquire, SdFinish, SdFinishTimeout, SdSuspend, SdSuspendSet,
         SdSet, SdReschedule, SdWake, SdDestruct, SetState, Closing
    <3>5. QED
      BY <1>1, <1>7, <2>1, <2>2, <3>3, <3>4 DEF Undisturbed, InventoryInv
  <2>5. QED
    BY <2>3, <2>4
<1>8. QED
  BY <1>4, <1>5, <1>6, <1>7, UserMoves

LEMMA InventoryInvariant == Spec => []InventoryInv
<1>1. Init => InventoryInv
  BY FS_EmptySet DEF Init, InventoryInv, AtMostOneExpired
<1>2. ActiveInv /\ ShutStateInv /\ InventoryInv /\ [Next]_vars => InventoryInv'
  <2> SUFFICES ASSUME ActiveInv, ShutStateInv, InventoryInv, [Next]_vars PROVE InventoryInv'
    OBVIOUS
  <2>1. CASE UNCHANGED vars
    BY <2>1 DEF InventoryInv, AtMostOneExpired, Busy, vars, weaverVars, threadVars, shutVars
  <2>2. CASE Next
    BY <2>2, ActiveStep, InventoryThread, InventoryUser DEF Next
  <2>3. QED
    BY <2>1, <2>2
<1>3. QED
  BY <1>1, <1>2, ActiveInvariant, ShutStateInvariant, PTL DEF Spec

(* The list of expired threads holds one thread at most, and never one     *)
(* that works or is in the inventory: deleteExpiredThreads() runs before   *)
(* another thread can expire.                                              *)
THEOREM OneThreadExpires == Spec => []AtMostOneExpired
<1>1. InventoryInv => AtMostOneExpired
  BY DEF InventoryInv
<1>2. QED
  BY <1>1, InventoryInvariant, PTL

(* When shutDown() is through, no job is left, and at most an expired      *)
(* thread has still to leave run().                                        *)
THEOREM ShutDownLeavesOnlyExpired == Spec => []DestructedLeavesOnlyExpired
<1>1. ActiveInv /\ InventoryInv => DestructedLeavesOnlyExpired
  <2> SUFFICES ASSUME ActiveInv, InventoryInv, state = "Destructed"
               PROVE  /\ assignments = <<>> /\ \A j \in Jobs : ~ Held(j)
                      /\ \A t \in Threads : pc[t] \in {"none", "exited"} \/ t \in expired
    BY DEF DestructedLeavesOnlyExpired
  <2> USE DEF ActiveInv
  <2>1. PICK u \in Users : upc[u] = "done"
    BY DEF InventoryInv
  <2>2. assignments = <<>> /\ inventory = {}
    BY <2>1 DEF ClosingInv, ClosedToJobs, Closing, InventoryInv
  <2>3. joining = {}
    BY <2>1 DEF ClosingInv, Closing, InventoryInv
  <2>4. \A j \in Jobs : ~ Held(j)
    BY JobsAssumption DEF SuspendedMeansIdle, Busy, Held
  <2>5. QED
    BY <2>2, <2>3, <2>4 DEF InventoryInv
<1>2. QED
  BY <1>1, ActiveInvariant, InventoryInvariant, PTL

-------------------------------------------------------------------------------
(* No job is abandoned in a program that never calls suspend() *)

LEMMA WorkThreadState ==
  ASSUME ActiveInv, WorkInv, NEW t \in Threads, LockFreeStep(t) \/ LockingStep(t)
  PROVE  /\ \A u \in Users : upc'[u] \notin {"suspendSet", "resumeSet"}
         /\ state' # "WorkingHard" => \E u \in Users : upc'[u] \in ClosedToJobs
         /\ state' = "WorkingHard" => state = "WorkingHard"
<1>1. \A u \in Users : /\ upc'[u] \notin {"suspendSet", "resumeSet"}
                       /\ upc[u] \in ClosedToJobs => upc'[u] \in ClosedToJobs
  BY ThreadStepState DEF FinishersWoken, ClosedToJobs, Closing, WorkInv, ActiveInv, Typed, TypeOK
<1>2. QED
  BY <1>1, ThreadStepState DEF WorkInv, ActiveInv

LEMMA WorkUserState ==
  ASSUME NeverSuspends, ActiveInv, WorkInv, NEW u \in Users, ApiCall(u) \/ CallStep(u)
  PROVE  /\ \A v \in Users : upc'[v] \notin {"suspendSet", "resumeSet"}
         /\ state' # "WorkingHard" => \E v \in Users : upc'[v] \in ClosedToJobs
         /\ state' = "WorkingHard" => state = "WorkingHard"
<1> USE DEF MayCall, Open
<1>1. upc \in [Users -> UserSteps] /\ state \in StateIds
  BY DEF ActiveInv, Typed, TypeOK
<1>2. CASE ApiCall(u)
  <2>1. state' = state
    BY <1>2 DEF ApiCall, Enqueue, DequeueJob, DequeueAll, Finish, Suspend, Resume, SetMax,
       Reschedule, ShutDown
  <2>2. CASE state # "WorkingHard"
    BY <1>2, <2>2 DEF ApiCall, Enqueue, DequeueJob, DequeueAll, Finish, Suspend, Resume,
       SetMax, Reschedule, ShutDown, WorkInv, ClosedToJobs, Closing
  <2>3. CASE state = "WorkingHard"
    BY <1>1, <1>2, <2>1, <2>3 DEF ApiCall, Enqueue, DequeueJob, DequeueAll, Finish, Suspend,
       Resume, SetMax, Reschedule, ShutDown, FinishersWoken, WorkInv, NeverSuspends
  <2>4. QED
    BY <2>2, <2>3
<1>3. CASE CallStep(u)
  <2>1. ~ SuspendSet(u) /\ ~ ResumeSet(u)
    BY DEF WorkInv, SuspendSet, ResumeSet
  <2>2. /\ \A v \in Users \ {u} : upc'[v] = upc[v]
        /\ upc'[u] \notin {"suspendSet", "resumeSet"}
        /\ upc[u] \in ClosedToJobs => upc'[u] \in ClosedToJobs
    BY <1>1, <1>3, <2>1 DEF CallStep, EnqueueJob, FinishCheck, FinishTimeout, SdAcquire,
       SdFinish, SdFinishTimeout, SdSuspend, SdSuspendSet, SdSet, SdReschedule, SdTake, SdWake,
       SdDelete, SdDestruct, WorkInv, ClosedToJobs, Closing
  <2>3. state' = state \/ (upc'[u] \in ClosedToJobs /\ state' # "WorkingHard")
    BY <1>1, <1>3, <2>1 DEF CallStep, EnqueueJob, FinishCheck, FinishTimeout, SdAcquire,
       SdFinish, SdFinishTimeout, SdSuspend, SdSuspendSet, SdSet, SdReschedule, SdTake, SdWake,
       SdDelete, SdDestruct, SetState, ClosedToJobs, Closing
  <2>4. QED
    BY <2>2, <2>3 DEF WorkInv
<1>4. QED
  BY <1>2, <1>3

(* In a queue that works, everybody who works is in the inventory.         *)
LEMMA WorkersInInventory ==
  ASSUME ShutStateInv, InventoryInv, state = "WorkingHard"
  PROVE  /\ joining = {}
         /\ \A t \in Threads : pc[t] \notin {"none", "exiting", "exited"} => t \in inventory
         /\ \A u \in Users : upc[u] \notin AfterSet
<1>1. \A u \in Users : upc[u] \notin AfterSet
  BY DEF ShutStateInv
<1>2. joining = {}
  BY <1>1 DEF InventoryInv, AfterSet
<1>3. QED
  BY <1>1, <1>2 DEF InventoryInv, AtMostOneExpired

(* The parts about threads.                                                *)
Attended == NobodyWaitsUnseen /\ SurplusAwake /\ ScanInv /\ NoAbandonedJob

LEMMA AttendedThread ==
  ASSUME ActiveInv, ActiveInv', ShutStateInv, InventoryInv, Attended,
         state = "WorkingHard", state' = "WorkingHard",
         NEW t \in Threads, LockFreeStep(t) \/ Block(t)
  PROVE  Attended'
<1> USE DEF ActiveInv
<1>1. /\ UNCHANGED <<inventory, inventoryMax, upc>>
      /\ \A s \in Threads \ {t} : pc'[s] = pc[s]
      /\ pc \in [Threads -> ThreadSteps] /\ inventory \subseteq Threads
  BY ThreadMoves DEF Typed, TypeOK
<1>2. pc[t] # "exiting" => t \in inventory
  BY ThreadMoves, WorkersInInventory
<1>3. pc[t] \notin {"waitCall", "block"}
  BY DEF Attended, NobodyWaitsUnseen
<1>4. /\ pc'[t] \notin {"takeSuspending", "waitCall", "block"}
      /\ pc'[t] = "scan" => pc[t] = "scan"
      /\ pc'[t] = "waiting" => ScanWait(t)
      /\ pc[t] \in {"apply", "takeWork"} => pc'[t] \in {"apply", "takeWork"}
  <2>1. CASE ApplyForWork(t)
    <3>1. pc'[t] = "takeWork"
      BY <1>1, <2>1 DEF ApplyForWork
    <3>2. QED
      BY <3>1
  <2>2. CASE ExaminePass(t)
    BY <1>1, <2>2 DEF ExaminePass, threadVars
  <2>3. CASE ScanWait(t)
    BY <1>1, <2>3 DEF ScanWait
  <2>4. CASE EnterRun(t) \/ BeginRun(t) \/ FinishRun(t) \/ EndJob(t) \/ Exit(t) \/ ExamineTake(t)
    BY <1>1, <2>4 DEF EnterRun, BeginRun, FinishRun, EndJob, Exit, ExamineTake
  <2>5. QED
    BY <1>3, <2>1, <2>2, <2>3, <2>4 DEF LockFreeStep, WaitCall, Block
<1>5. NobodyWaitsUnseen'
  BY <1>1, <1>4 DEF Attended, NobodyWaitsUnseen
<1>6. SurplusAwake'
  BY <1>1, <1>2, <1>4 DEF Attended, SurplusAwake, ScanWait
<1>7. /\ ~ EndJob(t) /\ ~ ExamineTake(t) => UNCHANGED <<dependencies, customers>>
      /\ ~ ExamineTake(t) => assignments' = assignments
      /\ ~ ExaminePass(t) /\ ~ ExamineTake(t) /\ ~ ScanWait(t) => cursor' = cursor
  BY DEF LockFreeStep, EnterRun, ApplyForWork, WaitCall, BeginRun, FinishRun, EndJob, Exit,
     ExamineTake, ExaminePass, ScanWait, Block, queueVars, jobVars
<1>8. ScanInv'
  <2>1. CASE ExamineTake(t) \/ ScanWait(t)
    <3>1. pc[t] = "scan" /\ pc'[t] # "scan"
      BY <1>1, <2>1 DEF ExamineTake, ScanWait
    <3>2. \A s \in Threads : pc'[s] # "scan"
      BY <1>1, <3>1 DEF Typed, MutexInv
    <3>3. QED
      BY <3>2 DEF ScanInv
  <2>2. CASE EndJob(t)
    <3>1. t \in inventory' /\ pc'[t] = "apply"
      BY <1>1, <1>2, <2>2 DEF EndJob
    <3>2. QED
      BY <3>1 DEF ScanInv
  <2>3. CASE ~ ExamineTake(t) /\ ~ ScanWait(t) /\ ~ EndJob(t)
    <3>1. SUFFICES ASSUME NEW s \in Threads, pc'[s] = "scan",
                          NEW i \in DOMAIN assignments', i < cursor', CanRun(assignments[i])'
                   PROVE  \E x \in inventory' : pc'[x] \in {"apply", "takeWork"}
      BY DEF ScanInv
    <3>2. assignments' = assignments /\ dependencies' = dependencies /\ customers' = customers
      BY <1>7, <2>3 DEF ExaminePass, jobVars
    <3>3. pc[s] = "scan" /\ i \in DOMAIN assignments /\ CanRun(assignments[i])
      BY <1>1, <1>4, <3>1, <3>2 DEF CanRun
    <3>4. i < cursor
      <4>1. CASE ExaminePass(t)
        <5>1. cursor' = cursor + 1 /\ ~ CanRun(assignments[cursor])
          BY <4>1 DEF ExaminePass
        <5>2. i # cursor
          BY <3>3, <5>1
        <5>3. i \in Int /\ cursor \in Int
          BY DEF Typed, TypeOK
        <5>4. QED
          BY <3>1, <5>1, <5>2, <5>3
      <4>2. CASE ~ ExaminePass(t)
        BY <1>7, <2>3, <3>1, <4>2
      <4>3. QED
        BY <4>1, <4>2
    <3>5. PICK x \in inventory : pc[x] \in {"apply", "takeWork"}
      BY <3>3, <3>4 DEF Attended, ScanInv
    <3>6. QED
      BY <1>1, <1>4, <3>5
  <2>4. QED
    BY <2>1, <2>2, <2>3
<1>9. NoAbandonedJob'
  <2>1. SUFFICES ASSUME MutexFree', inventory' # {},
                        NEW j \in Jobs, Queued(j)', CanRun(j)'
                 PROVE  \E s \in inventory' : pc'[s] # "waiting"
    BY DEF NoAbandonedJob
  <2>2. CASE ScanWait(t)
    <3>1. pc[t] = "scan" /\ cursor > Len(assignments) /\ pc'[t] = "waiting"
      BY <1>1, <2>2 DEF ScanWait
    <3>2. assignments' = assignments /\ CanRun(j)
      BY <2>1, <2>2 DEF ScanWait, CanRun, jobVars
    <3>3. PICK i \in DOMAIN assignments : assignments[i] = j
      BY <2>1, <3>2 DEF Queued
    <3>4. i < cursor
      BY <3>1, <3>3, SMTT(30) DEF Typed, TypeOK
    <3>5. PICK x \in inventory : pc[x] \in {"apply", "takeWork"}
      BY <3>1, <3>2, <3>3, <3>4 DEF Attended, ScanInv
    <3>6. QED
      BY <1>1, <3>1, <3>5
  <2>3. CASE pc[t] = "exiting"
    <3>1. Exit(t)
      BY <2>3 DEF LockFreeStep, EnterRun, ApplyForWork, WaitCall, BeginRun, FinishRun, EndJob,
         ExamineTake, ExaminePass, ScanWait, Block
    <3>2. /\ assignments' = assignments /\ dependencies' = dependencies
          /\ customers' = customers /\ pc'[t] = "exited"
      BY <1>1, <3>1 DEF Exit, queueVars, jobVars
    <3>3. MutexFree /\ Queued(j) /\ CanRun(j)
      BY <1>1, <2>1, <2>3, <3>2 DEF MutexFree, Queued, CanRun
    <3>4. PICK s \in inventory : pc[s] # "waiting"
      BY <1>1, <2>1, <3>3 DEF Attended, NoAbandonedJob
    <3>5. QED
      BY <1>1, <3>2, <3>4
  <2>4. CASE pc[t] # "exiting" /\ ~ ScanWait(t)
    BY <1>1, <1>2, <1>4, <2>4
  <2>5. QED
    BY <2>2, <2>3, <2>4
<1>10. QED
  BY <1>5, <1>6, <1>8, <1>9 DEF Attended

LEMMA AttendedTake ==
  ASSUME ActiveInv, ActiveInv', ShutStateInv, InventoryInv, Attended,
         state = "WorkingHard", state' = "WorkingHard",
         NEW t \in Threads, TakeExpire(t) \/ TakeScan(t)
  PROVE  Attended'
<1> USE DEF ActiveInv
<1>1. MutexFree /\ inventoryMax' = inventoryMax /\ \A x \in expired : x \notin inventory
  BY DEF TakeExpire, TakeScan, BeginTake, InventoryInv, AtMostOneExpired
<1>2. pc \in [Threads -> ThreadSteps] /\ inventory \subseteq Threads /\ inventoryMax \in Nat
  BY DEF Typed, TypeOK
<1>3. CASE TakeExpire(t)
  <2>1. PICK new \in SUBSET {x \in Threads : pc[x] = "none"} :
          /\ inventory' = (inventory \cup new) \ {t}
          /\ new = {} \/ Cardinality(inventory \cup new) <= inventoryMax
          /\ \A x \in Threads : pc'[x] = IF x = t THEN "exiting"
                                         ELSE IF x \in expired THEN "none"
                                         ELSE IF x \in new THEN "created" ELSE pc[x]
    BY <1>3, TakeMoves DEF TakeExpire
  <2>2. Cardinality(inventory) > inventoryMax
    BY <1>3 DEF TakeExpire
  <2>3. new = {}
    <3>1. inventory \cup new \in SUBSET Threads
      BY <1>2
    <3>2. /\ IsFiniteSet(inventory \cup new) /\ Cardinality(inventory \cup new) \in Nat
          /\ Cardinality(inventory) \in Nat
      BY <1>2, <3>1, CountZero
    <3>3. Cardinality(inventory) <= Cardinality(inventory \cup new)
      BY <3>2, FS_Subset
    <3>4. QED
      BY <1>2, <2>1, <2>2, <3>2, <3>3
  <2>4. \A x \in inventory' : pc'[x] \notin {"scan", "waiting"}
    BY <1>1, <1>2, <2>1, <2>2, <2>3 DEF Attended, SurplusAwake
  <2>5. \A x \in Threads : pc'[x] \notin {"scan", "takeSuspending", "waitCall", "block"}
    BY <1>1, <2>1 DEF MutexFree, Attended, NobodyWaitsUnseen
  <2>6. QED
    BY <2>4, <2>5 DEF Attended, NobodyWaitsUnseen, SurplusAwake, ScanInv, NoAbandonedJob
<1>4. CASE TakeScan(t)
  <2>1. PICK new \in SUBSET {x \in Threads : pc[x] = "none"} :
          /\ inventory' = (inventory \cup new) \ {}
          /\ new = {} \/ Cardinality(inventory \cup new) <= inventoryMax
          /\ \A x \in Threads : pc'[x] = IF x = t THEN "scan"
                                         ELSE IF x \in expired THEN "none"
                                         ELSE IF x \in new THEN "created" ELSE pc[x]
    BY <1>4, TakeMoves DEF TakeScan
  <2>2. /\ Cardinality(inventory) <= inventoryMax /\ cursor' = 1
        /\ assignments' = assignments
    BY <1>4 DEF TakeScan, BeginTake
  <2>3. inventory' = inventory \cup new
    BY <2>1
  <2>4. Cardinality(inventory') <= inventoryMax'
    BY <1>1, <2>1, <2>2, <2>3
  <2>5. Cardinality(inventory') \in Nat
    BY CountZero DEF Typed, TypeOK
  <2>6. SurplusAwake'
    BY <1>1, <1>2, <2>4, <2>5 DEF SurplusAwake
  <2>7. NobodyWaitsUnseen'
    BY <2>1 DEF Attended, NobodyWaitsUnseen
  <2>8. ScanInv'
    BY <2>2 DEF ScanInv, Typed, TypeOK
  <2>9. ~ MutexFree'
    BY <2>1 DEF MutexFree
  <2>10. QED
    BY <2>6, <2>7, <2>8, <2>9 DEF Attended, NoAbandonedJob
<1>5. QED
  BY <1>3, <1>4

LEMMA AttendedUser ==
  ASSUME ActiveInv, ActiveInv', ShutStateInv, InventoryInv, Attended,
         state = "WorkingHard", state' = "WorkingHard",
         NEW u \in Users, ApiCall(u) \/ CallStep(u)
  PROVE  Attended'
<1> USE DEF ActiveInv
<1>1. ~ SdTake(u) /\ ~ SdDelete(u)
  BY WorkersInInventory DEF SdTake, SdDelete, AfterSet
<1>2. CASE EnqueueJob(u) \/ SetMax(u)
  <2>1. PICK new : Adjusted(new)
    BY <1>2, AdjustMoves
  <2>2. \A t \in Threads : pc[t] # "scan"
    BY <1>2 DEF EnqueueJob, SetMax, MutexFree, Typed, MutexInv
  <2>3. \A t \in Threads : pc'[t] \notin {"scan", "waiting", "takeSuspending", "waitCall", "block"}
    BY <2>1, <2>2 DEF Adjusted, Attended, NobodyWaitsUnseen
  <2>4. inventory' \subseteq Threads
    BY DEF Typed, TypeOK
  <2>5. QED
    BY <2>3, <2>4 DEF Attended, NobodyWaitsUnseen, SurplusAwake, ScanInv, NoAbandonedJob
<1>3. CASE Undisturbed /\ ~ EnqueueJob(u) /\ ~ SetMax(u)
  <2>1. /\ inventory' = inventory /\ inventoryMax' = inventoryMax
        /\ \A t \in Threads : \/ pc'[t] = pc[t]
                              \/ pc[t] = "waiting" /\ pc'[t] = "apply"
    BY <1>3 DEF Undisturbed
  <2>2. UNCHANGED <<cursor, dependencies, customers>>
    BY UserStepFrame DEF UserFrame
  <2>3. assignments' = assignments \/ (MutexFree /\ \A j \in Jobs : Queued(j)' => Queued(j))
    <3>1. CASE DequeueJob(u)
      <4>1. PICK i \in DOMAIN assignments : assignments' = RemoveAt(assignments, i)
        BY <3>1 DEF DequeueJob
      <4>2. i \in 1..Len(assignments) /\ assignments \in Seq(Jobs)
        BY <4>1 DEF Typed, TypeOK
      <4>3. /\ assignments' \in Seq(Jobs) /\ Len(assignments') = Len(assignments) - 1
            /\ \A k \in 1..Len(assignments) - 1 :
                 assignments'[k] = IF k < i THEN assignments[k] ELSE assignments[k + 1]
        BY <4>1, <4>2, RemoveAtProperties
      <4>4. \A k \in DOMAIN assignments' :
              \E m \in DOMAIN assignments : assignments'[k] = assignments[m]
        <5>1. SUFFICES ASSUME NEW k \in 1..Len(assignments) - 1
                       PROVE  \E m \in 1..Len(assignments) : assignments'[k] = assignments[m]
          BY <4>2, <4>3
        <5>2. k \in 1..Len(assignments) /\ k + 1 \in 1..Len(assignments)
          BY <4>2
        <5>3. QED
          BY <4>3, <5>2
      <4>5. QED
        BY <3>1, <4>4 DEF DequeueJob, Queued
    <3>2. CASE DequeueAll(u)
      BY <3>2 DEF DequeueAll, Queued
    <3>3. CASE ~ DequeueJob(u) /\ ~ DequeueAll(u)
      BY <1>3, <3>3 DEF ApiCall, Enqueue, Finish, Suspend, Resume, Reschedule, ShutDown,
         CallStep, FinishCheck, FinishTimeout, SuspendSet, ResumeSet, SdAcquire, SdFinish,
         SdFinishTimeout, SdSuspend, SdSuspendSet, SdSet, SdReschedule, SdTake, SdWake, SdDelete,
         SdDestruct, queueVars
    <3>4. QED
      BY <3>1, <3>2, <3>3
  <2>4. NobodyWaitsUnseen' /\ SurplusAwake'
    BY <2>1 DEF Attended, NobodyWaitsUnseen, SurplusAwake, Typed, TypeOK
  <2>5. ScanInv'
    <3>1. SUFFICES ASSUME NEW s \in Threads, pc'[s] = "scan" PROVE ScanInv'
      BY DEF ScanInv
    <3>2. assignments' = assignments
      BY <2>1, <2>3, <3>1 DEF MutexFree
    <3>3. inventory \subseteq Threads
      BY DEF Typed, TypeOK
    <3>4. QED
      BY <2>1, <2>2, <3>2, <3>3 DEF Attended, ScanInv, CanRun
  <2>6. NoAbandonedJob'
    <3>1. SUFFICES ASSUME MutexFree', inventory' # {}, NEW j \in Jobs, Queued(j)', CanRun(j)'
                   PROVE  \E s \in inventory' : pc'[s] # "waiting"
      BY DEF NoAbandonedJob
    <3>2. \A t \in Threads : pc[t] # "scan"
      BY <2>1, <3>1 DEF MutexFree
    <3>3. \A v \in Users : upc[v] # "enqueueing"
      <4>1. SUFFICES ASSUME NEW v \in Users, upc[v] = "enqueueing" PROVE upc'[v] = "enqueueing"
        BY <3>1 DEF MutexFree
      <4>2. upc \in [Users -> UserSteps]
        BY DEF Typed, TypeOK
      <4>3. QED
        BY <1>3, <4>1, <4>2 DEF ApiCall, Enqueue, DequeueJob, DequeueAll, Finish, Suspend, Resume,
           Reschedule, ShutDown, MayCall, CallStep, FinishCheck, FinishTimeout, SuspendSet,
           ResumeSet, SdAcquire, SdFinish, SdFinishTimeout, SdSuspend, SdSuspendSet, SdSet,
           SdReschedule, SdTake, SdWake, SdDelete, SdDestruct, FinishersWoken
    <3>4. Queued(j) /\ CanRun(j)
      BY <2>2, <2>3, <3>1 DEF Queued, CanRun
    <3>5. PICK s \in inventory : pc[s] # "waiting"
      BY <2>1, <3>1, <3>2, <3>3, <3>4 DEF Attended, NoAbandonedJob, MutexFree
    <3>6. QED
      BY <2>1, <3>5 DEF Typed, TypeOK
  <2>7. QED
    BY <2>4, <2>5, <2>6 DEF Attended
<1>4. QED
  BY <1>1, <1>2, <1>3, UserMoves

LEMMA WorkStep ==
  NeverSuspends /\ ActiveInv /\ ShutStateInv /\ InventoryInv /\ WorkInv /\ [Next]_vars
    => WorkInv'
<1> SUFFICES ASSUME NeverSuspends, ActiveInv, ShutStateInv, InventoryInv, WorkInv, [Next]_vars
             PROVE  WorkInv'
  OBVIOUS
<1>1. ActiveInv'
  BY ActiveStep
<1>2. ASSUME state' # "WorkingHard" PROVE Attended'
  BY <1>1, <1>2 DEF Attended, NobodyWaitsUnseen, SurplusAwake, ScanInv, NoAbandonedJob,
     ActiveInv, Typed, MutexInv
<1>3. Attended
  BY DEF WorkInv, Attended
<1>4. CASE UNCHANGED vars
  BY <1>4 DEF WorkInv, NobodyWaitsUnseen, SurplusAwake, ScanInv, NoAbandonedJob, MutexFree,
     Queued, CanRun, vars, weaverVars, queueVars, threadVars, jobVars
<1>5. ASSUME NEW t \in Threads, LockFreeStep(t) \/ LockingStep(t) PROVE WorkInv'
  <2>1. CASE state' = "WorkingHard"
    <3>1. state = "WorkingHard"
      BY <1>5, <2>1, WorkThreadState
    <3>2. LockFreeStep(t) \/ Block(t) \/ TakeExpire(t) \/ TakeScan(t)
      BY <1>3, <1>5, <3>1 DEF LockingStep, TakeReturn, TakeSuspending, Attended, NobodyWaitsUnseen
    <3>3. Attended'
      BY <1>1, <1>3, <2>1, <3>1, <3>2, AttendedThread, AttendedTake
    <3>4. QED
      BY <1>5, <3>3, WorkThreadState DEF WorkInv, Attended
  <2>2. CASE state' # "WorkingHard"
    BY <1>2, <1>5, <2>2, WorkThreadState DEF WorkInv, Attended
  <2>3. QED
    BY <2>1, <2>2
<1>6. ASSUME NEW u \in Users, ApiCall(u) \/ CallStep(u) PROVE WorkInv'
  <2>1. Attended'
    BY <1>1, <1>2, <1>3, <1>6, WorkUserState, AttendedUser
  <2>2. QED
    BY <1>6, <2>1, WorkUserState DEF WorkInv, Attended
<1>7. QED
  BY <1>4, <1>5, <1>6 DEF Next

(* A queue with threads that is working never has all of them asleep while *)
(* a job could run, in a program that never calls suspend().  With         *)
(* suspend(), a thread that is about to wait may miss the wake-up of       *)
(* resume().                                                               *)
THEOREM NothingAbandoned == NeverSuspends => (Spec => []NoAbandonedJob)
<1> SUFFICES ASSUME NeverSuspends PROVE Spec => []NoAbandonedJob
  OBVIOUS
<1>1. Init => WorkInv
  BY FS_EmptySet DEF Init, WorkInv, NobodyWaitsUnseen, SurplusAwake, ScanInv, NoAbandonedJob
<1>2. ActiveInv /\ ShutStateInv /\ InventoryInv /\ WorkInv /\ [Next]_vars => WorkInv'
  BY WorkStep
<1>3. WorkInv => NoAbandonedJob
  BY DEF WorkInv
<1>4. QED
  BY <1>1, <1>2, <1>3, ActiveInvariant, ShutStateInvariant, InventoryInvariant, PTL DEF Spec

===============================================================================
