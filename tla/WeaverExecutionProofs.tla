------------------------ MODULE WeaverExecutionProofs ------------------------
(***************************************************************************)
(* No job is executed twice: a job is in the queue once, or in the hands   *)
(* of one thread, or neither, whatever is queued, withdrawn and handed out *)
(* at the same time.                                                       *)
(***************************************************************************)
EXTENDS WeaverProofs

(* The parts of the invariant in terms of occurrences.                     *)
LEMMA ExclusiveOccurs ==
  ASSUME Typed
  PROVE  ExclusiveExecution <=>
           /\ Distinct(assignments)
           /\ \A s, t \in Threads : job[s] = job[t] /\ job[s] # NoJob => s = t
           /\ \A j \in Jobs : Occurs(assignments, j) => ~ Held(j) /\ status[j] = "Queued"
           /\ \A j \in Jobs : status[j] = "New" => ~ Held(j)
BY DEF ExclusiveExecution, Queued, Occurs, Distinct

LEMMA PendingOccurs ==
  ASSUME Typed
  PROVE  PendingInv <=>
           Distinct(pending) /\ \A j \in Jobs : Occurs(pending, j) => status[j] = "New"
<1>1. \A k \in DOMAIN pending : pending[k] \in Jobs
  BY DEF Typed, TypeOK
<1>2. QED
  BY <1>1 DEF PendingInv, Occurs, Distinct

-------------------------------------------------------------------------------
Exec == StatusInv /\ PendingInv /\ ExclusiveExecution
Holding == {"assigned", "running", "ending"}

(* Steps that touch neither the queue nor who holds what.                  *)
LEMMA ExecFrame ==
  ASSUME Exec, UNCHANGED <<assignments, pending, status, job>>,
         \A t \in Threads : pc'[t] = pc[t] \/ pc'[t] \notin Holding
  PROVE  Exec'
BY DEF Exec, StatusInv, PendingInv, ExclusiveExecution, Queued, Held, Holding

LEMMA ThreadStepQuiet ==
  ASSUME Typed, Exec, NEW t \in Threads,
         \/ EnterRun(t) \/ ApplyForWork(t) \/ WaitCall(t) \/ Exit(t) \/ ExaminePass(t)
         \/ ScanWait(t) \/ LockingStep(t)
  PROVE  Exec'
<1> USE DEF weaverVars, queueVars, threadVars, jobVars
<1>1. UNCHANGED <<assignments, pending, status, job>>
  BY DEF EnterRun, ApplyForWork, WaitCall, Exit, ExaminePass, ScanWait, LockingStep,
         TakeReturn, TakeExpire, TakeScan, TakeSuspending, BeginTake, Block
<1>2. CASE ~ LockingStep(t) \/ Block(t)
  <2>1. \A s \in Threads : pc'[s] = pc[s] \/ pc'[s] \notin Holding
    BY <1>2 DEF EnterRun, ApplyForWork, WaitCall, Exit, ExaminePass, ScanWait, Block, Holding,
                Typed, TypeOK
  <2>2. QED
    BY <1>1, <2>1, ExecFrame
<1>3. CASE LockingStep(t) /\ ~ Block(t)
  <2>1. PICK next \in {"apply", "exiting", "scan", "waitCall"}, leaving \in SUBSET {t} :
          BeginTake(t, next, leaving)
    BY <1>3 DEF LockingStep, TakeReturn, TakeExpire, TakeScan, TakeSuspending
  <2>2. \A s \in Threads : pc'[s] = pc[s] \/ pc'[s] \notin Holding
    BY <2>1 DEF BeginTake, Holding
  <2>3. QED
    BY <1>1, <2>2, ExecFrame
<1>4. QED
  BY <1>2, <1>3

(* The status of a held job changes: it is neither queued nor pending.     *)
LEMMA HeldStatusExec ==
  ASSUME Typed, ThreadInv, Exec, NEW t \in Threads,
         NEW st \in {"Running", "Success", "Failed", "Aborted"},
         job[t] \in Jobs, status[job[t]] # "New",
         status' = [status EXCEPT ![job[t]] = st],
         UNCHANGED <<assignments, pending, job>>,
         \A s \in Threads \ {t} : pc'[s] = pc[s],
         pc'[t] \in {"running", "ending"},
         pc'[t] = "running" => st = "Running", pc'[t] = "ending" => st \in Outcomes
  PROVE  Exec'
<1> DEFINE j == job[t]
<1>1. /\ \A x \in Jobs : status'[x] = IF x = j THEN st ELSE status[x]
      /\ Held(j)
  BY DEF Typed, TypeOK, Held
<1>2. StatusInv'
  <2>1. \A s \in Threads \ {t} : pc[s] \in Holding => job[s] # j /\ job[s] \in Jobs
    BY JobsAssumption DEF Exec, ExclusiveExecution, StatusInv, Holding, Typed, TypeOK, ThreadInv
  <2>2. QED
    BY <1>1, <2>1 DEF Exec, StatusInv, Holding
<1>3. PendingInv'
  BY <1>1 DEF Exec, PendingInv, Typed, TypeOK
<1>4. ExclusiveExecution'
  BY <1>1 DEF Exec, ExclusiveExecution, Held, Queued, Typed, TypeOK
<1>5. QED
  BY <1>2, <1>3, <1>4 DEF Exec

LEMMA EndJobExec ==
  ASSUME Typed, ThreadInv, Exec, NEW t \in Threads, EndJob(t)
  PROVE  Exec'
<1>1. /\ job' = [job EXCEPT ![t] = NoJob] /\ pc' = [pc EXCEPT ![t] = "apply"]
      /\ UNCHANGED <<assignments, pending, status>>
  BY DEF EndJob, queueVars
<1>2. \A j \in Jobs : Held(j)' => Held(j)
  BY <1>1, JobsAssumption DEF Held, Typed, TypeOK
<1>3. ExclusiveExecution'
  <2>1. \A r, s \in Threads : job'[r] = job'[s] /\ job'[r] # NoJob => r = s
    BY <1>1 DEF Exec, ExclusiveExecution, Typed, TypeOK
  <2>2. \A j \in Jobs : Queued(j)' <=> Queued(j)
    BY <1>1 DEF Queued
  <2>3. QED
    BY <1>1, <1>2, <2>1, <2>2 DEF Exec, ExclusiveExecution
<1>4. StatusInv'
  BY <1>1 DEF Exec, StatusInv, Typed, TypeOK
<1>5. PendingInv'
  BY <1>1 DEF Exec, PendingInv
<1>6. QED
  BY <1>3, <1>4, <1>5 DEF Exec

LEMMA ExamineTakeExec ==
  ASSUME Typed, Typed', ThreadInv, Exec, NEW t \in Threads, ExamineTake(t)
  PROVE  Exec'
<1> DEFINE j == assignments[cursor]
<1>1. cursor \in 1..Len(assignments) /\ assignments \in Seq(Jobs)
  BY DEF ExamineTake, Typed, TypeOK, MutexInv
<1>2. j \in Jobs /\ Occurs(assignments, j)
  BY <1>1 DEF Occurs
<1>3. /\ job' = [job EXCEPT ![t] = j] /\ pc' = [pc EXCEPT ![t] = "assigned"]
      /\ assignments' = RemoveAt(assignments, cursor)
      /\ UNCHANGED <<pending, status>>
  BY DEF ExamineTake, WithoutCandidate
<1> HIDE DEF j
<1>4. /\ Distinct(assignments)
      /\ \A r, s \in Threads : job[r] = job[s] /\ job[r] # NoJob => r = s
      /\ \A x \in Jobs : Occurs(assignments, x) => ~ Held(x) /\ status[x] = "Queued"
      /\ \A x \in Jobs : status[x] = "New" => ~ Held(x)
  BY ExclusiveOccurs DEF Exec
<1>5. /\ \A x : Occurs(assignments', x) => Occurs(assignments, x) /\ x # j
      /\ Distinct(assignments')
  BY <1>1, <1>3, <1>4, RemoveAtOccurs DEF j
<1>6. \A x \in Jobs : Held(x)' => Held(x) \/ x = j
  BY <1>3 DEF Held, Typed, TypeOK
<1>7. \A r, s \in Threads : job'[r] = job'[s] /\ job'[r] # NoJob => r = s
  <2>1. \A s \in Threads : job[s] # j
    BY <1>2, <1>4 DEF Held
  <2>2. QED
    BY <1>3, <1>4, <2>1 DEF Typed, TypeOK
<1>8. \A x \in Jobs : Occurs(assignments', x) => ~ Held(x)' /\ status'[x] = "Queued"
  BY <1>3, <1>4, <1>5, <1>6
<1>9. \A x \in Jobs : status'[x] = "New" => ~ Held(x)'
  BY <1>2, <1>3, <1>4, <1>6
<1>10. ExclusiveExecution'
  BY <1>5, <1>7, <1>8, <1>9 DEF ExclusiveExecution, Distinct, Occurs, Queued
<1>11. StatusInv'
  BY <1>2, <1>3, <1>4 DEF Exec, StatusInv, Typed, TypeOK
<1>12. PendingInv'
  BY <1>3 DEF Exec, PendingInv
<1>13. QED
  BY <1>10, <1>11, <1>12 DEF Exec

LEMMA ThreadStepExec ==
  ASSUME Typed, Typed', ThreadInv, Exec, NEW t \in Threads, LockFreeStep(t) \/ LockingStep(t)
  PROVE  Exec'
<1>1. CASE BeginRun(t)
  <2>1. job[t] \in Jobs /\ status[job[t]] = "Queued"
    BY <1>1 DEF BeginRun, ThreadInv, Exec, StatusInv, Typed, TypeOK
  <2>2. /\ status' = [status EXCEPT ![job[t]] = "Running"]
        /\ pc' = [pc EXCEPT ![t] = "running"]
        /\ UNCHANGED <<assignments, pending, job>>
    BY <1>1 DEF BeginRun, queueVars
  <2>3. pc'[t] = "running" /\ \A s \in Threads \ {t} : pc'[s] = pc[s]
    BY <2>2 DEF Typed, TypeOK
  <2>4. status[job[t]] # "New"
    BY <2>1
  <2>5. PICK st \in {"Running", "Success", "Failed", "Aborted"} : st = "Running"
    OBVIOUS
  <2>6. /\ status' = [status EXCEPT ![job[t]] = st]
        /\ UNCHANGED <<assignments, pending, job>>
        /\ pc'[t] \in {"running", "ending"}
        /\ pc'[t] = "running" => st = "Running"
        /\ pc'[t] = "ending" => st \in Outcomes
    BY <2>2, <2>3, <2>5
  <2>7. QED
    BY <2>1, <2>3, <2>4, <2>6, HeldStatusExec
<1>2. CASE FinishRun(t)
  <2>1. job[t] \in Jobs /\ status[job[t]] = "Running"
    BY <1>2 DEF FinishRun, ThreadInv, Exec, StatusInv, Typed, TypeOK
  <2>2. PICK outcome \in Outcomes : status' = [status EXCEPT ![job[t]] = outcome]
    BY <1>2 DEF FinishRun
  <2>3. pc' = [pc EXCEPT ![t] = "ending"] /\ UNCHANGED <<assignments, pending, job>>
    BY <1>2 DEF FinishRun, queueVars
  <2>4. pc'[t] = "ending" /\ \A s \in Threads \ {t} : pc'[s] = pc[s]
    BY <2>3 DEF Typed, TypeOK
  <2>5. outcome \in {"Running", "Success", "Failed", "Aborted"}
    BY OutcomesAssumption
  <2>6. status[job[t]] # "New"
    BY <2>1
  <2>7. QED
    BY <2>1, <2>2, <2>3, <2>4, <2>5, <2>6, HeldStatusExec
<1>3. CASE EndJob(t)
  BY <1>3, EndJobExec
<1>4. CASE ExamineTake(t)
  BY <1>4, ExamineTakeExec
<1>5. QED
  BY <1>1, <1>2, <1>3, <1>4, ThreadStepQuiet DEF LockFreeStep

-------------------------------------------------------------------------------
(* Steps of the users *)

LEMMA EnqueueExec ==
  ASSUME Typed, Exec, NEW u \in Users, Enqueue(u)
  PROVE  Exec'
<1>1. PICK js \in Batches :
        (\A i \in DOMAIN js : status[js[i]] = "New") /\ pending' = js
  BY DEF Enqueue
<1>2. IsInjective(js)
  BY BatchesAssumption
<1>3. \A i, k \in DOMAIN js : js[i] = js[k] => i = k
  BY <1>2 DEF IsInjective
<1>4. UNCHANGED <<assignments, status, job, pc>>
  BY DEF Enqueue, threadVars, jobVars
<1>5. PendingInv'
  BY <1>1, <1>3, <1>4 DEF PendingInv
<1>6. StatusInv' /\ ExclusiveExecution'
  BY <1>4 DEF Exec, StatusInv, ExclusiveExecution, Queued, Held
<1>7. QED
  BY <1>5, <1>6 DEF Exec

LEMMA EnqueueJobExec ==
  ASSUME Typed, ThreadInv, Exec, NEW u \in Users, EnqueueJob(u)
  PROVE  Exec'
<1> DEFINE j == Head(pending)
<1>1. pending # <<>> /\ pending \in Seq(Jobs) /\ j \in Jobs
  BY HeadTailProperties DEF EnqueueJob, Typed, TypeOK, MutexInv
<1>2. /\ status' = [status EXCEPT ![j] = "Queued"]
      /\ pending' = Tail(pending)
      /\ job' = job
  BY DEF EnqueueJob
<1>3. PICK i \in 0..Len(assignments) : assignments' = InsertAt(assignments, i + 1, j)
  BY DEF EnqueueJob
<1>4. j = pending[1]
  BY <1>1
<1> HIDE DEF j
<1>5. Occurs(pending, j) /\ status[j] = "New"
  BY <1>1, <1>4, PendingOccurs DEF Exec, Occurs
<1>6. /\ Distinct(assignments)
      /\ \A r, s \in Threads : job[r] = job[s] /\ job[r] # NoJob => r = s
      /\ \A x \in Jobs : Occurs(assignments, x) => ~ Held(x) /\ status[x] = "Queued"
      /\ \A x \in Jobs : status[x] = "New" => ~ Held(x)
  BY ExclusiveOccurs DEF Exec
<1>7. ~ Held(j) /\ ~ Occurs(assignments, j)
  BY <1>1, <1>5, <1>6
<1>8. /\ \A x : Occurs(assignments', x) <=> x = j \/ Occurs(assignments, x)
      /\ Distinct(assignments')
  <2>1. assignments \in Seq(Jobs) /\ i + 1 \in 1..Len(assignments) + 1
    BY <1>3 DEF Typed, TypeOK
  <2>2. QED
    BY <1>1, <1>3, <1>6, <1>7, <2>1, InsertAtOccurs
<1>9. \A x \in Jobs : /\ status'[x] = IF x = j THEN "Queued" ELSE status[x]
                      /\ Held(x)' <=> Held(x)
  BY <1>2 DEF Held, Typed, TypeOK
<1>10. ExclusiveExecution'
  <2>1. \A x \in Jobs : Occurs(assignments', x) => ~ Held(x)' /\ status'[x] = "Queued"
    BY <1>6, <1>7, <1>8, <1>9
  <2>2. \A x \in Jobs : status'[x] = "New" => ~ Held(x)'
    BY <1>6, <1>9
  <2>3. QED
    BY <1>2, <1>6, <1>8, <2>1, <2>2 DEF ExclusiveExecution, Distinct, Occurs, Queued
<1>11. PendingInv'
  <2>1. /\ \A k \in DOMAIN Tail(pending) :
             k + 1 \in DOMAIN pending /\ Tail(pending)[k] = pending[k + 1] /\ k + 1 # 1
        /\ 1 \in DOMAIN pending
    BY <1>1
  <2>2. \A k, l \in DOMAIN pending : pending[k] = pending[l] => k = l
    BY DEF Exec, PendingInv
  <2>3. ASSUME NEW k \in DOMAIN Tail(pending), NEW l \in DOMAIN Tail(pending),
               Tail(pending)[k] = Tail(pending)[l]
        PROVE  k = l
    <3>1. k + 1 = l + 1
      BY <2>1, <2>2, <2>3
    <3>2. k \in Int /\ l \in Int
      BY <1>1
    <3>3. QED
      BY <3>1, <3>2
  <2>4. ASSUME NEW k \in DOMAIN Tail(pending) PROVE status'[Tail(pending)[k]] = "New"
    <3>1. pending[k + 1] \in Jobs /\ pending[k + 1] # j /\ status[pending[k + 1]] = "New"
      BY <1>1, <1>4, <2>1, <2>2 DEF Exec, PendingInv
    <3>2. QED
      BY <1>9, <2>1, <3>1
  <2>5. QED
    BY <1>2, <2>3, <2>4 DEF PendingInv
<1>12. StatusInv'
  <2>1. \A t \in Threads : pc'[t] = pc[t] \/ pc'[t] \notin Holding
    BY UserStepFrame DEF UserFrame, CallStep, Holding
  <2>2. \A t \in Threads : pc[t] \in Holding => job[t] \in Jobs /\ job[t] # j
    BY <1>7, JobsAssumption DEF ThreadInv, Holding, Held, Typed, TypeOK
  <2>3. QED
    BY <1>2, <1>9, <2>1, <2>2 DEF Exec, StatusInv, Holding
<1>13. QED
  BY <1>10, <1>11, <1>12 DEF Exec

LEMMA DequeueJobExec ==
  ASSUME Typed, ThreadInv, Exec, NEW u \in Users, DequeueJob(u)
  PROVE  Exec'
<1>1. PICK i \in DOMAIN assignments :
        /\ status' = DequeuedStatus(assignments[i])
        /\ assignments' = RemoveAt(assignments, i)
  BY DEF DequeueJob
<1> DEFINE j == assignments[i]
<1>2. i \in 1..Len(assignments) /\ assignments \in Seq(Jobs) /\ j \in Jobs /\ Occurs(assignments, j)
  BY <1>1 DEF Typed, TypeOK, Occurs
<1>3. /\ status' = [status EXCEPT ![j] = "New"]
      /\ UNCHANGED <<pending, job, pc>>
  BY <1>1 DEF DequeueJob, DequeuedStatus, threadVars
<1> HIDE DEF j
<1>4. /\ Distinct(assignments)
      /\ \A r, s \in Threads : job[r] = job[s] /\ job[r] # NoJob => r = s
      /\ \A x \in Jobs : Occurs(assignments, x) => ~ Held(x) /\ status[x] = "Queued"
      /\ \A x \in Jobs : status[x] = "New" => ~ Held(x)
  BY ExclusiveOccurs DEF Exec
<1>5. /\ \A x : Occurs(assignments', x) => Occurs(assignments, x) /\ x # j
      /\ Distinct(assignments')
  BY <1>1, <1>2, <1>4, RemoveAtOccurs DEF j
<1>6. \A x \in Jobs : /\ status'[x] = IF x = j THEN "New" ELSE status[x]
                      /\ Held(x)' <=> Held(x)
  BY <1>3 DEF Held, Typed, TypeOK
<1>7. ~ Held(j)
  BY <1>2, <1>4
<1>8. ExclusiveExecution'
  <2>1. \A x \in Jobs : Occurs(assignments', x) => ~ Held(x)' /\ status'[x] = "Queued"
    BY <1>4, <1>5, <1>6
  <2>2. \A x \in Jobs : status'[x] = "New" => ~ Held(x)'
    BY <1>4, <1>6, <1>7
  <2>3. QED
    BY <1>3, <1>4, <1>5, <2>1, <2>2 DEF ExclusiveExecution, Distinct, Occurs, Queued
<1>9. PendingInv'
  BY <1>3, <1>6 DEF Exec, PendingInv, Typed, TypeOK
<1>10. StatusInv'
  <2>1. \A t \in Threads : pc[t] \in Holding => job[t] \in Jobs /\ job[t] # j
    BY <1>7, JobsAssumption DEF ThreadInv, Holding, Held, Typed, TypeOK
  <2>2. QED
    BY <1>3, <1>6, <2>1 DEF Exec, StatusInv, Holding
<1>11. QED
  BY <1>8, <1>9, <1>10 DEF Exec

LEMMA UserStepExec ==
  ASSUME Typed, ThreadInv, Exec, NEW u \in Users, ApiCall(u) \/ CallStep(u)
  PROVE  Exec'
<1>1. UserFrame
  BY UserStepFrame
<1>2. CASE Enqueue(u) \/ EnqueueJob(u) \/ DequeueJob(u)
  BY <1>2, EnqueueExec, EnqueueJobExec, DequeueJobExec
<1>3. CASE DequeueAll(u)
  <2>1. assignments' = <<>> /\ UNCHANGED <<pending, status, job, pc>>
    BY <1>3 DEF DequeueAll, threadVars, jobVars
  <2>2. QED
    BY <2>1 DEF Exec, StatusInv, PendingInv, ExclusiveExecution, Queued, Held
<1>4. CASE ~ (Enqueue(u) \/ EnqueueJob(u) \/ DequeueJob(u) \/ DequeueAll(u))
  <2>1. UNCHANGED <<assignments, pending, status, job>>
    BY <1>4 DEF ApiCall, CallStep, Finish, Suspend, Resume, SetMax, Reschedule, ShutDown,
        FinishCheck, FinishTimeout, SuspendSet, ResumeSet, SdAcquire, SdFinish, SdFinishTimeout,
        SdSuspend, SdSuspendSet, SdSet, SdReschedule, SdTake, SdWake, SdDelete, SdDestruct,
        queueVars, threadVars, jobVars
  <2>2. \A t \in Threads : pc'[t] = pc[t] \/ pc'[t] \notin Holding
    BY <1>1 DEF UserFrame, Holding
  <2>3. QED
    BY <2>1, <2>2, ExecFrame
<1>5. QED
  BY <1>2, <1>3, <1>4

LEMMA ExecInit == Init => Exec
<1> SUFFICES ASSUME Init PROVE Exec
  OBVIOUS
<1>1. StatusInv /\ PendingInv
  BY DEF Init, StatusInv, PendingInv
<1>2. (\A j \in Jobs : ~ Queued(j) /\ ~ Held(j)) /\ DOMAIN assignments = {}
  BY JobsAssumption DEF Init, Queued, Held
<1>3. \A t \in Threads : job[t] = NoJob
  BY DEF Init
<1>4. QED
  BY <1>1, <1>2, <1>3 DEF Exec, ExclusiveExecution

LEMMA ExecStep == ActiveInv /\ ActiveInv' /\ Exec /\ [Next]_vars => Exec'
<1> SUFFICES ASSUME ActiveInv, ActiveInv', Exec, [Next]_vars PROVE Exec'
  OBVIOUS
<1>1. Typed /\ Typed' /\ ThreadInv
  BY DEF ActiveInv
<1>2. CASE UNCHANGED vars
  BY <1>2 DEF Exec, StatusInv, PendingInv, ExclusiveExecution, Queued, Held, vars, queueVars,
     threadVars, jobVars
<1>3. CASE Next
  BY <1>1, <1>3, ThreadStepExec, UserStepExec DEF Next
<1>4. QED
  BY <1>2, <1>3

LEMMA ExecInvariant == Spec => []Exec
<1>1. ActiveInv /\ ActiveInv' /\ Exec /\ [Next]_vars => Exec'
  BY ExecStep
<1>2. QED
  BY <1>1, ActiveInvariant, ExecInit, PTL DEF Spec

(* Whatever is queued, withdrawn and handed out at the same time, a job is *)
(* in the queue once, with one thread, or neither: it is never executed    *)
(* twice, nor executed after dequeue(job) reported its withdrawal.         *)
THEOREM ExecutionIsExclusive == Spec => []ExclusiveExecution
<1>1. Exec => ExclusiveExecution
  BY DEF Exec
<1>2. QED
  BY <1>1, ExecInvariant, PTL

-------------------------------------------------------------------------------
(***************************************************************************)
(* The queue policies are honoured, though the weaver asks them with its   *)
(* mutex held and the threads change them without it: a job starts only    *)
(* after everything it depends on has succeeded, and no more restricted    *)
(* jobs run at a time than their policy allows.                            *)
(***************************************************************************)

Policies == DependencyInv /\ CapRespected
Initial == {"New", "Queued"}

(* Steps that leave the policies alone, take no job and start none.        *)
LEMMA PolicyFrame ==
  ASSUME Policies, UNCHANGED <<job, dependencies, customers>>,
         \A j \in Jobs : /\ status[j] = "Success" => status'[j] = "Success"
                         /\ status[j] \in Initial /\ ~ Held(j) => status'[j] \in Initial
  PROVE  Policies'
<1>1. \A j : Held(j)' <=> Held(j)
  BY DEF Held
<1>2. \A d \in DependsOn : d[1] \in Jobs /\ d[2] \in Jobs
  BY DependsOnAssumption
<1>3. DependencyInv'
  <2>1. dependencies' \subseteq DependsOn
    BY DEF Policies, DependencyInv
  <2>2. \A d \in DependsOn \ dependencies' : status'[d[2]] = "Success" /\ ~ Held(d[2])'
    BY <1>1, <1>2 DEF Policies, DependencyInv
  <2>3. \A d \in dependencies' : ~ Held(d[1])' /\ status'[d[1]] \in Initial
    BY <1>1, <1>2 DEF Policies, DependencyInv, Initial
  <2>4. QED
    BY <2>1, <2>2, <2>3 DEF DependencyInv, Initial
<1>4. CapRespected'
  BY <1>1 DEF Policies, CapRespected
<1>5. QED
  BY <1>3, <1>4 DEF Policies

(* The hand-out: the job waits for nothing, and there is room for it.      *)
LEMMA ExamineTakePolicies ==
  ASSUME Typed, ThreadInv, Exec, Policies, NEW t \in Threads, ExamineTake(t)
  PROVE  Policies'
<1> DEFINE j == assignments[cursor]
<1>1. cursor \in 1..Len(assignments) /\ assignments \in Seq(Jobs)
  BY DEF ExamineTake, Typed, TypeOK, MutexInv
<1>2. j \in Jobs /\ Queued(j)
  BY <1>1 DEF Queued
<1>3. /\ CanRun(j)
      /\ job' = [job EXCEPT ![t] = j]
      /\ customers' = customers \cup ({j} \cap Restricted)
      /\ UNCHANGED <<status, dependencies>>
  BY DEF ExamineTake
<1> HIDE DEF j
<1>4. ~ Held(j) /\ job[t] = NoJob
  BY <1>2 DEF Exec, ExclusiveExecution, ExamineTake, ThreadInv
<1>5. \A x \in Jobs : Held(x)' <=> Held(x) \/ x = j
  BY <1>3, <1>4, JobsAssumption DEF Held, Typed, TypeOK
<1>6. DependencyInv'
  <2>1. \A d \in dependencies : d[1] # j /\ d[1] \in Jobs
    BY <1>3, DependsOnAssumption DEF CanRun, HasUnresolvedDependencies, Typed, TypeOK
  <2>2. status[j] = "Queued"
    BY <1>2 DEF Exec, ExclusiveExecution
  <2>3. \A d \in DependsOn : d[2] \in Jobs
    BY DependsOnAssumption
  <2>4. QED
    BY <1>3, <1>5, <2>1, <2>2, <2>3 DEF Policies, DependencyInv
<1>7. customers = {x \in Restricted : Held(x)} /\ Cardinality(customers) <= Cap
  BY DEF Policies, CapRespected
<1>8. customers' = {x \in Restricted : Held(x)'}
  BY <1>2, <1>3, <1>5, <1>7, JobsAssumption
<1>9. Cardinality(customers') <= Cap
  <2>1. CASE j \in Restricted
    <3>1. customers' = customers \cup {j} /\ j \notin customers
      BY <1>3, <1>4, <1>7, <2>1
    <3>2. IsFiniteSet(customers) /\ Cardinality(customers) \in Nat
      BY <1>7, JobsAssumption, FS_Subset, FS_CardinalityType
    <3>3. Cardinality(customers') = Cardinality(customers) + 1
      BY <3>1, <3>2, FS_AddElement
    <3>4. Cardinality(customers) < Cap
      BY <1>3, <2>1 DEF CanRun, HasRoom
    <3>5. QED
      BY <3>2, <3>3, <3>4, JobsAssumption
  <2>2. CASE j \notin Restricted
    <3>1. customers' = customers
      BY <1>3, <2>2
    <3>2. QED
      BY <1>7, <3>1
  <2>3. QED
    BY <2>1, <2>2
<1>10. QED
  BY <1>6, <1>8, <1>9 DEF Policies, CapRespected

(* The end of a job resolves what depends on it only if it succeeded, and  *)
(* makes room for the next customer.                                       *)
LEMMA EndJobPolicies ==
  ASSUME Typed, ThreadInv, Exec, Policies, NEW t \in Threads, EndJob(t)
  PROVE  Policies'
<1> DEFINE j == job[t]
<1>1. /\ pc[t] = "ending" /\ j # NoJob /\ j \in Jobs
      /\ job' = [job EXCEPT ![t] = NoJob]
      /\ customers' = customers \ {j}
      /\ dependencies' = ResolveDependencies(dependencies, j, status[j] = "Success")
      /\ status' = status
  BY DEF EndJob, ThreadInv, Typed, TypeOK
<1> HIDE DEF j
<1>2. \A s \in Threads \ {t} : job[s] # j
  BY <1>1 DEF Exec, ExclusiveExecution, j
<1>3. \A x \in Jobs : Held(x)' <=> Held(x) /\ x # j
  BY <1>1, <1>2, JobsAssumption DEF Held, Typed, TypeOK, j
<1>4. DependencyInv'
  <2>1. /\ dependencies' \subseteq dependencies
        /\ \A d \in dependencies \ dependencies' : d[2] = j /\ status[j] = "Success"
    BY <1>1 DEF ResolveDependencies
  <2>2. \A d \in DependsOn : d[1] \in Jobs /\ d[2] \in Jobs
    BY DependsOnAssumption
  <2>3. dependencies' \subseteq DependsOn
    BY <2>1 DEF Policies, DependencyInv
  <2>4. \A d \in DependsOn \ dependencies' : status'[d[2]] = "Success" /\ ~ Held(d[2])'
    BY <1>1, <1>3, <2>1, <2>2 DEF Policies, DependencyInv
  <2>5. \A d \in dependencies' : ~ Held(d[1])' /\ status'[d[1]] \in {"New", "Queued"}
    BY <1>1, <1>3, <2>1, <2>2 DEF Policies, DependencyInv
  <2>6. QED
    BY <2>3, <2>4, <2>5 DEF Policies, DependencyInv
<1>5. customers = {x \in Restricted : Held(x)} /\ Cardinality(customers) <= Cap
  BY DEF Policies, CapRespected
<1>6. customers' = {x \in Restricted : Held(x)'}
  BY <1>1, <1>3, <1>5, JobsAssumption
<1>7. Cardinality(customers') <= Cap
  <2>1. /\ IsFiniteSet(customers) /\ customers' \subseteq customers
        /\ Cardinality(customers) \in Nat /\ Cardinality(customers') \in Nat
    BY <1>1, <1>5, JobsAssumption, FS_Subset, FS_CardinalityType
  <2>2. Cardinality(customers') <= Cardinality(customers)
    BY <2>1, FS_Subset
  <2>3. QED
    BY <1>5, <2>1, <2>2, JobsAssumption
<1>8. QED
  BY <1>4, <1>6, <1>7 DEF Policies, CapRespected

(* Only a job in hand starts or ends.                                      *)
LEMMA RunPolicies ==
  ASSUME Typed, ThreadInv, Exec, Policies, NEW t \in Threads, BeginRun(t) \/ FinishRun(t)
  PROVE  Policies'
<1>1. /\ job[t] \in Jobs /\ Held(job[t])
      /\ status[job[t]] # "Success"
      /\ UNCHANGED <<job, dependencies, customers>>
  BY DEF BeginRun, FinishRun, ThreadInv, Exec, StatusInv, Held, Typed, TypeOK
<1>2. \A x \in Jobs \ {job[t]} : status'[x] = status[x]
  BY <1>1 DEF BeginRun, FinishRun, Typed, TypeOK
<1>3. QED
  BY <1>1, <1>2, PolicyFrame

LEMMA ThreadStepPolicies ==
  ASSUME Typed, ThreadInv, Exec, Policies, NEW t \in Threads, LockFreeStep(t) \/ LockingStep(t)
  PROVE  Policies'
<1>1. CASE BeginRun(t) \/ FinishRun(t)
  BY <1>1, RunPolicies
<1>2. CASE EndJob(t)
  BY <1>2, EndJobPolicies
<1>3. CASE ExamineTake(t)
  BY <1>3, ExamineTakePolicies
<1>4. CASE ~ (BeginRun(t) \/ FinishRun(t) \/ EndJob(t) \/ ExamineTake(t))
  <2>1. UNCHANGED <<status, job, dependencies, customers>>
    BY <1>4 DEF LockFreeStep, LockingStep, EnterRun, ApplyForWork, WaitCall, Exit, ExaminePass,
        ScanWait, TakeReturn, TakeExpire, TakeScan, TakeSuspending, BeginTake, Block, threadVars,
        jobVars
  <2>2. QED
    BY <2>1, PolicyFrame
<1>5. QED
  BY <1>1, <1>2, <1>3, <1>4

LEMMA UserStepPolicies ==
  ASSUME Typed, Exec, Policies, NEW u \in Users, ApiCall(u) \/ CallStep(u)
  PROVE  Policies'
<1>1. UNCHANGED <<job, dependencies, customers>>
  BY UserStepFrame DEF UserFrame
<1>2. CASE EnqueueJob(u)
  <2>1. pending # <<>> /\ Head(pending) \in Jobs /\ Head(pending) = pending[1]
        /\ 1 \in DOMAIN pending
    BY <1>2, HeadTailProperties DEF EnqueueJob, Typed, TypeOK, MutexInv
  <2>2. status[Head(pending)] = "New"
    BY <2>1 DEF Exec, PendingInv
  <2>3. status' = [status EXCEPT ![Head(pending)] = "Queued"]
    BY <1>2 DEF EnqueueJob
  <2>4. \A j \in Jobs : /\ status[j] = "Success" => status'[j] = "Success"
                        /\ status[j] \in Initial => status'[j] \in Initial
    BY <2>1, <2>2, <2>3 DEF Initial, Typed, TypeOK
  <2>5. QED
    BY <1>1, <2>4, PolicyFrame
<1>3. CASE DequeueJob(u)
  <2>1. PICK i \in DOMAIN assignments : status' = DequeuedStatus(assignments[i])
    BY <1>3 DEF DequeueJob
  <2>2. assignments[i] \in Jobs /\ status[assignments[i]] = "Queued"
    BY <2>1 DEF Exec, ExclusiveExecution, Queued, Typed, TypeOK
  <2>3. \A j \in Jobs : /\ status[j] = "Success" => status'[j] = "Success"
                        /\ status[j] \in Initial => status'[j] \in Initial
    BY <2>1, <2>2 DEF DequeuedStatus, Initial, Typed, TypeOK
  <2>4. QED
    BY <1>1, <2>3, PolicyFrame
<1>4. CASE ~ EnqueueJob(u) /\ ~ DequeueJob(u)
  <2>1. status' = status
    BY <1>4 DEF ApiCall, CallStep, Enqueue, DequeueAll, Finish, Suspend, Resume, SetMax,
        Reschedule, ShutDown, FinishCheck, FinishTimeout, SuspendSet, ResumeSet, SdAcquire,
        SdFinish, SdFinishTimeout, SdSuspend, SdSuspendSet, SdSet, SdReschedule, SdTake, SdWake,
        SdDelete, SdDestruct, jobVars
  <2>2. QED
    BY <1>1, <2>1, PolicyFrame
<1>5. QED
  BY <1>2, <1>3, <1>4

LEMMA PoliciesInit == Init => Policies
<1> SUFFICES ASSUME Init PROVE Policies
  OBVIOUS
<1>1. \A j \in Jobs : ~ Held(j)
  BY JobsAssumption DEF Init, Held
<1>2. DependencyInv
  BY <1>1, DependsOnAssumption DEF Init, DependencyInv
<1>3. CapRespected
  <2>1. customers = {} /\ {j \in Restricted : Held(j)} = {}
    BY <1>1, JobsAssumption DEF Init
  <2>2. QED
    BY <2>1, FS_EmptySet, JobsAssumption DEF CapRespected
<1>4. QED
  BY <1>2, <1>3 DEF Policies

LEMMA PoliciesInvariant == Spec => []Policies
<1>1. ActiveInv /\ Exec /\ Policies /\ [Next]_vars => Policies'
  <2> SUFFICES ASSUME ActiveInv, Exec, Policies, [Next]_vars PROVE Policies'
    OBVIOUS
  <2>1. Typed /\ ThreadInv
    BY DEF ActiveInv
  <2>2. CASE UNCHANGED vars
    BY <2>2, PolicyFrame DEF vars, threadVars, jobVars
  <2>3. CASE Next
    BY <2>1, <2>3, ThreadStepPolicies, UserStepPolicies DEF Next
  <2>4. QED
    BY <2>2, <2>3
<1>2. QED
  BY <1>1, ActiveInvariant, ExecInvariant, PoliciesInit, PTL DEF Spec

(* A job is handed out only after everything it depends on has succeeded,  *)
(* though dependencies are resolved while the weaver looks at them.        *)
THEOREM DependenciesAreRespected == Spec => []DependenciesRespected
<1>1. Policies => DependenciesRespected
  BY DEF Policies, DependencyInv, DependenciesRespected
<1>2. QED
  BY <1>1, PoliciesInvariant, PTL

(* The restriction's customers are exactly the restricted jobs in hand,    *)
(* never more than its cap.                                                *)
THEOREM CapIsRespected == Spec => []CapRespected
<1>1. Policies => CapRespected
  BY DEF Policies
<1>2. QED
  BY <1>1, PoliciesInvariant, PTL

-------------------------------------------------------------------------------
(***************************************************************************)
(* The order of the queue: by priority, and first come, first served among *)
(* jobs of one priority, though jobs leave from the middle.                *)
(***************************************************************************)

(* What may happen to the queue in one step.                               *)
LEMMA QueueSteps ==
  ASSUME Typed, [Next]_vars
  PROVE  \/ assignments' = assignments
         \/ assignments' = <<>>
         \/ \E i \in 1..Len(assignments) : assignments' = RemoveAt(assignments, i)
         \/ \E u \in Users : EnqueueJob(u)
<1>1. CASE UNCHANGED vars
  BY <1>1 DEF vars, queueVars
<1>2. ASSUME NEW t \in Threads, LockFreeStep(t) \/ LockingStep(t)
      PROVE  \/ assignments' = assignments
             \/ \E i \in 1..Len(assignments) : assignments' = RemoveAt(assignments, i)
  <2>1. CASE ExamineTake(t)
    BY <2>1 DEF ExamineTake, WithoutCandidate, Typed, TypeOK, MutexInv
  <2>2. CASE ~ ExamineTake(t)
    BY <1>2, <2>2
    DEF LockFreeStep, LockingStep, EnterRun, ApplyForWork, WaitCall, BeginRun, FinishRun, EndJob,
        Exit, ExaminePass, ScanWait, TakeReturn, TakeExpire, TakeScan, TakeSuspending, BeginTake,
        Block, queueVars
  <2>3. QED
    BY <2>1, <2>2
<1>3. ASSUME NEW u \in Users, ApiCall(u) \/ CallStep(u)
      PROVE  \/ assignments' = assignments
             \/ assignments' = <<>>
             \/ \E i \in 1..Len(assignments) : assignments' = RemoveAt(assignments, i)
             \/ EnqueueJob(u)
  <2>1. CASE DequeueJob(u)
    <3>1. PICK i \in DOMAIN assignments : assignments' = RemoveAt(assignments, i)
      BY <2>1 DEF DequeueJob
    <3>2. i \in 1..Len(assignments)
      BY <3>1 DEF Typed, TypeOK
    <3>3. QED
      BY <3>1, <3>2
  <2>2. CASE DequeueAll(u)
    BY <2>2 DEF DequeueAll
  <2>3. CASE ~ DequeueJob(u) /\ ~ DequeueAll(u) /\ ~ EnqueueJob(u)
    BY <1>3, <2>3
    DEF ApiCall, CallStep, Enqueue, Finish, Suspend, Resume, SetMax, Reschedule, ShutDown,
        FinishCheck, FinishTimeout, SuspendSet, ResumeSet, SdAcquire, SdFinish, SdFinishTimeout,
        SdSuspend, SdSuspendSet, SdSet, SdReschedule, SdTake, SdWake, SdDelete, SdDestruct,
        queueVars
  <2>4. QED
    BY <2>1, <2>2, <2>3
<1>4. QED
  BY <1>1, <1>2, <1>3 DEF Next

(* Where the elements of the queue have been before one was removed ...    *)
LEMMA RemovedFrom ==
  ASSUME NEW S, NEW s \in Seq(S), NEW i \in 1..Len(s), NEW r, r = RemoveAt(s, i)
  PROVE  /\ DOMAIN r = 1..Len(s) - 1
         /\ \A k, l \in DOMAIN r : k < l => \E m, n \in DOMAIN s : m < n /\ r[k] = s[m] /\ r[l] = s[n]
         /\ \A k \in DOMAIN r : \E m \in DOMAIN s : r[k] = s[m]
<1>1. /\ r \in Seq(S) /\ Len(r) = Len(s) - 1
      /\ \A k \in 1..Len(s) - 1 : r[k] = IF k < i THEN s[k] ELSE s[k + 1]
  BY RemoveAtProperties
<1>2. DOMAIN r = 1..Len(s) - 1 /\ DOMAIN s = 1..Len(s) /\ Len(s) \in Nat
  BY <1>1
<1>3. ASSUME NEW k \in 1..Len(s) - 1
      PROVE  \E m \in 1..Len(s) : r[k] = s[m] /\ m = IF k < i THEN k ELSE k + 1
  BY <1>1, <1>2
<1>4. ASSUME NEW k \in DOMAIN r, NEW l \in DOMAIN r, k < l
      PROVE  \E m, n \in DOMAIN s : m < n /\ r[k] = s[m] /\ r[l] = s[n]
  <2>1. PICK m \in 1..Len(s) : r[k] = s[m] /\ m = IF k < i THEN k ELSE k + 1
    BY <1>2, <1>3
  <2>2. PICK n \in 1..Len(s) : r[l] = s[n] /\ n = IF l < i THEN l ELSE l + 1
    BY <1>2, <1>3
  <2>3. m < n
    BY <1>2, <1>4, <2>1, <2>2
  <2>4. QED
    BY <1>2, <2>1, <2>2, <2>3
<1>5. QED
  BY <1>2, <1>3, <1>4

(* ... or inserted.                                                        *)
LEMMA InsertedInto ==
  ASSUME NEW S, NEW s \in Seq(S), NEW e \in S, NEW i \in 0..Len(s), NEW r,
         r = InsertAt(s, i + 1, e)
  PROVE  /\ DOMAIN r = 1..Len(s) + 1
         /\ \A k \in DOMAIN r :
              \/ k <= i /\ k \in DOMAIN s /\ r[k] = s[k]
              \/ k = i + 1 /\ r[k] = e
              \/ k > i + 1 /\ k - 1 \in DOMAIN s /\ r[k] = s[k - 1]
<1>1. PICK p \in 1..Len(s) + 1 : p = i + 1
  OBVIOUS
<1>2. r = InsertAt(s, p, e)
  BY <1>1
<1>3. /\ r \in Seq(S) /\ Len(r) = Len(s) + 1 /\ r[p] = e
      /\ \A k \in 1..p - 1 : r[k] = s[k]
      /\ \A k \in p + 1..Len(s) + 1 : r[k] = s[k - 1]
  <2>1. /\ InsertAt(s, p, e) \in Seq(S) /\ Len(InsertAt(s, p, e)) = Len(s) + 1
        /\ InsertAt(s, p, e)[p] = e
        /\ \A k \in 1..p - 1 : InsertAt(s, p, e)[k] = s[k]
        /\ \A k \in p + 1..Len(s) + 1 : InsertAt(s, p, e)[k] = s[k - 1]
    BY InsertAtProperties
  <2>2. QED
    BY <1>2, <2>1
<1>4. DOMAIN r = 1..Len(s) + 1 /\ DOMAIN s = 1..Len(s) /\ Len(s) \in Nat
  BY <1>3
<1>5. ASSUME NEW k \in DOMAIN r
      PROVE  \/ k <= i /\ k \in DOMAIN s /\ r[k] = s[k]
             \/ k = i + 1 /\ r[k] = e
             \/ k > i + 1 /\ k - 1 \in DOMAIN s /\ r[k] = s[k - 1]
  <2>1. CASE k < p
    <3>1. k \in 1..p - 1 /\ k \in DOMAIN s /\ k <= i
      BY <1>1, <1>4, <2>1
    <3>2. QED
      BY <1>3, <3>1
  <2>2. CASE k = p
    BY <1>1, <1>3, <2>2
  <2>3. CASE k > p
    <3>1. k \in p + 1..Len(s) + 1 /\ k - 1 \in DOMAIN s /\ k > i + 1
      BY <1>1, <1>4, <2>3
    <3>2. QED
      BY <1>3, <3>1
  <2>4. QED
    BY <1>4, <2>1, <2>2, <2>3
<1>6. QED
  BY <1>4, <1>5

(* The insertion of enqueue_p().                                           *)
LEMMA EnqueueJobInserts ==
  ASSUME Typed, NEW u \in Users, EnqueueJob(u)
  PROVE  \E i \in 0..Len(assignments) :
           /\ InsertedBehind(i, Head(pending))
           /\ DOMAIN assignments' = 1..Len(assignments) + 1
           /\ \A k \in DOMAIN assignments' :
                \/ k <= i /\ k \in DOMAIN assignments /\ assignments'[k] = assignments[k]
                \/ k = i + 1 /\ assignments'[k] = Head(pending)
                \/ /\ k > i + 1 /\ k - 1 \in DOMAIN assignments
                   /\ assignments'[k] = assignments[k - 1]
<1>1. PICK i \in 0..Len(assignments) :
        /\ InsertedBehind(i, Head(pending))
        /\ assignments' = InsertAt(assignments, i + 1, Head(pending))
  BY DEF EnqueueJob
<1>2. pending # <<>> /\ Head(pending) \in Jobs /\ assignments \in Seq(Jobs)
  BY HeadTailProperties DEF EnqueueJob, Typed, TypeOK, MutexInv
<1>3. QED
  BY <1>1, <1>2, InsertedInto

LEMMA SortedStep ==
  ASSUME Typed, QueueSorted, [Next]_vars
  PROVE  QueueSorted'
<1>1. assignments \in Seq(Jobs) /\ \A k \in DOMAIN assignments : Priority[assignments[k]] \in Int
  BY JobsAssumption DEF Typed, TypeOK
<1>2. CASE assignments' = assignments \/ assignments' = <<>>
  BY <1>2 DEF QueueSorted
<1>3. ASSUME NEW i \in 1..Len(assignments), assignments' = RemoveAt(assignments, i)
      PROVE  QueueSorted'
  <2>1. \A k, l \in DOMAIN assignments' : k < l =>
          \E m, n \in DOMAIN assignments :
            m < n /\ assignments'[k] = assignments[m] /\ assignments'[l] = assignments[n]
    BY <1>1, <1>3, RemovedFrom
  <2>2. QED
    BY <2>1 DEF QueueSorted
<1>4. ASSUME NEW u \in Users, EnqueueJob(u) PROVE QueueSorted'
  <2> DEFINE j == Head(pending)
  <2>1. PICK i \in 0..Len(assignments) :
          /\ InsertedBehind(i, j)
          /\ DOMAIN assignments' = 1..Len(assignments) + 1
          /\ \A k \in DOMAIN assignments' :
               \/ k <= i /\ k \in DOMAIN assignments /\ assignments'[k] = assignments[k]
               \/ k = i + 1 /\ assignments'[k] = j
               \/ /\ k > i + 1 /\ k - 1 \in DOMAIN assignments
                  /\ assignments'[k] = assignments[k - 1]
    BY <1>4, EnqueueJobInserts
  <2>2. pending # <<>> /\ j \in Jobs
    BY <1>4, HeadTailProperties DEF EnqueueJob, Typed, TypeOK, MutexInv
  <2> HIDE DEF j
  <2>3. Priority[j] \in Int
    BY <2>2, JobsAssumption
  <2>4. \A m \in DOMAIN assignments : m <= i => Priority[assignments[m]] >= Priority[j]
    <3>1. SUFFICES ASSUME NEW m \in DOMAIN assignments, m <= i
                   PROVE  Priority[assignments[m]] >= Priority[j]
      OBVIOUS
    <3>2. m \in 1..Len(assignments) /\ i \in DOMAIN assignments /\ i > 0
      BY <1>1, <3>1
    <3>3. Priority[assignments[i]] >= Priority[j]
      BY <2>1, <3>2 DEF InsertedBehind
    <3>4. m = i \/ Priority[assignments[m]] >= Priority[assignments[i]]
      BY <3>1, <3>2 DEF QueueSorted
    <3>5. QED
      BY <1>1, <2>3, <3>2, <3>3, <3>4
  <2>5. \A m \in DOMAIN assignments : m > i => Priority[assignments[m]] < Priority[j]
    BY <1>1, <2>1 DEF InsertedBehind
  <2>6. ASSUME NEW k \in DOMAIN assignments', NEW l \in DOMAIN assignments', k < l
        PROVE  Priority[assignments'[k]] >= Priority[assignments'[l]]
    <3>1. k \in Int /\ l \in Int /\ i \in Int
      BY <1>1, <2>1
    <3>2. CASE k <= i /\ l <= i
      BY <2>1, <2>6, <3>1, <3>2 DEF QueueSorted
    <3>3. CASE k <= i /\ l = i + 1
      BY <2>1, <2>4, <3>1, <3>3
    <3>4. CASE k <= i /\ l > i + 1
      <4>1. /\ k \in DOMAIN assignments /\ assignments'[k] = assignments[k]
            /\ l - 1 \in DOMAIN assignments /\ assignments'[l] = assignments[l - 1]
            /\ k < l - 1
        BY <2>1, <3>1, <3>4
      <4>2. QED
        BY <4>1 DEF QueueSorted
    <3>5. CASE k = i + 1
      <4>1. /\ assignments'[k] = j /\ l > i + 1
            /\ l - 1 \in DOMAIN assignments /\ assignments'[l] = assignments[l - 1]
            /\ l - 1 > i
        BY <2>1, <2>6, <3>1, <3>5
      <4>2. Priority[assignments[l - 1]] < Priority[j]
        BY <2>5, <4>1
      <4>3. QED
        BY <1>1, <2>3, <4>1, <4>2
    <3>6. CASE k > i + 1
      <4>1. /\ k - 1 \in DOMAIN assignments /\ assignments'[k] = assignments[k - 1]
            /\ l - 1 \in DOMAIN assignments /\ assignments'[l] = assignments[l - 1]
            /\ k - 1 < l - 1
        BY <2>1, <2>6, <3>1, <3>6
      <4>2. QED
        BY <4>1 DEF QueueSorted
    <3>7. QED
      BY <2>6, <3>1, <3>2, <3>3, <3>4, <3>5, <3>6
  <2>7. QED
    BY <2>6 DEF QueueSorted
<1>5. QED
  BY <1>2, <1>3, <1>4, QueueSteps

(* The queue is ordered by priority: the scan meets urgent jobs first.     *)
THEOREM QueueIsSorted == Spec => []QueueSorted
<1>1. Init => QueueSorted
  BY DEF Init, QueueSorted
<1>2. Typed /\ QueueSorted /\ [Next]_vars => QueueSorted'
  BY SortedStep
<1>3. ActiveInv => Typed
  BY DEF ActiveInv
<1>4. QED
  BY <1>1, <1>2, <1>3, ActiveInvariant, PTL DEF Spec

-------------------------------------------------------------------------------
(* First come, first served *)

Fair ==
  \A k, l \in DOMAIN assignments' :
    LET x == assignments'[k]
        y == assignments'[l]
    IN /\ Queued(x) /\ Queued(y) /\ k < l =>
            \E m, n \in DOMAIN assignments : m < n /\ assignments[m] = x /\ assignments[n] = y
       /\ Queued(x) /\ ~ Queued(y) /\ l < k => Priority[x] < Priority[y]

LEMMA FairStep ==
  ASSUME Typed, Exec, [Next]_vars
  PROVE  Fair
<1>1. assignments \in Seq(Jobs)
  BY DEF Typed, TypeOK
<1>2. CASE assignments' = assignments \/ assignments' = <<>>
  BY <1>2 DEF Fair, Queued
<1>3. ASSUME NEW i \in 1..Len(assignments), assignments' = RemoveAt(assignments, i)
      PROVE  Fair
  <2>1. /\ \A k, l \in DOMAIN assignments' : k < l =>
             \E m, n \in DOMAIN assignments :
               m < n /\ assignments'[k] = assignments[m] /\ assignments'[l] = assignments[n]
        /\ \A k \in DOMAIN assignments' : \E m \in DOMAIN assignments :
             assignments'[k] = assignments[m]
    BY <1>1, <1>3, RemovedFrom
  <2>2. ASSUME NEW k \in DOMAIN assignments', NEW l \in DOMAIN assignments'
        PROVE  /\ Queued(assignments'[l])
               /\ k < l => \E m, n \in DOMAIN assignments :
                    m < n /\ assignments[m] = assignments'[k] /\ assignments[n] = assignments'[l]
    BY <2>1 DEF Queued
  <2>3. QED
    BY <2>2 DEF Fair
<1>4. ASSUME NEW u \in Users, EnqueueJob(u) PROVE Fair
  <2> DEFINE j == Head(pending)
  <2>1. PICK i \in 0..Len(assignments) :
          /\ InsertedBehind(i, j)
          /\ DOMAIN assignments' = 1..Len(assignments) + 1
          /\ \A k \in DOMAIN assignments' :
               \/ k <= i /\ k \in DOMAIN assignments /\ assignments'[k] = assignments[k]
               \/ k = i + 1 /\ assignments'[k] = j
               \/ /\ k > i + 1 /\ k - 1 \in DOMAIN assignments
                  /\ assignments'[k] = assignments[k - 1]
    BY <1>4, EnqueueJobInserts
  <2>2. pending # <<>> /\ j \in Jobs /\ j = pending[1] /\ 1 \in DOMAIN pending
    BY <1>4, HeadTailProperties DEF EnqueueJob, Typed, TypeOK, MutexInv
  <2>3. ~ Queued(j)
    BY <2>2 DEF Exec, PendingInv, ExclusiveExecution
  <2> HIDE DEF j
  <2>4. \A m \in DOMAIN assignments : m > i => Priority[assignments[m]] < Priority[j]
    BY <1>1, <2>1 DEF InsertedBehind
  <2>5. \A m \in DOMAIN assignments : Queued(assignments[m])
    BY DEF Queued
  <2>6. ASSUME NEW k \in DOMAIN assignments', NEW l \in DOMAIN assignments'
        PROVE  /\ Queued(assignments'[k]) /\ Queued(assignments'[l]) /\ k < l =>
                    \E m, n \in DOMAIN assignments :
                      m < n /\ assignments[m] = assignments'[k] /\ assignments[n] = assignments'[l]
               /\ Queued(assignments'[k]) /\ ~ Queued(assignments'[l]) /\ l < k =>
                    Priority[assignments'[k]] < Priority[assignments'[l]]
    <3>1. k \in Int /\ l \in Int /\ i \in Int
      BY <1>1, <2>1
    <3>2. ASSUME Queued(assignments'[k]), Queued(assignments'[l]), k < l
          PROVE  \E m, n \in DOMAIN assignments :
                   m < n /\ assignments[m] = assignments'[k] /\ assignments[n] = assignments'[l]
      <4>1. /\ \/ k <= i /\ k \in DOMAIN assignments /\ assignments'[k] = assignments[k]
               \/ /\ k > i + 1 /\ k - 1 \in DOMAIN assignments
                  /\ assignments'[k] = assignments[k - 1]
            /\ \/ l <= i /\ l \in DOMAIN assignments /\ assignments'[l] = assignments[l]
               \/ /\ l > i + 1 /\ l - 1 \in DOMAIN assignments
                  /\ assignments'[l] = assignments[l - 1]
        BY <2>1, <2>3, <3>2
      <4>2. \E m \in DOMAIN assignments :
              assignments'[k] = assignments[m] /\ m = IF k <= i THEN k ELSE k - 1
        BY <3>1, <4>1
      <4>3. \E n \in DOMAIN assignments :
              assignments'[l] = assignments[n] /\ n = IF l <= i THEN l ELSE l - 1
        BY <3>1, <4>1
      <4>4. (IF k <= i THEN k ELSE k - 1) < (IF l <= i THEN l ELSE l - 1)
        BY <3>1, <3>2, <4>1
      <4>5. QED
        BY <4>2, <4>3, <4>4
    <3>3. ASSUME Queued(assignments'[k]), ~ Queued(assignments'[l]), l < k
          PROVE  Priority[assignments'[k]] < Priority[assignments'[l]]
      <4>1. l = i + 1 /\ assignments'[l] = j
        BY <2>1, <2>5, <3>3
      <4>2. k > i + 1
        BY <3>1, <3>3, <4>1
      <4>3. k - 1 \in DOMAIN assignments /\ assignments'[k] = assignments[k - 1]
        BY <2>1, <3>1, <4>2
      <4>4. k - 1 > i
        BY <3>1, <4>2
      <4>5. Priority[assignments[k - 1]] < Priority[j]
        BY <2>4, <4>3, <4>4
      <4>6. QED
        BY <4>1, <4>3, <4>5
    <3>4. QED
      BY <3>2, <3>3
  <2>7. QED
    BY <2>6 DEF Fair
<1>5. QED
  BY <1>2, <1>3, <1>4, QueueSteps

(* Jobs in the queue keep their order, and a new job is behind all those   *)
(* of at least its priority: no job is overtaken by a later, less urgent   *)
(* one.                                                                    *)
THEOREM QueueStaysFair == Spec => QueueIsFair
<1>1. Typed /\ Exec /\ [Next]_vars => [Fair]_vars
  BY FairStep
<1>2. ActiveInv => Typed
  BY DEF ActiveInv
<1>3. QueueIsFair <=> [][Fair]_vars
  BY DEF QueueIsFair, Fair
<1>4. QED
  BY <1>1, <1>2, <1>3, ActiveInvariant, ExecInvariant, PTL DEF Spec

-------------------------------------------------------------------------------
(***************************************************************************)
(* The weaver implements the abstract queue: every step of a thread or a   *)
(* user is a step of JobQueue or leaves the phases and the mode alone.     *)
(***************************************************************************)

-------------------------------------------------------------------------------
(* The refinement mapping *)

Refined == ActiveInv /\ Exec /\ Policies /\ ShutStateInv

LEMMA PhaseValues ==
  ASSUME NEW j \in Jobs
  PROVE  /\ Phase(j) = "executing" <=> Held(j)
         /\ Phase(j) = "waiting" <=> ~ Held(j) /\ Queued(j)
         /\ Phase(j) = "idle" <=> ~ Held(j) /\ ~ Queued(j) /\ status[j] = "New"
         /\ Phase(j) = "succeeded" <=> ~ Held(j) /\ ~ Queued(j) /\ status[j] = "Success"
         /\ ~ Held(j) /\ ~ Queued(j) /\ status[j] \in {"Failed", "Aborted"}
              => Phase(j) = "failed"
         /\ ~ Held(j) /\ ~ Queued(j) /\ status[j] = "Queued" => Phase(j) = "dropped"
BY DEF Phase

LEMMA PhaseFrame ==
  ASSUME NEW j \in Jobs, Held(j)' <=> Held(j), Queued(j)' <=> Queued(j),
         status'[j] = status[j] \/ Held(j)
  PROVE  Phase(j)' = Phase(j)
BY DEF Phase

LEMMA QueuedOccurs ==
  ASSUME Typed, NEW j
  PROVE  Queued(j) <=> Occurs(assignments, j)
BY DEF Queued, Occurs

LEMMA QueueStutter ==
  ASSUME \A j \in Jobs : Phase(j)' = Phase(j), Mode' = Mode
  PROVE  UNCHANGED Queue!queue
BY DEF Queue!queue

(* One job changes its phase.                                              *)
LEMMA PhaseChange ==
  ASSUME NEW j \in Jobs, NEW v, Phase(j)' = v, \A x \in Jobs \ {j} : Phase(x)' = Phase(x)
  PROVE  [x \in Jobs |-> Phase(x)]' = [[x \in Jobs |-> Phase(x)] EXCEPT ![j] = v]
OBVIOUS

LEMMA RefineInit == Init => Queue!Init
<1> SUFFICES ASSUME Init PROVE Queue!Init
  OBVIOUS
<1>1. \A j \in Jobs : ~ Held(j) /\ ~ Queued(j) /\ status[j] = "New"
  BY JobsAssumption DEF Init, Held, Queued
<1>2. \A j \in Jobs : Phase(j) = "idle"
  BY <1>1, PhaseValues
<1>3. Mode = "working"
  BY DEF Init, Mode
<1>4. QED
  BY <1>2, <1>3 DEF Queue!Init

LEMMA RefineExamineTake ==
  ASSUME Refined, Refined', NEW t \in Threads, ExamineTake(t)
  PROVE  Queue!Next
<1>1. Typed /\ ThreadInv /\ Exec /\ Policies
  BY DEF Refined, ActiveInv
<1>2. cursor \in 1..Len(assignments) /\ assignments \in Seq(Jobs) /\ state = "WorkingHard"
  BY <1>1 DEF ExamineTake, Typed, TypeOK, MutexInv
<1> PICK j \in Jobs : j = assignments[cursor]
  BY <1>2
<1>3. j \in Jobs /\ Queued(j)
  BY <1>2 DEF Queued
<1>4. /\ CanRun(j)
      /\ job' = [job EXCEPT ![t] = j]
      /\ assignments' = RemoveAt(assignments, cursor)
      /\ UNCHANGED <<status, state>>
  BY DEF ExamineTake, WithoutCandidate
<1>5. ~ Held(j) /\ job[t] = NoJob /\ status[j] = "Queued"
  BY <1>1, <1>3 DEF Exec, ExclusiveExecution, ExamineTake, ThreadInv
<1>6. \A x \in Jobs : Held(x)' <=> Held(x) \/ x = j
  BY <1>1, <1>3, <1>4, <1>5, JobsAssumption DEF Held, Typed, TypeOK
<1>7. \A x \in Jobs : Queued(x)' <=> Queued(x) /\ x # j
  <2>1. Distinct(assignments)
    BY <1>1, ExclusiveOccurs DEF Exec
  <2>2. \A x : Occurs(assignments', x) <=> Occurs(assignments, x) /\ x # j
    BY <1>2, <1>4, <2>1, RemoveAtOccurs
  <2>3. QED
    BY <2>2 DEF Queued, Occurs
<1>8. \A x \in Jobs \ {j} : Phase(x)' = Phase(x)
  BY <1>4, <1>6, <1>7, PhaseFrame
<1>9. Phase(j) = "waiting"
  BY <1>3, <1>5, PhaseValues
<1>10. Phase(j)' = "executing"
  BY <1>3, <1>6 DEF Phase
<1>11. Mode = "working" /\ Mode' = Mode
  BY <1>2, <1>4 DEF Mode
<1>12. \A d \in DependsOn : d[1] = j => Phase(d[2]) = "succeeded"
  <2>1. ASSUME NEW d \in DependsOn, d[1] = j PROVE Phase(d[2]) = "succeeded"
    <3>1. d \notin dependencies /\ d[2] \in Jobs
      BY <1>4, <2>1, DependsOnAssumption DEF CanRun, HasUnresolvedDependencies
    <3>2. status[d[2]] = "Success" /\ ~ Held(d[2])
      BY <1>1, <3>1 DEF Policies, DependencyInv
    <3>3. ~ Queued(d[2])
      BY <1>1, <3>1, <3>2 DEF Exec, ExclusiveExecution
    <3>4. QED
      BY <3>1, <3>2, <3>3, PhaseValues
  <2>2. QED
    BY <2>1
<1>13. j \in Restricted => Cardinality(Queue!InPhase("executing") \cap Restricted) < Cap
  <2>1. Queue!InPhase("executing") = {x \in Jobs : Held(x)}
    BY PhaseValues DEF Queue!InPhase
  <2>2. Queue!InPhase("executing") \cap Restricted = customers
    BY <1>1, <2>1, JobsAssumption DEF Policies, CapRespected
  <2>3. QED
    BY <1>4, <2>2 DEF CanRun, HasRoom
<1>14. Queue!HandOut(j)
  <2>1. \A d \in DependsOn : d[2] \in Jobs
    BY DependsOnAssumption
  <2>2. [x \in Jobs |-> Phase(x)]' = [[x \in Jobs |-> Phase(x)] EXCEPT ![j] = "executing"]
    BY <1>3, <1>8, <1>10, PhaseChange
  <2>3. \A S : Queue!Cardinality(S) = Cardinality(S)
    BY DEF Cardinality, Queue!Cardinality
  <2>4. j \in Restricted => Queue!Cardinality(Queue!InPhase("executing") \cap Restricted) < Cap
    BY <1>13, <2>3
  <2>5. QED
    BY <1>3, <1>9, <1>11, <1>12, <2>1, <2>2, <2>4 DEF Queue!HandOut
<1>15. QED
  BY <1>3, <1>14 DEF Queue!Next

LEMMA RefineEndJob ==
  ASSUME Refined, NEW t \in Threads, EndJob(t)
  PROVE  Queue!Next
<1>1. Typed /\ ThreadInv /\ Exec
  BY DEF Refined, ActiveInv
<1> PICK j \in Jobs : j = job[t]
  BY <1>1 DEF EndJob, ThreadInv, Typed, TypeOK
<1>2. /\ j \in Jobs /\ status[j] \in Outcomes /\ Held(j)
      /\ job' = [job EXCEPT ![t] = NoJob]
      /\ UNCHANGED <<status, state, assignments>>
  BY <1>1 DEF EndJob, ThreadInv, Exec, StatusInv, Held, Typed, TypeOK, queueVars
<1>3. \A s \in Threads \ {t} : job[s] # j
  BY <1>1, <1>2, JobsAssumption DEF Exec, ExclusiveExecution
<1>4. \A x \in Jobs : Held(x)' <=> Held(x) /\ x # j
  BY <1>1, <1>2, <1>3, JobsAssumption DEF Held, Typed, TypeOK
<1>5. \A x \in Jobs : Queued(x)' <=> Queued(x)
  BY <1>2 DEF Queued
<1>6. ~ Held(j)' /\ ~ Queued(j)' /\ status'[j] \in {"Success", "Failed", "Aborted"}
  BY <1>1, <1>2, <1>4, <1>5, OutcomesAssumption DEF Exec, ExclusiveExecution
<1>7. Phase(j)' \in {"succeeded", "failed"}
  BY <1>6 DEF Phase
<1>8. \A x \in Jobs \ {j} : Phase(x)' = Phase(x)
  BY <1>2, <1>4, <1>5, PhaseFrame
<1>9. Phase(j) = "executing" /\ Mode' = Mode
  BY <1>2, PhaseValues DEF Mode
<1>10. [x \in Jobs |-> Phase(x)]' = [[x \in Jobs |-> Phase(x)] EXCEPT ![j] = Phase(j)']
  BY <1>2, <1>8, PhaseChange
<1>11. Queue!Complete(j)
  BY <1>2, <1>7, <1>9, <1>10 DEF Queue!Complete
<1>12. QED
  BY <1>2, <1>11 DEF Queue!Next

(* The other steps of a thread change no phase, and the mode only from     *)
(* suspending to suspended, when nothing is executing.                     *)
LEMMA RefineThreadQuiet ==
  ASSUME Refined, Refined', NEW t \in Threads, LockFreeStep(t) \/ LockingStep(t),
         ~ ExamineTake(t), ~ EndJob(t)
  PROVE  Queue!Next \/ UNCHANGED Queue!queue
<1>1. Typed /\ ThreadInv /\ Exec
  BY DEF Refined, ActiveInv
<1>2. UNCHANGED <<assignments, job>>
  BY DEF LockFreeStep, LockingStep, EnterRun, ApplyForWork, WaitCall, BeginRun, FinishRun, Exit,
         ExaminePass, ScanWait, TakeReturn, TakeExpire, TakeScan, TakeSuspending, BeginTake,
         Block, queueVars, threadVars
<1>3. \A x \in Jobs : status'[x] = status[x] \/ Held(x)
  <2>1. CASE BeginRun(t) \/ FinishRun(t)
    <3>1. job[t] \in Jobs /\ Held(job[t])
      BY <1>1, <2>1 DEF BeginRun, FinishRun, ThreadInv, Held, Typed, TypeOK
    <3>2. \A x \in Jobs \ {job[t]} : status'[x] = status[x]
      BY <1>1, <2>1 DEF BeginRun, FinishRun, Typed, TypeOK
    <3>3. QED
      BY <3>1, <3>2
  <2>2. CASE ~ BeginRun(t) /\ ~ FinishRun(t)
    BY <2>2 DEF LockFreeStep, LockingStep, EnterRun, ApplyForWork, WaitCall, Exit,
       ExaminePass, ScanWait, TakeReturn, TakeExpire, TakeScan, TakeSuspending, BeginTake, Block,
       jobVars
  <2>3. QED
    BY <2>1, <2>2
<1>4. \A x \in Jobs : Phase(x)' = Phase(x)
  BY <1>2, <1>3, PhaseFrame DEF Held, Queued
<1>5. CASE state' = state
  BY <1>4, <1>5, QueueStutter DEF Mode
<1>6. CASE state = "Suspending" /\ state' = "Suspended"
  <2>1. \A s \in Threads : ~ Busy(s)'
    BY <1>6 DEF Refined, ActiveInv, SuspendedMeansIdle
  <2>2. \A x \in Jobs : ~ Held(x)
    BY <1>2, <2>1, JobsAssumption DEF Busy, Held
  <2>3. Queue!InPhase("executing") = {}
    BY <2>2, PhaseValues DEF Queue!InPhase
  <2>4. Mode = "suspending" /\ Mode' = "suspended"
    BY <1>6 DEF Mode
  <2>5. [x \in Jobs |-> Phase(x)]' = [x \in Jobs |-> Phase(x)]
    BY <1>4
  <2>6. Queue!Suspended
    BY <2>3, <2>4, <2>5 DEF Queue!Suspended
  <2>7. QED
    BY <2>6 DEF Queue!Next
<1>7. QED
  BY <1>1, <1>5, <1>6, ThreadStepState

-------------------------------------------------------------------------------
(* Steps of the users *)

(* No user closes the queue while another call is in progress.             *)
LEMMA NotClosed ==
  ASSUME ClosingInv, ShutStateInv, NEW u \in Users, upc[u] # "ready", upc[u] \notin AfterSet
  PROVE  state \notin {"ShuttingDown", "Destructed"}
BY DEF ClosingInv, ShutStateInv, AfterSet, Closing

LEMMA RefineEnqueueJob ==
  ASSUME Refined, NEW u \in Users, EnqueueJob(u)
  PROVE  Queue!Next
<1>1. Typed /\ Exec /\ ClosingInv /\ ShutStateInv
  BY DEF Refined, ActiveInv
<1>2. pending # <<>> /\ pending \in Seq(Jobs) /\ Head(pending) \in Jobs
  BY <1>1, HeadTailProperties DEF EnqueueJob, Typed, TypeOK, MutexInv
<1> PICK j \in Jobs : j = Head(pending) /\ j = pending[1]
  BY <1>2
<1>3. PICK i \in 0..Len(assignments) : assignments' = InsertAt(assignments, i + 1, j)
  BY DEF EnqueueJob
<1>4. /\ status' = [status EXCEPT ![j] = "Queued"]
      /\ UNCHANGED <<job, state>>
  BY DEF EnqueueJob
<1>5. status[j] = "New"
  BY <1>1, <1>2 DEF Exec, PendingInv
<1>6. ~ Held(j) /\ ~ Queued(j)
  BY <1>1, <1>5 DEF Exec, ExclusiveExecution
<1>7. \A x \in Jobs : Queued(x)' <=> Queued(x) \/ x = j
  <2>1. assignments \in Seq(Jobs) /\ i + 1 \in 1..Len(assignments) + 1
    BY <1>1, <1>3 DEF Typed, TypeOK
  <2>2. \A x : Occurs(assignments', x) <=> x = j \/ Occurs(assignments, x)
    BY <1>3, <2>1, InsertAtOccurs
  <2>3. QED
    BY <2>2 DEF Queued, Occurs
<1>8. \A x \in Jobs : Held(x)' <=> Held(x)
  BY <1>4 DEF Held
<1>9. \A x \in Jobs \ {j} : Phase(x)' = Phase(x)
  BY <1>1, <1>4, <1>7, <1>8, PhaseFrame DEF Typed, TypeOK
<1>10. Phase(j) = "idle"
  BY <1>5, <1>6, PhaseValues
<1>11. Phase(j)' = "waiting"
  BY <1>6, <1>7, <1>8 DEF Phase
<1>12. Mode # "closed" /\ Mode' = Mode
  BY <1>1, <1>4, NotClosed DEF EnqueueJob, AfterSet, Mode, Typed, TypeOK, StateIds
<1>13. [x \in Jobs |-> Phase(x)]' = [[x \in Jobs |-> Phase(x)] EXCEPT ![j] = "waiting"]
  BY <1>9, <1>11, PhaseChange
<1>14. Queue!Submit(j)
  BY <1>10, <1>12, <1>13 DEF Queue!Submit
<1>15. QED
  BY <1>14 DEF Queue!Next

LEMMA RefineDequeueJob ==
  ASSUME Refined, NEW u \in Users, DequeueJob(u)
  PROVE  Queue!Next
<1>1. Typed /\ Exec
  BY DEF Refined, ActiveInv
<1>2. PICK i \in DOMAIN assignments :
        /\ status' = DequeuedStatus(assignments[i])
        /\ assignments' = RemoveAt(assignments, i)
  BY DEF DequeueJob
<1>3. i \in 1..Len(assignments) /\ assignments \in Seq(Jobs)
  BY <1>1, <1>2 DEF Typed, TypeOK
<1> PICK j \in Jobs : j = assignments[i]
  BY <1>3
<1>4. /\ status' = [status EXCEPT ![j] = "New"]
      /\ UNCHANGED <<job, state>>
  BY <1>2 DEF DequeueJob, DequeuedStatus, threadVars
<1>5. Queued(j) /\ ~ Held(j)
  BY <1>1, <1>2 DEF Queued, Exec, ExclusiveExecution
<1>6. \A x \in Jobs : Queued(x)' <=> Queued(x) /\ x # j
  <2>1. Distinct(assignments)
    BY <1>1, ExclusiveOccurs DEF Exec
  <2>2. \A x : Occurs(assignments', x) <=> Occurs(assignments, x) /\ x # j
    BY <1>2, <1>3, <2>1, RemoveAtOccurs
  <2>3. QED
    BY <2>2 DEF Queued, Occurs
<1>7. \A x \in Jobs : Held(x)' <=> Held(x)
  BY <1>4 DEF Held
<1>8. \A x \in Jobs \ {j} : Phase(x)' = Phase(x)
  BY <1>1, <1>4, <1>6, <1>7, PhaseFrame DEF Typed, TypeOK
<1>9. Phase(j) = "waiting" /\ Mode' = Mode
  BY <1>4, <1>5, PhaseValues DEF Mode
<1>10. Phase(j)' = "idle"
  <2>1. status'[j] = "New"
    BY <1>1, <1>4 DEF Typed, TypeOK
  <2>2. QED
    BY <1>5, <1>6, <1>7, <2>1 DEF Phase
<1>11. [x \in Jobs |-> Phase(x)]' = [[x \in Jobs |-> Phase(x)] EXCEPT ![j] = "idle"]
  BY <1>8, <1>10, PhaseChange
<1>12. Queue!Withdraw(j)
  BY <1>9, <1>11 DEF Queue!Withdraw
<1>13. QED
  BY <1>12 DEF Queue!Next

LEMMA RefineDequeueAll ==
  ASSUME Refined, NEW u \in Users, DequeueAll(u)
  PROVE  Queue!Next
<1>1. Typed /\ Exec
  BY DEF Refined, ActiveInv
<1>2. assignments' = <<>> /\ UNCHANGED <<status, job, state>>
  BY DEF DequeueAll, threadVars, jobVars
<1>3. \A x \in Jobs : ~ Queued(x)' /\ (Held(x)' <=> Held(x))
  BY <1>2 DEF Queued, Held
<1>4. ASSUME NEW x \in Jobs
      PROVE  Phase(x)' = IF Phase(x) = "waiting" THEN "dropped" ELSE Phase(x)
  <2>1. CASE ~ Held(x) /\ Queued(x)
    <3>1. status'[x] = "Queued"
      BY <1>1, <1>2, <2>1 DEF Exec, ExclusiveExecution
    <3>2. Phase(x)' = "dropped"
      BY <1>3, <2>1, <3>1 DEF Phase
    <3>3. QED
      BY <2>1, <3>2, PhaseValues
  <2>2. CASE Held(x) \/ ~ Queued(x)
    <3>1. Queued(x) => Held(x)
      BY <2>2
    <3>2. Phase(x)' = Phase(x)
      BY <1>2, <1>3, <3>1 DEF Phase
    <3>3. QED
      BY <2>2, <3>2, PhaseValues
  <2>3. QED
    BY <2>1, <2>2
<1>5. Mode' = Mode
  BY <1>2 DEF Mode
<1>6. Queue!Clear
  BY <1>4, <1>5 DEF Queue!Clear
<1>7. QED
  BY <1>6 DEF Queue!Next

(* The other steps of a user change no phase.                              *)
LEMMA UserPhases ==
  ASSUME Typed, NEW u \in Users, ApiCall(u) \/ CallStep(u),
         ~ EnqueueJob(u), ~ DequeueJob(u), ~ DequeueAll(u)
  PROVE  UNCHANGED <<assignments, status, job>> /\ \A x \in Jobs : Phase(x)' = Phase(x)
<1>1. UNCHANGED <<assignments, status, job>>
  BY DEF ApiCall, Enqueue, Finish, Suspend, Resume, SetMax, Reschedule, ShutDown, CallStep,
     FinishCheck, FinishTimeout, SuspendSet, ResumeSet, SdAcquire, SdFinish, SdFinishTimeout,
     SdSuspend, SdSuspendSet, SdSet, SdReschedule, SdTake, SdWake, SdDelete, SdDestruct,
     queueVars, threadVars, jobVars
<1>2. QED
  BY <1>1, PhaseFrame DEF Held, Queued

LEMMA RefineSetState ==
  ASSUME Refined, NEW u \in Users, ApiCall(u) \/ CallStep(u),
         ~ EnqueueJob(u), ~ DequeueJob(u), ~ DequeueAll(u)
  PROVE  Queue!Next \/ UNCHANGED Queue!queue
<1>1. Typed /\ ThreadInv /\ ActiveCount /\ ClosingInv /\ ShutStateInv /\ SuspendedMeansIdle
  BY DEF Refined, ActiveInv
<1>2. UNCHANGED <<assignments, status, job>> /\ \A x \in Jobs : Phase(x)' = Phase(x)
  BY <1>1, UserPhases
<1>3. [x \in Jobs |-> Phase(x)]' = [x \in Jobs |-> Phase(x)]
  BY <1>2
<1>4. CASE SuspendSet(u) \/ SdSuspendSet(u)
  <2>1. state' = "Suspending" /\ state \in {"WorkingHard", "Suspending", "Suspended"}
    BY <1>1, <1>4, NotClosed DEF SuspendSet, SdSuspendSet, SetState, AfterSet, Typed, TypeOK,
       StateIds
  <2>2. Mode' = "suspending" /\ Mode \in {"working", "suspending", "suspended"}
    BY <2>1 DEF Mode
  <2>3. CASE Mode = "suspending"
    BY <1>2, <2>2, <2>3, QueueStutter
  <2>4. CASE Mode \in {"working", "suspended"}
    BY <1>3, <2>2, <2>4 DEF Queue!Suspend, Queue!Next
  <2>5. QED
    BY <2>2, <2>3, <2>4
<1>5. CASE ResumeSet(u)
  <2>1. state' = "WorkingHard" /\ state \in {"WorkingHard", "Suspending", "Suspended"}
    BY <1>1, <1>5, NotClosed DEF ResumeSet, SetState, AfterSet, Typed, TypeOK, StateIds
  <2>2. Mode' = "working" /\ Mode \in {"working", "suspending", "suspended"}
    BY <2>1 DEF Mode
  <2>3. CASE Mode = "working"
    BY <1>2, <2>2, <2>3, QueueStutter
  <2>4. CASE Mode \in {"suspending", "suspended"}
    BY <1>3, <2>2, <2>4 DEF Queue!Resume, Queue!Next
  <2>5. QED
    BY <2>2, <2>3, <2>4
<1>6. CASE SdSet(u)
  <2>1. state' = "ShuttingDown" /\ state \in {"Suspending", "Suspended"}
    BY <1>1, <1>6 DEF SdSet, SetState, ShutStateInv
  <2>2. Mode' = "closed" /\ Mode \in {"suspending", "suspended"}
    BY <2>1 DEF Mode
  <2>3. assignments = <<>> /\ active = 0
    BY <1>1, <1>6 DEF SdSet, ClosingInv, ClosedToJobs, Closing
  <2>4. \A t \in Threads : ~ Busy(t)
    BY <1>1, <2>3, CountZero DEF ActiveCount, BusyThreads
  <2>5. \A x \in Jobs : ~ Held(x) /\ ~ Queued(x)
    BY <2>3, <2>4, JobsAssumption DEF Held, Queued, Busy
  <2>6. Queue!InPhase("executing") = {} /\ Queue!InPhase("waiting") = {}
    BY <2>5, PhaseValues DEF Queue!InPhase
  <2>7. QED
    BY <1>3, <2>2, <2>6 DEF Queue!Close, Queue!Next
<1>7. CASE SdDestruct(u)
  <2>1. state' = "Destructed" /\ state \in {"ShuttingDown", "Destructed"}
    BY <1>1, <1>7 DEF SdDestruct, SetState, ShutStateInv, AfterSet
  <2>2. Mode' = Mode
    BY <2>1 DEF Mode
  <2>3. QED
    BY <1>2, <2>2, QueueStutter
<1>8. CASE ~ SuspendSet(u) /\ ~ SdSuspendSet(u) /\ ~ ResumeSet(u) /\ ~ SdSet(u) /\ ~ SdDestruct(u)
  <2>1. state' = state
    BY <1>8 DEF ApiCall, Enqueue, Finish, Suspend, Resume, SetMax, Reschedule, ShutDown, CallStep,
       FinishCheck, FinishTimeout, SdAcquire, SdFinish, SdFinishTimeout,
       SdSuspend, SdReschedule, SdTake, SdWake, SdDelete
  <2>2. Mode' = Mode
    BY <2>1 DEF Mode
  <2>3. QED
    BY <1>2, <2>2, QueueStutter
<1>9. QED
  BY <1>4, <1>5, <1>6, <1>7, <1>8

-------------------------------------------------------------------------------
LEMMA RefineStep ==
  Refined /\ Refined' /\ [Next]_vars => [Queue!Next]_(Queue!queue)
<1> SUFFICES ASSUME Refined, Refined', [Next]_vars
             PROVE  Queue!Next \/ UNCHANGED Queue!queue
  OBVIOUS
<1>1. CASE UNCHANGED vars
  <2>1. \A x \in Jobs : Phase(x)' = Phase(x)
    BY <1>1, PhaseFrame DEF vars, queueVars, threadVars, jobVars, Held, Queued
  <2>2. Mode' = Mode
    BY <1>1 DEF vars, Mode
  <2>3. QED
    BY <2>1, <2>2, QueueStutter
<1>2. ASSUME NEW t \in Threads, LockFreeStep(t) \/ LockingStep(t)
      PROVE  Queue!Next \/ UNCHANGED Queue!queue
  BY <1>2, RefineExamineTake, RefineEndJob, RefineThreadQuiet
<1>3. ASSUME NEW u \in Users, ApiCall(u) \/ CallStep(u)
      PROVE  Queue!Next \/ UNCHANGED Queue!queue
  BY <1>3, RefineEnqueueJob, RefineDequeueJob, RefineDequeueAll, RefineSetState
<1>4. QED
  BY <1>1, <1>2, <1>3 DEF Next

(* The weaver implements the abstract queue: whatever its threads and its  *)
(* users do, its jobs are handed out once, only while the queue works,     *)
(* after the jobs they depend on have succeeded and within the cap, a      *)
(* suspended queue executes nothing and a closed one has no job left       *)
(* (weaver.cpp and the state objects).                                     *)
THEOREM WeaverImplementsQueue == Spec => ImplementsJobQueue
<1>1. Spec => []Refined
  BY ActiveInvariant, ExecInvariant, PoliciesInvariant, ShutStateInvariant, PTL DEF Refined
<1>2. QED
  BY <1>1, RefineInit, RefineStep, PTL DEF Spec, ImplementsJobQueue, Queue!Spec

===============================================================================
