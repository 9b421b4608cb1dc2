-------------------------------- MODULE Weaver --------------------------------
(***************************************************************************)
(* The Weaver: the job queue, the threads of its inventory and the callers *)
(* of its API (weaver.cpp, weaver_p.cpp, thread.cpp, job.cpp and the state *)
(* objects).                                                               *)
(*                                                                         *)
(* A step is what happens between two points where another thread can      *)
(* interfere: a critical section of the weaver's mutex is one step when    *)
(* nothing outside it can be observed half-way, and several steps that     *)
(* hold the mutex (MutexFree is FALSE between them) when it can: the scan  *)
(* of the queue reads policies that running threads change, and enqueue    *)
(* starts threads and wakes others job by job.  The reads of the state     *)
(* pointer that the code makes without the mutex are steps of their own.   *)
(***************************************************************************)
EXTENDS QueuePolicies, SequencesExt

CONSTANTS
  Threads,      \* thread identities, numbers as makeId() hands them out
  Jobs,         \* the jobs of the program
  Users,        \* the threads that call the API
  NoJob,
  Priority,     \* the priority() of each job
  DependsOn,    \* the dependencies declared before the jobs are queued
  Restricted,   \* the jobs that share one resource restriction policy ...
  Cap,          \* ... and its cap
  InitialMax,   \* inventoryMax of a new weaver
  Caps,         \* the arguments of setMaximumNumberOfThreads()
  Batches,      \* the arguments of enqueue()
  Outcomes,     \* how the run() of a job may end
  Calls,        \* the API calls each user makes
  CreateBound   \* no setMaximumNumberOfThreads() after so many thread creations

CallNames == {"enqueue", "dequeue", "dequeueAll", "finish", "suspend", "resume",
              "setMax", "reschedule", "shutDown"}

ASSUME ThreadsAssumption ==
  /\ Threads \subseteq Nat
  /\ IsFiniteSet(Threads)
ASSUME JobsAssumption ==
  /\ NoJob \notin Jobs
  /\ IsFiniteSet(Jobs)
  /\ Restricted \subseteq Jobs
  /\ Priority \in [Jobs -> Int]
  /\ Cap \in Nat
ASSUME DependsOnAssumption == DependsOn \subseteq Jobs \X Jobs
ASSUME CapsAssumption ==
  /\ InitialMax \in Nat
  /\ Caps \subseteq Nat
  /\ CreateBound \in Nat
(* Room for a full inventory, the expired thread and the one shutDown()    *)
(* waits for, so that thread creation never fails for lack of identities.  *)
ASSUME ThreadSupplyAssumption ==
  \A cap \in Caps \cup {InitialMax} : cap + 2 <= Cardinality(Threads)
(* enqueue() asserts that its jobs are new, so no job occurs twice.        *)
ASSUME BatchesAssumption ==
  \A js \in Batches : js \in Seq(Jobs) /\ IsInjective(js) /\ js # <<>>
ASSUME OutcomesAssumption == Outcomes \subseteq {"Success", "Failed", "Aborted"}
ASSUME CallsAssumption ==
  /\ Calls \in [Users -> SUBSET CallNames]
  /\ IsFiniteSet(Users)
  /\ \A u, v \in Users : "shutDown" \in Calls[u] \cap Calls[v] => u = v

VARIABLES
  state,           \* the StateId of the current state object
  inventory,       \* the threads of the inventory
  expired,         \* expiredThreads: left the inventory, not deleted yet
  assignments,     \* the job queue
  active,          \* the number of jobs assigned and not finished
  inventoryMax,    \* the maximum number of worker threads
  semaphore,       \* permits released by threads that entered run()
  createdThreads,  \* the number of threads ever started
  pc,              \* where each thread is in Thread::run()
  wasBusy,         \* the argument of its next applyForWork()
  job,             \* the job each thread holds
  cursor,          \* index of the scan of the queue (one scan at a time)
  status,          \* the Status of each job
  dependencies,    \* the dependency policy's map
  customers,       \* the restriction policy's list
  upc,             \* where each user is in an API call
  pending,         \* the jobs enqueue() has still to insert (one call at a time)
  batch,           \* ... and the number of jobs it was called with
  need,            \* the permits shutDown() acquires
  joining          \* the threads shutDown() took out of the inventory and awaits

weaverVars == <<inventory, expired, active, inventoryMax, semaphore, createdThreads>>
queueVars  == <<assignments, cursor, pending, batch>>
threadVars == <<pc, wasBusy, job>>
jobVars    == <<status, dependencies, customers>>
shutVars   == <<need, joining>>
vars == <<state, weaverVars, queueVars, threadVars, jobVars, upc, shutVars>>

StateIds == {"WorkingHard", "Suspending", "Suspended", "ShuttingDown", "Destructed"}
Statuses == {"New", "Queued", "Running", "Success", "Failed", "Aborted"}
ThreadSteps == {"none", "created", "apply", "takeWork", "takeSuspending", "scan",
                "waitCall", "block", "waiting", "assigned", "running", "ending",
                "exiting", "exited"}
UserSteps == {"ready", "enqueueing", "finishWait", "finishCheck", "suspendSet", "resumeSet",
              "sdAcquire", "sdFinish", "sdFinishWait", "sdSuspend", "sdSuspendSet", "sdSet",
              "sdReschedule", "sdTake", "sdJoin", "sdDestruct", "done"}

Init ==
  /\ state = "WorkingHard"
  /\ inventory = {} /\ expired = {} /\ joining = {}
  /\ assignments = <<>> /\ pending = <<>> /\ batch = 0 /\ cursor = 0
  /\ active = 0
  /\ inventoryMax = InitialMax
  /\ semaphore = 0 /\ createdThreads = 0 /\ need = 0
  /\ pc = [t \in Threads |-> "none"]
  /\ wasBusy = [t \in Threads |-> FALSE]
  /\ job = [t \in Threads |-> NoJob]
  /\ status = [j \in Jobs |-> "New"]
  /\ dependencies = DependsOn
  /\ customers = {}
  /\ upc = [u \in Users |-> "ready"]

-------------------------------------------------------------------------------
(* Shared pieces of the steps *)

MutexFree ==
  /\ \A t \in Threads : pc[t] # "scan"
  /\ \A u \in Users : upc[u] # "enqueueing"

IsIdle == assignments = <<>> /\ active = 0

(* jobAvailable.wakeAll(): every thread that waits now applies for work    *)
(* again, a thread that is only about to wait is not reached.              *)
WokenNone(p) == p   \* mutant: the wake-up is forgotten
Woken(p) == [t \in Threads |-> IF p[t] = "waiting" THEN "apply" ELSE p[t]]

(* jobFinished.wakeAll(): the callers inside finish() check again.         *)
FinishersWoken ==
  [u \in Users |-> CASE upc[u] = "finishWait"   -> "finishCheck"
                     [] upc[u] = "sdFinishWait" -> "sdFinish"
                     [] OTHER                   -> upc[u]]

(* The threads adjustInventory(n) starts: the lowest unused identities,    *)
(* as many as the maximum leaves room for.                                 *)
ReserveOffByOne(max) == max - Cardinality(inventory) + 1   \* mutant
Reserve(max) == max - Cardinality(inventory)

NewThreads(n, max) ==
  LET unused == {t \in Threads : pc[t] = "none"}
      count  == IF Reserve(max) < n THEN Reserve(max) ELSE n
  IN  {t \in unused : Cardinality({s \in unused : s < t}) < count}

Started(p, new) == [t \in Threads |-> IF t \in new THEN "created" ELSE p[t]]

CanRun(j) ==
  /\ ~ HasUnresolvedDependencies(dependencies, j)
  /\ j \in Restricted => HasRoom(customers, Cap)

(* setState(id) takes the mutex; activating WorkingHard or Suspending      *)
(* reschedules.                                                            *)
SetStateUnlocked(id) ==   \* mutant: the mutex is not taken
  /\ state' = id
  /\ pc' = IF state # id /\ id \in {"WorkingHard", "Suspending"} THEN Woken(pc) ELSE pc
SetStateQuietly(id) ==    \* mutant: activated() does not reschedule
  /\ MutexFree
  /\ state' = id
  /\ UNCHANGED pc
SetState(id) ==
  /\ MutexFree
  /\ state' = id
  /\ pc' = IF state # id /\ id \in {"WorkingHard", "Suspending"} THEN Woken(pc) ELSE pc

DequeuedUnset(j) == [status EXCEPT ![j] = "NoStatus"]   \* mutant
DequeuedStatus(j) == [status EXCEPT ![j] = "New"]

-------------------------------------------------------------------------------
(* The threads of the inventory: Thread::run() and what it calls *)

(* threadEnteredRun(): the permit shutDown() waits for.                    *)
EnterRun(t) ==
  /\ pc[t] = "created"
  /\ semaphore' = semaphore + 1
  /\ pc' = [pc EXCEPT ![t] = "apply"]
  /\ UNCHANGED <<state, inventory, expired, active, inventoryMax, createdThreads, queueVars,
                 wasBusy, job, jobVars, upc, shutVars>>

(* applyForWork() reads the state without the mutex and dispatches on it.  *)
ApplyForWork(t) ==
  /\ pc[t] = "apply"
  /\ pc' = [pc EXCEPT ![t] = CASE state = "WorkingHard" -> "takeWork"
                               [] state = "Suspending"  -> "takeSuspending"
                               [] state = "Suspended"   -> "waitCall"
                               [] OTHER                 -> "exiting"]
  /\ UNCHANGED <<state, weaverVars, queueVars, wasBusy, job, jobVars, upc, shutVars>>

(* decActiveThreadCount(), if the thread comes back from a job.            *)
ReportBackAlways(t) ==   \* mutant: wasBusy is ignored
  /\ active' = active - 1
  /\ upc' = FinishersWoken
ReportBack(t) ==
  IF wasBusy[t] THEN active' = active - 1 /\ upc' = FinishersWoken
                ELSE UNCHANGED <<active, upc>>

(* deleteExpiredThreads() empties the list the thread itself may then join. *)
NeverCleared(leaving) == expired \cup leaving   \* mutant
ExpiredAfter(leaving) == leaving

(* The start of takeFirstAvailableJobOrSuspendOrWait(): wait for the       *)
(* expired threads and delete them, start a thread if there is room, and   *)
(* account for the job the thread comes back from.  The thread goes on at  *)
(* next, and has left the inventory if it is in leaving.                   *)
BeginTake(t, next, leaving) ==
  LET new == NewThreads(1, inventoryMax) IN
  /\ MutexFree
  /\ \A x \in expired : pc[x] = "exited"
  /\ pc' = [x \in Threads |-> IF x = t THEN next
                             ELSE IF x \in expired THEN "none"
                             ELSE IF x \in new THEN "created" ELSE pc[x]]
  /\ inventory' = (inventory \cup new) \ leaving
  /\ expired' = ExpiredAfter(leaving)
  /\ createdThreads' = createdThreads + Cardinality(new)
  /\ ReportBack(t)
  /\ wasBusy' = [wasBusy EXCEPT ![t] = FALSE]
  /\ UNCHANGED <<inventoryMax, semaphore, assignments, pending, batch, job, jobVars, shutVars>>

(* The thread read WorkingHard, but that is over: it applies again.        *)
TakeReturn(t) ==
  /\ pc[t] = "takeWork"
  /\ state # "WorkingHard"
  /\ BeginTake(t, "apply", {})
  /\ UNCHANGED <<state, cursor>>

(* The inventory is larger than its maximum: AbortThread is thrown.        *)
TakeExpire(t) ==
  /\ pc[t] = "takeWork"
  /\ state = "WorkingHard"
  /\ Cardinality(inventory) > inventoryMax
  /\ BeginTake(t, "exiting", {t})
  /\ UNCHANGED <<state, cursor>>

TakeScan(t) ==
  /\ pc[t] = "takeWork"
  /\ state = "WorkingHard"
  /\ Cardinality(inventory) <= inventoryMax
  /\ BeginTake(t, "scan", {})
  /\ cursor' = 1
  /\ UNCHANGED state

(* canBeExecuted() on one candidate, the mutex held; if it can be, it      *)
(* leaves the queue for the thread.                                        *)
WithoutFirst == Tail(assignments)   \* mutant: the head is taken out instead
WithoutCandidate == RemoveAt(assignments, cursor)

ExamineTake(t) ==
  /\ pc[t] = "scan"
  /\ cursor <= Len(assignments)
  /\ LET j == assignments[cursor] IN
     /\ CanRun(j)
     /\ job' = [job EXCEPT ![t] = j]
     /\ customers' = customers \cup ({j} \cap Restricted)
  /\ assignments' = WithoutCandidate
  /\ active' = active + 1
  /\ pc' = [pc EXCEPT ![t] = "assigned"]
  /\ cursor' = 0
  /\ UNCHANGED <<state, inventory, expired, inventoryMax, semaphore, createdThreads, pending,
                 batch, wasBusy, status, dependencies, upc, shutVars>>

ExaminePass(t) ==
  /\ pc[t] = "scan"
  /\ cursor <= Len(assignments)
  /\ ~ CanRun(assignments[cursor])
  /\ cursor' = cursor + 1
  /\ UNCHANGED <<state, weaverVars, assignments, pending, batch, threadVars, jobVars, upc,
                 shutVars>>

(* No candidate can be executed: wait, which releases the mutex.           *)
ScanWait(t) ==
  /\ pc[t] = "scan"
  /\ cursor > Len(assignments)
  /\ cursor' = 0
  /\ pc' = [pc EXCEPT ![t] = "waiting"]
  /\ UNCHANGED <<state, weaverVars, assignments, pending, batch, wasBusy, job, jobVars, upc,
                 shutVars>>

(* SuspendingState::applyForWork(): takeFirst... with both flags set.  The *)
(* last active thread turns Suspending into Suspended.                     *)
SuspendedAtOnce(n) == state = "Suspending"   \* mutant: active is not checked
NowSuspended(n) == n = 0 /\ state = "Suspending"

TakeSuspending(t) ==
  /\ pc[t] = "takeSuspending"
  /\ BeginTake(t, "waitCall", {})
  /\ state' = IF NowSuspended(active') THEN "Suspended" ELSE state
  /\ UNCHANGED cursor

(* waitForAvailableJob() reads the state, again without the mutex ...      *)
WaitCall(t) ==
  /\ pc[t] = "waitCall"
  /\ pc' = [pc EXCEPT ![t] = IF state \in {"ShuttingDown", "Destructed"} THEN "apply"
                                                                       ELSE "block"]
  /\ UNCHANGED <<state, weaverVars, queueVars, wasBusy, job, jobVars, upc, shutVars>>

(* ... and blocks the thread whatever has happened to the state meanwhile. *)
Block(t) ==
  /\ pc[t] = "block"
  /\ MutexFree
  /\ pc' = [pc EXCEPT ![t] = "waiting"]
  /\ UNCHANGED <<state, weaverVars, queueVars, wasBusy, job, jobVars, upc, shutVars>>

BeginRun(t) ==
  /\ pc[t] = "assigned"
  /\ pc' = [pc EXCEPT ![t] = "running"]
  /\ wasBusy' = [wasBusy EXCEPT ![t] = TRUE]
  /\ status' = [status EXCEPT ![job[t]] = "Running"]
  /\ UNCHANGED <<state, weaverVars, queueVars, job, dependencies, customers, upc, shutVars>>

(* run() returns or throws: Job::execute() sets the final status.          *)
FinishRun(t) ==
  /\ pc[t] = "running"
  /\ pc' = [pc EXCEPT ![t] = "ending"]
  /\ \E outcome \in Outcomes : status' = [status EXCEPT ![job[t]] = outcome]
  /\ UNCHANGED <<state, weaverVars, queueVars, wasBusy, job, dependencies, customers, upc,
                 shutVars>>

(* defaultEnd() frees the policies, then the thread drops the job.         *)
EndJob(t) ==
  /\ pc[t] = "ending"
  /\ pc' = [pc EXCEPT ![t] = "apply"]
  /\ dependencies' = ResolveDependencies(dependencies, job[t], status[job[t]] = "Success")
  /\ customers' = customers \ {job[t]}
  /\ job' = [job EXCEPT ![t] = NoJob]
  /\ UNCHANGED <<state, weaverVars, queueVars, wasBusy, status, upc, shutVars>>

(* The thread leaves run(); QThread::wait() now returns.                   *)
Exit(t) ==
  /\ pc[t] = "exiting"
  /\ pc' = [pc EXCEPT ![t] = "exited"]
  /\ UNCHANGED <<state, weaverVars, queueVars, wasBusy, job, jobVars, upc, shutVars>>

LockFreeStep(t) ==
  \/ EnterRun(t) \/ ApplyForWork(t) \/ WaitCall(t) \/ BeginRun(t) \/ FinishRun(t)
  \/ EndJob(t) \/ Exit(t) \/ ExamineTake(t) \/ ExaminePass(t) \/ ScanWait(t)

LockingStep(t) ==
  TakeReturn(t) \/ TakeExpire(t) \/ TakeScan(t) \/ TakeSuspending(t) \/ Block(t)

-------------------------------------------------------------------------------
(* The users: calls of the queue API *)

(* No other API call is in progress while the queue shuts down, nor        *)
(* afterwards: the caller is about to destroy the queue.                   *)
Open == \A u \in Users : upc[u] \in {"ready", "enqueueing", "finishWait", "finishCheck",
                                     "suspendSet", "resumeSet"}

MayCall(u, call) == upc[u] = "ready" /\ call \in Calls[u] /\ Open

(* enqueue(jobs): takes the mutex and keeps it over the loop of EnqueueJob. *)
Enqueue(u) ==
  /\ MayCall(u, "enqueue")
  /\ MutexFree
  /\ \E js \in Batches :
       /\ \A i \in DOMAIN js : status[js[i]] = "New"
       /\ pending' = js
       /\ batch' = Len(js)
  /\ upc' = [upc EXCEPT ![u] = "enqueueing"]
  /\ UNCHANGED <<state, weaverVars, assignments, cursor, threadVars, jobVars, shutVars>>

(* The position for insertion: behind the first i jobs.                    *)
AtTheEnd(i, j) == i = Len(assignments)   \* mutant: priorities are ignored
AheadOfEquals(i, j) ==                   \* mutant: <= instead of <
  /\ i > 0 => Priority[assignments[i]] > Priority[j]
  /\ \A k \in i + 1..Len(assignments) : Priority[assignments[k]] <= Priority[j]
InsertedBehind(i, j) ==
  /\ i > 0 => Priority[assignments[i]] >= Priority[j]
  /\ \A k \in i + 1..Len(assignments) : Priority[assignments[k]] < Priority[j]

(* One turn of the loop in enqueue_p(): start threads for the whole batch, *)
(* insert the job and wake the threads.                                    *)
EnqueueJob(u) ==
  LET j   == Head(pending)
      new == NewThreads(batch, inventoryMax) IN
  /\ upc[u] = "enqueueing"
  /\ inventory' = inventory \cup new
  /\ createdThreads' = createdThreads + Cardinality(new)
  /\ \E i \in 0..Len(assignments) :
       /\ InsertedBehind(i, j)
       /\ assignments' = InsertAt(assignments, i + 1, j)
  /\ status' = [status EXCEPT ![j] = "Queued"]
  /\ pc' = Woken(Started(pc, new))
  /\ pending' = Tail(pending)
  /\ IF Tail(pending) = <<>>
       THEN upc' = [upc EXCEPT ![u] = "ready"] /\ batch' = 0
       ELSE UNCHANGED <<upc, batch>>
  /\ UNCHANGED <<state, expired, active, inventoryMax, semaphore, cursor, wasBusy, job,
                 dependencies, customers, shutVars>>

(* dequeue(job) that returns true; when it returns false nothing changes.  *)
DequeueJob(u) ==
  /\ MayCall(u, "dequeue")
  /\ MutexFree
  /\ \E i \in DOMAIN assignments :
       /\ status' = DequeuedStatus(assignments[i])
       /\ assignments' = RemoveAt(assignments, i)
  /\ upc' = FinishersWoken
  /\ UNCHANGED <<state, weaverVars, cursor, pending, batch, threadVars, dependencies, customers,
                 shutVars>>

(* dequeue(): no job's status is reset, and nobody is woken.               *)
DequeueAll(u) ==
  /\ MayCall(u, "dequeueAll")
  /\ MutexFree
  /\ assignments' = <<>>
  /\ UNCHANGED <<state, weaverVars, cursor, pending, batch, threadVars, jobVars, upc, shutVars>>

(* finish(): returns when the queue is idle, else waits for jobFinished.   *)
Finish(u) ==
  /\ MayCall(u, "finish")
  /\ MutexFree
  /\ ~ IsIdle
  /\ upc' = [upc EXCEPT ![u] = "finishWait"]
  /\ UNCHANGED <<state, weaverVars, queueVars, threadVars, jobVars, shutVars>>

FinishCheck(u) ==
  /\ upc[u] = "finishCheck"
  /\ MutexFree
  /\ upc' = [upc EXCEPT ![u] = IF IsIdle THEN "ready" ELSE "finishWait"]
  /\ UNCHANGED <<state, weaverVars, queueVars, threadVars, jobVars, shutVars>>

FinishWithoutReschedule(u) ==   \* mutant: the wait times out and wakes nobody
  /\ upc[u] = "finishWait"
  /\ MutexFree
  /\ IsIdle
  /\ upc' = [upc EXCEPT ![u] = "ready"]
  /\ UNCHANGED <<state, weaverVars, queueVars, threadVars, jobVars, shutVars>>

(* The wait timed out: wake the threads and check again.                   *)
FinishTimeout(u) ==
  /\ upc[u] = "finishWait"
  /\ MutexFree
  /\ pc' = Woken(pc)
  /\ upc' = [upc EXCEPT ![u] = IF IsIdle THEN "ready" ELSE "finishWait"]
  /\ UNCHANGED <<state, weaverVars, queueVars, wasBusy, job, jobVars, shutVars>>

(* suspend() and resume() read the state without the mutex; the state      *)
(* object they found then calls setState(), which takes it.                *)
Suspend(u) ==
  /\ MayCall(u, "suspend")
  /\ state = "WorkingHard"
  /\ upc' = [upc EXCEPT ![u] = "suspendSet"]
  /\ UNCHANGED <<state, weaverVars, queueVars, threadVars, jobVars, shutVars>>

SuspendSet(u) ==
  /\ upc[u] = "suspendSet"
  /\ SetState("Suspending")
  /\ upc' = [upc EXCEPT ![u] = "ready"]
  /\ UNCHANGED <<weaverVars, queueVars, wasBusy, job, jobVars, shutVars>>

Resume(u) ==
  /\ MayCall(u, "resume")
  /\ state \in {"Suspending", "Suspended"}
  /\ upc' = [upc EXCEPT ![u] = "resumeSet"]
  /\ UNCHANGED <<state, weaverVars, queueVars, threadVars, jobVars, shutVars>>

ResumeSet(u) ==
  /\ upc[u] = "resumeSet"
  /\ SetState("WorkingHard")
  /\ upc' = [upc EXCEPT ![u] = "ready"]
  /\ UNCHANGED <<weaverVars, queueVars, wasBusy, job, jobVars, shutVars>>

(* setMaximumNumberOfThreads(cap)                                          *)
SetMax(u) ==
  /\ MayCall(u, "setMax")
  /\ MutexFree
  /\ createdThreads < CreateBound
  /\ \E cap \in Caps \ {inventoryMax} :
       LET new == IF inventoryMax = 0 /\ cap > 0 THEN NewThreads(1, cap) ELSE {} IN
       /\ inventoryMax' = cap
       /\ inventory' = inventory \cup new
       /\ createdThreads' = createdThreads + Cardinality(new)
       /\ pc' = Woken(Started(pc, new))
  /\ UNCHANGED <<state, expired, active, semaphore, queueVars, wasBusy, job, jobVars, upc,
                 shutVars>>

(* reschedule() takes no mutex.                                            *)
Reschedule(u) ==
  /\ MayCall(u, "reschedule")
  /\ pc' = Woken(pc)
  /\ UNCHANGED <<state, weaverVars, queueVars, wasBusy, job, jobVars, upc, shutVars>>

-------------------------------------------------------------------------------
(* shutDown(), step by step *)

ShutDown(u) ==
  /\ MayCall(u, "shutDown")
  /\ \A v \in Users : upc[v] = "ready"
  /\ need' = createdThreads
  /\ upc' = [upc EXCEPT ![u] = "sdAcquire"]
  /\ UNCHANGED <<state, weaverVars, queueVars, threadVars, jobVars, joining>>

(* Every thread started before shutDown() read the counter has entered run(). *)
SdAcquire(u) ==
  /\ upc[u] = "sdAcquire"
  /\ semaphore >= need
  /\ semaphore' = semaphore - need
  /\ need' = 0
  /\ upc' = [upc EXCEPT ![u] = "sdFinish"]
  /\ UNCHANGED <<state, inventory, expired, active, inventoryMax, createdThreads, queueVars,
                 threadVars, jobVars, joining>>

(* finish(), then suspend(): the state is read at sdSuspend.               *)
SdFinish(u) ==
  /\ upc[u] = "sdFinish"
  /\ MutexFree
  /\ upc' = [upc EXCEPT ![u] = IF IsIdle THEN "sdSuspend" ELSE "sdFinishWait"]
  /\ UNCHANGED <<state, weaverVars, queueVars, threadVars, jobVars, shutVars>>

SdFinishTimeout(u) ==
  /\ upc[u] = "sdFinishWait"
  /\ MutexFree
  /\ pc' = Woken(pc)
  /\ upc' = [upc EXCEPT ![u] = IF IsIdle THEN "sdSuspend" ELSE "sdFinishWait"]
  /\ UNCHANGED <<state, weaverVars, queueVars, wasBusy, job, jobVars, shutVars>>

SdSuspend(u) ==
  /\ upc[u] = "sdSuspend"
  /\ upc' = [upc EXCEPT ![u] = IF state = "WorkingHard" THEN "sdSuspendSet" ELSE "sdSet"]
  /\ UNCHANGED <<state, weaverVars, queueVars, threadVars, jobVars, shutVars>>

SdSuspendSet(u) ==
  /\ upc[u] = "sdSuspendSet"
  /\ SetState("Suspending")
  /\ upc' = [upc EXCEPT ![u] = "sdSet"]
  /\ UNCHANGED <<weaverVars, queueVars, wasBusy, job, jobVars, shutVars>>

SdSet(u) ==
  /\ upc[u] = "sdSet"
  /\ SetState("ShuttingDown")
  /\ upc' = [upc EXCEPT ![u] = "sdReschedule"]
  /\ UNCHANGED <<weaverVars, queueVars, wasBusy, job, jobVars, shutVars>>

SdReschedule(u) ==
  /\ upc[u] = "sdReschedule"
  /\ pc' = Woken(pc)
  /\ upc' = [upc EXCEPT ![u] = "sdTake"]
  /\ UNCHANGED <<state, weaverVars, queueVars, wasBusy, job, jobVars, shutVars>>

(* Take a thread out of the inventory, until it is empty.                  *)
LastThreadLeft == Cardinality(inventory) <= 1   \* mutant
InventoryEmpty == inventory = {}

SdTake(u) ==
  /\ upc[u] = "sdTake"
  /\ MutexFree
  /\ IF InventoryEmpty
       THEN /\ upc' = [upc EXCEPT ![u] = "sdDestruct"]
            /\ UNCHANGED <<inventory, joining>>
       ELSE /\ \E t \in inventory : inventory' = inventory \ {t} /\ joining' = {t}
            /\ upc' = [upc EXCEPT ![u] = "sdJoin"]
  /\ UNCHANGED <<state, expired, active, inventoryMax, semaphore, createdThreads, queueVars,
                 threadVars, jobVars, need>>

SdWaitForever(u) == upc[u] = "sdJoin" /\ UNCHANGED vars   \* mutant: no retry

(* reschedule() before each wait(100): also once the wait has timed out.   *)
SdWake(u) ==
  /\ upc[u] = "sdJoin"
  /\ \A t \in joining : pc[t] # "exited"
  /\ pc' = Woken(pc)
  /\ UNCHANGED <<state, weaverVars, queueVars, wasBusy, job, jobVars, upc, shutVars>>

SdDelete(u) ==
  /\ upc[u] = "sdJoin"
  /\ \A t \in joining : pc[t] = "exited"
  /\ pc' = [t \in Threads |-> IF t \in joining THEN "none" ELSE pc[t]]
  /\ joining' = {}
  /\ upc' = [upc EXCEPT ![u] = "sdTake"]
  /\ UNCHANGED <<state, weaverVars, queueVars, wasBusy, job, jobVars, need>>

SdDestruct(u) ==
  /\ upc[u] = "sdDestruct"
  /\ SetState("Destructed")
  /\ upc' = [upc EXCEPT ![u] = "done"]
  /\ UNCHANGED <<weaverVars, queueVars, wasBusy, job, jobVars, shutVars>>

ApiCall(u) ==
  \/ Enqueue(u) \/ DequeueJob(u) \/ DequeueAll(u) \/ Finish(u) \/ Suspend(u) \/ Resume(u)
  \/ SetMax(u) \/ Reschedule(u) \/ ShutDown(u)

(* What a call that has begun goes on to do.                               *)
CallStep(u) ==
  \/ EnqueueJob(u) \/ FinishCheck(u) \/ FinishTimeout(u) \/ SuspendSet(u) \/ ResumeSet(u)
  \/ SdAcquire(u) \/ SdFinish(u) \/ SdFinishTimeout(u) \/ SdSuspend(u) \/ SdSuspendSet(u)
  \/ SdSet(u) \/ SdReschedule(u) \/ SdTake(u) \/ SdWake(u) \/ SdDelete(u) \/ SdDestruct(u)

-------------------------------------------------------------------------------
Next ==
  \/ \E t \in Threads : LockFreeStep(t) \/ LockingStep(t)
  \/ \E u \in Users : ApiCall(u) \/ CallStep(u)

Spec == Init /\ [][Next]_vars

(* The scheduler lets every thread run, a mutex is not withheld from a     *)
(* thread that asks for it again and again, a run() returns and a timed    *)
(* wait times out.  No call of the API ever has to be made.                *)
Fairness ==
  /\ \A t \in Threads : WF_vars(LockFreeStep(t)) /\ SF_vars(LockingStep(t))
  /\ \A u \in Users : SF_vars(CallStep(u))

FairSpec == Spec /\ Fairness

-------------------------------------------------------------------------------
(* Safety *)

(* Every variable has its type; no queued, pending or held value is        *)
(* anything but a job.                                                     *)
TypeOK ==
  /\ state \in StateIds
  /\ inventory \subseteq Threads /\ expired \subseteq Threads /\ joining \subseteq Threads
  /\ assignments \in Seq(Jobs) /\ pending \in Seq(Jobs)
  /\ batch \in Nat /\ cursor \in Nat
  /\ active \in Int /\ inventoryMax \in Nat
  /\ semaphore \in Int /\ createdThreads \in Nat /\ need \in Nat
  /\ pc \in [Threads -> ThreadSteps]
  /\ wasBusy \in [Threads -> BOOLEAN]
  /\ job \in [Threads -> Jobs \cup {NoJob}]
  /\ status \in [Jobs -> Statuses]
  /\ dependencies \subseteq Jobs \X Jobs
  /\ customers \subseteq Jobs
  /\ upc \in [Users -> UserSteps]

Queued(j) == \E i \in DOMAIN assignments : assignments[i] = j
Held(j) == \E t \in Threads : job[t] = j
Busy(t) == job[t] # NoJob \/ wasBusy[t]

(* active, which decides whether finish() returns and whether Suspending   *)
(* becomes Suspended, is the number of threads that hold a job or have not *)
(* yet reported back from one.                                             *)
ActiveCount == active = Cardinality({t \in Threads : Busy(t)})

(* A job is in the queue once, or in the hands of one thread, or neither,  *)
(* and its status tells: whoever gets "true" from dequeue(job), which      *)
(* leaves the job new, can be sure that no thread runs it.                 *)
ExclusiveExecution ==
  /\ \A i, k \in DOMAIN assignments : assignments[i] = assignments[k] => i = k
  /\ \A s, t \in Threads : job[s] = job[t] /\ job[s] # NoJob => s = t
  /\ \A j \in Jobs : Queued(j) => ~ Held(j) /\ status[j] = "Queued"
  /\ \A j \in Jobs : status[j] = "New" => ~ Held(j)

(* A job starts only after everything it depends on has succeeded, though  *)
(* dependencies are resolved outside of the weaver's mutex.                *)
DependenciesRespected ==
  \A d \in DependsOn :
    Held(d[1]) \/ status[d[1]] \notin {"New", "Queued"} => status[d[2]] = "Success"

(* At most Cap of the restricted jobs are in the hands of threads, and the *)
(* policy's list is exactly those: no customer is lost or left behind.     *)
CapRespected ==
  /\ customers = {j \in Restricted : Held(j)}
  /\ Cardinality(customers) <= Cap

(* Once the queue is suspended or shutting down nothing is being executed: *)
(* the asserts of SuspendedState and ShuttingDownState::applyForWork().    *)
SuspendedMeansIdle ==
  state \in {"Suspended", "ShuttingDown", "Destructed"} =>
    active = 0 /\ \A t \in Threads : ~ Busy(t)

(* The queue is ordered by priority.                                       *)
QueueSorted ==
  \A i, k \in DOMAIN assignments :
    i < k => Priority[assignments[i]] >= Priority[assignments[k]]

(* deleteExpiredThreads() runs before another thread can expire, so the    *)
(* list never holds more than one, and never a thread that works.          *)
AtMostOneExpired ==
  /\ Cardinality(expired) <= 1
  /\ \A t \in expired : t \notin inventory /\ pc[t] \in {"exiting", "exited"} /\ ~ Busy(t)

(* A queue with threads that is working never has all of them asleep while *)
(* a job could run, in a program that never calls suspend().  With it, a   *)
(* thread about to wait may miss the wake-up of resume().                  *)
NoAbandonedJob ==
  state = "WorkingHard" /\ MutexFree /\ inventory # {} /\ (\E j \in Jobs : Queued(j) /\ CanRun(j))
    => \E t \in inventory : pc[t] # "waiting"

(* When shutDown() is through, the only threads that may still have to     *)
(* leave run() are expired ones, and no job is left behind.                *)
DestructedLeavesOnlyExpired ==
  state = "Destructed" =>
    /\ assignments = <<>> /\ \A j \in Jobs : ~ Held(j)
    /\ \A t \in Threads : pc[t] \in {"none", "exited"} \/ t \in expired

(* What the steps may never do *)

(* A thread is handed a job only while the queue is working: suspend()     *)
(* stops the hand-out at once, and never in the middle of a scan.          *)
HandsOutOnlyWhileWorking ==
  [][\A t \in Threads : job[t] = NoJob /\ job'[t] # NoJob => state = "WorkingHard"]_vars

(* Jobs in the queue keep their order, and a new one goes behind every job *)
(* of its own priority: nobody is overtaken by a later job of no higher    *)
(* priority.                                                               *)
QueueIsFair ==
  [][\A k, l \in DOMAIN assignments' :
       LET x == assignments'[k]
           y == assignments'[l]
       IN /\ Queued(x) /\ Queued(y) /\ k < l =>
               \E m, n \in DOMAIN assignments : m < n /\ assignments[m] = x /\ assignments[n] = y
          /\ Queued(x) /\ ~ Queued(y) /\ l < k => Priority[x] < Priority[y]]_vars

(* The inventory grows only up to its maximum, and threads come and go     *)
(* only through the inventory.                                             *)
InventoryBounded ==
  [][ /\ inventory' \subseteq inventory \/ Cardinality(inventory') <= inventoryMax'
      /\ \A t \in Threads : pc[t] = "none" /\ pc'[t] # "none" => t \in inventory']_vars

-------------------------------------------------------------------------------
(* Liveness, under FairSpec *)

Finishing(u) == upc[u] \in {"finishWait", "finishCheck"}

(* A queued job that waits for one that is neither queued nor running, say *)
(* because that one failed, stays in the queue for good (job.h says so).   *)
Stuck(j) ==
  Queued(j) /\ \E d \in dependencies : d[1] = j /\ ~ Queued(d[2]) /\ ~ Held(d[2])

(* finish() returns if the queue is not left suspended nor left with stuck *)
(* jobs: its timed wait makes up for every wake-up that was lost.          *)
FinishReturns ==
  \A u \in Users : <>[](state = "WorkingHard" /\ \A j \in Jobs : ~ Stuck(j))
                    => (Finishing(u) ~> ~ Finishing(u))

(* A queue that has threads and is not resumed meanwhile gets suspended.   *)
SuspendCompletes ==
  (state = "Suspending" /\ inventory # {}) ~> (state # "Suspending")

(* Jobs are left in a queue that is suspended.                             *)
HeldBack == state \in {"Suspending", "Suspended"} /\ assignments # <<>>

(* shutDown() returns, also from a queue that is suspended, if that holds  *)
(* no jobs and no stuck job is left in the queue.                          *)
ShutDownCompletes ==
  \A u \in Users : <>[](~ HeldBack /\ \A j \in Jobs : ~ Stuck(j))
                    => (upc[u] = "sdAcquire" ~> upc[u] = "done")

(* Lowering the maximum makes the surplus threads leave.                   *)
InventoryShrinks ==
  (Cardinality(inventory) > inventoryMax) ~> (Cardinality(inventory) <= inventoryMax)

(* A queue that keeps working and may have threads starts every job that   *)
(* may run.                                                                *)
EveryReadyJobStarts ==
  \A j \in Jobs : <>[](state = "WorkingHard" /\ inventoryMax > 0) =>
                    ((Queued(j) /\ CanRun(j)) ~> ~ (Queued(j) /\ CanRun(j)))

-------------------------------------------------------------------------------
(* The queue as its users see it.  A job is executing until its thread has *)
(* freed its policies and let go of it; dequeue() of all jobs drops them.  *)
Phase(j) ==
  CASE Held(j)                                     -> "executing"
    [] ~ Held(j) /\ Queued(j)                      -> "waiting"
    [] ~ Held(j) /\ ~ Queued(j) /\ status[j] = "New"     -> "idle"
    [] ~ Held(j) /\ ~ Queued(j) /\ status[j] = "Success" -> "succeeded"
    [] ~ Held(j) /\ ~ Queued(j) /\ status[j] \in {"Failed", "Aborted"} -> "failed"
    [] OTHER                                       -> "dropped"

Mode ==
  CASE state = "WorkingHard" -> "working"
    [] state = "Suspending"  -> "suspending"
    [] state = "Suspended"   -> "suspended"
    [] OTHER                 -> "closed"

Queue == INSTANCE JobQueue WITH phase <- [j \in Jobs |-> Phase(j)], mode <- Mode

(* The weaver implements the abstract queue.                               *)
ImplementsJobQueue == Queue!Spec

==============================================================================
