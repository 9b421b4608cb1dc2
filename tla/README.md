# ThreadWeaver in TLA+

TLA+ models of ThreadWeaver, the job queue and thread pool of KDE Frameworks, checked with
TLC on small instances and, where it matters most, proved with TLAPS for every size. All
line references are to `src/src/` of the library.

## The system

| Component | State it keeps | Operations | Hard behaviour |
|---|---|---|---|
| **Weaver** (`weaver.cpp`, `weaver_p.*`) | job queue, inventory of threads, expired threads, count of active jobs, maximum of threads, current state object | `enqueue`, `dequeue(job)`, `dequeue()`, `finish`, `suspend`, `resume`, `setMaximumNumberOfThreads`, `reschedule`, `requestAbort`, `shutDown`, and `applyForWork` for the threads | one mutex and two condition variables, but the state pointer is read without the mutex; wake-ups are broadcast and can be missed; threads come and go |
| **States** (`*state.cpp`) | none of their own | `suspend`, `resume`, `applyForWork`, `waitForAvailableJob`, dispatched on the current state | a call acts on the state it found, which may be over |
| **Thread** (`thread.cpp`) | the job it executes | the loop of `run()`: apply for work, execute, report back at the next application | the weaver learns late that a job is over |
| **Job** and **executors** (`job*.cpp`, `executor.cpp`) | status, policies, executor chain, finish handlers | `execute`, `requestAbort`, `freeQueuePolicyResources` | status is read by other threads while it changes |
| **Queue policies** (`dependencypolicy.cpp`, `resourcerestrictionpolicy.cpp`) | map of dependencies, list of customers | `canRun`, `free`, `release`, `destructed` | `canRun` is asked with the weaver's mutex held, `free` is called without it |
| **Collection**, **Sequence** (`collection*.cpp`, `sequence*.cpp`) | elements, counter of elements to report, the queue they were given, a reference to themselves | `execute` queues the elements, `stop` and `requestAbort` dequeue them, elements report start and end through executor wrappers | calls in both directions between jobs, collections and weaver, often with a mutex held |
| **Queue**, global instance (`queue.cpp`) | pointer to the implementation, `s_instance`, factory | forwards; `instance()`, `shutDown`, destruction | order of destruction; calls during `shutDown` |
| **QueueStream** (`queuestream.cpp`) | jobs collected | `operator<<`, `flush`, destructor | jobs must neither be lost nor enqueued twice |
| **Decorators**, **job pointers** (`iddecorator.cpp`, `qobjectdecorator.cpp`, `queueing.h`, `managedjobpointer.h`) | decorated job, who deletes it | forward, emit signals, delete | several possible owners of one job |

How they interact: a user calls the queue API from any thread. The weaver inserts jobs by
priority, starts threads while there is room and broadcasts `jobAvailable`. A thread applies
for work, which under the weaver's mutex first accounts for the job it comes back from and then
scans the queue for the first job all of whose policies agree (`canBeExecuted`, which makes a
customer of the resource restriction). It executes the job without the mutex; at the end the job
frees its policies, still without the mutex, and only the next application for work tells the
weaver. `suspend()` changes the state; the thread that brings `active` to zero turns `Suspending`
into `Suspended`. `shutDown()` waits for the started threads to be up, calls `finish()` and
`suspend()`, sets `ShuttingDown` and joins the threads one by one, waking them before each try.

What makes each part correct: a job is executed once, by one thread, never before its
dependencies have succeeded or beyond the cap of its restriction; `active` is exact, because
`finish()` and `Suspended` hang on it; no ready job is left while every thread sleeps; the
inventory follows its maximum; `finish()`, `suspend()` and `shutDown()` complete. A collection ends
once, after all its elements; the elements of a sequence begin in order and only while all before them
have succeeded; no set of threads waits for mutexes in a circle. A policy that agreed to a job is told
what became of it; a dependency holds from its declaration on. A job that was enqueued in time is
completed by `shutDown()`, and is deleted once, whoever owns it.

## Modules

| Module | What it models |
|---|---|
| `QueuePolicies` | the decisions of the two policies as operators on their data |
| `Weaver` | the weaver, its states, its threads and its users, with the policies it consults |
| `JobQueue` | what the queue promises its users: phases of jobs, modes of the queue, nothing else |
| `WeaverInvariants` | the inductive invariant of `Weaver` |
| `MCWeaver` | its instances for TLC |
| `Collections` | collections and sequences with the jobs, wrappers, threads and mutexes they are executed with |
| `JobTree` | what collections and sequences promise: phases of jobs in a tree, nothing else |
| `TestPrograms` | the tests, benchmarks and examples of the repository as programs of `Collections` |
| `MCCollections` | those, and clients that do what the tests do not, for TLC |
| `Policies` | policies at work: two queues, several policies per job, users who change them |
| `MCPolicies` | its instance for TLC |
| `Application` | the life of queues, streams, factories and jobs in an application |
| `MCApplication` | its instance for TLC |
| `WeaverProofs` | type correctness, the exclusion by the mutex, the active count, idleness when suspended, the hand-out only while working, the inventory, what `shutDown()` leaves, and that no job is abandoned, for every size |
| `WeaverExecutionProofs` | exclusive execution, dependencies and the cap, the order of the queue and its fairness, and that the weaver implements `JobQueue` |
| `PoliciesProofs` | slots, dependencies, handlers and mutexes of `Policies`, for every size and any clients |
| `ApplicationProofs` | quiet after destruction, a usable global queue, and what becomes of every job, for every size |
| `CollectionsProofs` | counters, references and ends of collections, for any trees and threads, if users let run what they have enqueued |
| `CollectionsOrderProofs` | the order of sequences, dependencies and mutexes, under the same condition |
| `CollectionsPromiseProofs` | collections and sequences implement `JobTree`, under the same condition |
| `SequenceLemmas` | what insertion, removal, `Append` and `Tail` do to what occurs in a sequence, and to its being without repetition |

Queue, weaver and policies interact on every step (the scan asks the policies job by job while
threads free them), so one module composes them. `Weaver` uses `QueuePolicies`, and
`ImplementsJobQueue` instantiates `JobQueue` with the refinement mapping `Phase` and `Mode`.

The other three modules look at the same system from other sides, and each keeps of the weaver what its
subject can tell apart. `Collections` and `Policies` have its queue, mutex, hand-out and report but no
sleeping threads or states (and use `QueuePolicies` too); `Application` has its states and two of the
steps of its threads but no mutex. All the four in one module would multiply state spaces that have
little to do with each other; where the others rely on the weaver (a job is handed out once, `active` is
exact, no ready job sleeps) it is `Weaver` that shows it, and the proofs that show it for every size.

### From code to `Weaver`

*Threads.* `pc[t]` is the place in `Thread::run()` and what it calls:

| `pc` | place in the code |
|---|---|
| `none` | not started, or deleted |
| `created` | `start()` called, `run()` not entered (`threadEnteredRun`, weaver.cpp:488) |
| `apply` | about to read the state in `applyForWork` (:565) |
| `takeWork`, `takeSuspending` | read `WorkingHard` or `Suspending`, about to lock the mutex in `takeFirstAvailableJobOrSuspendOrWait` (:505) |
| `scan` | in the loop over the queue, mutex held, at `cursor` |
| `assigned`, `running`, `ending` | has a job: before `run()`, in it, after it with the policies to free |
| `waitCall`, `block` | in `waitForAvailableJob`, before it reads the state and between that and the lock |
| `waiting` | blocked on `jobAvailable` |
| `exiting`, `exited` | on the way out of `run()`, and after it |

*Users.* `upc[u]` is the place in an API call. A call that is one critical section is one
action; `enqueue` is one action per job because it wakes threads and starts them in its loop;
`suspend` and `resume` are two because the state is read before the lock; `finish` waits, and its
wait (50 ms, 500 ms in debug builds, weaver.cpp:294-298) may time out at any moment; `shutDown` is cut at every place where it gives up the
mutex or waits.

*The mutex* has no variable of its own. It is held between steps only by a scan or by an
`enqueue`; `MutexFree` says that neither is under way, and guards every other step that locks.

*Merged steps.* The policies of a job are freed in one step although the code frees them one
after another: the weaver consults a job's dependencies and its restriction in one look, and no
property sees the order. `canBeExecuted` for one job is one step: it is called with the mutex held,
and what other threads do to the policies in the meantime only ever makes more jobs executable.
A thread woken from `jobAvailable` reads the state again at once, because the code does
nothing in between that others could see. The inventory is a set: `shutDown` takes
the first thread of the list, the model any.

*Environment.* A job that is queued is new (`enqueue_p` asserts it). No other call is in progress
when `shutDown()` begins or comes after it: the caller is about to destroy the queue. A job's
`run()` ends. Job objects outlive the queue.

### From code to `Collections`

Everything here calls something else, so each thread has a stack of calls, `stack[a]`. A frame has the
place it is at, the collection or job it is `of`, the job on whose behalf it was called (`by`), a loop
index and the status that `processCompletedElement` keeps while it calls `stop`. A step takes a thread
from one place where it can be made to wait, or has just released a mutex, to the next. `Needs(a)` is
the set of mutexes that the next step of a thread locks, and `owner` says who holds a mutex between
steps; a mutex that is locked and released within one step never has an owner.

| Places | Code |
|---|---|
| `take`, `store`, `clear`, `report` | `takeFirstAvailableJob...`, the loop of `Thread::run()` |
| `execute`, `setRunning`, `run`, `end` | `Collection::execute()`, `Job::execute()` |
| `started`, `startedUnlock` | `elementStarted()`; the first one calls the collection's own `begin()` with the mutex held |
| `callEnd` | the innermost `end()`: finish handlers and policies |
| `finished`, `enqueue`, `process`, `restore`, `clearSelf` | `elementFinished()` with `enqueueElements()` and `processCompletedElement()` |
| `stop`, `stopDequeue`, `stopElements`, `stopElement` | `Collection_Private::stop()`, `dequeueElements()` |
| `dequeue`, `dequeueFound` | `Weaver::dequeue(job)` and `aboutToBeDequeued()` |
| `abort`, `abortElements`, `abortElement`, `abortAll`, `abortThread`, `abortedThread` | `requestAbort()` of a job, a collection, the weaver and its threads |

What clients do is data: a *program* names the elements of its collections, which of them are sequences,
the outcome of each job, what `run()` of a generating collection adds, dependencies, restrictions and
priorities, and a script of calls for each user. `TestPrograms` holds one for each test of the
repository that is about jobs, collections, sequences or deletion, with the test's comparisons
(`Expect`), and one for each example and benchmark whose jobs are worth it (`ThumbNailer` converts two files in
two sequences, with priorities and a restriction, while one of them fails). A test that counts to 20, 100 or 1024 counts to 2, 3 or 6: two threads and three elements
already meet in every order. `QCOMPARE` of an output becomes `OutputIs` with the orders the test admits.

*Abstractions.* `applyForWork` is a guard: how threads sleep and wake is the subject of `Weaver`.
`QObjectDecorator`, IdDecorator and lambdas are the job they decorate, except where a decorated collection
is not found in the queue; the signals of the first are the calls of `begin()` and `end()` that are counted. The destructor of a collection is not a step, and jobs live as long as the program.

### From code to `Policies`

A thread asks the policies of a candidate one after another (`asking`, with the mutexes of its queue
and of the job), gives back those that agreed when one refuses (`releasing`), and after `run()` calls
the finish handlers (`ending`, `handling`) and frees the policies (`freeing`), before it reports back. A
policy's own mutex covers exactly one call of it, which is one step. Users make each of their calls at
most once, in any order (`todo`); `addDependency` is two steps, because it locks one job and then
the other. The end of a successful `canBeExecuted()` (weaver_p.cpp:98, where the job's mutex is unlocked) and the removal from the queue
(weaver.cpp:545-552, under the weaver's) are one step, `HandOut`. Nobody else can see the difference in the queue, but a dependency
may in fact be added between the two: in `NoDependencyOverlooked` a job is "handed out" at the moment of the decision, and a
dependency that comes later, even before the job is out of the list, is too late. Dependencies are triples with the number of the entry, for the map is a multimap. `late` and
`removed` are history: the pairs declared when the dependee had already freed its policies, and those
that `removeDependency()` was called for.

*Environment.* Users declare dependencies and change policies only of jobs that exist, and take a policy from a
job only while it is not being executed: otherwise nobody would free what its `canRun` has taken. They never take the
dependency policy from a job by hand, and no job depends on itself. Policies may be added to
a job at any time, also while the loop that frees them is under way (`job_p.cpp:33`); a turn of the loop is one step.
These are `PoliciesAssumption` and `OperationsAssumption`. Only `NoCircularWait` needs `DeclaredInOneOrder` too:
`addDependency()` keeps the mutex of the dependent while it locks the dependee, so two users who call
`addDependency(a, b)` and `addDependency(b, a)` at the same time wait for each other. The clients of `MCPolicies`
keep to one order, as `ClientsAssumption` checks.

### From code to `Application`

Main is the thread of the application object. It makes the global queue by the first `instance()`, with or
without a factory, and a local one; it quits (`Quit`: the post routine that shuts the global queue
down), deletes its children (`DeleteGuard`, `DeleteGlobal`, in either order, since the order is Qt's) and
deletes the local queue. `shutDown()` is cut at `finish()`, `suspend()`, the change of state and the
join, because other threads go on calling until the queue is `Destructed`. `deletions[j]` counts what
deletes `j` when the last reference to it goes: `Held` looks at users, streams, queues and threads.

*Environment.* Nobody uses a queue that its owner has begun to delete, nor the library once the application deletes its
children. A user keeps a job on the stack until its queue is finished.

## Runs

| Run | What it asks | Answer |
|---|---|---|
| `core` | Safety under all calls: types, exact `active`, exclusive execution, dependencies, cap, idleness when suspended, order of the queue, hand-out only while working, fairness among equal priorities, refinement of `JobQueue` | holds |
| `inventory` | The maximum moves between 0 and 2: surplus threads leave, one expired thread at most, nobody outgrows the maximum, no ready job abandoned, every ready job starts | holds |
| `finish` | `finish()` returns while another user suspends, resumes and clears | holds |
| `shutdown` | The queue is suspended at any point, resized and shut down: one with threads that is suspended, and not resumed, gets `Suspended`; `shutDown()` returns, also when the queue is suspended and holds no jobs, and leaves nothing but an expired thread | holds (`Suspended`: with `resume()` in play it fails for the lost wake-up that `resume_lost` shows) |
| `collections` | 64 programs of tests, benchmarks and examples, and 9 clients that fail, stop, abort, dequeue and nest collections: what the tests compare holds on every schedule; counters, lifetime, locks, termination, and refinement of `JobTree`, which says that elements of a sequence start in order, that a collection is over after its elements, and that what is over stays as it ended | holds |
| `policies` | Two queues share policies that four clients change, and jobs that others wait for are deleted: slots, overlooked and late dependencies, handlers, locks, `finish()` | holds |
| `application` | Three clients of the global queue, a local one, and both: completion by `shutDown()`, deletion, streams, `instance()` and its factory | holds |
| `resume_lost`, `left_running`, `aborted_running`, `sticky_failure`, `nested_abort` | What comments and documentation say | refuted, see Findings |

*Bounds.* Runs of `Weaver`: two users and four threads (three where one suffices), three jobs or two. Two threads of the
inventory are enough for any race of two threads; the third identity is the expired thread and
the fourth the one a `shutDown()` waits for. Three jobs give a dependency, two competitors for
the restriction and an urgent job that overtakes. `CreateBound` stops changes of the maximum
after so many threads have been started, without which identities would be recycled for ever;
it is at least twice the inventory. `semaphore` and `createdThreads` are then bounded too.

`collections`: two threads and two users; programs are finite and hold up to four collections, three deep.
Two threads are the one that ends an element and the one that begins or ends another; the users bring a
third and a fourth. `policies`: one thread for each of two queues, two users, four jobs of which three share a
restriction with room for one. The threads contend for policies, not for a queue, which is why one for each is enough.
`application`: Main and one other user, two threads per queue, and one job of each kind whose deletion differs
(shared, decorated, on the stack).

`CHECK_DEADLOCK FALSE` is set where the behaviour really ends: after `shutDown()`, when the users have
nothing left to call, or when the application is gone. For the same reason `Terminates` (every
program comes to its end) is what tells a deadlock of `Collections` from its end, together with
`NoCircularWait`.

### Fairness

`FairSpec` has weak fairness for the steps of a thread that need no lock (the scheduler runs
every thread, and the user's `run()` is assumed to end), strong fairness for those that lock,
because others hold the mutex again and again in between, and strong fairness for the steps of a
call under way. A timed wait (50 or 500 ms in `finish`, 100 ms in the join of `shutDown`) is a step that
may always be taken and, by fairness, eventually is. No user ever has to make a call, and
nothing says which waiting thread is faster.

The liveness properties that hold are conditional, as the code is: `finish()` returns if the queue
is not left suspended and no job is stuck behind one that failed; `Suspended` is reached if the
inventory is not empty and nobody resumes; `shutDown()` returns if no stuck job is in the queue, and no job
in one that stays suspended (`HeldBack`): those are the hazards at dependencypolicy.cpp:168 and weaver.cpp:77, which the
properties exclude because the code really waits for ever.

`Collections` asks only that some thread goes on as long as one can (`WF_vars(Next)`): programs are
finite and no call is retried, so no thread can starve another for ever. In `Policies` a scan is retried,
so each thread and each user's call under way has strong fairness of its own; `FinishReturns` there
holds under three conditions, each of them needed: no job is stuck behind one that failed or
was dequeued, both queues have somebody in `finish()`, whose timed wait is all that wakes the threads
of one queue when a slot or a dependency is freed in the other, and two jobs do not find a
restriction full for ever because of each other's questions. In `Application` the threads of a queue and a `shutDown()` under way
go on when they can; users may stop calling at any time.

## Findings

* `resume_lost` (`suspendingstate.cpp:41`): a thread that decided to block while the queue was suspended misses the wake-up
  of `resume()` and sleeps next to a ready job, until someone calls a function that wakes threads.
  `finish()` survives because its wait is timed.
* `left_running` (`collection_p.cpp:197`): `stop()` of a collection whose elements are all still queued dequeues
  them, brings the counter to 0, and the cleanup is done only for 1. The queue is idle, and the collection is
  `Status_Running` for good, with a reference to itself that keeps it from being deleted.
  `slotQuit` of `MCCollections`, in place of that program, refutes `IdleMeansFinished` too: `dequeue()` of everything
  (`weaver.cpp:277`) takes queued elements without telling their collection, and that is how ThumbNailer quits.
* `aborted_running` (`collection_p.cpp:97`): a collection is aborted when a thread has taken it and its `elementFinished()` has
  not counted it yet. `dequeue()` does not find it, no element is queued, and `elementFinished()` sees `shouldAbort()` and queues
  none, so that `jobCounter` is still 0 and the decrement makes it -1, which the code takes for a straggler of a
  collection that has been dequeued. There is no cleanup: the status is left at what `updateStatus()` set, `Status_Running`
  and not `Status_Aborted`, no handler is called, the policies are not freed, and the collection refers to itself for good.
  No program of `collections` aborts a collection in that window: `RequestAbortCollectionTest` and the clients wait for
  an element to start, and `IdleMeansFinished` and `ImplementsJobTree` of that run do not speak of it.
* `sticky_failure` (`collection_p.cpp:144`): the comment promises that a failure sticks; the status of the
  last element to report is what counts.
* `nested_abort` (`collection_p.cpp:208`): aborting a collection of collections locks from the outside in, an
  inner collection that starts locks from the inside out. The definition `AbortAllWhileExecuting` of
  `MCCollections`, given to the same configuration as `Programs`, refutes `NoCircularWait` with a single user:
  `Weaver::requestAbort()` holds the weaver's mutex while the collection it aborts calls `dequeue()`.

Disagreements of comments and code that need no run to be seen, or that were met while modelling:

* job.h:124-126 says that a job that is deleted "will always resolve its dependencies", and dependencypolicy.h:34 and 73-75 say
  that its destructor removes all entries in which another job depends on it, also if it was never executed.
  `destructed()` calls `resolveDependencies()`, and that does nothing unless `success()` holds (dependencypolicy.cpp:108), so a job
  that is deleted when it has failed or before it was executed leaves its entries in the map. What depends on it never starts,
  and `finish()` of its queue never returns. `Delete` of `Policies` does what the code does. `HandlersComeFirst` of the run `policies`,
  in which a job that another one waits for may be deleted whenever it is neither queued nor executed (and the map
  has a bare pointer to it, for it keeps other jobs alive), shows that no such dependent starts; `Stuck`, which `FinishReturns` excludes, is the price.
* weaver.cpp:453 promises to wake all threads when a job ends; the code wakes the callers of `finish()`. The freed
  jobs still run (`EveryReadyJobStarts`), one after another.
* state.h:49 says that in `Destructed` all threads have exited; an expired thread may still be leaving
  (`DestructedLeavesOnlyExpired` is what holds).
* queueinterface.h:131 promises `suspended()` at once for an idle queue; a queue that has no thread never emits it.
* queueinterface.h:109 says that `dequeue()` works as `dequeue(job)`; it leaves the jobs `Status_Queued`, and it
  does not tell a collection whose elements it takes.
* The assert weaver.cpp:300 in the loop of `finish()` fails when another user suspends.
* queue.cpp:63 promises that the destructor completes enqueued jobs; for a suspended queue it does not return
  (hence the condition of `ShutDownReturns`).
* queue.cpp:155 explains an order of destruction that is not the one of QObject children, which go in the order in
  which they were added: the queue goes first, and `instance()` returns it until the guard is deleted.
* `RequestAbortCollectionTest` compares the output with two characters (JobTests.cpp:1296); an element
  that nobody has taken when the abort comes is dequeued, so this depends on the schedule and is left out of `TestPrograms`.
* `Model::setSaveThumbNailCap()` of ThumbNailer (Model.cpp:79) sets the cap of the image scaler, and neither it nor
  `setComputeThumbNailCap()` calls `reschedule()`, as the other two setters do.

## Proofs

All theorems hold for any number of threads, users and jobs, any priorities, dependencies, cap and
batches, for `Policies` also any queues, restrictions, lists of policies and clients, for `Application` any
clients and ways to allocate jobs, and for `Collections` any programs, that satisfy the named assumptions of the four modules. Every invariant
below was first checked by TLC on the instance of a run.

### Weaver

* `TypeCorrect` (`WeaverProofs`): `Spec => []TypeOK`, from the inductive `Typed`, which adds
  `MutexInv`. The exclusion is needed for types: a job that is inserted is the head of `pending`,
  which is not empty only because nobody else is in the middle of an `enqueue`.
* `ActiveIsExact`, `SuspendedIsIdle`, `HandOutWhileWorking` (same module), from the inductive
  `ActiveInv`. Its parts need each other: that a thread reporting back was counted is `ThreadInv`;
  that a busy thread never meets a suspended state, and so never goes to sleep unreported, is
  `SuspendedMeansIdle`; that `shutDown()` may set `ShuttingDown` is `ClosingInv` (it is alone with the
  queue and has seen it idle); that the state does not change in the middle of a scan is `MutexInv`.
* `ExecutionIsExclusive` (`WeaverExecutionProofs`), from `Exec`: `StatusInv` ties the status of a held job
  to the place of its thread, `PendingInv` keeps the jobs an `enqueue` has still to insert new and
  different from each other. Without the latter the second job of a batch might be in the queue
  already, and without the former a job could end with a status that lets it be queued again.
* `DependenciesAreRespected`, `CapIsRespected` (same module), from `Policies`. `DependencyInv` relates
  the policy's map, which shrinks outside of the mutex, to the status of the jobs: what left the map
  has succeeded and is over, what is in it has not started. Job by job exclusion (`Exec`) makes sure
  that nobody else ends or dequeues the job meanwhile.
* `QueueIsSorted`, `QueueStaysFair` (same module): every step leaves the queue alone, takes one job out,
  inserts one at its position or empties it; the lemmas `RemovedFrom` and `InsertedInto` say what
  that does to the order of the others.
* `InventoryStaysBounded` (`WeaverProofs`): `adjustInventory()` starts the first unused threads, so many
  as there is room for, which is a statement about cardinalities: their ranks among the unused are
  different numbers below the room (`NewThreadsFit`, by the pigeonhole principle of the library). No other
  step adds a thread.
* `OneThreadExpires`, `ShutDownLeavesOnlyExpired` (same module), from `InventoryInv`: a thread that was
  started is in the inventory, expired, or taken out by the `shutDown()` that joins it. With `ActiveInv`, a
  queue that is `Destructed` has nobody but the expired thread left.
* `NothingAbandoned` (same module): `NeverSuspends => (Spec => []NoAbandonedJob)`. The condition is needed: with
  `suspend()` in play a thread about to wait misses the wake-up of `resume()`, which is the finding
  `resume_lost`. The invariant is `WorkInv`: a thread goes to sleep only from a scan of the whole queue, and a
  job that the scan has passed over and that can run now can do so only because another job has just ended,
  whose thread will search the queue in its turn (`ScanInv`), unless it finds itself surplus and leaves, and
  then there are others awake, because no thread sleeps while the inventory is too large (`SurplusAwake`).
* `WeaverImplementsQueue` (`WeaverExecutionProofs`): with all of the invariants above and `ShutStateInv`,
  which ties the state to the steps of `shutDown()`, each step maps to a step of `JobQueue` or to a
  stutter: the hand-out is `ExamineTake`, and needs the dependencies and the cap as the policies'
  own data say them; the completion is `EndJob`; `Suspended` and `Close` need that nothing is held.

### Policies

All five safety properties of the run `policies` follow from one invariant, `PolicyInv` (`PolicyInvariant`):

* `LockInv` says who owns each mutex: the queue's a thread that scans, the job's the thread that asks its
  policies or the user who adds a dependency to it. `ExecInv` is exclusion once more, now without an
  owner: a job is in one queue or in one hand, although users execute, dequeue and delete jobs too.
* `AgreedInv` is the key of `SlotsExact`: while a job's mutex is held, the policies that have agreed are a prefix of
  its list, so that giving them back gives back those that were asked. After that the list may only grow
  at its end or while the job is in nobody's hands, so that the loop that frees meets each policy that agreed,
  once. `SlotInv` follows, restriction by restriction (`CustomersAreExact`).
* `DependencyInv` says who is going to resolve an entry of the map whose dependee has succeeded: the actor that
  is still on the way to the dependency policy in the dependee's list, and otherwise the entry came late
  (`OnlyLateDependenciesStay`).
* `AskedInv`: once the dependency policy has agreed, nothing is added to the job's dependencies until
  its mutex is released, and the map of the others only shrinks as far as this job is concerned
  (`NoneOverlooked`). `DeclaredInv` keeps what was declared at first in the map until the dependee is done and has
  called its handlers (`HandlersHaveRun`).
* `NobodyWaitsInACircle` needs a measure and no more state: who owns a queue's mutex waits for nothing but the mutex of
  a candidate, which only `addDependency()` holds while it waits (`OwnersWait`), for the next job in the declared order.

### Application

* `DestructedIsQuiet`, `InstanceIsUsable` (`ApplicationProofs`), from `AppInv`. That instance() returns a queue
  that exists needs to know where Main is: `GlobalInv` ties the phase of the application to the state of the
  global queue and to Main's place in `shutDown()` (while the application quits, the queue is
  `Destructed` or Main is about to make it so), `LocalInv` says that Main never quits with the local queue
  alive, and `MainInv` that the queue Main is shutting down still exists, without which a
  `setState()` might revive a deleted one. `QuietWhenDestructed` is part of the invariant: it is why
  no thread of a destructed queue has a step left.
* `StreamsDeliver`, `ShutDownCompletes`, `NoJobDangles`, `JobsAreDeletedOnce` (same module), from `AppInv` and `JobInv`,
  which says where each job is: in one stream, once, or in its one queue or one of its threads, or over (`StreamedInv`,
  `HomeInv`). A job that was enqueued in time is executed once or still on its way there, and no longer on its way once
  `shutDown()` is past its `finish()` (`OnTimeInv`); this needs `StreamInv`, that a stream does not outlive its queue, for a
  deleted queue would take jobs and never execute them. `SettledInv` says why a job on the stack is
  safe: `finish()` has seen its queue empty and idle, or destructed, and a job is enqueued once. A job is
  deleted once because what nobody holds is never held again (`DeletedByOne`): each step that drops the last pointer
  counts one deletion, and no step makes a pointer from nothing.

### Collections

`CountersAreExact`, `CollectionsKeepAlive` and `IdleCollectionsAreFinished` (`CollectionsProofs`) hold for any workers, any
trees of collections and sequences, nested to any depth, with generated elements, failures, dependencies,
restrictions and priorities, under one condition on the users: `Spec /\ [][Undisturbed]_vars`. Undisturbed users
enqueue new jobs that are no collection's elements, each once, and leave the rest to the queue; they do not call `stop()`,
`dequeue()`, `requestAbort()` or `execute()` on a job, nor `Weaver::requestAbort()`, nor `dequeue()` with jobs in the queue. The
condition is needed: `left_running` refutes `IdleMeansFinished` as soon as a user calls `stop()`. The `stop()` that a
failing sequence calls on itself is not a user's, and is covered.

All three follow from `Inv` (`CollectionsInvariant`), whose parts TLC has checked on every undisturbed behaviour
of the programs of the run `collections`:

* A stack of calls is not bounded, but it has one of four shapes (`Shapes`): nothing, a job alone, a job that begins
  with the collections it has to tell, a job that ends on top of collections that only wait to drop their reference.
  So it has one call that has a job in its hands (`Main`), and steps are lemmas about that call.
* `OneToken`: a job is in the hands of one thread. With `QueueInv` (what is queued or new has not begun) a job
  reports once. `MainOK` says what is true at each place of the main call.
* `CountInv`: the counter of a collection is the size of `Remaining`, the elements that are queued, in somebody's hands or
  counting themselves. It is what each `elementFinished()` needs: that the one who finds the counter
  at 1 is the last, and that there is nobody left when the collection ends (`CollOK`, `DoneInv`).
* `ClearInv` and `CollOK` say how long the reference to itself is needed, `LockInv` who has which mutex. The latter is why a
  counter is never seen between two assignments.
* In an idle queue every counter is 0 (`IdleFacts`): a counter above zero needs an element that has still to report, which
  can then only be a collection with a counter above zero itself, and in a tree there is an innermost one. That
  trees are well founded is assumed as such (`TreesAssumption`: in any set of collections there is an
  innermost and an outermost one), for induction over a tree is out of reach. TLC evaluates the assumption on every
  program of a run. The code has no check of its own against a collection that contains itself.

The other four theorems need to know where a sequence stands as well. `SequencesKeepOrder`
(`CollectionsOrderProofs`) shows `SeqInv`, which TLC has checked on the same behaviours and on seven more programs of
nested sequences with failing elements and dependencies. `completed` counts the elements a sequence has unblocked, which
is one more than have succeeded while it waits for the last of them:

* `OrderInv`: while the counter of a sequence runs, its elements before the one unblocked last have succeeded and
  are over, and those behind it are new, or queued and blocked.
* `ReportInv`: what reports to a sequence is that element (or the sequence itself, before any), so that one thread
  at a time does (`SoleReporter`). Without that two elements could report at once, and `completed` would skip one. An
  element that has failed leaves its status in the frame that is going to restore it.
* `StopInv`, `ApiInv`: the `stop()` of a failing sequence goes through the elements from the first one on, with the mutex
  given up, and finds none of them left in the queue at its end. A collection knows its queue until it is over or stopped,
  so that the loop is not cut short.
* `DepInv`: a dependency that is gone from the map was removed by a user or resolved by a job that had succeeded and was
  past its last report. The cleanup in `stop()` (`collection_p.cpp:197`) is where this could go wrong, for it frees the
  policies of a sequence that has not reported yet. It resolves nobody's dependency: the status it reads is still
  that of the failing element (`ReportInv`), because no other element can report to the sequence meanwhile.

Each action is first shown to be a kind of step that says what it does to the
order and nothing else (`StillStep`, `TakeStep`, `RunStep`, `CountStep` and so on: lemmas named `...Is`); then each
kind keeps `SeqInv` (lemmas named `...Ordered`), and the same kinds serve the refinement.

* `DependentsAlwaysWait`: what has begun is in the map no more (`DepInv`), so what it depends on has succeeded and is past
  its last report, and a collection that is past it has nothing left in `Remaining` (`FinishedIsEmpty`).
* `NoWaitIsCircular`: a thread with the queue's mutex waits for mutexes of queued jobs, which nobody holds
  (`TakerNeeds`, `IdleIsFree`). A thread that counts holds its collection's and waits for the queue's, or for those of
  elements that have not begun (`CounterNeeds`). A thread that begins a collection inside another holds the inner
  mutex and waits for the outer one, which only a thread that counts can hold (`StarterNeeds`). Whoever else
  waits holds none. So of any threads that wait, the first of these kinds waits for none of the others. That `stop()`
  is called without the mutex, and `requestAbort()` by no one, is part of the argument: `nested_abort` is what happens otherwise.
* `CollectionsImplementJobTree` (`CollectionsPromiseProofs`): a step of `Collections` is a step of `JobTree` or leaves its variables
  alone. `Take` is `Begin`, for a sequence by `OrderInv`: an element that is runnable is the one unblocked
  last. `CallEnd` is `End`: of a collection it needs `CountInv`, that none of its elements is queued or running when the
  counter has come to 0. `Run`, `ProcessAndCount`, `ProcessAndStop` and `Restore` decide on the success of what is running;
  `EnqueueElements` is `Queue`, of elements of a collection that is not over; `StopElement` is `Dequeue`, or nothing if
  the element was not queued. All the other steps of threads leave the phases alone.

`ProgramsAssumption` says of a call of `removeDependency()` that its pair is among those the program lists as
removed, which `DependentsWait` leaves out; no other assumption is new for these four.

### What is only model-checked

* Liveness, which is out of the prover's reach, as is ENABLED: `EveryReadyJobStarts`, `InventoryShrinks`, the properties of `finish()`,
  `suspend()` and `shutDown()`, `Terminates`.
* `Collections` with users who stop, dequeue or abort collections meanwhile; in part the properties do not hold then,
  which is what the findings are about. TLC runs the tests and nine such clients on every schedule.
* `TestsHold` of `TestPrograms`, which compares the results of the tests' own programs.

No module a theorem is about declares a RECURSIVE operator.

## What properties are for

`PROJECT.json` lists the hazards of the code at their lines, with the properties that catch each. Every property of a
passing run has a mutant, a plausible mistake in one definition with which TLC refutes the property: an off-by-one in
the counter of a collection, a mutex kept across a call, a slot not given back, a stream that does not flush.

## Not modelled, and the plan

* `~Collection()` of a collection that is still queued: it calls `dequeue()` of the queue that is deleting it.
* Executors of the user's own, and wrappers put on a job after it was queued.
* What a container does that is changed while it is iterated (`job_p.cpp:33`), beyond the changes of its contents.
* Forwarding in `IdDecorator`, `lambda.h` and logging: no state, no control.
* Signals of `QObjectDecorator` and of the queue: nothing in the library listens to them.
* User interfaces, image and network code of the examples, the average load manager of ThumbNailer, and the
  baselines that use no jobs (`BaselineBenchmark`, `computeThumbNailsBlockingInLoop`).

Every safety property that a passing run checks has a theorem, but for `TestsHold`, which is about given programs. Those of
`Collections` assume undisturbed users; which of them hold with fewer restrictions, above all with `dequeue()` of
an element while its collection counts, TLC has shown for the clients of the run only.
