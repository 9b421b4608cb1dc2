----------------------------- MODULE Application -----------------------------
(***************************************************************************)
(* The life of queues, streams and jobs in an application: the global      *)
(* queue and its guard, local queues, QueueStream, factories, who deletes  *)
(* a job, and shutDown() while other threads still call (queue.cpp,        *)
(* queuestream.cpp, queueing.h, iddecorator.cpp, *state.cpp, and the part  *)
(* of weaver.cpp that they call).                                          *)
(*                                                                         *)
(* Threads and mutexes are left to module Weaver: a call is one step here, *)
(* except finish(), which waits, and shutDown(), which others interrupt.   *)
(* Main is the thread of the application object, which alone makes, shuts  *)
(* down and deletes queues (weaver.cpp:73, queue.cpp:160).                 *)
(***************************************************************************)
EXTENDS Integers, FiniteSets, SequencesExt

CONSTANTS
  Users, Main,     \* the threads of the application
  Global, Local,   \* the queue of instance(), and one that Main makes
  NoQueue,
  Jobs,
  KindOf,          \* how each job is allocated, see Kinds
  Decorating,      \* whether local queues decorate what is queued, as JobLoggingWeaver does
  Threads,         \* the threads a queue may have
  Clients          \* what the application may do: calls, by whom, with which queues and jobs

Queues == {Global, Local}

(* "shared": a JobPointer that the user keeps as long as it likes.         *)
(* "made": make_job(), of which only the library has pointers.             *)
(* "decorated": the same, but of an IdDecorator that deletes its job.      *)
(* "raw": make_job_raw(), a pointer that does not delete.                  *)
Kinds == {"shared", "made", "decorated", "raw"}

ASSUME ApplicationAssumption ==
  /\ Main \in Users /\ Global # Local /\ NoQueue \notin Queues
  /\ KindOf \in [Jobs -> Kinds] /\ Decorating \in BOOLEAN
  /\ Threads \in Nat \ {0}

VARIABLES
  client,         \* one of Clients
  app,            \* the application object: before, running, quitting, children, gone
  created,        \* the static variables of instance() are initialised
  instance,       \* s_instance
  guard,          \* the guard object exists
  factory,        \* globalQueueFactory is set
  state,          \* the state of each queue, or "none" or "deleted"
  decorates,      \* whether its weaver decorates what is queued
  waiting,        \* its jobs
  running,        \* the jobs its threads execute
  reporting,      \* the number of threads that have dropped their job and have not said so
  main,           \* where Main is in shutDown(), and of which queue
  stream,         \* the stream each user has, if any
  pointers,       \* the jobs of which a user has the pointer or the object
  used,           \* the jobs that have been put in a stream or enqueued
  homes,          \* the queue each job was enqueued in
  enqueued, executed, deletions,   \* of each job: how often
  onTime,         \* the jobs enqueued before the shutDown() of their queue
  withdrawn,      \* those that dequeue() took back
  settled         \* those that finish() has waited for

appVars == <<client, app, created, instance, guard, factory>>
queueVars == <<state, decorates, waiting, running, reporting>>
historyVars == <<homes, enqueued, executed, onTime, withdrawn, settled, deletions>>
clientVars == <<stream, pointers, used>>
vars == <<appVars, queueVars, main, clientVars, historyVars>>

NoStream == [on |-> NoQueue, jobs |-> <<>>]
Free == [at |-> "free", on |-> NoQueue, deletes |-> FALSE]
At(place, q, deleting) == [at |-> place, on |-> q, deletes |-> deleting]

Init ==
  /\ client \in Clients
  /\ app = "before" /\ created = FALSE /\ instance = NoQueue /\ guard = FALSE
  /\ factory = FALSE
  /\ state = [q \in Queues |-> "none"] /\ decorates = [q \in Queues |-> FALSE]
  /\ waiting = [q \in Queues |-> <<>>] /\ running = [q \in Queues |-> {}]
  /\ reporting = [q \in Queues |-> 0]
  /\ main = Free /\ stream = [u \in Users |-> NoStream]
  /\ pointers = {} /\ used = {} /\ homes = [j \in Jobs |-> NoQueue]
  /\ enqueued = [j \in Jobs |-> 0] /\ executed = [j \in Jobs |-> 0]
  /\ deletions = [j \in Jobs |-> 0]
  /\ onTime = {} /\ withdrawn = {} /\ settled = {}

-------------------------------------------------------------------------------
(* What each state of a weaver makes of a call *)

Active(q) == Cardinality(running[q]) + reporting[q]
IsIdle(q) == waiting[q] = <<>> /\ Active(q) = 0

(* Destructed ignores every call, the others pass them on to the weaver.   *)
Ignores(s) == s = "Destructed"
Forwards(s) == ~ Ignores(s)
AfterSuspend(s) == IF s = "WorkingHard" THEN "Suspending" ELSE s
AfterResume(s) == IF s \in {"Suspending", "Suspended"} THEN "WorkingHard" ELSE s

Enter(q, s) == state' = [state EXCEPT ![q] = s]

-------------------------------------------------------------------------------
(* The application object and the global queue *)

Calling(u) == u = Main => main.at = "free"
May(u, call) == Calling(u) /\ <<u, call>> \in client.calls
Up == app \in {"running", "quitting"}

(* A queue of which u has a pointer that is safe to use: other threads are *)
(* done with a queue before it is deleted, but not before its shutDown().  *)
Exists(q) == state[q] \notin {"none", "deleted"}
Has(u, q) ==
  /\ Up /\ Exists(q) /\ q \in client.queues
  /\ ~ (main.on = q /\ main.deletes)
  /\ q = Global => instance = Global

CreateApplication ==
  /\ app = "before" /\ app' = "running"
  /\ UNCHANGED <<client, created, instance, guard, factory, queueVars,
                 main, clientVars, historyVars>>

SetGlobalQueueFactory ==
  /\ app \in {"before", "running"} /\ May(Main, "factory")
  /\ factory' = TRUE
  /\ UNCHANGED <<client, app, created, instance, guard, queueVars, main, clientVars, historyVars>>

NewQueue(q, decorating) ==
  /\ Enter(q, "WorkingHard")
  /\ decorates' = [decorates EXCEPT ![q] = decorating]
  /\ UNCHANGED <<waiting, running, reporting>>

(* The first call of instance(), which has to come from Main.              *)
Instance ==
  /\ app = "running" /\ main.at = "free" /\ ~ created /\ Global \in client.queues
  /\ created' = TRUE /\ instance' = Global /\ guard' = TRUE
  /\ NewQueue(Global, factory)
  /\ UNCHANGED <<client, app, factory, main, clientVars, historyVars>>

NewLocal ==
  /\ app = "running" /\ main.at = "free" /\ state[Local] = "none" /\ Local \in client.queues
  /\ NewQueue(Local, Decorating)
  /\ UNCHANGED <<appVars, main, clientVars, historyVars>>

(* State::shutDown(), which only Destructed ignores: nobody but Main       *)
(* shuts a queue down.                                                     *)
CallShutDown(q, deleting) == IF state[q] = "Destructed" THEN Free ELSE At("finish", q, deleting)

(* ~QCoreApplication: the post routine shuts the global queue down.        *)
Quit ==
  /\ app = "running" /\ main.at = "free" /\ ~ Exists(Local)
  /\ app' = "quitting"
  /\ main' = IF created THEN CallShutDown(Global, FALSE) ELSE main
  /\ UNCHANGED <<client, created, instance, guard, factory, queueVars,
                 clientVars, historyVars>>

(* Then it deletes its children: the global queue and the guard, in an     *)
(* order that is Qt's.  Nobody uses the library any more.                  *)
DeleteChildren ==
  /\ app = "quitting" /\ main.at = "free"
  /\ \A u \in Users : stream[u] = NoStream
  /\ app' = "children"
  /\ UNCHANGED <<client, created, instance, guard, factory, queueVars,
                 main, clientVars, historyVars>>

LeavesInstance == instance   \* mutant
ClearsInstance == NoQueue

DeleteGuard ==
  /\ app = "children" /\ guard
  /\ guard' = FALSE
  /\ instance' = ClearsInstance
  /\ factory' = FALSE
  /\ UNCHANGED <<client, app, created, queueVars, main, clientVars, historyVars>>

DeleteGlobal ==
  /\ app = "children" /\ main.at = "free" /\ Exists(Global)
  /\ main' = At("delete", Global, TRUE)
  /\ UNCHANGED <<appVars, queueVars, clientVars, historyVars>>

Gone ==
  /\ app = "children" /\ main.at = "free"
  /\ ~ guard /\ ~ Exists(Global)
  /\ app' = "gone"
  /\ UNCHANGED <<client, created, instance, guard, factory, queueVars,
                 main, clientVars, historyVars>>

-------------------------------------------------------------------------------
(* Deletion *)

Held(j) ==
  \/ j \in pointers
  \/ \E u \in Users : j \in ToSet(stream[u].jobs)
  \/ \E q \in Queues : j \in ToSet(waiting[q]) \cup running[q]

(* What deletes j once the last pointer to it, or to its decorator, goes:  *)
(* the pointer, or the IdDecorator with autoDelete, or, for a raw pointer, *)
(* the user; and the decorator of the weaver, which has no autoDelete.     *)
PointerDeletes(j) == IF KindOf[j] \in {"shared", "made"} THEN 1 ELSE 0
DecoratorDeletes(j) == IF KindOf[j] = "decorated" THEN 1 ELSE 0
UserDeletes(j) == IF KindOf[j] = "raw" THEN 1 ELSE 0
DecoratesAndDeletes(j) == IF homes[j] # NoQueue /\ decorates[homes[j]] THEN 1 ELSE 0   \* mutant
WeaverDecoratorDeletes(j) == 0

Deleters(j) ==
  PointerDeletes(j) + DecoratorDeletes(j) + UserDeletes(j) + WeaverDecoratorDeletes(j)

Delete ==
  LET goes(j) == (Held(j) \/ j \notin used) /\ j \in used' /\ ~ Held(j)'
  IN  deletions' = [j \in Jobs |-> IF goes(j) THEN deletions[j] + Deleters(j) ELSE deletions[j]]

-------------------------------------------------------------------------------
(* shutDown() and ~Queue() *)

ShutDown ==
  /\ main.at = "free" /\ Has(Main, Local)
  /\ main' = CallShutDown(Local, FALSE)
  /\ UNCHANGED <<appVars, queueVars, clientVars, historyVars>>

DeleteLocal ==
  /\ main.at = "free" /\ Has(Main, Local) /\ \A u \in Users : stream[u].on # Local
  /\ main' = At("delete", Local, TRUE)
  /\ UNCHANGED <<appVars, queueVars, clientVars, historyVars>>

Goto(place) == main' = [main EXCEPT !.at = place]

(* The queue is finished, suspended and told to shut down, the threads are *)
(* waited for, and then the queue is Destructed.                           *)
WaitsForNothing(q) == TRUE   \* mutant: shutDown() does not call finish()
WaitsForFinish(q) == IsIdle(q)   \* finish_p()

SdFinish ==
  /\ main.at = "finish" /\ WaitsForFinish(main.on)
  /\ Goto("suspend")
  /\ UNCHANGED <<appVars, queueVars, clientVars, historyVars>>

SdSuspend ==
  /\ main.at = "suspend"
  /\ Enter(main.on, AfterSuspend(state[main.on]))
  /\ Goto("setShuttingDown")
  /\ UNCHANGED <<appVars, decorates, waiting, running, reporting, clientVars, historyVars>>

SdSet ==
  /\ main.at = "setShuttingDown"
  /\ Enter(main.on, "ShuttingDown")
  /\ Goto("join")
  /\ UNCHANGED <<appVars, decorates, waiting, running, reporting, clientVars, historyVars>>

JoinsNobody(q) == TRUE   \* mutant
Joined(q) == Active(q) = 0

SdDestruct ==
  /\ main.at = "join" /\ Joined(main.on)
  /\ Enter(main.on, "Destructed")
  /\ main' = IF main.deletes THEN At("delete", main.on, TRUE) ELSE Free
  /\ UNCHANGED <<appVars, decorates, waiting, running, reporting, clientVars, historyVars>>

(* ~Queue() of a queue that is not Destructed calls shutDown() first.      *)
NeedsShutDown(q) == state[q] # "Destructed"

Destruct ==
  /\ main.at = "delete"
  /\ \/ /\ NeedsShutDown(main.on)
        /\ main' = CallShutDown(main.on, TRUE)
        /\ UNCHANGED <<state, waiting>>
     \/ /\ ~ NeedsShutDown(main.on)
        /\ main' = Free
        /\ Enter(main.on, "deleted")
        /\ waiting' = [waiting EXCEPT ![main.on] = <<>>]
  /\ UNCHANGED <<appVars, decorates, running, reporting, clientVars, homes, enqueued, executed,
                 onTime, withdrawn, settled>>
  /\ Delete

-------------------------------------------------------------------------------
(* Jobs, streams and the calls of the users *)

(* Pointers that make_job() returns and nobody keeps are temporary.        *)
Kept(js) == {j \in js : KindOf[j] \in {"shared", "raw"}}

EnqueueAll(q, js) ==
  /\ waiting' = IF Forwards(state[q]) THEN [waiting EXCEPT ![q] = @ \o js] ELSE waiting
  /\ enqueued' = [j \in Jobs |-> enqueued[j] + Cardinality({n \in DOMAIN js : js[n] = j})]
  /\ homes' = [j \in Jobs |-> IF j \in ToSet(js) THEN q ELSE homes[j]]
  /\ onTime' = IF Forwards(state[q]) /\ main.on # q THEN onTime \cup ToSet(js) ELSE onTime
  /\ UNCHANGED <<state, decorates, running, reporting, executed, withdrawn, settled>>

Enqueue(u, q, j) ==
  /\ May(u, "enqueue") /\ Has(u, q) /\ j \in client.jobs \ used
  /\ EnqueueAll(q, <<j>>)
  /\ used' = used \cup {j}
  /\ pointers' = pointers \cup Kept({j})
  /\ UNCHANGED <<appVars, main, stream>>
  /\ Delete

NewStream(u, q) ==
  /\ May(u, "stream") /\ Has(u, q) /\ stream[u] = NoStream
  /\ stream' = [stream EXCEPT ![u] = [on |-> q, jobs |-> <<>>]]
  /\ UNCHANGED <<appVars, queueVars, main, pointers, used, historyVars>>

Add(u, j) ==
  /\ Calling(u) /\ stream[u] # NoStream /\ j \in client.jobs \ used
  /\ stream' = [stream EXCEPT ![u].jobs = Append(@, j)]
  /\ used' = used \cup {j}
  /\ pointers' = pointers \cup Kept({j})
  /\ UNCHANGED <<appVars, queueVars, main, historyVars>>

Flushed(s) == [s EXCEPT !.jobs = <<>>]

Flush(u) ==
  /\ Calling(u) /\ stream[u] # NoStream /\ stream[u].jobs # <<>>
  /\ EnqueueAll(stream[u].on, stream[u].jobs)
  /\ stream' = [stream EXCEPT ![u] = Flushed(@)]
  /\ UNCHANGED <<appVars, main, pointers, used>>
  /\ Delete

ForgetsJobs(u) == <<>>   \* mutant: the destructor does not flush
FlushesJobs(u) == stream[u].jobs

CloseStream(u) ==
  /\ Calling(u) /\ stream[u] # NoStream
  /\ EnqueueAll(stream[u].on, FlushesJobs(u))
  /\ stream' = [stream EXCEPT ![u] = NoStream]
  /\ UNCHANGED <<appVars, main, pointers, used>>
  /\ Delete

DequeueAll(u, q) ==
  /\ May(u, "dequeue") /\ Has(u, q) /\ waiting[q] # <<>> /\ Forwards(state[q])
  /\ withdrawn' = withdrawn \cup ToSet(waiting[q])
  /\ waiting' = [waiting EXCEPT ![q] = <<>>]
  /\ UNCHANGED <<appVars, state, decorates, running, reporting, main, clientVars, homes, enqueued,
                 executed, onTime, settled>>
  /\ Delete

Suspend(u, q) ==
  /\ May(u, "suspend") /\ Has(u, q)
  /\ Enter(q, AfterSuspend(state[q]))
  /\ UNCHANGED <<appVars, decorates, waiting, running, reporting, main, clientVars, historyVars>>

Resume(u, q) ==
  /\ May(u, "suspend") /\ Has(u, q)
  /\ Enter(q, AfterResume(state[q]))
  /\ UNCHANGED <<appVars, decorates, waiting, running, reporting, main, clientVars, historyVars>>

ReturnsAtOnce(q) == TRUE   \* mutant
FinishReturns(q) == IsIdle(q) \/ Ignores(state[q])

Finish(u, q) ==
  /\ May(u, "finish") /\ Has(u, q) /\ FinishReturns(q)
  /\ settled' = settled \cup {j \in Jobs : homes[j] = q}
  /\ UNCHANGED <<appVars, queueVars, main, clientVars, homes, enqueued, executed, onTime,
                 withdrawn, deletions>>

(* A JobPointer may be dropped at any time; a job on the stack goes when   *)
(* its queue is finished.                                                  *)
DropPointer(j) ==
  /\ j \in pointers
  /\ KindOf[j] = "raw" => j \in settled
  /\ pointers' = pointers \ {j}
  /\ UNCHANGED <<appVars, queueVars, main, stream, used, homes, enqueued, executed, onTime,
                 withdrawn, settled>>
  /\ Delete

-------------------------------------------------------------------------------
(* The threads of a queue *)

HandOut(q) ==
  /\ state[q] = "WorkingHard" /\ waiting[q] # <<>> /\ Active(q) < Threads
  /\ running' = [running EXCEPT ![q] = @ \cup {Head(waiting[q])}]
  /\ waiting' = [waiting EXCEPT ![q] = Tail(@)]
  /\ UNCHANGED <<appVars, state, decorates, reporting, main, clientVars, historyVars>>

(* The job is executed, and the thread drops it before it reports back.    *)
Execute(q, j) ==
  /\ j \in running[q]
  /\ executed' = [executed EXCEPT ![j] = @ + 1]
  /\ running' = [running EXCEPT ![q] = @ \ {j}]
  /\ reporting' = [reporting EXCEPT ![q] = @ + 1]
  /\ UNCHANGED <<appVars, state, decorates, waiting, main, clientVars, homes, enqueued, onTime,
                 withdrawn, settled>>
  /\ Delete

ForgetsToReport(n) == n       \* mutant
Reported(n) == n - 1

Report(q) ==
  /\ reporting[q] > 0
  /\ reporting' = [reporting EXCEPT ![q] = Reported(@)]
  /\ UNCHANGED <<appVars, state, decorates, waiting, running, main, clientVars, historyVars>>

GetSuspended(q) ==
  /\ state[q] = "Suspending" /\ Active(q) = 0
  /\ Enter(q, "Suspended")
  /\ UNCHANGED <<appVars, decorates, waiting, running, reporting, main, clientVars, historyVars>>

-------------------------------------------------------------------------------
QueueThreads(q) ==
  \/ HandOut(q)
  \/ \E j \in Jobs : Execute(q, j)
  \/ Report(q)
  \/ GetSuspended(q)

MainStep ==
  \/ CreateApplication \/ SetGlobalQueueFactory \/ Instance \/ NewLocal
  \/ Quit \/ DeleteChildren \/ DeleteGuard \/ DeleteGlobal \/ Gone
  \/ ShutDown \/ DeleteLocal

ShuttingDownStep == SdFinish \/ SdSuspend \/ SdSet \/ SdDestruct \/ Destruct

UserStep ==
  \/ \E u \in Users :
       \/ \E q \in Queues :
            \/ \E j \in Jobs : Enqueue(u, q, j)
            \/ NewStream(u, q) \/ DequeueAll(u, q) \/ Finish(u, q)
            \/ Suspend(u, q) \/ Resume(u, q)
       \/ \E j \in Jobs : Add(u, j)
       \/ Flush(u) \/ CloseStream(u)
  \/ \E j \in Jobs : DropPointer(j)

Next == MainStep \/ ShuttingDownStep \/ UserStep \/ \E q \in Queues : QueueThreads(q)

Spec == Init /\ [][Next]_vars

(* The threads of a queue run, and shutDown() goes on, when they can.      *)
FairSpec ==
  /\ Spec
  /\ \A q \in Queues : WF_vars(QueueThreads(q))
  /\ WF_vars(ShuttingDownStep)

-------------------------------------------------------------------------------
(* queue.cpp:63: the destructor "will call shutDown() to make sure         *)
(* enqueued jobs are completed".  Of a queue that is Destructed or         *)
(* deleted, every job that was enqueued before the shutDown() began, and   *)
(* that nobody dequeued, has been executed, once; so a job that a stream   *)
(* holds back is the only one that can be missed.                          *)
CompletedByShutDown ==
  \A j \in onTime \ withdrawn :
    homes[j] # NoQueue /\ state[homes[j]] \in {"Destructed", "deleted"} => executed[j] = 1

(* Once a queue is Destructed no thread of it is left that executes a job  *)
(* or has to report, though jobs may have been handed out while shutDown() *)
(* was on its way.                                                         *)
QuietWhenDestructed ==
  \A q \in Queues : state[q] \in {"Destructed", "deleted"} => Active(q) = 0

(* A job that was streamed is in the stream or has been enqueued, once,    *)
(* whoever flushes and whenever the stream is closed.                      *)
StreamDelivers ==
  \A j \in used :
    Cardinality({u \in Users : j \in ToSet(stream[u].jobs)}) + enqueued[j] = 1

(* A job is deleted once, after the last of the user, the streams, the     *)
(* queues and the threads has let go of it, and then at once: whoever      *)
(* allocated it, whatever decorates it, and whether it was executed,       *)
(* dequeued, ignored by a Destructed queue, or still waiting in one that   *)
(* is deleted.                                                             *)
DeletedExactlyOnce ==
  \A j \in Jobs : deletions[j] = IF j \in used /\ ~ Held(j) THEN 1 ELSE 0

(* A job on the stack of a user who returned from finish() is not in the   *)
(* hands of a thread, nor of a queue that could hand it out.               *)
NoDanglingJob ==
  \A q \in Queues : \A j \in Jobs \ pointers :
    KindOf[j] = "raw" =>
      /\ j \notin running[q]
      /\ state[q] \in {"WorkingHard", "Suspending", "Suspended"} => j \notin ToSet(waiting[q])

(* While the application runs, instance() returns a queue that exists, and *)
(* zero after that (ShutdownOnQApplicationQuitTests.cpp:42), when the      *)
(* factory is deleted too; the guard's assertion queue.cpp:135, that the   *)
(* global queue is Destructed before the application deletes it, holds.    *)
InstanceUsable ==
  /\ created /\ Up => instance = Global /\ Exists(Global)
  /\ app = "gone" => instance = NoQueue /\ (created => ~ factory)
  /\ app \in {"children", "gone"} => state[Global] \in {"none", "Destructed", "deleted"}

(* shutDown() returns, if the queue does not stay suspended.               *)
ShutDownReturns ==
  \A q \in Queues :
    <>[](state[q] \notin {"Suspending", "Suspended"}) =>
      (main.at = "finish" /\ main.on = q ~> state[q] = "Destructed")

===============================================================================
