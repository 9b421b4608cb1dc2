------------------------------ MODULE Collections ------------------------------
(***************************************************************************)
(* Collections and sequences: their elements, the executor wrappers that   *)
(* report the start and the end of an element to its collection, stop()    *)
(* and requestAbort(), and the locks that all of this takes in turn        *)
(* (collection*.cpp, sequence*.cpp, executewrapper.cpp, job.cpp, and of    *)
(* weaver.cpp and thread.cpp what they call).                              *)
(*                                                                         *)
(* The code calls back and forth between jobs, collections and the weaver, *)
(* often with a mutex held, so every thread has a stack of calls.  A step  *)
(* is what a thread does between two places where it may have to wait for  *)
(* a mutex or where it has released one.  A mutex has an owner between     *)
(* steps only where the code holds it across such a place.                 *)
(*                                                                         *)
(* What the clients do is data: a program names the elements of its        *)
(* collections, what becomes of its jobs, and the calls its users make.    *)
(***************************************************************************)
EXTENDS QueuePolicies, SequencesExt

CONSTANTS
  Workers,     \* the threads of the weaver
  Users,       \* the threads of the application
  Jobs,        \* every job of every program, collections included
  Nobody,      \* owns a mutex that is free
  NoJob,
  Programs     \* the clients: see TestPrograms

Actors == Workers \cup Users
Mutexes == Jobs \cup Workers \cup {"weaver"}
Final == {"Success", "Failed", "Aborted"}

ASSUME ActorsAssumption ==
  /\ IsFiniteSet(Workers)
  /\ Workers \cap Users = {} /\ Nobody \notin Actors
  /\ NoJob \notin Jobs /\ "weaver" \notin Jobs \cup Workers /\ Workers \cap Jobs = {}

(* The jobs that are elements of collection c of program p at any time.    *)
Family(p, c) == p.elements[c] \o (IF c \in DOMAIN p.generates THEN p.generates[c] ELSE <<>>)

(* What a program is made of, and that its collections are trees: a job is *)
(* an element of one collection, once, and there is an innermost and an    *)
(* outermost one in any set of collections.  The dependencies that a user  *)
(* removes are listed in removed.                                          *)
ASSUME ProgramsAssumption == \A p \in Programs :
  /\ p.elements \in [DOMAIN p.elements -> Seq(Jobs)] /\ DOMAIN p.elements \subseteq Jobs
  /\ p.generates \in [DOMAIN p.generates -> Seq(Jobs)]
  /\ DOMAIN p.generates \subseteq DOMAIN p.elements
  /\ p.sequences \subseteq DOMAIN p.elements
  /\ p.outcome \in [DOMAIN p.outcome -> Final]
  /\ p.dependsOn \subseteq Jobs \X Jobs
  /\ p.restricted \subseteq Jobs /\ p.cap \in Nat /\ p.priority \in [Jobs -> Int]
  /\ p.workers \subseteq Workers
  /\ \A u \in Users :
       /\ p.scripts[u] \in Seq(ToSet(p.scripts[u]))
       /\ \A call \in ToSet(p.scripts[u]) :
            /\ call.do = "enqueue" => call.on \in Seq(Jobs)
            /\ call.do = "removeDependency" => <<call.on[1], call.on[2]>> \in p.removed

ASSUME TreesAssumption == \A p \in Programs :
  /\ \A c \in DOMAIN p.elements : IsInjective(Family(p, c))
  /\ \A c, d \in DOMAIN p.elements :
       c # d => ToSet(Family(p, c)) \cap ToSet(Family(p, d)) = {}
  /\ \A S \in (SUBSET DOMAIN p.elements) \ {{}} :
       /\ \E c \in S : ToSet(Family(p, c)) \cap S = {}
       /\ \E c \in S : \A d \in S : c \notin ToSet(Family(p, d))

VARIABLES
  program,       \* the client, chosen once
  script,        \* the calls each user has still to make
  output,        \* what the run() of the jobs has appended to a common string
  stack,         \* the calls each thread is in, innermost first
  owner,         \* the owner of each mutex
  assignments,   \* the weaver: its queue ...
  active,        \* ... the number of jobs assigned ...
  working,       \* ... and whether its state is WorkingHard
  held,          \* Thread: d->job
  status,        \* Job_Private: status, ...
  shouldAbort,   \* ... shouldAbort ...
  begun,         \* ... the calls of the innermost begin() ...
  ended,         \* ... and of the innermost end(), where finish handlers are called
  coll,          \* Collection_Private of each collection
  blocked,       \* the jobs to which a sequence has assigned its BlockerPolicy
  dependencies,  \* the dependency policy's map
  customers      \* the restriction policy's list

clientVars == <<program, script, output>>
weaverVars == <<assignments, active, working, held>>
jobVars    == <<status, shouldAbort, begun, ended>>
policyVars == <<blocked, dependencies, customers>>
vars == <<clientVars, stack, owner, weaverVars, jobVars, coll, policyVars>>

IsCollection(j) == j \in DOMAIN coll
IsSequence(c) == c \in program.sequences
ParentsOf(j) == {c \in DOMAIN coll : j \in ToSet(coll[c].elements)}
HasParent(j) == ParentsOf(j) # {}
ParentOf(j) == CHOOSE c \in ParentsOf(j) : TRUE

NewCollection(elements) ==
  [elements |-> elements, api |-> FALSE, self |-> FALSE, selfIsExecuting |-> FALSE,
   jobCounter |-> 0, jobsStarted |-> 0, completed |-> 0]

Init ==
  /\ program \in Programs
  /\ script = program.scripts
  /\ output = <<>>
  /\ stack = [a \in Actors |-> <<>>]
  /\ owner = [m \in Mutexes |-> Nobody]
  /\ assignments = <<>> /\ active = 0 /\ working = TRUE
  /\ held = [w \in Workers |-> NoJob]
  /\ status = [j \in Jobs |-> "New"]
  /\ shouldAbort = [j \in Jobs |-> FALSE]
  /\ begun = [j \in Jobs |-> 0] /\ ended = [j \in Jobs |-> 0]
  /\ coll = [c \in DOMAIN program.elements |-> NewCollection(program.elements[c])]
  /\ blocked = {} /\ dependencies = program.dependsOn /\ customers = {}

-------------------------------------------------------------------------------
(* The weaver's queue *)

Queued(j) == j \in ToSet(assignments)

(* A BlockerPolicy lets no job run, and is not freed but taken away.        *)
Blocks(j) == j \in blocked

CanRun(j) ==
  /\ ~ Blocks(j)
  /\ ~ HasUnresolvedDependencies(dependencies, j)
  /\ j \in program.restricted => HasRoom(customers, program.cap)

Runnable == {i \in DOMAIN assignments : CanRun(assignments[i])}
FirstRunnable == CHOOSE i \in Runnable : \A k \in Runnable : i <= k

(* Each of the jobs goes behind every job of the same or a higher          *)
(* priority, so that the queue is in the order of the priorities, and of   *)
(* jobs of one priority in the order in which they came.                   *)
InsertAll(queue, js) ==
  LET all == queue \o js
      before == [k \in DOMAIN all |->
                   {i \in DOMAIN all : LET p == program.priority[all[i]]
                                           q == program.priority[all[k]]
                                       IN  p > q \/ (p = q /\ i < k)}]
  IN  [n \in DOMAIN all |-> all[CHOOSE k \in DOMAIN all : Cardinality(before[k]) = n - 1]]

(* enqueue(): aboutToBeQueued() tells a collection which queue it is in.   *)
EnqueueAll(js) ==
  /\ assignments' = InsertAll(assignments, js)
  /\ status' = [j \in Jobs |-> IF j \in ToSet(js) THEN "Queued" ELSE status[j]]

KnowQueue(js, cs) == [c \in DOMAIN cs |-> [cs[c] EXCEPT !.api = @ \/ c \in js]]
ForgetQueue(js, cs) == [c \in DOMAIN cs |-> [cs[c] EXCEPT !.api = @ /\ c \notin js]]

(* The queue without a job, which is taken from where it is found first.   *)
Without(j) ==
  LET position == CHOOSE i \in DOMAIN assignments :
                    assignments[i] = j /\ \A k \in 1..(i - 1) : assignments[k] # j
  IN  IF Queued(j) THEN RemoveAt(assignments, position) ELSE assignments

(* freeQueuePolicyResources(j), with j in the status it now has.           *)
FreePolicies(j, finalStatus) ==
  /\ dependencies' = ResolveDependencies(dependencies, j, finalStatus = "Success")
  /\ customers' = customers \ {j}

-------------------------------------------------------------------------------
(* Calls and locks *)

(* A call: the place in it, the job or collection it is about, the job on  *)
(* whose behalf it is made, a loop index and a status kept in a variable.  *)
Frame(at, of, by) == [at |-> at, of |-> of, by |-> by, k |-> 1, kept |-> "New"]

Top(a) == Head(stack[a])
Is(a, place) == stack[a] # <<>> /\ Top(a).at = place

Become(a, frame) == stack' = [stack EXCEPT ![a] = <<frame>> \o Tail(@)]
Goto(a, place) == Become(a, [Top(a) EXCEPT !.at = place])
Return(a) == stack' = [stack EXCEPT ![a] = Tail(@)]
(* Call, and go on at place when the call returns.                         *)
Call(a, frame, place) ==
  stack' = [stack EXCEPT ![a] = <<frame, [Head(@) EXCEPT !.at = place]>> \o Tail(@)]

Hold(a, m) == owner' = [owner EXCEPT ![m] = a]
Release(m) == owner' = [owner EXCEPT ![m] = Nobody]

(* elementFinished() of the collection itself: unless it has been asked to *)
(* abort, its elements are queued.                                         *)
QueuesElements(c) == coll[c].selfIsExecuting /\ ~ shouldAbort[c]

(* A sequence unblocks one more element with every one that completes.     *)
UnblockSame(c) ==   \* mutant: off by one
  IF IsSequence(c) /\ coll[c].completed \in DOMAIN coll[c].elements
    THEN {coll[c].elements[coll[c].completed]} ELSE {}
UnblockTwo(c) ==   \* mutant: the element after the next goes too
  IF IsSequence(c)
    THEN {coll[c].elements[n] : n \in {coll[c].completed + 1, coll[c].completed + 2}
                                        \cap DOMAIN coll[c].elements}
    ELSE {}
Unblocked(c) ==
  IF IsSequence(c) /\ coll[c].completed + 1 \in DOMAIN coll[c].elements
    THEN {coll[c].elements[coll[c].completed + 1]} ELSE {}

WorkerSeq == SetToSeq(Workers)

(* The mutexes that the next step of a thread takes.                       *)
Needs(a) ==
  IF stack[a] = <<>> THEN {} ELSE
  LET j == Top(a).of
      k == Top(a).k
  IN CASE Top(a).at = "take" -> {assignments[i] : i \in 1..FirstRunnable}
       [] Top(a).at \in {"store", "clear"} -> {a} \cap Workers
       [] Top(a).at = "execute" -> {j} \cap DOMAIN coll
       [] Top(a).at = "run" -> {j} \cap DOMAIN program.generates
       [] Top(a).at \in {"callEnd", "started", "clearSelf", "stop", "dequeueFound",
                         "stopElements", "abortElements"} -> {j}
       [] Top(a).at = "finished" ->
            {j} \cup IF QueuesElements(j) THEN ToSet(coll[j].elements) ELSE Unblocked(j)
       [] Top(a).at = "process" -> Unblocked(j)
       [] Top(a).at = "restore" -> {j} \cup Unblocked(j)
       [] Top(a).at = "enqueue" -> {"weaver"} \cup ToSet(coll[j].elements)
       [] Top(a).at \in {"report", "dequeue", "stopDequeue", "abortAll"} -> {"weaver"}
       [] Top(a).at = "stopElement" /\ k <= Len(coll[j].elements) ->
            LET e == coll[j].elements[k]
            IN  {"weaver"} \cup IF Queued(e) \/ IsSequence(j) THEN {e} ELSE {}
       [] Top(a).at = "abortThread" /\ k <= Len(WorkerSeq) -> {WorkerSeq[k]}
       [] OTHER -> {}

At(a, place) == Is(a, place) /\ \A m \in Needs(a) : owner[m] = Nobody

-------------------------------------------------------------------------------
(* The threads of the weaver *)

(* applyForWork(), which here only waits for a job that can be executed:   *)
(* how threads come, sleep and wake is the subject of module Weaver.  The  *)
(* mutex is kept while canBeExecuted() locks one candidate after another.  *)
Apply(w) ==
  /\ w \in program.workers
  /\ stack[w] = <<>>
  /\ working /\ Runnable # {} /\ owner["weaver"] = Nobody
  /\ Hold(w, "weaver")
  /\ stack' = [stack EXCEPT ![w] = <<Frame("take", NoJob, NoJob)>>]
  /\ UNCHANGED <<clientVars, weaverVars, jobVars, coll, policyVars>>

Take(w) ==
  /\ At(w, "take")
  /\ LET j == assignments[FirstRunnable] IN
     /\ assignments' = RemoveAt(assignments, FirstRunnable)
     /\ customers' = customers \cup ({j} \cap program.restricted)
     /\ Become(w, Frame("store", j, j))
  /\ active' = active + 1
  /\ Release("weaver")
  /\ UNCHANGED <<clientVars, working, held, jobVars, coll, blocked, dependencies>>

Store(w) ==
  /\ At(w, "store")
  /\ held' = [held EXCEPT ![w] = Top(w).of]
  /\ Goto(w, "execute")
  /\ UNCHANGED <<clientVars, owner, assignments, active, working, jobVars, coll, policyVars>>

(* Job::execute(): Collection::execute() goes first, then begin(), which   *)
(* the wrapper of a collection calls twice for an element.                 *)
Execute(a) ==
  /\ At(a, "execute")
  /\ LET j == Top(a).of IN
     IF IsCollection(j)
       THEN /\ coll' = [coll EXCEPT ![j].self = TRUE, ![j].selfIsExecuting = TRUE]
            /\ Call(a, Frame("started", j, j), "setRunning")
            /\ UNCHANGED begun
       ELSE /\ begun' = [begun EXCEPT ![j] = @ + IF HasParent(j) THEN 2 ELSE 1]
            /\ IF HasParent(j) THEN Call(a, Frame("started", ParentOf(j), j), "setRunning")
                               ELSE Goto(a, "setRunning")
            /\ UNCHANGED coll
  /\ UNCHANGED <<clientVars, owner, weaverVars, status, shouldAbort, ended, policyVars>>

SetRunning(a) ==
  /\ At(a, "setRunning")
  /\ status' = [status EXCEPT ![Top(a).of] = "Running"]
  /\ Goto(a, "run")
  /\ UNCHANGED <<clientVars, owner, weaverVars, shouldAbort, begun, ended, coll, policyVars>>

(* run(): a job appends to the output, unless it is silent; a generating   *)
(* collection adds elements to itself; an abortable job waits for the      *)
(* request.  A job that sets no status and throws nothing has succeeded.   *)
Run(a) ==
  /\ At(a, "run")
  /\ LET j == Top(a).of IN
     /\ j \in program.abortable => shouldAbort[j]
     /\ status' = [status EXCEPT ![j] =
                     IF j \in DOMAIN program.outcome THEN program.outcome[j] ELSE "Success"]
     /\ output' = IF j \in program.silent THEN output ELSE Append(output, j)
     /\ coll' = IF j \in DOMAIN program.generates
                  THEN [coll EXCEPT ![j].elements = @ \o program.generates[j]] ELSE coll
  /\ Goto(a, "end")
  /\ UNCHANGED <<program, script, owner, weaverVars, shouldAbort, begun, ended, policyVars>>

(* executor->end(): the collection's wrapper reports to the collection     *)
(* itself; for other jobs the innermost end() comes first.                 *)
End(a) ==
  /\ At(a, "end")
  /\ LET j == Top(a).of IN
     Call(a, IF IsCollection(j) THEN Frame("finished", j, j) ELSE Frame("callEnd", j, j), "clear")
  /\ UNCHANGED <<clientVars, owner, weaverVars, jobVars, coll, policyVars>>

(* The innermost end() of a job: finish handlers, policies.  The wrapper   *)
(* of the collection it is in then reports to that collection.             *)
CallEnd(a) ==
  /\ At(a, "callEnd")
  /\ LET j == Top(a).of IN
     /\ ended' = [ended EXCEPT ![j] = @ + 1]
     /\ FreePolicies(j, status[j])
     /\ IF HasParent(j) THEN Become(a, Frame("finished", ParentOf(j), j)) ELSE Return(a)
  /\ UNCHANGED <<clientVars, owner, weaverVars, status, shouldAbort, begun, coll, blocked>>

(* The thread drops its job; a job that a user executes has no thread.     *)
Clear(a) ==
  /\ At(a, "clear")
  /\ IF a \in Workers
       THEN held' = [held EXCEPT ![a] = NoJob] /\ Goto(a, "report")
       ELSE Return(a) /\ UNCHANGED held
  /\ UNCHANGED <<clientVars, owner, assignments, active, working, jobVars, coll, policyVars>>

Report(w) ==
  /\ At(w, "report")
  /\ active' = active - 1
  /\ Return(w)
  /\ UNCHANGED <<clientVars, owner, assignments, working, held, jobVars, coll, policyVars>>

-------------------------------------------------------------------------------
(* What the wrappers report to a collection *)

(* elementStarted(): the first element is the collection itself, and calls *)
(* the rest of its own begin(), with the mutex held.                       *)
ElementStarted(a) ==
  /\ At(a, "started")
  /\ LET c == Top(a).of
         first == coll[c].jobsStarted = 0
     IN /\ coll' = [coll EXCEPT ![c].jobsStarted = @ + 1]
        /\ IF first /\ HasParent(c)
             THEN Hold(a, c) /\ Call(a, Frame("started", ParentOf(c), c), "startedUnlock")
             ELSE Return(a) /\ UNCHANGED owner
        /\ begun' = IF first THEN [begun EXCEPT ![c] = @ + IF HasParent(c) THEN 2 ELSE 1]
                             ELSE begun
  /\ UNCHANGED <<clientVars, weaverVars, status, shouldAbort, ended, policyVars>>

StartedUnlock(a) ==
  /\ At(a, "startedUnlock")
  /\ Release(Top(a).of)
  /\ Return(a)
  /\ UNCHANGED <<clientVars, weaverVars, jobVars, coll, policyVars>>

(* The elements of a sequence are blocked before they are queued.          *)
CountsOnlyElements(c) == Len(coll[c].elements)   \* mutant: without "including self"
InitialCount(c) == Len(coll[c].elements) + 1

PrepareElements(a) ==
  /\ At(a, "finished")
  /\ LET c == Top(a).of IN
     /\ QueuesElements(c)
     /\ Hold(a, c)
     /\ coll' = [coll EXCEPT ![c].selfIsExecuting = FALSE,
                             ![c].completed = 0,
                             ![c].jobCounter = InitialCount(c)]
     /\ blocked' = IF IsSequence(c) THEN blocked \cup ToSet(coll[c].elements) ELSE blocked
  /\ Goto(a, "enqueue")
  /\ UNCHANGED <<clientVars, weaverVars, jobVars, dependencies, customers>>

(* api->enqueue(elements), with the collection's mutex held.               *)
EnqueueElements(a) ==
  /\ At(a, "enqueue")
  /\ LET js == coll[Top(a).of].elements IN
     /\ EnqueueAll(js)
     /\ coll' = KnowQueue(ToSet(js), coll)
  /\ Goto(a, "process")
  /\ UNCHANGED <<clientVars, owner, active, working, held, shouldAbort, begun, ended, policyVars>>

(* updateStatus(): what the last element to finish says is what counts.    *)
UpdatedStatus(e) == IF status[e] = "Success" THEN "Running" ELSE status[e]

(* finalCleanup(): the final status, policies freed, the queue forgotten.  *)
FinalStatus(c, current) ==
  IF shouldAbort[c] THEN "Aborted" ELSE IF current \in Final THEN current ELSE "Success"

FinalCleanup(c, current) ==
  /\ status' = [status EXCEPT ![c] = FinalStatus(c, current)]
  /\ FreePolicies(c, FinalStatus(c, current))

(* The end of elementFinished(): a sequence unblocks an element; the last  *)
(* element to report cleans up and calls the collection's own end().       *)
LastButOne(remaining) == remaining <= 1   \* mutant: off by one
LastToReport(remaining) == remaining = 0

Count(a, c, current) ==
  LET done == [coll[c] EXCEPT !.selfIsExecuting = FALSE, !.completed = @ + 1,
                              !.jobCounter = @ - 1]
  IN /\ blocked' = blocked \ Unblocked(c)
     /\ Release(c)
     /\ IF LastToReport(done.jobCounter)
          THEN /\ FinalCleanup(c, current)
               /\ coll' = [coll EXCEPT ![c] = [done EXCEPT !.api = FALSE]]
               /\ stack' = [stack EXCEPT ![a] = <<Frame("callEnd", c, c),
                              [Head(@) EXCEPT !.at = "clearSelf"]>> \o Tail(@)]
          ELSE /\ status' = [status EXCEPT ![c] = current]
               /\ coll' = [coll EXCEPT ![c] = done]
               /\ Return(a)
               /\ UNCHANGED <<dependencies, customers>>

(* elementFinished() of an element, or of the collection itself, goes on   *)
(* here: with the mutex that PrepareElements took, or takes it.            *)
Processing(a) ==
  \/ At(a, "process")
  \/ At(a, "finished") /\ ~ QueuesElements(Top(a).of)

(* A sequence stops when an element has not succeeded ...                  *)
NeverStops(c, e) == FALSE   \* mutant
StopsSequence(c, e) == IsSequence(c) /\ status[e] # "Success"

ProcessAndCount(a) ==
  /\ Processing(a)
  /\ ~ StopsSequence(Top(a).of, Top(a).by)
  /\ Count(a, Top(a).of, UpdatedStatus(Top(a).by))
  /\ UNCHANGED <<clientVars, weaverVars, shouldAbort, begun, ended>>

(* ... for which it gives up its mutex, and then restores its status.      *)
KeepsMutex(a, c) == Hold(a, c)   \* mutant: stop() is called with the mutex held
GivesUpMutex(a, c) == Release(c)

ProcessAndStop(a) ==
  /\ Processing(a)
  /\ LET c == Top(a).of
         current == UpdatedStatus(Top(a).by)
     IN /\ StopsSequence(c, Top(a).by)
        /\ status' = [status EXCEPT ![c] = current]
        /\ coll' = [coll EXCEPT ![c].selfIsExecuting = FALSE]
        /\ GivesUpMutex(a, c)
        /\ stack' = [stack EXCEPT ![a] = <<Frame("stop", c, c),
                       [Head(@) EXCEPT !.at = "restore", !.kept = current]>> \o Tail(@)]
  /\ UNCHANGED <<clientVars, weaverVars, shouldAbort, begun, ended, policyVars>>

Restore(a) ==
  /\ At(a, "restore")
  /\ Count(a, Top(a).of, Top(a).kept)
  /\ UNCHANGED <<clientVars, weaverVars, shouldAbort, begun, ended>>

KeepsSelf(a) ==   \* mutant: the collection refers to itself for ever
  /\ At(a, "clearSelf")
  /\ Return(a)
  /\ UNCHANGED <<clientVars, owner, weaverVars, jobVars, coll, policyVars>>
ClearSelf(a) ==
  /\ At(a, "clearSelf")
  /\ coll' = [coll EXCEPT ![Top(a).of].self = FALSE]
  /\ Return(a)
  /\ UNCHANGED <<clientVars, owner, weaverVars, jobVars, policyVars>>

-------------------------------------------------------------------------------
(* stop(), dequeue() and requestAbort() *)

(* stop() looks at the queue it was given, and lets go of its mutex.       *)
Stop(a) ==
  /\ At(a, "stop")
  /\ IF coll[Top(a).of].api THEN Goto(a, "stopDequeue") ELSE Return(a)
  /\ UNCHANGED <<clientVars, owner, weaverVars, jobVars, coll, policyVars>>

(* A queue that was given a decorator does not find the collection itself. *)
StopDequeue(a) ==
  /\ At(a, "stopDequeue")
  /\ IF Queued(Top(a).of) /\ Top(a).of \notin program.decorated
       THEN Hold(a, "weaver") /\ Goto(a, "dequeueFound")
       ELSE Goto(a, "stopElements") /\ UNCHANGED owner
  /\ UNCHANGED <<clientVars, weaverVars, jobVars, coll, policyVars>>

(* dequeue(job), with the weaver's mutex held from the search on.          *)
Dequeue(a) ==
  /\ At(a, "dequeue")
  /\ IF Queued(Top(a).of) THEN Hold(a, "weaver") /\ Goto(a, "dequeueFound")
                          ELSE Return(a) /\ UNCHANGED owner
  /\ UNCHANGED <<clientVars, weaverVars, jobVars, coll, policyVars>>

(* aboutToBeDequeued() asks for the job's mutex.  The elements of a queued *)
(* collection are queued when it has been executed, not before, so that    *)
(* nothing else is dequeued.                                               *)
DequeueFound(a) ==
  /\ At(a, "dequeueFound")
  /\ assignments' = Without(Top(a).of)
  /\ status' = [status EXCEPT ![Top(a).of] = "New"]
  /\ coll' = ForgetQueue({Top(a).of}, coll)
  /\ Release("weaver")
  /\ Return(a)
  /\ UNCHANGED <<clientVars, active, working, held, shouldAbort, begun, ended, policyVars>>

(* dequeueElements(): api is read again, and then the elements are taken   *)
(* out of the queue one by one, the collection's mutex held.               *)
StopElements(a) ==
  /\ At(a, "stopElements")
  /\ IF coll[Top(a).of].api THEN Hold(a, Top(a).of) /\ Goto(a, "stopElement")
                            ELSE Return(a) /\ UNCHANGED owner
  /\ UNCHANGED <<clientVars, weaverVars, jobVars, coll, policyVars>>

ForgetsToCount(c, cs) == cs   \* mutant: a dequeued element is still waited for
CountDequeued(c, cs) == [cs EXCEPT ![c].jobCounter = @ - 1]

ElementDequeued(c, e) == blocked' = IF IsSequence(c) THEN blocked \ {e} ELSE blocked

StopElement(a) ==
  /\ At(a, "stopElement")
  /\ LET c == Top(a).of
         e == coll[c].elements[Top(a).k]
     IN /\ Top(a).k <= Len(coll[c].elements)
        /\ assignments' = Without(e)
        /\ status' = IF Queued(e) THEN [status EXCEPT ![e] = "New"] ELSE status
        /\ coll' = IF Queued(e) THEN CountDequeued(c, ForgetQueue({e}, coll)) ELSE coll
        /\ ElementDequeued(c, e)
  /\ Become(a, [Top(a) EXCEPT !.k = @ + 1])
  /\ UNCHANGED <<clientVars, owner, active, working, held, shouldAbort, begun, ended,
                 dependencies, customers>>

(* Only the element that stops its sequence is left: clean up for it.      *)
StopDone(a) ==
  /\ At(a, "stopElement")
  /\ LET c == Top(a).of IN
     /\ Top(a).k > Len(coll[c].elements)
     /\ IF coll[c].jobCounter = 1
          THEN FinalCleanup(c, status[c]) /\ coll' = [coll EXCEPT ![c].api = FALSE]
          ELSE UNCHANGED <<status, dependencies, customers, coll>>
     /\ Release(c)
  /\ Return(a)
  /\ UNCHANGED <<clientVars, weaverVars, shouldAbort, begun, ended, blocked>>

(* requestAbort(): the flag; for a collection also stop() and the request  *)
(* to every element that has not ended, with the mutex held.               *)
Abort(a) ==
  /\ At(a, "abort")
  /\ shouldAbort' = [shouldAbort EXCEPT ![Top(a).of] = TRUE]
  /\ IF IsCollection(Top(a).of) THEN Call(a, Frame("stop", Top(a).of, NoJob), "abortElements")
                                ELSE Return(a)
  /\ UNCHANGED <<clientVars, owner, weaverVars, status, begun, ended, coll, policyVars>>

AbortElements(a) ==
  /\ At(a, "abortElements")
  /\ Hold(a, Top(a).of)
  /\ Goto(a, "abortElement")
  /\ UNCHANGED <<clientVars, weaverVars, jobVars, coll, policyVars>>

AbortElement(a) ==
  /\ At(a, "abortElement")
  /\ LET c == Top(a).of
         next == [Top(a) EXCEPT !.k = @ + 1]
     IN IF Top(a).k > Len(coll[c].elements)
          THEN Release(c) /\ Return(a)
          ELSE LET e == coll[c].elements[Top(a).k] IN
               /\ IF status[e] \in Final THEN Become(a, next)
                  ELSE stack' = [stack EXCEPT ![a] = <<Frame("abort", e, NoJob), next>> \o Tail(@)]
               /\ UNCHANGED owner
  /\ UNCHANGED <<clientVars, weaverVars, jobVars, coll, policyVars>>

(* Weaver::requestAbort(): the weaver's mutex, then each thread's, then    *)
(* requestAbort() of the job that the thread has stored.                   *)
AbortAll(a) ==
  /\ At(a, "abortAll")
  /\ Hold(a, "weaver")
  /\ Goto(a, "abortThread")
  /\ UNCHANGED <<clientVars, weaverVars, jobVars, coll, policyVars>>

AbortThread(a) ==
  /\ At(a, "abortThread")
  /\ IF Top(a).k > Len(WorkerSeq)
       THEN Release("weaver") /\ Return(a)
       ELSE LET w == WorkerSeq[Top(a).k] IN
            IF held[w] = NoJob
              THEN Become(a, [Top(a) EXCEPT !.k = @ + 1]) /\ UNCHANGED owner
              ELSE Hold(a, w) /\ Call(a, Frame("abort", held[w], NoJob), "abortedThread")
  /\ UNCHANGED <<clientVars, weaverVars, jobVars, coll, policyVars>>

AbortedThread(a) ==
  /\ At(a, "abortedThread")
  /\ Release(WorkerSeq[Top(a).k])
  /\ Become(a, [Top(a) EXCEPT !.at = "abortThread", !.k = @ + 1])
  /\ UNCHANGED <<clientVars, weaverVars, jobVars, coll, policyVars>>

-------------------------------------------------------------------------------
(* The calls of the users *)

(* The next call of user u is do(on), and it is over in one step ...       *)
Calls(u, do) == stack[u] = <<>> /\ script[u] # <<>> /\ Head(script[u]).do = do
On(u) == Head(script[u]).on
Called(u) == script' = [script EXCEPT ![u] = Tail(@)] /\ UNCHANGED <<program, output>>

(* ... or is a call with places of its own.                                *)
CallJob(u) ==
  /\ \E do \in {"dequeue", "stop", "abort", "execute", "abortAll"} :
       /\ Calls(u, do)
       /\ stack' = [stack EXCEPT ![u] =
                      <<Frame(do, IF On(u) = <<>> THEN NoJob ELSE On(u)[1], NoJob)>>]
  /\ Called(u)
  /\ UNCHANGED <<owner, weaverVars, jobVars, coll, policyVars>>

Enqueue(u) ==
  /\ Calls(u, "enqueue") /\ owner["weaver"] = Nobody
  /\ EnqueueAll(On(u))
  /\ coll' = KnowQueue(ToSet(On(u)), coll)
  /\ Called(u)
  /\ UNCHANGED <<stack, owner, active, working, held, shouldAbort, begun, ended, policyVars>>

(* dequeue(): the collections forget their queue, no status is reset.      *)
DequeueAll(u) ==
  /\ Calls(u, "dequeueAll") /\ owner["weaver"] = Nobody
  /\ \A j \in ToSet(assignments) : owner[j] = Nobody
  /\ assignments' = <<>>
  /\ coll' = ForgetQueue(ToSet(assignments), coll)
  /\ Called(u)
  /\ UNCHANGED <<stack, owner, active, working, held, jobVars, policyVars>>

SuspendOrResume(u) ==
  /\ \/ Calls(u, "suspend") /\ working' = FALSE
     \/ Calls(u, "resume") /\ working' = TRUE
  /\ Called(u)
  /\ UNCHANGED <<stack, owner, assignments, active, held, jobVars, coll, policyVars>>

(* finish() returns when nothing is queued and no thread is active.        *)
Idle == assignments = <<>> /\ active = 0

Finish(u) ==
  /\ Calls(u, "finish") /\ owner["weaver"] = Nobody
  /\ Idle
  /\ Called(u)
  /\ UNCHANGED <<stack, owner, weaverVars, jobVars, coll, policyVars>>

(* The user waits until the run() of a job tells it that it has started.   *)
AwaitStart(u) ==
  /\ Calls(u, "awaitStart")
  /\ status[On(u)[1]] \notin {"New", "Queued"}
  /\ Called(u)
  /\ UNCHANGED <<stack, owner, weaverVars, jobVars, coll, policyVars>>

(* The user looks at what has become of its jobs.                          *)
Observe(u) ==
  /\ Calls(u, "expect")
  /\ Called(u)
  /\ UNCHANGED <<stack, owner, weaverVars, jobVars, coll, policyVars>>

(* No thread is woken, but finish() wakes them from time to time.          *)
RemoveDependency(u) ==
  /\ Calls(u, "removeDependency")
  /\ dependencies' = dependencies \ {<<On(u)[1], On(u)[2]>>}
  /\ Called(u)
  /\ UNCHANGED <<stack, owner, weaverVars, jobVars, coll, blocked, customers>>

-------------------------------------------------------------------------------

WorkerStep(w) == Apply(w) \/ Take(w) \/ Store(w) \/ Report(w)

CallStep(a) ==
  \/ Execute(a) \/ SetRunning(a) \/ Run(a) \/ End(a) \/ CallEnd(a) \/ Clear(a)
  \/ ElementStarted(a) \/ StartedUnlock(a)
  \/ PrepareElements(a) \/ EnqueueElements(a)
  \/ ProcessAndCount(a) \/ ProcessAndStop(a) \/ Restore(a) \/ ClearSelf(a)
  \/ Stop(a) \/ StopDequeue(a) \/ Dequeue(a) \/ DequeueFound(a)
  \/ StopElements(a) \/ StopElement(a) \/ StopDone(a)
  \/ Abort(a) \/ AbortElements(a) \/ AbortElement(a)
  \/ AbortAll(a) \/ AbortThread(a) \/ AbortedThread(a)

UserStep(u) ==
  \/ CallJob(u) \/ Enqueue(u) \/ DequeueAll(u) \/ SuspendOrResume(u) \/ Finish(u)
  \/ AwaitStart(u) \/ Observe(u) \/ RemoveDependency(u)

Step(a) ==
  \/ a \in Workers /\ WorkerStep(a)
  \/ a \in Users /\ UserStep(a)
  \/ CallStep(a)

Next == \E a \in Actors : Step(a)

Spec == Init /\ [][Next]_vars

(* As long as some thread can go on, some thread does: a program is finite *)
(* and no call here is retried, so that no more has to be asked.           *)
FairSpec == Spec /\ WF_vars(Next)

-------------------------------------------------------------------------------
(* Properties *)

Frames == UNION {ToSet(stack[a]) : a \in Actors}

(* The jobs that have been handed to a thread, and whose last end() has    *)
(* not been reported to the collection they are in.                        *)
Busy ==
  UNION {(IF f.at \in {"store", "execute", "setRunning", "run", "end", "callEnd"}
            THEN {f.of} ELSE {})
         \cup (IF f.at \in {"finished", "enqueue", "process", "restore"} THEN {f.by} ELSE {})
         : f \in Frames}

(* A collection stays in progress as long as it counts elements.           *)
InProgress(j) == j \in Busy \/ (IsCollection(j) /\ coll[j].jobCounter > 0)

Outstanding(c) ==
  {e \in ToSet(coll[c].elements) : Queued(e) \/ InProgress(e)}
    \cup {c : f \in {g \in Frames : g.of = c /\ g.by = c
                                  /\ g.at \in {"finished", "process", "restore"}}}

(* jobCounter, which is counted down from five places and set from a       *)
(* sixth, is the number of the elements that have still to report, and of  *)
(* the collection itself (collection_p.cpp:53, 109, 197).                  *)
CounterExact ==
  \A c \in DOMAIN coll :
    coll[c].jobCounter > 0 /\ (~ \E f \in Frames : f.of = c /\ f.at = "enqueue")
      => coll[c].jobCounter = Cardinality(Outstanding(c))

(* What depends on a job begins after the job has succeeded, and after the *)
(* elements of the job, if it is a collection, are over: job.h:55 "B may   *)
(* not be executed before A is finished".                                  *)
DependentsWait ==
  \A d \in program.dependsOn : begun[d[1]] > 0 /\ d \notin program.removed =>
    /\ status[d[2]] = "Success"
    /\ IsCollection(d[2]) =>
         \A e \in ToSet(coll[d[2]].elements) : ~ Queued(e) /\ ~ InProgress(e)

(* A collection one of whose elements has failed has not succeeded:        *)
(* collection_p.cpp:138 "make failures sticky".                            *)
FailureSticks ==
  \A c \in DOMAIN coll : ended[c] > 0 /\ status[c] = "Success" =>
    \A e \in ToSet(coll[c].elements) : status[e] # "Failed"

(* No set of threads exists of which each waits for a mutex that another,  *)
(* or itself, holds.                                                       *)
NoCircularWait ==
  \A S \in SUBSET {a \in Actors : Needs(a) # {}} : S # {} =>
    \E a \in S : \A m \in Needs(a) : owner[m] \notin S

(* When the queue is idle every collection that has begun is finished,     *)
(* and its handlers have been called.                                      *)
IdleMeansFinished ==
  Idle => \A c \in DOMAIN coll : begun[c] > 0 => ended[c] = 1 /\ status[c] \in Final

(* The library's own references to a job: in the queue, in a thread, of a  *)
(* collection to itself, in a list of customers.                           *)
Referenced(j) ==
  \/ Queued(j) \/ j \in customers
  \/ IsCollection(j) /\ coll[j].self
  \/ \E w \in Workers : held[w] = j \/ \E f \in ToSet(stack[w]) : j \in {f.of, f.by}

(* The wrappers have a bare pointer to their collection, which keeps       *)
(* itself alive until its last element has reported; and when the queue is *)
(* idle no reference is left, so that finish() is enough to have the jobs  *)
(* deleted (collection_p.cpp:87, 120; DeleteTest.cpp, LifecycleTests.cpp). *)
KeepsItselfAlive ==
  /\ \A f \in Frames : f.at \in {"started", "finished", "enqueue", "process", "restore"} =>
       coll[f.of].self
  /\ Idle => \A j \in Jobs : ~ Referenced(j)

(* Every program comes to its end: finish() returns in all of them.        *)
Terminates == <>(\A u \in Users : script[u] = <<>> /\ stack[u] = <<>>)

(* What clients are promised, see JobTree: a job is running until its last *)
(* end(), and a collection as long as it counts elements.                  *)
Phases ==
  LET busy == Busy IN
  [j \in Jobs |-> IF ended[j] > 0 THEN "over"
                  ELSE IF Queued(j) THEN "queued"
                  ELSE IF j \in busy \/ (IsCollection(j) /\ coll[j].jobCounter > 0) THEN "running"
                  ELSE "idle"]

Promise == INSTANCE JobTree WITH
  elements   <- [c \in DOMAIN coll |-> coll[c].elements],
  sequential <- program.sequences,
  phase      <- Phases,
  succeeded  <- {j \in Jobs : status[j] = "Success"}

ImplementsJobTree == Promise!Spec

===============================================================================
