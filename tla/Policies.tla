------------------------------- MODULE Policies -------------------------------
(***************************************************************************)
(* Queue policies at work: canBeExecuted() asks the policies of a job one  *)
(* after another and gives back what it got when one refuses, a job that   *)
(* ends calls its finish handlers and frees its policies, and meanwhile    *)
(* users add and remove dependencies, assign policies, change caps and     *)
(* delete jobs (dependencypolicy.cpp, resourcerestrictionpolicy.cpp,       *)
(* weaver_p.cpp, job.cpp, job_p.cpp).                                      *)
(*                                                                         *)
(* Policies do not belong to a queue: here two queues share them.  Of the  *)
(* queues there is only what matters for that: each has a mutex, a list of *)
(* jobs and threads that sleep when they find nothing, see module Weaver.  *)
(* A policy's own mutex covers one call of it, which is one step here; a   *)
(* job's mutex is held over several.                                       *)
(***************************************************************************)
EXTENDS QueuePolicies, SequencesExt

CONSTANTS
  Queues, Threads, Users, Jobs,
  QueueOf,            \* the queue each thread belongs to
  Home,               \* the queue each job is enqueued in
  DependencyPolicy,   \* the one instance of that class
  Restrictions,       \* the resource restriction policies
  InitialCap,
  InitialPolicies,    \* the policies assigned to each job, in order
  DependsOn,          \* the dependencies declared before anything else
  Outcomes,           \* how the run() of each job may end
  Clients,            \* what clients may call, each call once, in any order
  NoJob, Nobody

Actors == Threads \cup Users
Operations == UNION Clients
Policy == Restrictions \cup {DependencyPolicy}

ASSUME SharingAssumption ==
  /\ QueueOf \in [Threads -> Queues] /\ Home \in [Jobs -> Queues]
  /\ Threads \cap Users = {} /\ DependencyPolicy \notin Restrictions
  /\ Nobody \notin Actors /\ NoJob \notin Jobs

(* A policy is assigned once to a job, and the dependency policy to all    *)
(* that a dependency is about.                                             *)
ASSUME PoliciesAssumption ==
  /\ InitialPolicies \in [Jobs -> Seq(Policy)]
  /\ \A j \in Jobs : IsInjective(InitialPolicies[j])
  /\ Outcomes \in [Jobs -> SUBSET {"Success", "Failed"}]
  /\ DependsOn \subseteq Jobs \X Jobs
  /\ \A d \in DependsOn : \A j \in {d[1], d[2]} : DependencyPolicy \in ToSet(InitialPolicies[j])

(* What is passed to the calls.  No job depends on itself, and nobody but  *)
(* removeDependency() takes a dependency away.                             *)
ASSUME OperationsAssumption ==
  \A op \in Operations :
    /\ op.do \in {"enqueue", "dequeue", "execute", "onFinish", "delete"} => op.on[1] \in Jobs
    /\ op.do \in {"addDependency", "removeDependency"} =>
         op.on \in Jobs \X Jobs /\ op.on[1] # op.on[2]
    /\ op.do = "setCap" => op.on \in Restrictions \X Nat
    /\ op.do = "assignPolicy" => op.on \in Jobs \X Policy
    /\ op.do = "removePolicy" => op.on \in Jobs \X Restrictions
    /\ op.do = "finish" => op.on[1] \in Queues

VARIABLES
  todo,           \* the operations that have not been called yet
  queue, active,  \* of each queue: the jobs in it, the number of jobs handed out
  lock,           \* the owner of its mutex
  mutex,          \* the owner of each job's mutex
  call,           \* what each actor is doing
  status,
  policies,       \* queuePolicies of each job
  handlers,       \* the number of finishHandlers
  dependencies,   \* the dependency policy's map: <<dependent, dependee, n-th entry>>
  late,           \* those of them added when the dependee was past freeing its policies
  removed,        \* the pairs for which removeDependency() was called
  cap, customers, \* of each restriction
  deleted

queueVars == <<queue, active, lock>>
jobVars == <<status, handlers, deleted>>
policyVars == <<policies, dependencies, late, removed, cap, customers>>
vars == <<todo, queueVars, mutex, call, jobVars, policyVars>>

At(place) == [at |-> place, job |-> NoJob, cursor |-> 0, k |-> 1, n |-> 0, with |-> <<>>]

Init ==
  /\ todo \in Clients
  /\ queue = [q \in Queues |-> <<>>] /\ active = [q \in Queues |-> 0]
  /\ lock = [q \in Queues |-> Nobody] /\ mutex = [j \in Jobs |-> Nobody]
  /\ call = [a \in Actors |-> At(IF a \in Threads THEN "asleep" ELSE "ready")]
  /\ status = [j \in Jobs |-> "New"] /\ deleted = {}
  /\ handlers = [j \in Jobs |-> 0]
  /\ policies = InitialPolicies
  /\ dependencies = {<<d[1], d[2], 1>> : d \in DependsOn} /\ late = {} /\ removed = {}
  /\ cap = [r \in Restrictions |-> InitialCap] /\ customers = [r \in Restrictions |-> {}]

-------------------------------------------------------------------------------
Is(a, place) == call[a].at = place
Become(a, c) == call' = [call EXCEPT ![a] = c]
Goto(a, place) == Become(a, [call[a] EXCEPT !.at = place, !.k = 1])

Hold(m, x, a) == m' = [m EXCEPT ![x] = a]
Release(m, x) == m' = [m EXCEPT ![x] = Nobody]

(* The entries of a list before its k-th, and from there on.               *)
Passed(s, k) == {s[i] : i \in 1..k - 1}
Ahead(s, k) == {s[i] : i \in k..Len(s)}

InFlight(j) ==
  \E a \in Actors : call[a].job = j /\ call[a].at \in {"begin", "running", "ending", "handling",
                                                       "freeing", "leaving"}
Over(j) == status[j] \in {"Success", "Failed"} /\ ~ InFlight(j)

(* The dependency policy of j has been freed, and is not freed again.      *)
TooLate(j) ==
  \/ Over(j)
  \/ \E a \in Actors : call[a].job = j /\
       \/ call[a].at = "leaving"
       \/ call[a].at = "freeing" /\ DependencyPolicy \in Passed(policies[j], call[a].k)

WokenIn(q) == [a \in Actors |-> IF a \in Threads /\ QueueOf[a] = q /\ call[a].at = "asleep"
                                  THEN At("applying") ELSE call[a]]

-------------------------------------------------------------------------------
(* canBeExecuted() and what surrounds it *)

(* A thread enters takeFirstAvailableJob...(), reporting back from a job.  *)
Apply(t) ==
  LET q == QueueOf[t] IN
  /\ call[t].at \in {"applying", "reporting"} /\ lock[q] = Nobody
  /\ active' = [active EXCEPT ![q] = @ - IF Is(t, "reporting") THEN 1 ELSE 0]
  /\ Hold(lock, q, t)
  /\ Become(t, [At("candidate") EXCEPT !.cursor = 1])
  /\ UNCHANGED <<todo, queue, mutex, jobVars, policyVars>>

Candidate(t) == queue[QueueOf[t]][call[t].cursor]

LockCandidate(t) ==
  /\ Is(t, "candidate") /\ call[t].cursor <= Len(queue[QueueOf[t]])
  /\ mutex[Candidate(t)] = Nobody
  /\ Hold(mutex, Candidate(t), t)
  /\ Become(t, [call[t] EXCEPT !.at = "asking", !.job = Candidate(t), !.k = 1, !.with = <<>>])
  /\ UNCHANGED <<todo, queueVars, jobVars, policyVars>>

Sleep(t) ==
  /\ Is(t, "candidate") /\ call[t].cursor > Len(queue[QueueOf[t]])
  /\ Release(lock, QueueOf[t])
  /\ Become(t, At("asleep"))
  /\ UNCHANGED <<todo, queue, active, mutex, jobVars, policyVars>>

Allows(p, j) ==
  IF p = DependencyPolicy THEN ~ HasUnresolvedDependencies(dependencies, j)
                          ELSE HasRoom(customers[p], cap[p])

(* canRun() of one policy.                                                 *)
Ask(t) ==
  LET j == call[t].job
      p == policies[j][call[t].k] IN
  /\ Is(t, "asking") /\ call[t].k <= Len(policies[j])
  /\ IF Allows(p, j)
       THEN /\ customers' = IF p = DependencyPolicy THEN customers
                                                    ELSE [customers EXCEPT ![p] = @ \cup {j}]
            /\ Become(t, [call[t] EXCEPT !.k = @ + 1, !.with = Append(@, p)])
       ELSE /\ Goto(t, "releasing")
            /\ UNCHANGED customers
  /\ UNCHANGED <<todo, queueVars, mutex, jobVars, policies, dependencies, late, removed, cap>>

HandOut(t) ==
  LET j == call[t].job
      q == QueueOf[t] IN
  /\ Is(t, "asking") /\ call[t].k > Len(policies[j])
  /\ queue' = [queue EXCEPT ![q] = RemoveAt(@, call[t].cursor)]
  /\ active' = [active EXCEPT ![q] = @ + 1]
  /\ Release(mutex, j) /\ Release(lock, q)
  /\ Goto(t, "begin")
  /\ UNCHANGED <<todo, jobVars, policyVars>>

Without(r, j) == [customers EXCEPT ![r] = @ \ {j}]

(* release() of one policy that had agreed.                                *)
ReleasedNothing(p, j) == customers   \* mutant: the slot is not given back
Released(p, j) == IF p = DependencyPolicy THEN customers ELSE Without(p, j)

GiveBack(t) ==
  LET j == call[t].job IN
  /\ Is(t, "releasing")
  /\ IF call[t].k <= Len(call[t].with)
       THEN /\ customers' = Released(call[t].with[call[t].k], j)
            /\ Become(t, [call[t] EXCEPT !.k = @ + 1])
            /\ UNCHANGED mutex
       ELSE /\ Release(mutex, j)
            /\ Become(t, [At("candidate") EXCEPT !.cursor = call[t].cursor + 1])
            /\ UNCHANGED customers
  /\ UNCHANGED <<todo, queueVars, jobVars, policies, dependencies, late, removed, cap>>

-------------------------------------------------------------------------------
(* The execution of a job, by a thread or by a user that executes it *)

Begin(a) ==
  /\ Is(a, "begin")
  /\ status' = [status EXCEPT ![call[a].job] = "Running"]
  /\ Goto(a, "running")
  /\ UNCHANGED <<todo, queueVars, mutex, handlers, deleted, policyVars>>

(* defaultEnd(): the finish handlers, and then the policies.               *)
FreesFirst(place) ==   \* mutant: the other way round
  CASE place = "running" -> "freeing" [] place = "freeing" -> "ending" [] OTHER -> "leaving"
After(place) ==
  CASE place = "running" -> "ending" [] place = "handling" -> "freeing" [] OTHER -> "leaving"

Run(a) ==
  /\ Is(a, "running")
  /\ \E outcome \in Outcomes[call[a].job] :
       status' = [status EXCEPT ![call[a].job] = outcome]
  /\ Goto(a, After("running"))
  /\ UNCHANGED <<todo, queueVars, mutex, handlers, deleted, policyVars>>

(* handleFinish() copies the handlers and unlocks before it calls them.    *)
KeepsLocked(a, j) == Hold(mutex, j, a)   \* mutant
Unlocks(a, j) == UNCHANGED mutex

CopyHandlers(a) ==
  LET j == call[a].job IN
  /\ Is(a, "ending") /\ mutex[j] = Nobody
  /\ Unlocks(a, j)
  /\ Become(a, [call[a] EXCEPT !.at = "handling", !.k = 1, !.n = handlers[j]])
  /\ UNCHANGED <<todo, queueVars, jobVars, policyVars>>

(* A handler, which uses the job.                                          *)
Handle(a) ==
  LET j == call[a].job IN
  /\ Is(a, "handling")
  /\ IF call[a].k <= call[a].n
       THEN /\ mutex[j] = Nobody
            /\ Become(a, [call[a] EXCEPT !.k = @ + 1])
       ELSE Goto(a, After("handling"))
  /\ UNCHANGED <<todo, queueVars, mutex, jobVars, policyVars>>

(* free() of one policy, or destructed().                                  *)
FreeAll(j, ps) ==
  /\ dependencies' = IF DependencyPolicy \in ps
                       THEN ResolveDependencies(dependencies, j, status[j] = "Success")
                       ELSE dependencies
  /\ customers' = [r \in Restrictions |-> IF r \in ps THEN customers[r] \ {j} ELSE customers[r]]

(* The loop of freeQueuePolicyResources() reads the list of policies anew  *)
(* in every turn, without the job's mutex.                                 *)
Free(a) ==
  LET j == call[a].job IN
  /\ Is(a, "freeing") /\ call[a].k <= Len(policies[j])
  /\ FreeAll(j, {policies[j][call[a].k]})
  /\ Become(a, [call[a] EXCEPT !.k = @ + 1])
  /\ UNCHANGED <<todo, queueVars, mutex, jobVars, policies, late, removed, cap>>

Freed(a) ==
  LET j == call[a].job IN
  /\ Is(a, "freeing") /\ call[a].k > Len(policies[j])
  /\ Goto(a, After("freeing"))
  /\ UNCHANGED <<todo, queueVars, mutex, jobVars, policyVars>>

(* A thread drops the job and applies for work, and a user's               *)
(* blockingExecute() returns.                                              *)
Leave(a) ==
  /\ Is(a, "leaving")
  /\ Become(a, At(IF a \in Threads THEN "reporting" ELSE "ready"))
  /\ UNCHANGED <<todo, queueVars, mutex, jobVars, policyVars>>

-------------------------------------------------------------------------------
(* The calls of the users *)

MayCall(u, op, do) == Is(u, "ready") /\ op \in todo /\ op.by = u /\ op.do = do
Called(op) == todo' = todo \ {op}
Alive(js) == js \cap deleted = {}

Enqueue(u, op) ==
  /\ MayCall(u, op, "enqueue")
  /\ LET j == op.on[1]
         q == Home[j] IN
     /\ Alive({j}) /\ status[j] = "New" /\ ~ InFlight(j)
     /\ lock[q] = Nobody /\ mutex[j] = Nobody
     /\ queue' = [queue EXCEPT ![q] = Append(@, j)]
     /\ status' = [status EXCEPT ![j] = "Queued"]
     /\ call' = WokenIn(q)
  /\ Called(op)
  /\ UNCHANGED <<active, lock, mutex, handlers, deleted, policyVars>>

(* dequeue(): the policies are not asked, nor told.                        *)
Dequeue(u, op) ==
  /\ MayCall(u, op, "dequeue")
  /\ LET j == op.on[1]
         q == Home[j] IN
     /\ status[j] = "Queued" /\ lock[q] = Nobody /\ mutex[j] = Nobody
     /\ \E i \in DOMAIN queue[q] :
          queue[q][i] = j /\ queue' = [queue EXCEPT ![q] = RemoveAt(@, i)]
     /\ status' = [status EXCEPT ![j] = "New"]
  /\ Called(op)
  /\ UNCHANGED <<active, lock, mutex, call, handlers, deleted, policyVars>>

BlockingExecute(u, op) ==
  /\ MayCall(u, op, "execute")
  /\ Alive({op.on[1]}) /\ status[op.on[1]] = "New" /\ ~ InFlight(op.on[1])
  /\ Become(u, [At("begin") EXCEPT !.job = op.on[1]])
  /\ Called(op)
  /\ UNCHANGED <<queueVars, mutex, jobVars, policyVars>>

(* addDependency(a, b) locks a, then b, then the policy.                   *)
LocksNothing(u, a) == Nobody   \* mutant
LocksDependent(u, a) == u

AddDependency(u, op) ==
  /\ MayCall(u, op, "addDependency")
  /\ Alive({op.on[1], op.on[2]})
  /\ mutex[op.on[1]] = Nobody
  /\ Hold(mutex, op.on[1], LocksDependent(u, op.on[1]))
  /\ Become(u, [At("adding") EXCEPT !.with = op.on])
  /\ Called(op)
  /\ UNCHANGED <<queueVars, jobVars, policyVars>>

NeverAssigned(ps, p) == ps   \* mutant: addDependency() assigns no policy
Assigned(ps, p) == IF p \in ToSet(ps) THEN ps ELSE Append(ps, p)

InsertDependency(u) ==
  LET a == call[u].with[1]
      b == call[u].with[2]
      entry == <<a, b, 1 + Cardinality({d \in dependencies : d[1] = a /\ d[2] = b})>>
  IN /\ Is(u, "adding")
     /\ mutex[b] = Nobody
     /\ Release(mutex, a)
     /\ policies' = [policies EXCEPT ![a] = Assigned(@, DependencyPolicy),
                                     ![b] = Assigned(@, DependencyPolicy)]
     /\ dependencies' = dependencies \cup {entry}
     /\ late' = IF TooLate(b) THEN late \cup {<<a, b>>} ELSE late
     /\ Become(u, At("ready"))
     /\ UNCHANGED <<todo, queueVars, jobVars, removed, cap, customers>>

(* One entry is removed, of however many there are.                        *)
RemoveDependency(u, op) ==
  /\ MayCall(u, op, "removeDependency")
  /\ LET entries == {d \in dependencies : d[1] = op.on[1] /\ d[2] = op.on[2]} IN
     dependencies' = {d \in dependencies : d \notin entries \/ d[3] < Cardinality(entries)}
  /\ removed' = removed \cup {op.on}
  /\ Called(op)
  /\ UNCHANGED <<queueVars, mutex, call, jobVars, policies, late, cap, customers>>

SetCap(u, op) ==
  /\ MayCall(u, op, "setCap")
  /\ cap' = [cap EXCEPT ![op.on[1]] = op.on[2]]
  /\ Called(op)
  /\ UNCHANGED <<queueVars, mutex, call, jobVars, policies, dependencies, late, removed, customers>>

WithoutPolicy(ps, p) ==
  IF p \in ToSet(ps) THEN RemoveAt(ps, CHOOSE i \in DOMAIN ps : ps[i] = p) ELSE ps

(* A policy may be taken from a job that is not being executed; otherwise  *)
(* nobody would free what its canRun() has taken.                          *)
ChangePolicies(u, op) ==
  /\ \/ /\ MayCall(u, op, "assignPolicy")
        /\ policies' = [policies EXCEPT ![op.on[1]] = Assigned(@, op.on[2])]
     \/ /\ MayCall(u, op, "removePolicy") /\ ~ InFlight(op.on[1])
        /\ policies' = [policies EXCEPT ![op.on[1]] = WithoutPolicy(@, op.on[2])]
  /\ Alive({op.on[1]}) /\ mutex[op.on[1]] = Nobody
  /\ Called(op)
  /\ UNCHANGED <<queueVars, mutex, call, jobVars, dependencies, late, removed, cap, customers>>

OnFinish(u, op) ==
  /\ MayCall(u, op, "onFinish")
  /\ Alive({op.on[1]}) /\ mutex[op.on[1]] = Nobody
  /\ handlers' = [handlers EXCEPT ![op.on[1]] = @ + 1]
  /\ Called(op)
  /\ UNCHANGED <<queueVars, mutex, call, status, deleted, policyVars>>

(* ~Job(), of a job of which there are only bare pointers.                 *)
Delete(u, op) ==
  /\ MayCall(u, op, "delete")
  /\ LET j == op.on[1] IN
     /\ Alive({j}) /\ ~ InFlight(j) /\ mutex[j] = Nobody /\ status[j] # "Queued"
     /\ \A v \in Users : j \notin ToSet(call[v].with)
     /\ FreeAll(j, ToSet(policies[j]))
     /\ deleted' = deleted \cup {j}
  /\ Called(op)
  /\ UNCHANGED <<queueVars, mutex, call, status, handlers, policies, late, removed, cap>>

Finish(u, op) ==
  /\ MayCall(u, op, "finish")
  /\ Become(u, [At("finishing") EXCEPT !.with = op.on])
  /\ Called(op)
  /\ UNCHANGED <<queueVars, mutex, jobVars, policyVars>>

QueueIdle(q) == queue[q] = <<>> /\ active[q] = 0

FinishReturn(u) ==
  /\ Is(u, "finishing") /\ lock[call[u].with[1]] = Nobody /\ QueueIdle(call[u].with[1])
  /\ Become(u, At("ready"))
  /\ UNCHANGED <<todo, queueVars, mutex, jobVars, policyVars>>

WakesNobody(q) == call   \* mutant
FinishWakes(q) == WokenIn(q)

FinishTimeout(u) ==
  /\ Is(u, "finishing") /\ lock[call[u].with[1]] = Nobody /\ ~ QueueIdle(call[u].with[1])
  /\ call' = FinishWakes(call[u].with[1])
  /\ UNCHANGED <<todo, queueVars, mutex, jobVars, policyVars>>

-------------------------------------------------------------------------------
Execute(a) ==
  Begin(a) \/ Run(a) \/ CopyHandlers(a) \/ Handle(a) \/ Free(a) \/ Freed(a) \/ Leave(a)

ThreadStep(t) ==
  Apply(t) \/ LockCandidate(t) \/ Sleep(t) \/ Ask(t) \/ HandOut(t) \/ GiveBack(t) \/ Execute(t)

CallStep(u) == InsertDependency(u) \/ FinishReturn(u) \/ FinishTimeout(u) \/ Execute(u)

ApiCall(u) == \E op \in Operations :
  \/ Enqueue(u, op) \/ Dequeue(u, op) \/ BlockingExecute(u, op) \/ AddDependency(u, op)
  \/ RemoveDependency(u, op) \/ SetCap(u, op) \/ ChangePolicies(u, op) \/ OnFinish(u, op)
  \/ Delete(u, op) \/ Finish(u, op)

Next == (\E t \in Threads : ThreadStep(t)) \/ (\E u \in Users : CallStep(u) \/ ApiCall(u))

Spec == Init /\ [][Next]_vars

(* Threads are scheduled and get the mutexes they ask for again and again; *)
(* a run() returns and a timed wait times out.  Nobody has to make a call. *)
FairSpec ==
  /\ Spec
  /\ \A t \in Threads : SF_vars(ThreadStep(t))
  /\ \A u \in Users : SF_vars(CallStep(u))

-------------------------------------------------------------------------------
(* Properties *)

(* Restriction r has agreed to the job of t, and has not been told yet     *)
(* that it is over or will not be executed now.                            *)
Has(t, r) ==
  CASE call[t].at \in {"asking", "begin", "running", "ending", "handling"} ->
         r \in ToSet(call[t].with)
    [] call[t].at = "releasing" ->
         r \in Ahead(call[t].with, call[t].k)
    [] call[t].at = "freeing" ->
         r \in ToSet(call[t].with) \cap Ahead(policies[call[t].job], call[t].k)
    [] OTHER -> FALSE

(* The customers of a restriction are exactly the jobs for which canRun()  *)
(* has returned true and neither free() nor release() has been called:     *)
(* queuepolicy.h:30 "it is guaranteed that the method free() or the method *)
(* release() is called".                                                   *)
SlotsExact ==
  \A r \in Restrictions : customers[r] = {call[t].job : t \in {x \in Threads : Has(x, r)}}

Starts(t) == call[t].at = "asking" /\ call'[t].at = "begin"

(* No job is handed out with a dependency that is in the map at the time,  *)
(* though the map changes while the other policies are asked.              *)
NoDependencyOverlooked ==
  [][\A t \in Threads : Starts(t) => ~ HasUnresolvedDependencies(dependencies, call[t].job)]_vars

(* When a job starts, the finish handlers of what it depends on have been  *)
(* called: what they leave behind is there for it.                         *)
HandlersComeFirst ==
  [][\A t \in Threads : Starts(t) => \A d \in DependsOn :
       d[1] = call[t].job /\ d \notin removed =>
         /\ status[d[2]] = "Success"
         /\ \A a \in Actors : call[a].job = d[2] => call[a].at \in {"freeing", "leaving"}]_vars

(* A job that has succeeded and is over holds nobody back, except through  *)
(* a dependency that was declared when it was too late; and not even so    *)
(* once it has been deleted.                                               *)
ResolvedUnlessLate ==
  \A d \in dependencies : status[d[2]] = "Success" /\ Over(d[2]) =>
    <<d[1], d[2]>> \in late /\ d[2] \notin deleted

(* The mutexes of jobs and of queues for which an actor waits.             *)
Owners(a) ==
  CASE call[a].at \in {"applying", "reporting"} -> {lock[QueueOf[a]]}
    [] call[a].at = "candidate" /\ call[a].cursor <= Len(queue[QueueOf[a]]) -> {mutex[Candidate(a)]}
    [] call[a].at = "ending" \/ (call[a].at = "handling" /\ call[a].k <= call[a].n) ->
         {mutex[call[a].job]}
    [] call[a].at = "adding" -> {mutex[call[a].with[2]]}
    [] call[a].at = "finishing" -> {lock[call[a].with[1]]}
    [] OTHER -> {}

(* Dependencies that are added go down some order: no two users call, say, *)
(* addDependency(a, b) and addDependency(b, a).                            *)
DeclaredInOneOrder ==
  \A J \in SUBSET Jobs : J # {} => \E j \in J : \A op \in Operations :
    op.do = "addDependency" /\ op.on[1] = j => op.on[2] \notin J

(* Nobody waits for a mutex that it owns itself, nor in a circle, as long  *)
(* as dependencies are declared in one order.                              *)
NoCircularWait ==
  \A S \in SUBSET Actors : S # {} => \E a \in S : Owners(a) \cap S = {}

(* Jobs that wait for one that is neither queued nor being executed.       *)
Stuck(j) ==
  status[j] = "Queued" /\ \E d \in dependencies : d[1] = j /\ status[d[2]] # "Queued" /\ ~ InFlight(d[2])

(* Some user waits for q in finish(), which wakes its threads every time   *)
(* the wait times out.                                                     *)
Attended(q) == \E u \in Users : Is(u, "finishing") /\ call[u].with[1] = q

(* A thread finds a restriction full because of a job that is only asking. *)
Collides(t) ==
  /\ Is(t, "asking") /\ call[t].k <= Len(policies[call[t].job])
  /\ LET p == policies[call[t].job][call[t].k] IN
     /\ ~ Allows(p, call[t].job)
     /\ \E x \in Threads \ {t} : call[x].at \in {"asking", "releasing"} /\ Has(x, p)

Unhindered ==
  /\ \A j \in Jobs : ~ Stuck(j)
  /\ \A q \in Queues : QueueIdle(q) \/ Attended(q)
  /\ \A t \in Threads : ~ Collides(t)

(* finish() returns, if no job is stuck for ever, every queue that has     *)
(* work left is waited for, and jobs that ask do not collide for ever.     *)
(* All three are needed: a job that ends in one queue wakes nobody in the  *)
(* other that waits for its slot or for it, and the timed wait of finish() *)
(* is all that makes up for this.                                          *)
FinishReturns ==
  \A u \in Users : <>[]Unhindered => (Is(u, "finishing") ~> ~ Is(u, "finishing"))

===============================================================================
