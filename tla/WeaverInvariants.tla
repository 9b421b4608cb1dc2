--------------------------- MODULE WeaverInvariants ---------------------------
(***************************************************************************)
(* The inductive invariant of Weaver.  Each part says what the others need *)
(* to be preserved by every step.                                          *)
(***************************************************************************)
EXTENDS Weaver

Closing == {"sdAcquire", "sdFinish", "sdFinishWait", "sdSuspend", "sdSuspendSet", "sdSet",
            "sdReschedule", "sdTake", "sdJoin", "sdDestruct", "done"}
ClosedToJobs == Closing \ {"sdAcquire", "sdFinish", "sdFinishWait"}

(* The mutex has one holder: a thread that scans the queue, which is then  *)
(* working, or a user that enqueues, who has jobs left.                    *)
MutexInv ==
  /\ \A s, t \in Threads : pc[s] = "scan" /\ pc[t] = "scan" => s = t
  /\ \A u, v \in Users : upc[u] = "enqueueing" /\ upc[v] = "enqueueing" => u = v
  /\ \A t \in Threads, u \in Users : ~ (pc[t] = "scan" /\ upc[u] = "enqueueing")
  /\ \A t \in Threads : pc[t] = "scan" => state = "WorkingHard" /\ cursor >= 1
  /\ \A u \in Users : upc[u] = "enqueueing" => pending # <<>>

(* A thread holds a job exactly between the hand-out and the end of the    *)
(* job, and a thread that was busy has reported back before it sleeps or   *)
(* leaves.                                                                 *)
ThreadInv ==
  \A t \in Threads :
    /\ job[t] # NoJob <=> pc[t] \in {"assigned", "running", "ending"}
    /\ wasBusy[t] => pc[t] \in {"running", "ending", "apply", "takeWork", "takeSuspending"}
    /\ pc[t] \in {"running", "ending"} => wasBusy[t]

StatusInv ==
  \A t \in Threads :
    /\ pc[t] = "assigned" => status[job[t]] = "Queued"
    /\ pc[t] = "running" => status[job[t]] = "Running"
    /\ pc[t] = "ending" => status[job[t]] \in Outcomes

(* The jobs enqueue() has still to insert are new, and different ones.     *)
PendingInv ==
  /\ \A i, k \in DOMAIN pending : pending[i] = pending[k] => i = k
  /\ \A i \in DOMAIN pending : status[pending[i]] = "New"

(* shutDown() is alone with the queue, and once its finish() has returned  *)
(* there are no jobs.                                                      *)
ClosingInv ==
  /\ \A u, v \in Users : upc[u] \in Closing /\ u # v => upc[v] = "ready"
  /\ \A u \in Users : upc[u] \in ClosedToJobs => assignments = <<>> /\ active = 0

(* The state follows the steps of shutDown(), and nobody else closes the   *)
(* queue.                                                                  *)
AfterSet == {"sdReschedule", "sdTake", "sdJoin", "sdDestruct", "done"}

ShutStateInv ==
  /\ \A u \in Users : upc[u] = "sdSet" => state \in {"Suspending", "Suspended"}
  /\ \A u \in Users : upc[u] \in AfterSet => state \in {"ShuttingDown", "Destructed"}
  /\ state \in {"ShuttingDown", "Destructed"} => \E u \in Users : upc[u] \in AfterSet

(* What has been resolved has succeeded and ended, and what waits has not  *)
(* started.                                                                *)
DependencyInv ==
  /\ dependencies \subseteq DependsOn
  /\ \A d \in DependsOn \ dependencies : status[d[2]] = "Success" /\ ~ Held(d[2])
  /\ \A d \in dependencies : ~ Held(d[1]) /\ status[d[1]] \in {"New", "Queued"}

(* Every thread that was started and not yet deleted is in one of three    *)
(* places, and an expired one works no more.  The inventory is empty once  *)
(* shutDown() has taken everybody out.                                     *)
InventoryInv ==
  /\ \A t \in Threads : pc[t] = "none" <=> t \notin inventory \cup expired \cup joining
  /\ AtMostOneExpired
  /\ joining \cap (inventory \cup expired) = {}
  /\ joining # {} => \E u \in Users : upc[u] = "sdJoin"
  /\ \A u \in Users : upc[u] \in {"sdDestruct", "done"} => inventory = {}
  /\ state = "Destructed" => \E u \in Users : upc[u] = "done"

(* In a program that never calls suspend() the queue works until the       *)
(* suspend() of shutDown(), so no thread is on its way to wait without     *)
(* having searched the queue.  A surplus thread does not sleep, and what a *)
(* scan has passed over can run meanwhile only because of a job that has   *)
(* just ended, whose thread will search the queue in its turn.             *)
NeverSuspends == \A u \in Users : "suspend" \notin Calls[u]

NobodyWaitsUnseen ==
  state = "WorkingHard" =>
    \A t \in Threads : pc[t] \notin {"takeSuspending", "waitCall", "block"}

SurplusAwake ==
  state = "WorkingHard" /\ Cardinality(inventory) > inventoryMax =>
    \A t \in inventory : pc[t] \notin {"scan", "waiting"}

ScanInv ==
  \A t \in Threads : pc[t] = "scan" =>
    \A i \in DOMAIN assignments : i < cursor /\ CanRun(assignments[i]) =>
      \E s \in inventory : pc[s] \in {"apply", "takeWork"}

WorkInv ==
  /\ \A u \in Users : upc[u] \notin {"suspendSet", "resumeSet"}
  /\ state # "WorkingHard" => \E u \in Users : upc[u] \in ClosedToJobs
  /\ NobodyWaitsUnseen /\ SurplusAwake /\ ScanInv /\ NoAbandonedJob

IInv ==
  /\ TypeOK /\ MutexInv /\ ThreadInv /\ StatusInv /\ PendingInv /\ ClosingInv
  /\ ShutStateInv /\ InventoryInv
  /\ DependencyInv /\ ActiveCount /\ SuspendedMeansIdle /\ ExclusiveExecution
  /\ CapRespected /\ QueueSorted

==============================================================================
