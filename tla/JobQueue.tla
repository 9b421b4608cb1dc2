------------------------------- MODULE JobQueue -------------------------------
(***************************************************************************)
(* What the queue promises to those who use it, without threads, mutexes   *)
(* or condition variables: a job that was queued is handed out at most     *)
(* once, only while the queue works, after the jobs it depends on have     *)
(* succeeded and within the cap of its restriction; a queue reported as    *)
(* suspended executes nothing, and a queue is closed only when no job is   *)
(* left.                                                                   *)
(***************************************************************************)
EXTENDS Integers, FiniteSets

CONSTANTS Jobs, DependsOn, Restricted, Cap

VARIABLES
  phase,   \* idle, waiting, executing, succeeded, failed, or dropped, of each job
  mode     \* working, suspending, suspended or closed

queue == <<phase, mode>>

Init ==
  /\ phase = [j \in Jobs |-> "idle"]
  /\ mode = "working"

InPhase(p) == {j \in Jobs : phase[j] = p}

Submit(j) ==
  /\ phase[j] = "idle" /\ mode # "closed"
  /\ phase' = [phase EXCEPT ![j] = "waiting"]
  /\ UNCHANGED mode

Withdraw(j) ==
  /\ phase[j] = "waiting"
  /\ phase' = [phase EXCEPT ![j] = "idle"]
  /\ UNCHANGED mode

(* All waiting jobs leave the queue at once, and do not come back.         *)
Clear ==
  /\ phase' = [j \in Jobs |-> IF phase[j] = "waiting" THEN "dropped" ELSE phase[j]]
  /\ UNCHANGED mode

HandOut(j) ==
  /\ phase[j] = "waiting" /\ mode = "working"
  /\ \A d \in DependsOn : d[1] = j => phase[d[2]] = "succeeded"
  /\ j \in Restricted => Cardinality(InPhase("executing") \cap Restricted) < Cap
  /\ phase' = [phase EXCEPT ![j] = "executing"]
  /\ UNCHANGED mode

Complete(j) ==
  /\ phase[j] = "executing"
  /\ \E result \in {"succeeded", "failed"} : phase' = [phase EXCEPT ![j] = result]
  /\ UNCHANGED mode

Suspend ==
  /\ mode \in {"working", "suspended"}
  /\ mode' = "suspending"
  /\ UNCHANGED phase

Suspended ==
  /\ mode = "suspending"
  /\ InPhase("executing") = {}
  /\ mode' = "suspended"
  /\ UNCHANGED phase

Resume ==
  /\ mode \in {"suspending", "suspended"}
  /\ mode' = "working"
  /\ UNCHANGED phase

Close ==
  /\ mode \in {"suspending", "suspended"}
  /\ InPhase("executing") = {} /\ InPhase("waiting") = {}
  /\ mode' = "closed"
  /\ UNCHANGED phase

Next ==
  \/ \E j \in Jobs : Submit(j) \/ Withdraw(j) \/ HandOut(j) \/ Complete(j)
  \/ Clear \/ Suspend \/ Suspended \/ Resume \/ Close

Spec == Init /\ [][Next]_queue

===============================================================================
