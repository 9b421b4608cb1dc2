------------------------------ MODULE MCPolicies ------------------------------
(***************************************************************************)
(* The instance of Policies that TLC checks.  One thread serves queue q1   *)
(* and one q2, where jb waits for ja, a job of q1.  Jobs ja, jb and jc     *)
(* share a restriction to one at a time, which jb asks before its          *)
(* dependency.                                                             *)
(***************************************************************************)
EXTENDS Policies

CONSTANTS q1, q2, t1, t2, u1, u2, ja, jb, jc, jd, r, dp

Op(u, do, on) == [by |-> u, do |-> do, on |-> on]
EnqueueOps(js) == {Op(u1, "enqueue", <<j>>) : j \in js}

OneEach == [t \in Threads |-> IF t = t2 THEN q2 ELSE q1]
ADThenBC == [j \in Jobs |-> IF j \in {ja, jd} THEN q1 ELSE q2]
PoliciesInOrder ==
  [j \in Jobs |-> CASE j = ja -> <<dp, r>> [] j = jb -> <<r, dp>> [] j = jc -> <<r>> [] j = jd -> <<>>]
BOnA == {<<jb, ja>>}
AMayFail == [j \in Jobs |-> IF j = ja THEN {"Success", "Failed"} ELSE {"Success"}]

(* The two queues contend for the restriction, whose cap changes.          *)
Contending ==
  EnqueueOps({ja, jb, jc}) \cup {Op(u1, "finish", <<q1>>), Op(u2, "finish", <<q2>>),
                                 Op(u2, "setCap", <<r, 2>>)}

(* Dependencies come and go, across the queues too, while jobs are asked,  *)
(* executed and have been executed; and a job that another one waits for   *)
(* is deleted, before it is queued or when it has succeeded or failed.     *)
Depending ==
  EnqueueOps({ja, jb, jc}) \cup {Op(u2, "addDependency", <<jc, jb>>), Op(u2, "onFinish", <<ja>>),
                                 Op(u2, "removeDependency", <<jb, ja>>), Op(u2, "delete", <<ja>>)}
Declaring ==
  EnqueueOps({ja, jc}) \cup {Op(u2, "addDependency", <<jc, ja>>), Op(u1, "addDependency", <<ja, jd>>),
                             Op(u2, "execute", <<jd>>), Op(u2, "delete", <<jd>>)}

(* Policies are assigned and removed; ja job is taken back and deleted.     *)
Assigning ==
  EnqueueOps({ja, jd}) \cup {Op(u2, "assignPolicy", <<jd, r>>), Op(u2, "removePolicy", <<ja, r>>),
                             Op(u2, "dequeue", <<jd>>), Op(u2, "delete", <<jd>>),
                             Op(u1, "onFinish", <<jd>>)}

MCClients == {Contending, Depending, Declaring, Assigning}

(* They declare dependencies in one order, jc, jb, ja, jd, as the theorem   *)
(* about circular waits asks.                                              *)
ASSUME ClientsAssumption == DeclaredInOneOrder

===============================================================================
