---------------------------- MODULE QueuePolicies ----------------------------
(***************************************************************************)
(* The two queue policies of the library as operators on their data: the   *)
(* dependency policy (dependencypolicy.cpp) keeps a map from dependents to *)
(* the jobs they wait for, the resource restriction policy                 *)
(* (resourcerestrictionpolicy.cpp) a list of at most cap customers.        *)
(*                                                                         *)
(* A dependency <<a, b>> says that job a depends on job b.                 *)
(***************************************************************************)
EXTENDS Integers, FiniteSets

HasUnresolvedDependencies(dependencies, job) ==
  \E d \in dependencies : d[1] = job

(* Only a job that succeeded resolves what depends on it: a failed or an   *)
(* aborted job keeps its dependents from running.                          *)
ResolveAlways(dependencies, job, success) ==   \* mutant: success is not checked
  {d \in dependencies : d[2] # job}
ResolveDependencies(dependencies, job, success) ==
  IF success THEN {d \in dependencies : d[2] # job} ELSE dependencies

HasRoomAtCap(customers, cap) == Cardinality(customers) <= cap   \* mutant
HasRoom(customers, cap) == Cardinality(customers) < cap

==============================================================================
