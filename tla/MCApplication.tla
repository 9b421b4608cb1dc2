---------------------------- MODULE MCApplication ----------------------------
(***************************************************************************)
(* The instance of Application that TLC checks: the main thread and one    *)
(* other, a job of each of three kinds, queues with two threads.            *)
(***************************************************************************)
EXTENDS Application

CONSTANTS m, u, shared, decorated, raw

MCKindOf ==
  [j \in Jobs |-> CASE j = shared -> "shared" [] j = decorated -> "decorated" [] j = raw -> "raw"]

(* The global queue, which a factory makes or not; u streams jobs while    *)
(* the application quits.                                                  *)
Globally ==
  [queues |-> {Global}, jobs |-> {shared, decorated},
   calls |-> {<<m, "factory">>, <<m, "suspend">>, <<u, "stream">>, <<u, "enqueue">>}]

(* Main shuts a queue down and deletes it, while u still calls.            *)
Locally ==
  [queues |-> {Local}, jobs |-> {shared, decorated, raw},
   calls |-> {<<m, "enqueue">>, <<m, "stream">>, <<m, "finish">>, <<u, "suspend">>, <<u, "dequeue">>,
              <<u, "stream">>}]

(* Both queues.                                                            *)
OnBoth ==
  [queues |-> {Global, Local}, jobs |-> {shared, raw},
   calls |-> {<<m, "stream">>, <<u, "enqueue">>, <<u, "finish">>}]

MCClients == {Globally, Locally, OnBoth}

===============================================================================
