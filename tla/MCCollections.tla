---------------------------- MODULE MCCollections ----------------------------
(* Instances of TestPrograms for TLC.                                        *)
EXTENDS TestPrograms

MCJobs == {"a", "b", "c", "d", "e", "f", "g", "h", "i", "j", "C1", "C2", "C3", "C4", "D"}

Tests ==
  {SimpleJobTest, SimpleJobCollectionTest, EmptyJobCollectionTest, CollectionQueueingTest,
   GeneratingCollectionTest, ShortJobSequenceTest, ShortDecoratedJobSequenceTest,
   EmptyJobSequenceTest, GeneratingSequenceTest, IncompleteCollectionTest,
   EmitStartedOnFirstElementTest, CollectionDependenciesTest, QueueAndDequeueCollectionTest,
   QueueAndDequeueSequenceTest, QueueAndDequeueAllCollectionTest,
   QueueAndDequeueAllSequenceTest, BlockingExecuteTest, RecursiveSequenceTest,
   RecursiveQueueAndDequeueCollectionTest, RecursiveQueueAndDequeueSequenceTest,
   RecursiveQueueAndDequeueAllCollectionTest, RecursiveQueueAndDequeueAllSequenceTest,
   MassiveJobSequenceTest, SimpleRecursiveSequencesTest, SequenceOfSequencesTest,
   QueueAndStopTest, ResourceRestrictionPolicyBasicsTest,
   JobSignalsAreEmittedAsynchronouslyTest, JobSignalsDeliveryTest, JobPointerExecutionTest,
   DequeueSuspendedSequenceTest, JobExitStatusByExceptionTest, JobManualExitStatusTest,
   QueueStreamLifecycleTest, NestedGeneratingCollectionsTest, NestedGeneratingSequencesTest,
   DeeperNestedGeneratingCollectionsTest, RequestAbortCollectionTest,
   RequestAbortSequenceTest, JobOnFinishTest, JobOnFinishAbortTest, IdDecoratorDecoratesTest,
   IdDecoratorSingleAllocationTest, SimpleQueuePrioritiesTest, WeaverInitializationTest,
   QueueFromSecondThreadTest, DeleteCollectionOnDoneTest, DeleteDoneJobsFromSequenceTest,
   RecursiveStopTest, DeleteJobsTest, DeleteCollectionTest, DeleteDecoratedCollectionTest,
   DeleteSequenceTest, AutoDeletionTest, JobsAreDestroyedAfterFinishTest,
   BaselineAsJobsBenchmark, IndividualJobsBenchmark, CollectionsBenchmark, SequencesBenchmark,
   HelloWorld, HelloWorldRaw, ViewController, computeThumbNailsBlockingConcurrent,
   queueUpConversion}

-------------------------------------------------------------------------------
(* Clients that do what the tests do not: calls that race with execution.  *)

(* An element of a plain collection fails.                                 *)
Failing ==
  [Program("C1" :> abc, {}, <<EnqueueJobs(<<"C1">>), FinishIt>>)
   EXCEPT !.outcome = "b" :> "Failed"]

(* What follows an element that fails in a sequence that two users stop.   *)
TwoStops ==
  [Program("C1" :> abc, {"C1"}, <<EnqueueJobs(<<"C1">>), Calling("awaitStart", <<"a">>),
                                  Calling("stop", <<"C1">>), FinishIt>>)
   EXCEPT !.outcome = "a" :> "Failed",
          !.scripts[Second] = <<Calling("awaitStart", <<"a">>), Calling("stop", <<"C1">>)>>]

(* The outer collection is aborted when an element of the inner one runs.  *)
AbortNested(sequences) ==
  [Program("C1" :> <<"a", "b">> @@ "C2" :> <<"C1", "c">>, sequences,
           <<EnqueueJobs(<<"C2">>), Calling("awaitStart", <<"a">>), Calling("abort", <<"C2">>),
             FinishIt>>)
   EXCEPT !.abortable = {"a"}, !.outcome = "a" :> "Aborted"]

(* Only the inner one is.                                                  *)
AbortInner ==
  [AbortNested({"C2"}) EXCEPT !.scripts[Main] =
     <<EnqueueJobs(<<"C2">>), Calling("awaitStart", <<"a">>), Calling("abort", <<"C1">>), FinishIt>>]

(* dequeue() while the threads take what is queued.                        *)
DequeueRace ==
  [Program("C1" :> <<"a", "b">>, {}, <<EnqueueJobs(<<"C1", "c">>),
                                      Calling("dequeue", <<"C1">>), FinishIt>>)
   EXCEPT !.scripts[Second] = <<Calling("dequeue", <<"c">>)>>]

(* The weaver aborts what its threads execute.                             *)
AbortRunning ==
  [Program(NoElements, {}, <<EnqueueJobs(abc), Calling("awaitStart", <<"a">>),
                             Calling("abortAll", <<>>), FinishIt>>)
   EXCEPT !.abortable = {"a"}, !.outcome = "a" :> "Aborted"]

(* Collections that depend on others, on elements, and on a job that a     *)
(* user executes; only two of the elements at a time.                      *)
Dependent ==
  [Program("C1" :> <<"a", "b">> @@ "C2" :> <<"c", "d">>, {"C2"},
           <<EnqueueJobs(<<"C2", "C1">>), FinishIt>>)
   EXCEPT !.dependsOn = {<<"C2", "C1">>, <<"b", "e">>},
          !.restricted = {"a", "b", "c"}, !.cap = 1,
          !.scripts[Second] = <<Calling("execute", <<"e">>), FinishIt>>]

(* Two sequences share the threads, which are suspended and resumed.       *)
Sharing ==
  [Program("C1" :> <<"a">> @@ "C2" :> <<"C1", "b">> @@ "C3" :> <<"c">>,
           {"C2", "C3"}, <<EnqueueJobs(<<"C2">>), FinishIt>>)
   EXCEPT !.scripts[Second] = <<EnqueueJobs(<<"C3">>), SuspendIt, ResumeIt>>]

Clients == {Failing, TwoStops, AbortNested({}), AbortNested({"C1", "C2"}), AbortInner, DequeueRace,
            AbortRunning, Dependent, Sharing}

TestsAndClients == Tests \cup Clients

-------------------------------------------------------------------------------
(* Clients for which the code does not do what its comments say.           *)

(* stop() may find no element being executed, and all of them queued.      *)
StopBetween ==
  {Program("C1" :> abc, {}, <<EnqueueJobs(<<"C1">>), Calling("stop", <<"C1">>), FinishIt>>)}

(* Nor does dequeue() of everything tell a collection, as when ThumbNailer *)
(* quits: in place of the above it refutes IdleMeansFinished too.          *)
slotQuit ==
  {[queueUpConversion EXCEPT !.scripts[Main] =
      <<EnqueueJobs(<<"C1", "C2">>), DequeueEverything, FinishIt>>]}

(* A collection is aborted when it has begun and its elements have not yet *)
(* been queued.                                                            *)
AbortBetween ==
  {Program("C1" :> <<"a", "b">>, {}, <<EnqueueJobs(<<"C1">>), Calling("abort", <<"C1">>), FinishIt>>)}

(* An element fails, and a later one succeeds.                             *)
FailingFirst == {Failing}

(* The outer collection is aborted when the inner one begins.              *)
AbortWhileStarting ==
  {Program("C1" :> <<"a">> @@ "C2" :> <<"C1", "b">>, {},
           <<EnqueueJobs(<<"C2">>), Calling("abort", <<"C2">>), FinishIt>>)}

(* The weaver aborts its threads when one of them executes a collection:   *)
(* in place of the above it refutes NoCircularWait too, with one user that *)
(* waits for the mutex of the weaver that it holds.                        *)
AbortAllWhileExecuting ==
  {Program("C1" :> <<"a", "b">>, {}, <<EnqueueJobs(<<"C1">>), Calling("abortAll", <<>>), FinishIt>>)}

===============================================================================
