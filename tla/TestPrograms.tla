----------------------------- MODULE TestPrograms -----------------------------
(***************************************************************************)
(* The tests, benchmarks and examples of the repository as programs of     *)
(* module Collections: what each builds, the calls it makes, and what it   *)
(* compares at the end.                                                    *)
(* A test sees one schedule at a time; TestsHold says that its comparisons *)
(* come out the same way on every one (autotests/, benchmarks/, examples/). *)
(*                                                                         *)
(* A job is named by the character that it appends.  Where a test counts   *)
(* to 20, 100 or 1024, the program counts to 2, 3 or 6.                    *)
(***************************************************************************)
EXTENDS Collections

CONSTANTS Main, Second   \* the thread of the tests, and one that a test starts

ASSUME UsersAssumption == {Main, Second} \subseteq Users

-------------------------------------------------------------------------------
(* What tests are written with *)

Calling(do, js) == [do |-> do, on |-> js]
EnqueueJobs(js) == Calling("enqueue", js)
SuspendIt == Calling("suspend", <<>>)
ResumeIt  == Calling("resume", <<>>)
FinishIt  == Calling("finish", <<>>)
DequeueEverything == Calling("dequeueAll", <<>>)

(* QCOMPARE and QVERIFY: a sequence of claims that must hold by then.      *)
Expect(claims) == Calling("expect", claims)
OutputIs(chunks) == [of |-> "output", is |-> chunks]
LengthIs(n) == [of |-> "queueLength", is |-> n]
IsIdle == [of |-> "idle", is |-> TRUE]
StatusIs(j, s) == [of |-> "status", job |-> j, is |-> s]
BegunIs(j, n) == [of |-> "begun", job |-> j, is |-> n]
EndedIs(j, n) == [of |-> "ended", job |-> j, is |-> n]
Released(js) == [of |-> "released", is |-> js]   \* the user's references are the last

(* An output is given as the sets of jobs that come one after the other.   *)
InOrder(js) == [i \in DOMAIN js |-> {js[i]}]
AnyOrder(js) == <<js>>

Claimed(claim) ==
  CASE claim.of = "output" ->
         /\ Len(output) = FoldLeft(LAMBDA n, chunk : n + Cardinality(chunk), 0, claim.is)
         /\ ToSet(output) = UNION ToSet(claim.is)
         /\ \A m, n \in DOMAIN output : m < n =>
              \A k, l \in DOMAIN claim.is :
                output[m] \in claim.is[k] /\ output[n] \in claim.is[l] => k <= l
    [] claim.of = "queueLength" -> Len(assignments) = claim.is
    [] claim.of = "idle" -> Idle
    [] claim.of = "status" -> status[claim.job] = claim.is
    [] claim.of = "begun" -> begun[claim.job] = claim.is
    [] claim.of = "ended" -> ended[claim.job] = claim.is
    [] claim.of = "released" -> \A j \in claim.is : ~ Referenced(j)

(* A program of module Collections: one that queues nothing in particular. *)
Program(elements, sequences, calls) ==
  [elements   |-> elements,
   sequences  |-> sequences,
   silent     |-> DOMAIN elements,
   generates  |-> <<>>, outcome |-> <<>>, abortable |-> {},
   dependsOn  |-> {}, removed |-> {}, restricted |-> {}, cap |-> 1, decorated |-> {},
   priority   |-> [j \in Jobs |-> 0],
   workers    |-> Workers,
   scripts    |-> [u \in Users |-> IF u = Main THEN calls ELSE <<>>]]

(* WaitForIdleAndFinished: what its destructor does at the end of a test.  *)
Leave == <<ResumeIt, DequeueEverything, FinishIt, SuspendIt>>
Test(elements, sequences, calls) == Program(elements, sequences, calls \o Leave)

NoElements == <<>>
abc == <<"a", "b", "c">>

-------------------------------------------------------------------------------
(* JobTests.cpp *)

SimpleJobTest ==
  Test(NoElements, {}, <<EnqueueJobs(<<"a">>), FinishIt, Expect(<<OutputIs(<<{"a"}>>)>>)>>)

SimpleJobCollectionTest ==
  Test("C1" :> abc, {},
       <<EnqueueJobs(<<"C1">>), FinishIt, Expect(<<OutputIs(AnyOrder({"a", "b", "c"}))>>)>>)

EmptyJobCollectionTest ==
  Test("C1" :> <<>>, {},
       <<EnqueueJobs(<<"C1">>), FinishIt, Expect(<<StatusIs("C1", "Success"), IsIdle>>)>>)

(* The collection queues itself, and its elements when it is executed.     *)
CollectionQueueingTest ==
  Test("C1" :> abc, {},
       <<SuspendIt, EnqueueJobs(<<"C1">>), Expect(<<LengthIs(1)>>), ResumeIt, FinishIt,
         Expect(<<OutputIs(AnyOrder({"a", "b", "c"})), IsIdle>>)>>)

(* run() of the collection adds its elements, and appends nothing itself.  *)
GeneratingCollection == "C1" :> abc
GeneratingSequence == "C1" :> <<"a", "b", "c", "d">>

GeneratingCollectionTest ==
  [Test("C1" :> <<>>, {},
        <<EnqueueJobs(<<"C1">>), FinishIt, Expect(<<OutputIs(AnyOrder({"a", "b", "c"}))>>)>>)
   EXCEPT !.generates = GeneratingCollection]

ShortJobSequenceTest ==
  Test("C1" :> abc, {"C1"},
       <<EnqueueJobs(<<"C1">>), FinishIt, Expect(<<OutputIs(InOrder(abc)), IsIdle>>)>>)

(* A weaver that decorates what is queued does not find it by its name.    *)
ShortDecoratedJobSequenceTest ==
  [ShortJobSequenceTest EXCEPT !.decorated = {"C1"} \cup ToSet(abc)]

EmptyJobSequenceTest ==
  [Test("C1" :> <<>>, {"C1"},
        <<EnqueueJobs(<<"C1">>), FinishIt,
          Expect(<<StatusIs("C1", "Success"), IsIdle, EndedIs("C1", 1)>>)>>)
   EXCEPT !.decorated = {"C1"}]

GeneratingSequenceTest ==
  [Test("C1" :> <<>>, {"C1"},
        <<EnqueueJobs(<<"C1">>), FinishIt,
          Expect(<<OutputIs(InOrder(GeneratingSequence["C1"]))>>)>>)
   EXCEPT !.generates = GeneratingSequence]

(* Element a depends on b, which is never queued, until it no longer does. *)
IncompleteCollectionTest ==
  [Test("C1" :> <<"a">>, {},
        <<EnqueueJobs(<<"C1">>), Expect(<<EndedIs("C1", 0), EndedIs("a", 0)>>),
          Calling("removeDependency", <<"a", "b">>), FinishIt,
          Expect(<<StatusIs("C1", "Success"), IsIdle, EndedIs("C1", 1), EndedIs("a", 1)>>)>>)
   EXCEPT !.dependsOn = {<<"a", "b">>}, !.removed = {<<"a", "b">>}, !.decorated = {"C1"}]

EmitStartedOnFirstElementTest ==
  [Test("C1" :> <<"a", "b">>, {},
        <<SuspendIt, EnqueueJobs(<<"C1">>), ResumeIt, FinishIt,
          Expect(<<OutputIs(AnyOrder({"a", "b"})), BegunIs("C1", 1), EndedIs("C1", 1), IsIdle>>)>>)
   EXCEPT !.decorated = {"C1"}]

(* Nothing of the collection starts before c, on which it depends, is over.*)
CollectionDependenciesTest ==
  [Test("C1" :> <<"a", "b">>, {},
        <<SuspendIt, EnqueueJobs(<<"C1">>), ResumeIt, Expect(<<BegunIs("C1", 0)>>),
          EnqueueJobs(<<"c">>), FinishIt,
          Expect(<<StatusIs("C1", "Success"), OutputIs(<<{"c"}, {"a", "b"}>>),
                   BegunIs("C1", 1), IsIdle>>)>>)
   EXCEPT !.dependsOn = {<<"C1", "c">>}, !.decorated = {"C1"}]

QueueAndDequeue(elements, sequences, top, dequeueing, after) ==
  Test(elements, sequences,
       <<SuspendIt, EnqueueJobs(<<top>>), dequeueing, Expect(<<LengthIs(0), OutputIs(<<>>)>>)>>
         \o after)

QueueAndDequeueCollectionTest ==
  QueueAndDequeue("C1" :> abc, {}, "C1", Calling("dequeue", <<"C1">>), <<>>)
QueueAndDequeueSequenceTest ==
  QueueAndDequeue("C1" :> abc, {"C1"}, "C1", Calling("dequeue", <<"C1">>), <<>>)
QueueAndDequeueAllCollectionTest ==
  QueueAndDequeue("C1" :> abc, {}, "C1", DequeueEverything, <<>>)
QueueAndDequeueAllSequenceTest ==
  QueueAndDequeue("C1" :> abc, {"C1"}, "C1", DequeueEverything, <<>>)

BlockingExecuteTest ==
  Test(NoElements, {}, <<Calling("execute", <<"a">>), Expect(<<OutputIs(<<{"a"}>>)>>)>>)

(* Three collections of three, three and four elements in a fourth.        *)
Nested == "C1" :> abc @@ "C2" :> <<"d", "e", "f">> @@ "C3" :> <<"g", "h", "i", "j">>
          @@ "C4" :> <<"C1", "C2", "C3">>
a_to_j == <<"a", "b", "c", "d", "e", "f", "g", "h", "i", "j">>

RecursiveSequenceTest ==
  Test(Nested, DOMAIN Nested,
       <<SuspendIt, EnqueueJobs(<<"C4">>), ResumeIt, FinishIt,
         Expect(<<OutputIs(InOrder(a_to_j))>>)>>)

RecursiveQueueAndDequeueCollectionTest ==
  QueueAndDequeue(Nested, {}, "C4", Calling("dequeue", <<"C4">>), <<ResumeIt>>)
RecursiveQueueAndDequeueSequenceTest ==
  QueueAndDequeue(Nested, DOMAIN Nested, "C4", Calling("dequeue", <<"C4">>), <<ResumeIt>>)
RecursiveQueueAndDequeueAllCollectionTest ==
  QueueAndDequeue(Nested, {}, "C4", DequeueEverything, <<ResumeIt, FinishIt>>)
RecursiveQueueAndDequeueAllSequenceTest ==
  QueueAndDequeue(Nested, DOMAIN Nested, "C4", DequeueEverything, <<ResumeIt, FinishIt>>)

MassiveJobSequenceTest ==
  LET jobs == <<"f", "a", "e", "b", "d", "c">> IN
  Test("C1" :> jobs, {"C1"},
       <<EnqueueJobs(<<"C1">>), FinishIt, Expect(<<IsIdle, OutputIs(InOrder(jobs))>>)>>)

SimpleRecursiveSequencesTest ==
  Test("C1" :> <<"b">> @@ "C2" :> <<"a", "C1", "c">>, {"C1", "C2"},
       <<EnqueueJobs(<<"C2">>), FinishIt, Expect(<<OutputIs(InOrder(abc))>>)>>)

SequenceOfSequencesTest ==
  Test(Nested, DOMAIN Nested,
       <<EnqueueJobs(<<"C4">>), FinishIt, Expect(<<OutputIs(InOrder(a_to_j))>>)>>)

QueueAndStopTest ==
  [Test("C1" :> SubSeq(a_to_j, 1, 7), {"C1"},
        <<EnqueueJobs(<<"C1">>), FinishIt, Expect(<<OutputIs(InOrder(SubSeq(a_to_j, 1, 4)))>>)>>)
   EXCEPT !.outcome = "d" :> "Failed"]

ResourceRestrictionPolicyBasicsTest ==
  [Test("C1" :> abc, {}, <<EnqueueJobs(<<"C1">>), FinishIt, Expect(<<IsIdle>>)>>)
   EXCEPT !.restricted = ToSet(abc)]

JobSignalsAreEmittedAsynchronouslyTest ==
  [Test("C1" :> <<"a", "b">>, {},
        <<EnqueueJobs(<<"C1">>), FinishIt, Expect(<<OutputIs(AnyOrder({"a", "b"}))>>)>>)
   EXCEPT !.decorated = {"C1", "a", "b"}]

(* The counter that the done() signals decrement has reached zero.         *)
JobSignalsDeliveryTest ==
  [Test(NoElements, {},
        <<EnqueueJobs(<<"a">>), EnqueueJobs(<<"b">>), FinishIt,
          Expect(<<EndedIs("a", 1), EndedIs("b", 1)>>)>>)
   EXCEPT !.silent = {"a", "b"}, !.decorated = {"a", "b"}]

JobPointerExecutionTest ==
  Test(NoElements, {},
       <<EnqueueJobs(<<"a">>), EnqueueJobs(<<"b">>), EnqueueJobs(<<"c">>), FinishIt,
         Expect(<<OutputIs(AnyOrder({"a", "b", "c"}))>>)>>)

DequeueSuspendedSequenceTest ==
  Program("C1" :> <<>>, {"C1"}, <<SuspendIt, EnqueueJobs(<<"C1">>), DequeueEverything>>)

(* Six jobs that end in the three ways by throwing or by setting a status. *)
ExitStatusTest(outcomes) ==
  [Test(NoElements, {},
        <<Calling("execute", <<"a">>), Expect(<<StatusIs("a", "Failed")>>),
          Calling("execute", <<"b">>), Expect(<<StatusIs("b", "Aborted")>>),
          Calling("execute", <<"c">>), Expect(<<StatusIs("c", "Success")>>)>>)
   EXCEPT !.outcome = outcomes, !.silent = {"a", "b", "c"}]

JobExitStatusByExceptionTest == ExitStatusTest("a" :> "Failed" @@ "b" :> "Aborted")
JobManualExitStatusTest == ExitStatusTest("a" :> "Failed" @@ "b" :> "Aborted")

(* The stream queues its three jobs with one call, when it goes away.      *)
QueueStreamLifecycleTest ==
  Test(NoElements, {},
       <<EnqueueJobs(abc), FinishIt, Expect(<<OutputIs(AnyOrder({"a", "b", "c"}))>>)>>)

(* Collections that append their own number and then generate the others.  *)
GeneratingEnumeratorSequence == "C1" :> <<"a", "b">> @@ "C2" :> <<"c">>
GeneratingEnumeratorCollection == "C1" :> <<"a">> @@ "C2" :> <<"b">>

NestedGeneratingCollectionsTest ==
  [Test("C1" :> <<>> @@ "C2" :> <<>> @@ "a" :> <<>> @@ "b" :> <<>> @@ "C4" :> <<"C1", "C2">>,
        {"C4"},
        <<EnqueueJobs(<<"C4">>), FinishIt,
          Expect(<<OutputIs(<<{"C1", "a"}, {"C2", "b"}>>)>>)>>)
   EXCEPT !.generates = GeneratingEnumeratorCollection, !.silent = {"C4"}]

NestedGeneratingSequencesTest ==
  [Test("C1" :> <<>> @@ "C2" :> <<>> @@ "a" :> <<>> @@ "b" :> <<>> @@ "c" :> <<>>
          @@ "C4" :> <<"C1", "C2">>,
        {"C1", "C2", "C4", "a", "b", "c"},
        <<EnqueueJobs(<<"C4">>), FinishIt,
          Expect(<<OutputIs(InOrder(<<"C1", "a", "b", "C2", "c">>))>>)>>)
   EXCEPT !.generates = GeneratingEnumeratorSequence, !.silent = {"C4"}]

(* Blocks of collections that each generate one more.                      *)
DeeperNestedGeneratingCollectionsTest ==
  [Test("C1" :> <<>> @@ "C2" :> <<>> @@ "a" :> <<>> @@ "b" :> <<>>
          @@ "C3" :> <<"C1">> @@ "D" :> <<"C2">> @@ "C4" :> <<"C3", "D">>,
        {"C4"},
        <<EnqueueJobs(<<"C4">>), FinishIt,
          Expect(<<OutputIs(<<{"C1", "a"}, {"C2", "b"}>>)>>)>>)
   EXCEPT !.generates = GeneratingEnumeratorCollection, !.silent = {"C3", "D", "C4"}]

(* The second element runs until it is asked to abort, and throws.         *)
RequestAbort(sequences, claims) ==
  [Test("C1" :> abc, sequences,
        <<EnqueueJobs(<<"C1">>), Calling("awaitStart", <<"b">>), Calling("abort", <<"C1">>),
          FinishIt, Expect(<<StatusIs("C1", "Aborted"), StatusIs("b", "Aborted")>> \o claims)>>)
   EXCEPT !.abortable = {"b"}, !.silent = {"C1", "b"}, !.outcome = "b" :> "Aborted"]

(* That a and c are executed all the same (JobTests.cpp:1296) is left out: *)
(* requestAbort() stops the collection, which dequeues c if no thread has  *)
(* taken it yet, so with few threads this comparison may fail.             *)
RequestAbortCollectionTest == RequestAbort({}, <<>>)
RequestAbortSequenceTest == RequestAbort({"C1"}, <<OutputIs(InOrder(<<"a">>))>>)

JobOnFinishTest ==
  Test("C1" :> abc, {},
       <<EnqueueJobs(<<"C1">>), FinishIt,
         Expect(<<EndedIs("C1", 1), StatusIs("C1", "Success"),
                  OutputIs(AnyOrder({"a", "b", "c"}))>>)>>)

JobOnFinishAbortTest ==
  [Test("C1" :> abc, {"C1"},
        <<EnqueueJobs(<<"C1">>), FinishIt,
          Expect(<<EndedIs("C1", 1), StatusIs("C1", "Aborted"), OutputIs(InOrder(<<"a">>))>>)>>)
   EXCEPT !.outcome = "b" :> "Aborted", !.silent = {"C1", "b"}]

(* A decorator forwards to the job it decorates, however it is allocated.  *)
IdDecoratorDecoratesTest == [SimpleJobTest EXCEPT !.decorated = {"a"}]
IdDecoratorSingleAllocationTest == IdDecoratorDecoratesTest

-------------------------------------------------------------------------------
(* QueueTests.cpp and SequencesTests.cpp *)

(* With one thread, queued while suspended: the highest priority first.    *)
Priority == [j \in Jobs |-> CASE j = "a" -> -1 [] j = "c" -> 1 [] OTHER -> 0]

SimpleQueuePrioritiesTest ==
  [Program(NoElements, {},
           <<SuspendIt, EnqueueJobs(<<"a">>), EnqueueJobs(<<"b">>), EnqueueJobs(<<"c">>),
             ResumeIt, FinishIt, Expect(<<OutputIs(InOrder(<<"c", "b", "a">>))>>)>>)
   EXCEPT !.priority = Priority, !.workers = {CHOOSE w \in Workers : TRUE}]

WeaverInitializationTest ==
  Program(NoElements, {}, <<Expect(<<LengthIs(0), IsIdle>>), FinishIt>>)

SecondThreadThatQueues ==
  <<EnqueueJobs(<<"a">>), FinishIt, Expect(<<OutputIs(<<{"a"}>>)>>)>>

QueueFromSecondThreadTest ==
  [Program(NoElements, {}, <<>>)
   EXCEPT !.scripts = [u \in Users |-> IF u = Second THEN SecondThreadThatQueues ELSE <<>>]]

DeleteCollectionOnDoneTest ==
  [Program("C1" :> <<"a", "b">>, {},
           <<EnqueueJobs(<<"C1">>), FinishIt,
             Expect(<<OutputIs(AnyOrder({"a", "b"})), EndedIs("C1", 1)>>)>>)
   EXCEPT !.decorated = {"C1"}]

DeleteDoneJobsFromSequenceTest ==
  [Program("C1" :> abc, {}, <<EnqueueJobs(<<"C1">>), FinishIt, Expect(<<EndedIs("a", 1)>>)>>)
   EXCEPT !.decorated = {"a"}]

(* A failure in the inner sequence stops the inner and the outer one.      *)
RecursiveStopTest ==
  [Program("C1" :> <<"b", "c", "d">> @@ "C2" :> <<"a", "C1", "e">>, {"C1", "C2"},
           <<EnqueueJobs(<<"C2">>), FinishIt, Expect(<<OutputIs(InOrder(abc))>>)>>)
   EXCEPT !.outcome = "c" :> "Failed"]

-------------------------------------------------------------------------------
(* DeleteTest.cpp and LifecycleTests.cpp: jobs are deleted when the user   *)
(* drops them, because the library has.                                    *)

QueuedWhileSuspended(queueing, released) ==
  <<SuspendIt>> \o queueing \o <<ResumeIt, FinishIt, Expect(<<Released(released)>>)>>

DeleteJobsTest ==
  Program(NoElements, {},
          QueuedWhileSuspended(<<EnqueueJobs(<<"a">>), EnqueueJobs(<<"b">>)>>, {"a", "b"}))

JobsAreDestroyedAfterFinishTest ==
  Test(NoElements, {}, QueuedWhileSuspended(<<EnqueueJobs(<<"a">>)>>, {"a"}))

DeleteCollectionTest ==
  Program("C1" :> <<"a", "b">> @@ "C2" :> <<"c", "d">>, {},
          QueuedWhileSuspended(<<EnqueueJobs(<<"C1">>), EnqueueJobs(<<"C2">>)>>,
                               {"C1", "C2", "a", "b", "c", "d"}))

DeleteDecoratedCollectionTest ==
  [DeleteCollectionTest EXCEPT !.decorated = {"C1", "C2"}]

DeleteSequenceTest ==
  [DeleteDecoratedCollectionTest EXCEPT !.sequences = {"C1", "C2"}]

AutoDeletionTest ==
  Program(NoElements, {},
          QueuedWhileSuspended(<<EnqueueJobs(<<"a">>), EnqueueJobs(<<"b">>)>>, {"a", "b"})
            \o <<Expect(<<IsIdle>>), SuspendIt>>)

-------------------------------------------------------------------------------
(* The benchmarks and the examples, which compare nothing: what is         *)
(* expected here is what they are written to do.                           *)

(* Blocks of jobs, queued one by one while the queue is suspended.         *)
Blocks2x2 == "C1" :> <<"a", "b">> @@ "C2" :> <<"c", "d">>

BaselineAsJobsBenchmark ==
  Program(NoElements, {},
          <<Calling("execute", <<"a">>), Calling("execute", <<"b">>),
            Expect(<<OutputIs(InOrder(<<"a", "b">>))>>)>>)

IndividualJobsBenchmark ==
  Program(NoElements, {}, QueuedWhileSuspended(<<EnqueueJobs(abc)>>, ToSet(abc)))

CollectionsBenchmark ==
  Program(Blocks2x2, {},
          QueuedWhileSuspended(<<EnqueueJobs(<<"C1">>), EnqueueJobs(<<"C2">>)>>, {"C1", "C2"}))

SequencesBenchmark == [CollectionsBenchmark EXCEPT !.sequences = {"C1", "C2"}]

(* The application object shuts the queue down if main() does not finish.  *)
HelloWorld ==
  Program(NoElements, {}, <<EnqueueJobs(<<"a">>), FinishIt, Expect(<<Released({"a"})>>)>>)

HelloWorldRaw ==
  Program(NoElements, {},
          <<EnqueueJobs(<<"a", "b", "c", "d">>), FinishIt,
            Expect(<<OutputIs(AnyOrder({"a", "b", "c", "d"}))>>)>>)

(* HelloInternet: the post cannot be downloaded, so that its image is not. *)
ViewController ==
  [Program("C1" :> abc, {"C1"},
           <<EnqueueJobs(<<"C1">>), FinishIt,
             Expect(<<OutputIs(InOrder(<<"a", "b">>)), EndedIs("C1", 1)>>)>>)
   EXCEPT !.outcome = "b" :> "Failed"]

(* ThumbNailer: a file is loaded and decoded, its thumbnail is computed    *)
(* and saved, for two files.                                               *)
Conversions == "C1" :> <<"a", "b", "c", "d">> @@ "C2" :> <<"e", "f", "g", "h">>

(* One of the two files cannot be loaded.                                  *)
computeThumbNailsBlockingConcurrent ==
  [Program(Conversions, {"C1", "C2"},
           <<EnqueueJobs(<<"C1", "C2">>), FinishIt, Expect(<<EndedIs("d", 1), EndedIs("f", 0)>>)>>)
   EXCEPT !.outcome = "e" :> "Failed"]

StepPriority == [j \in Jobs |-> CASE j \in {"a", "e"} -> 1 [] j \in {"b", "f"} -> 2
                                  [] j \in {"c", "g"} -> 3 [] j \in {"d", "h"} -> 4 [] OTHER -> 0]

(* Later steps go first, and one of the two files is not an image. Of the  *)
(* four restrictions only that of the file loaders is kept, with room for  *)
(* one instead of four, as there are two of them.                          *)
queueUpConversion ==
  [Program(Conversions, {"C1", "C2"},
           <<EnqueueJobs(<<"C1", "C2">>), FinishIt, Expect(<<EndedIs("d", 1), EndedIs("g", 0)>>)>>)
   EXCEPT !.priority = StepPriority, !.restricted = {"a", "e"}, !.outcome = "f" :> "Failed"]

-------------------------------------------------------------------------------

(* What a test compares comes out as it says on every schedule, and not    *)
(* only on the one that a run of the test happens to take.                 *)
TestsHold ==
  \A u \in Users : Calls(u, "expect") => \A n \in DOMAIN On(u) : Claimed(On(u)[n])

===============================================================================
