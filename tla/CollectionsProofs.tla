--------------------------- MODULE CollectionsProofs ---------------------------
(***************************************************************************)
(* Proofs about Collections, for any threads and jobs, any trees of        *)
(* collections and sequences, any outcomes, dependencies, restrictions and *)
(* priorities, and users that let run what they have enqueued.             *)
(*                                                                         *)
(* A stack of calls has one main call, which has a job in its hands, and   *)
(* no two threads have the same one (OneToken).  The elements a collection *)
(* counts are those that are queued, in somebody's hands, or collections   *)
(* that count themselves (Remaining): a step that makes one of them report *)
(* takes one element out of that set, and counts once.                     *)
(***************************************************************************)
EXTENDS Collections, SequenceLemmas, FiniteSetTheorems, WellFoundedInduction

-------------------------------------------------------------------------------
(* The clients *)

Kids(c) == ToSet(Family(program, c))
IsElement(j) == \E c \in DOMAIN coll : j \in Kids(c)

(* A job is enqueued once, and those that are elements of a collection by  *)
(* that collection; no user calls stop(), dequeue() or requestAbort() on   *)
(* it or executes it; the queue is not emptied with something in it.       *)
Undisturbed == \A u \in Users :
  /\ ~ CallJob(u)
  /\ Enqueue(u) => /\ IsInjective(On(u))
                   /\ \A j \in ToSet(On(u)) : status[j] = "New" /\ ~ IsElement(j)
  /\ DequeueAll(u) => assignments = <<>>

-------------------------------------------------------------------------------
(* Stacks *)

Statuses == {"New", "Queued", "Running"} \cup Final
StopPlaces == {"stop", "stopDequeue", "stopElements", "stopElement"}
Places == {"none", "take", "store", "execute", "setRunning", "run", "end", "callEnd", "clear",
           "report", "started", "startedUnlock", "finished", "enqueue", "process", "restore",
           "clearSelf"} \cup StopPlaces
FrameSet == [at : Places, of : Jobs \cup {NoJob}, by : Jobs \cup {NoJob}, k : Nat \ {0},
             kept : Statuses]
CollSet == [elements : Seq(Jobs), api : BOOLEAN, self : BOOLEAN, selfIsExecuting : BOOLEAN,
            jobCounter : Int, jobsStarted : Nat, completed : Nat]

Typed ==
  /\ program \in Programs
  /\ \A u \in Users : script[u] \in Seq(ToSet(program.scripts[u]))
  /\ stack \in [Actors -> Seq(FrameSet)]
  /\ owner \in [Mutexes -> Workers \cup {Nobody}]
  /\ assignments \in Seq(Jobs)
  /\ active \in Int /\ working \in BOOLEAN
  /\ held \in [Workers -> Jobs \cup {NoJob}]
  /\ status \in [Jobs -> Statuses]
  /\ shouldAbort = [j \in Jobs |-> FALSE]
  /\ begun \in [Jobs -> Nat] /\ ended \in [Jobs -> Nat]
  /\ coll \in [DOMAIN program.elements -> CollSet]
  /\ blocked \subseteq Jobs /\ dependencies \subseteq program.dependsOn
  /\ customers \subseteq program.restricted /\ IsFiniteSet(customers)
  /\ \A u \in Users : stack[u] = <<>>

(* What a thread that has taken a job has on its stack: the job begins ... *)
Beginning(s) ==
  /\ s[Len(s)].at = "setRunning"
  /\ \/ Len(s) = 2 /\ s[1].at \in {"started", "startedUnlock"}
     \/ Len(s) = 3 /\ s[2].at = "startedUnlock" /\ s[1].at = "started"

(* ... or has ended, and with it collections of which it is the last ...   *)
EndingFrom(s, n) ==
  /\ Len(s) > n /\ s[Len(s)].at = "clear"
  /\ \A i \in (n + 1)..(Len(s) - 1) : s[i].at = "clearSelf"
Ending(s) ==
  \/ s[1].at \in {"finished", "enqueue", "process", "callEnd", "restore", "clearSelf"}
     /\ EndingFrom(s, 1)
  \/ s[1].at \in StopPlaces /\ s[2].at = "restore" /\ s[1].of = s[2].of /\ EndingFrom(s, 2)

(* ... or there is nothing but the job.                                    *)
Alone(s) ==
  /\ Len(s) = 1
  /\ s[1].at \in {"take", "store", "execute", "setRunning", "run", "end", "clear", "report"}

Shaped(s) == s = <<>> \/ Alone(s) \/ Beginning(s) \/ Ending(s)

Shapes == \A w \in Workers : Shaped(stack[w])

(* The call in a stack that has a job in its hands.                        *)
None == Frame("none", NoJob, NoJob)
MainOf(s) ==
  IF s = <<>> THEN None
  ELSE IF s[Len(s)].at = "setRunning" THEN s[Len(s)]
  ELSE IF s[1].at \in StopPlaces THEN s[2]
  ELSE s[1]
Main == [w \in Workers |-> MainOf(stack[w])]

(* The collections that wait in a stack for their last handler to return.  *)
ClearingOf(s) == {f.of : f \in {g \in ToSet(s) : g.at = "clearSelf"}}
Clearing == UNION {ClearingOf(stack[w]) : w \in Workers}

-------------------------------------------------------------------------------
(* Lemmas about stacks *)

(* The call on top of a stack goes on to another place.                    *)
LEMMA ReplaceTop ==
  ASSUME NEW S, NEW s \in Seq(S), s # <<>>, NEW f \in S
  PROVE  LET t == <<f>> \o Tail(s)
         IN  /\ t \in Seq(S) /\ t # <<>> /\ Len(t) = Len(s)
             /\ t[1] = f
             /\ \A i \in 2..Len(s) : t[i] = s[i]
<1> DEFINE t == <<f>> \o Tail(s)
<1>1. Tail(s) \in Seq(S) /\ Len(Tail(s)) = Len(s) - 1 /\ Len(s) \in Nat \ {0}
      /\ \A i \in 1..Len(s) - 1 : Tail(s)[i] = s[i + 1]
  BY EmptySeq, HeadTailProperties
<1>2. <<f>> \in Seq(S) /\ Len(<<f>>) = 1 /\ <<f>>[1] = f
  OBVIOUS
<1>3. t \in Seq(S) /\ Len(t) = 1 + Len(Tail(s))
      /\ \A i \in 1..Len(t) : t[i] = IF i <= 1 THEN <<f>>[i] ELSE Tail(s)[i - 1]
  BY <1>1, <1>2, ConcatProperties
<1> QED
  BY <1>1, <1>2, <1>3

(* The call on top of a stack goes on to another place and calls.          *)
LEMMA PushCall ==
  ASSUME NEW S, NEW s \in Seq(S), s # <<>>, NEW f \in S, NEW g \in S
  PROVE  LET t == <<g, f>> \o Tail(s)
         IN  /\ t \in Seq(S) /\ t # <<>> /\ Len(t) = Len(s) + 1
             /\ t[1] = g /\ t[2] = f
             /\ \A i \in 2..Len(s) : t[i + 1] = s[i]
<1> DEFINE t == <<g, f>> \o Tail(s)
<1>1. Tail(s) \in Seq(S) /\ Len(Tail(s)) = Len(s) - 1 /\ Len(s) \in Nat \ {0}
      /\ \A i \in 1..Len(s) - 1 : Tail(s)[i] = s[i + 1]
  BY EmptySeq, HeadTailProperties
<1>2. <<g, f>> \in Seq(S) /\ Len(<<g, f>>) = 2 /\ <<g, f>>[1] = g /\ <<g, f>>[2] = f
  OBVIOUS
<1>3. t \in Seq(S) /\ Len(t) = 2 + Len(Tail(s))
      /\ \A i \in 1..Len(t) : t[i] = IF i <= 2 THEN <<g, f>>[i] ELSE Tail(s)[i - 2]
  BY <1>1, <1>2, ConcatProperties
<1>4. \A i \in 2..Len(s) : i + 1 \in 1..Len(t) /\ ~ (i + 1 <= 2) /\ (i + 1) - 2 = i - 1
                         /\ i - 1 \in 1..Len(s) - 1 /\ (i - 1) + 1 = i
  BY <1>1, <1>3
<1> QED
  BY <1>1, <1>2, <1>3, <1>4

(* The call on top of a stack returns.                                     *)
LEMMA PopCall ==
  ASSUME NEW S, NEW s \in Seq(S), s # <<>>
  PROVE  LET t == Tail(s)
         IN  /\ t \in Seq(S) /\ Len(t) = Len(s) - 1 /\ Len(s) \in Nat \ {0}
             /\ (t = <<>> <=> Len(s) = 1)
             /\ \A i \in 1..Len(s) - 1 : t[i] = s[i + 1]
<1>1. Tail(s) \in Seq(S) /\ Len(Tail(s)) = Len(s) - 1 /\ Len(s) \in Nat \ {0}
      /\ \A i \in 1..Len(s) - 1 : Tail(s)[i] = s[i + 1]
  BY EmptySeq, HeadTailProperties
<1>2. Tail(s) = <<>> <=> Len(Tail(s)) = 0
  BY <1>1, EmptySeq
<1> QED
  BY <1>1, <1>2

(* The collections that a stack clears, by the positions of their calls.   *)
LEMMA ClearingIs ==
  ASSUME NEW s \in Seq(FrameSet), NEW x
  PROVE  x \in ClearingOf(s) <=> \E i \in 1..Len(s) : s[i].at = "clearSelf" /\ s[i].of = x
BY LenProperties DEF ClearingOf, ToSet

(* Of a stack that is not empty.                                           *)
LEMMA StackIs ==
  ASSUME NEW s \in Seq(FrameSet), s # <<>>
  PROVE  /\ Len(s) \in Nat \ {0} /\ Head(s) = s[1] /\ DOMAIN s = 1..Len(s)
         /\ \A i \in 1..Len(s) : s[i] \in FrameSet
BY EmptySeq, LenProperties, ElementOfSeq, HeadTailProperties

AlonePlaces == {"take", "store", "execute", "setRunning", "run", "end", "clear", "report"}
EndPlaces == {"finished", "enqueue", "process", "callEnd", "restore"}

(* A thread that does nothing has no main call.                            *)
LEMMA EmptyStack == MainOf(<<>>) = None /\ ClearingOf(<<>>) = {} /\ Shaped(<<>>)
BY DEF MainOf, ClearingOf, ToSet, Shaped

(* Of a stack that holds nothing but a job, that is the main call.         *)
LEMMA AloneStack ==
  ASSUME NEW s \in Seq(FrameSet), Alone(s)
  PROVE  Shaped(s) /\ s # <<>> /\ MainOf(s) = s[1] /\ ClearingOf(s) = {}
<1>1. s # <<>>
  BY EmptySeq DEF Alone
<1>2. ClearingOf(s) = {}
  BY ClearingIs DEF Alone
<1> QED
  BY <1>1, <1>2 DEF Alone, Shaped, MainOf, StopPlaces

(* Of a stack on which a job begins, the job's own call is the main one.   *)
LEMMA BeginningStack ==
  ASSUME NEW s \in Seq(FrameSet), Beginning(s)
  PROVE  Shaped(s) /\ s # <<>> /\ MainOf(s) = s[Len(s)] /\ ClearingOf(s) = {}
<1>1. s # <<>>
  BY EmptySeq DEF Beginning
<1>2. \A i \in 1..Len(s) : s[i].at # "clearSelf"
  BY DEF Beginning
<1>3. ClearingOf(s) = {}
  BY <1>2, ClearingIs
<1> QED
  BY <1>1, <1>3 DEF Beginning, Shaped, MainOf

(* The last call is over, and the thread drops its job or returns from the *)
(* handlers of an element.                                                 *)
LEMMA EndingStack ==
  ASSUME NEW s \in Seq(FrameSet), Ending(s)
  PROVE  /\ Shaped(s) /\ s # <<>>
         /\ s[1].at \notin StopPlaces => MainOf(s) = s[1]
         /\ s[1].at \in StopPlaces => MainOf(s) = s[2] /\ s[2].at = "restore" /\ s[1].of = s[2].of
<1>1. s # <<>>
  BY EmptySeq DEF Ending, EndingFrom
<1> QED
  BY <1>1, StackIs DEF Ending, EndingFrom, Shaped, MainOf, StopPlaces

(* A main call that ends a job goes on.                                    *)
LEMMA EndingReplace ==
  ASSUME NEW s \in Seq(FrameSet), Ending(s), s[1].at \in EndPlaces,
         NEW f \in FrameSet, f.at \in EndPlaces
  PROVE  LET t == <<f>> \o Tail(s)
         IN  t \in Seq(FrameSet) /\ Ending(t) /\ MainOf(t) = f /\ ClearingOf(t) = ClearingOf(s)
<1> DEFINE t == <<f>> \o Tail(s)
<1>0. s # <<>>
  BY EndingStack
<1>1. /\ t \in Seq(FrameSet) /\ t # <<>> /\ Len(t) = Len(s) /\ t[1] = f
      /\ \A i \in 2..Len(s) : t[i] = s[i]
  BY <1>0, ReplaceTop
<1>2. Len(s) \in Nat \ {0}
  BY <1>0, StackIs
<1> HIDE DEF t
<1>3. Ending(t)
  BY <1>1, <1>2 DEF Ending, EndingFrom, EndPlaces, StopPlaces
<1>4. \A x : x \in ClearingOf(t) <=> x \in ClearingOf(s)
  <2> TAKE x
  <2>1. \A i \in 1..Len(s) : (s[i].at = "clearSelf" /\ s[i].of = x)
                              <=> (t[i].at = "clearSelf" /\ t[i].of = x)
    BY <1>1, <1>2 DEF EndPlaces
  <2> QED
    BY <1>1, <2>1, ClearingIs
<1>5. MainOf(t) = f
  BY <1>1, <1>3, EndingStack DEF EndPlaces, StopPlaces
<1> QED
  BY <1>1, <1>3, <1>4, <1>5 DEF t

(* A main call that ends a job returns to what is to be cleared.           *)
LEMMA EndingPop ==
  ASSUME NEW s \in Seq(FrameSet), Ending(s), s[1].at \in EndPlaces \cup {"clearSelf"}
  PROVE  LET t == Tail(s)
         IN  /\ t \in Seq(FrameSet) /\ t # <<>> /\ Shaped(t)
             /\ MainOf(t).at \in {"clear", "clearSelf"}
             /\ t[1].at \in {"clear", "clearSelf"} /\ t[Len(t)].at = "clear"
             /\ ClearingOf(t) \subseteq ClearingOf(s)
             /\ ClearingOf(s) \subseteq
                  ClearingOf(t) \cup (IF s[1].at = "clearSelf" THEN {s[1].of} ELSE {})
             /\ s[1].at = "clearSelf" => s[1].of \in ClearingOf(s)
<1> DEFINE t == Tail(s)
<1>0. s # <<>> /\ Len(s) \in Nat \ {0}
  BY EndingStack, StackIs
<1>1. /\ t \in Seq(FrameSet) /\ Len(t) = Len(s) - 1
      /\ t = <<>> <=> Len(s) = 1
      /\ \A i \in 1..Len(s) - 1 : t[i] = s[i + 1]
  BY <1>0, PopCall
<1> HIDE DEF t
<1>2. EndingFrom(s, 1)
  BY DEF Ending, EndPlaces, StopPlaces
<1>9. t # <<>> /\ Len(t) \in Nat \ {0}
  BY <1>0, <1>1, <1>2 DEF EndingFrom
<1>3. t[1].at \in {"clear", "clearSelf"} /\ t[Len(t)].at = "clear"
  BY <1>0, <1>1, <1>2, <1>9 DEF EndingFrom
<1>4. Shaped(t)
  <2>1. CASE Len(t) = 1
    BY <2>1, <1>1, <1>3 DEF Shaped, Alone
  <2>2. CASE Len(t) > 1
    <3>1. \A i \in 1..Len(t) - 1 : t[i].at = "clearSelf"
      BY <1>0, <1>1, <1>2, <1>9 DEF EndingFrom
    <3> QED
      BY <2>2, <1>9, <1>3, <3>1 DEF Shaped, Ending, EndingFrom
  <2> QED
    <3>1. Len(t) = 1 \/ Len(t) > 1
      BY <1>0, <1>1, <1>9
    <3> QED
      BY <2>1, <2>2, <3>1
<1>5. MainOf(t) = t[1]
  BY <1>9, <1>3 DEF MainOf, StopPlaces
<1>6. \A x \in ClearingOf(t) : x \in ClearingOf(s)
  <2> TAKE x \in ClearingOf(t)
  <2>1. PICK i \in 1..Len(t) : t[i].at = "clearSelf" /\ t[i].of = x
    BY <1>1, ClearingIs
  <2>2. i + 1 \in 1..Len(s) /\ s[i + 1] = t[i]
    BY <1>0, <1>1
  <2> QED
    BY <2>1, <2>2, ClearingIs
<1>7. \A x \in ClearingOf(s) : x \in ClearingOf(t) \/ (s[1].at = "clearSelf" /\ x = s[1].of)
  <2> TAKE x \in ClearingOf(s)
  <2>1. PICK i \in 1..Len(s) : s[i].at = "clearSelf" /\ s[i].of = x
    BY ClearingIs
  <2>2. CASE i = 1
    BY <2>1, <2>2
  <2>3. CASE i # 1
    <3>1. i - 1 \in 1..Len(t) /\ t[i - 1] = s[i]
      BY <1>0, <1>1, <2>3
    <3> QED
      BY <1>1, <2>1, <3>1, ClearingIs
  <2> QED
    BY <2>2, <2>3
<1>8. s[1].at = "clearSelf" => s[1].of \in ClearingOf(s)
  BY <1>0, ClearingIs
<1> QED
  BY <1>1, <1>9, <1>3, <1>4, <1>5, <1>6, <1>7, <1>8 DEF t

(* The last element to report: end() of the collection is called.          *)
LEMMA EndingLast ==
  ASSUME NEW s \in Seq(FrameSet), Ending(s), s[1].at \in EndPlaces,
         NEW f \in FrameSet, f.at = "clearSelf",
         NEW g \in FrameSet, g.at = "callEnd"
  PROVE  LET t == <<g, f>> \o Tail(s)
         IN  /\ t \in Seq(FrameSet) /\ Ending(t) /\ MainOf(t) = g
             /\ ClearingOf(t) = ClearingOf(s) \cup {f.of}
<1> DEFINE t == <<g, f>> \o Tail(s)
<1>0. s # <<>> /\ Len(s) \in Nat \ {0}
  BY EndingStack, StackIs
<1>1. /\ t \in Seq(FrameSet) /\ t # <<>> /\ Len(t) = Len(s) + 1
      /\ t[1] = g /\ t[2] = f
      /\ \A i \in 2..Len(s) : t[i + 1] = s[i]
  BY <1>0, PushCall
<1> HIDE DEF t
<1>2. EndingFrom(s, 1)
  BY DEF Ending, EndPlaces, StopPlaces
<1>3. \A i \in 2..Len(t) : i = 2 \/ (i - 1 \in 2..Len(s) /\ t[i] = s[i - 1])
  BY <1>0, <1>1
<1>4. t[Len(t)].at = "clear"
  BY <1>0, <1>1, <1>2, <1>3 DEF EndingFrom
<1>5. \A i \in 2..(Len(t) - 1) : t[i].at = "clearSelf"
  <2> TAKE i \in 2..(Len(t) - 1)
  <2>1. CASE i = 2
    BY <1>1, <2>1
  <2>2. CASE i # 2
    <3>1. i - 1 \in 2..(Len(s) - 1) /\ t[i] = s[i - 1]
      BY <1>0, <1>1, <1>3, <2>2
    <3> QED
      BY <1>2, <3>1 DEF EndingFrom
  <2> QED
    BY <2>1, <2>2
<1>6. Ending(t)
  BY <1>0, <1>1, <1>4, <1>5 DEF Ending, EndingFrom
<1>7. MainOf(t) = g
  BY <1>1, <1>6, EndingStack DEF StopPlaces
<1>8. \A x : x \in ClearingOf(t) <=> x \in ClearingOf(s) \/ x = f.of
  <2> TAKE x
  <2>1. x \in ClearingOf(t) => x \in ClearingOf(s) \/ x = f.of
    <3> HAVE x \in ClearingOf(t)
    <3>1. PICK i \in 1..Len(t) : t[i].at = "clearSelf" /\ t[i].of = x
      BY <1>1, ClearingIs
    <3>2. CASE i <= 2
      BY <3>1, <3>2, <1>1
    <3>3. CASE i > 2
      <4>1. i - 1 \in 1..Len(s) /\ s[i - 1] = t[i]
        BY <1>0, <1>1, <1>3, <3>3
      <4> QED
        BY <3>1, <4>1, ClearingIs
    <3> QED
      BY <3>2, <3>3
  <2>2. x \in ClearingOf(s) => x \in ClearingOf(t)
    <3> HAVE x \in ClearingOf(s)
    <3>1. PICK i \in 1..Len(s) : s[i].at = "clearSelf" /\ s[i].of = x
      BY ClearingIs
    <3>2. i # 1 /\ i + 1 \in 1..Len(t) /\ t[i + 1] = s[i]
      BY <1>0, <1>1, <3>1 DEF EndPlaces
    <3> QED
      BY <1>1, <3>1, <3>2, ClearingIs
  <2>3. x = f.of => x \in ClearingOf(t)
    <3>1. 2 \in 1..Len(t)
      BY <1>0, <1>1
    <3> QED
      BY <3>1, <1>1, ClearingIs
  <2> QED
    BY <2>1, <2>2, <2>3
<1> QED
  BY <1>1, <1>6, <1>7, <1>8 DEF t

(* A sequence stops itself, with the element on the stack.                 *)
LEMMA EndingStops ==
  ASSUME NEW s \in Seq(FrameSet), Ending(s), s[1].at \in EndPlaces,
         NEW f \in FrameSet, f.at = "restore",
         NEW g \in FrameSet, g.at \in StopPlaces, g.of = f.of
  PROVE  LET t == <<g, f>> \o Tail(s)
         IN  t \in Seq(FrameSet) /\ Ending(t) /\ MainOf(t) = f /\ ClearingOf(t) = ClearingOf(s)
             /\ t[1] = g
<1> DEFINE t == <<g, f>> \o Tail(s)
<1>0. s # <<>> /\ Len(s) \in Nat \ {0}
  BY EndingStack, StackIs
<1>1. /\ t \in Seq(FrameSet) /\ t # <<>> /\ Len(t) = Len(s) + 1
      /\ t[1] = g /\ t[2] = f
      /\ \A i \in 2..Len(s) : t[i + 1] = s[i]
  BY <1>0, PushCall
<1> HIDE DEF t
<1>2. EndingFrom(s, 1)
  BY DEF Ending, EndPlaces, StopPlaces
<1>3. \A i \in 3..Len(t) : i - 1 \in 2..Len(s) /\ t[i] = s[i - 1]
  BY <1>0, <1>1
<1>4. t[Len(t)].at = "clear" /\ Len(t) > 2
  BY <1>0, <1>1, <1>2, <1>3 DEF EndingFrom
<1>5. \A i \in 3..(Len(t) - 1) : t[i].at = "clearSelf"
  <2> TAKE i \in 3..(Len(t) - 1)
  <2>1. i - 1 \in 2..(Len(s) - 1) /\ t[i] = s[i - 1]
    BY <1>0, <1>1, <1>3
  <2> QED
    BY <1>2, <2>1 DEF EndingFrom
<1>6. Ending(t)
  BY <1>0, <1>1, <1>4, <1>5 DEF Ending, EndingFrom
<1>7. MainOf(t) = f
  BY <1>1, <1>6, EndingStack
<1>8. \A x : x \in ClearingOf(t) <=> x \in ClearingOf(s)
  <2> TAKE x
  <2>1. x \in ClearingOf(t) => x \in ClearingOf(s)
    <3> HAVE x \in ClearingOf(t)
    <3>1. PICK i \in 1..Len(t) : t[i].at = "clearSelf" /\ t[i].of = x
      BY <1>1, ClearingIs
    <3>2. i > 2
      BY <1>1, <3>1 DEF StopPlaces
    <3>3. i - 1 \in 1..Len(s) /\ s[i - 1] = t[i]
      BY <1>0, <1>1, <1>3, <3>2
    <3> QED
      BY <3>1, <3>3, ClearingIs
  <2>2. x \in ClearingOf(s) => x \in ClearingOf(t)
    <3> HAVE x \in ClearingOf(s)
    <3>1. PICK i \in 1..Len(s) : s[i].at = "clearSelf" /\ s[i].of = x
      BY ClearingIs
    <3>2. i # 1 /\ i + 1 \in 1..Len(t) /\ t[i + 1] = s[i]
      BY <1>0, <1>1, <3>1 DEF EndPlaces
    <3> QED
      BY <1>1, <3>1, <3>2, ClearingIs
  <2> QED
    BY <2>1, <2>2
<1> QED
  BY <1>1, <1>6, <1>7, <1>8 DEF t

(* Inside of stop() the main call stays the one that called it.            *)
LEMMA StopMoves ==
  ASSUME NEW s \in Seq(FrameSet), Ending(s), s[1].at \in StopPlaces,
         NEW f \in FrameSet, f.at \in StopPlaces, f.of = s[1].of
  PROVE  LET t == <<f>> \o Tail(s)
         IN  /\ t \in Seq(FrameSet) /\ Ending(t) /\ MainOf(t) = MainOf(s)
             /\ ClearingOf(t) = ClearingOf(s) /\ t[1] = f
<1> DEFINE t == <<f>> \o Tail(s)
<1>0. s # <<>> /\ Len(s) \in Nat \ {0}
  BY EndingStack, StackIs
<1>1. /\ t \in Seq(FrameSet) /\ t # <<>> /\ Len(t) = Len(s) /\ t[1] = f
      /\ \A i \in 2..Len(s) : t[i] = s[i]
  BY <1>0, ReplaceTop
<1> HIDE DEF t
<1>2. EndingFrom(s, 2) /\ s[2].at = "restore" /\ s[1].of = s[2].of
  BY DEF Ending, EndPlaces, StopPlaces
<1>3. Len(s) > 2
  BY <1>2 DEF EndingFrom
<1>4. EndingFrom(t, 2) /\ t[2] = s[2]
  BY <1>0, <1>1, <1>2 DEF EndingFrom
<1>5. Ending(t)
  BY <1>1, <1>2, <1>4 DEF Ending
<1>6. MainOf(t) = MainOf(s)
  BY <1>1, <1>4, <1>5, EndingStack
<1>7. \A x : x \in ClearingOf(t) <=> x \in ClearingOf(s)
  <2> TAKE x
  <2>1. \A i \in 1..Len(s) : (s[i].at = "clearSelf" /\ s[i].of = x)
                              <=> (t[i].at = "clearSelf" /\ t[i].of = x)
    BY <1>0, <1>1 DEF StopPlaces
  <2> QED
    BY <1>1, <2>1, ClearingIs
<1> QED
  BY <1>1, <1>5, <1>6, <1>7 DEF t

(* And when stop() returns.                                                *)
LEMMA StopReturns ==
  ASSUME NEW s \in Seq(FrameSet), Ending(s), s[1].at \in StopPlaces
  PROVE  LET t == Tail(s)
         IN  /\ t \in Seq(FrameSet) /\ Ending(t) /\ MainOf(t) = MainOf(s)
             /\ ClearingOf(t) = ClearingOf(s) /\ t[1] = s[2]
<1> DEFINE t == Tail(s)
<1>0. s # <<>> /\ Len(s) \in Nat \ {0}
  BY EndingStack, StackIs
<1>1. /\ t \in Seq(FrameSet) /\ Len(t) = Len(s) - 1
      /\ t = <<>> <=> Len(s) = 1
      /\ \A i \in 1..Len(s) - 1 : t[i] = s[i + 1]
  BY <1>0, PopCall
<1> HIDE DEF t
<1>2. EndingFrom(s, 2) /\ s[2].at = "restore"
  BY DEF Ending, EndPlaces, StopPlaces
<1>3. Len(s) > 2 /\ t[1] = s[2] /\ t[Len(t)] = s[Len(s)]
  BY <1>0, <1>1, <1>2 DEF EndingFrom
<1>4. \A i \in 2..(Len(t) - 1) : t[i].at = "clearSelf"
  <2> TAKE i \in 2..(Len(t) - 1)
  <2>1. i + 1 \in 3..(Len(s) - 1) /\ t[i] = s[i + 1]
    BY <1>0, <1>1
  <2> QED
    BY <1>2, <2>1 DEF EndingFrom
<1>5. Ending(t)
  BY <1>0, <1>1, <1>2, <1>3, <1>4 DEF Ending, EndingFrom
<1>6. MainOf(t) = MainOf(s)
  BY <1>1, <1>2, <1>3, <1>5, EndingStack DEF StopPlaces
<1>7. \A x : x \in ClearingOf(t) <=> x \in ClearingOf(s)
  <2> TAKE x
  <2>1. x \in ClearingOf(t) => x \in ClearingOf(s)
    <3> HAVE x \in ClearingOf(t)
    <3>1. PICK i \in 1..Len(t) : t[i].at = "clearSelf" /\ t[i].of = x
      BY <1>1, ClearingIs
    <3>2. i + 1 \in 1..Len(s) /\ s[i + 1] = t[i]
      BY <1>0, <1>1
    <3> QED
      BY <3>1, <3>2, ClearingIs
  <2>2. x \in ClearingOf(s) => x \in ClearingOf(t)
    <3> HAVE x \in ClearingOf(s)
    <3>1. PICK i \in 1..Len(s) : s[i].at = "clearSelf" /\ s[i].of = x
      BY ClearingIs
    <3>2. i # 1
      BY <3>1 DEF StopPlaces
    <3>3. i - 1 \in 1..Len(t) /\ t[i - 1] = s[i]
      BY <1>0, <1>1, <3>2
    <3> QED
      BY <1>1, <3>1, <3>3, ClearingIs
  <2> QED
    BY <2>1, <2>2
<1> QED
  BY <1>1, <1>3, <1>5, <1>6, <1>7 DEF t

(* The only call of a stack goes on.                                       *)
LEMMA AloneMoves ==
  ASSUME NEW s \in Seq(FrameSet), Alone(s), NEW f \in FrameSet, f.at \in AlonePlaces
  PROVE  LET t == <<f>> \o Tail(s)
         IN  /\ t \in Seq(FrameSet) /\ Shaped(t) /\ MainOf(t) = f /\ ClearingOf(t) = {}
             /\ t # <<>> /\ t[1] = f /\ Len(t) = 1
<1> DEFINE t == <<f>> \o Tail(s)
<1>1. t \in Seq(FrameSet) /\ Len(t) = Len(s) /\ t[1] = f
  BY AloneStack, ReplaceTop
<1>2. Alone(t)
  BY <1>1 DEF Alone, AlonePlaces
<1> QED
  BY <1>1, <1>2, AloneStack DEF Alone

(* The only call of a stack returns.                                       *)
LEMMA AloneReturns ==
  ASSUME NEW s \in Seq(FrameSet), Alone(s)
  PROVE  Tail(s) = <<>>
BY AloneStack, PopCall DEF Alone

(* setRunning calls elementStarted() of a collection.                      *)
LEMMA AloneBegins ==
  ASSUME NEW s \in Seq(FrameSet), Alone(s), NEW f \in FrameSet, f.at = "setRunning",
         NEW g \in FrameSet, g.at = "started"
  PROVE  LET t == <<g, f>> \o Tail(s)
         IN  /\ t \in Seq(FrameSet) /\ Beginning(t) /\ MainOf(t) = f /\ ClearingOf(t) = {}
             /\ Len(t) = 2 /\ t[1] = g /\ t[2] = f
<1> DEFINE t == <<g, f>> \o Tail(s)
<1>1. t \in Seq(FrameSet) /\ Len(t) = 2 /\ t[1] = g /\ t[2] = f
  <2>1. s # <<>>
    BY AloneStack
  <2>2. /\ t \in Seq(FrameSet) /\ Len(t) = Len(s) + 1 /\ t[1] = g /\ t[2] = f
        /\ \A i \in 2..Len(s) : t[i + 1] = s[i]
    BY <2>1, PushCall
  <2> HIDE DEF t
  <2> QED
    BY <2>2 DEF Alone
<1>2. Beginning(t)
  BY <1>1 DEF Beginning
<1> QED
  BY <1>1, <1>2, BeginningStack

(* A job that has run calls what makes it end.                             *)
LEMMA AloneEnds ==
  ASSUME NEW s \in Seq(FrameSet), Alone(s), NEW f \in FrameSet, f.at = "clear",
         NEW g \in FrameSet, g.at \in EndPlaces
  PROVE  LET t == <<g, f>> \o Tail(s)
         IN  t \in Seq(FrameSet) /\ Ending(t) /\ MainOf(t) = g /\ ClearingOf(t) = {}
<1> DEFINE t == <<g, f>> \o Tail(s)
<1>1. t \in Seq(FrameSet) /\ Len(t) = 2 /\ t[1] = g /\ t[2] = f
  <2>1. s # <<>>
    BY AloneStack
  <2>2. /\ t \in Seq(FrameSet) /\ Len(t) = Len(s) + 1 /\ t[1] = g /\ t[2] = f
        /\ \A i \in 2..Len(s) : t[i + 1] = s[i]
    BY <2>1, PushCall
  <2> HIDE DEF t
  <2> QED
    BY <2>2 DEF Alone
<1>2. Ending(t)
  BY <1>1 DEF Ending, EndingFrom, EndPlaces
<1>3. MainOf(t) = g
  BY <1>1, <1>2, EndingStack DEF EndPlaces, StopPlaces
<1>4. \A i \in 1..2 : t[i].at # "clearSelf"
  BY <1>1 DEF EndPlaces
<1>5. ClearingOf(t) = {}
  BY <1>1, <1>4, ClearingIs, ZenonT(60)
<1> QED
  BY <1>1, <1>2, <1>3, <1>5

(* A collection that begins tells its own collection.                      *)
LEMMA BeginningCalls ==
  ASSUME NEW s \in Seq(FrameSet), Beginning(s), s[1].at = "started", s[2].at = "setRunning",
         NEW f \in FrameSet, f.at = "startedUnlock", NEW g \in FrameSet, g.at = "started"
  PROVE  LET t == <<g, f>> \o Tail(s)
         IN  /\ t \in Seq(FrameSet) /\ Beginning(t) /\ MainOf(t) = MainOf(s)
             /\ ClearingOf(t) = ClearingOf(s)
             /\ Len(t) = 3 /\ t[1] = g /\ t[2] = f /\ t[3] = s[2]
<1> DEFINE t == <<g, f>> \o Tail(s)
<1>1. t \in Seq(FrameSet) /\ Len(t) = 3 /\ t[1] = g /\ t[2] = f /\ t[3] = s[2]
  <2>1. s # <<>>
    BY BeginningStack
  <2>2. /\ t \in Seq(FrameSet) /\ Len(t) = Len(s) + 1 /\ t[1] = g /\ t[2] = f
        /\ \A i \in 2..Len(s) : t[i + 1] = s[i]
    BY <2>1, PushCall
  <2> HIDE DEF t
  <2>3. Len(s) = 2
    BY DEF Beginning
  <2> QED
    BY <2>2, <2>3
<1>2. Beginning(t)
  BY <1>1 DEF Beginning
<1> QED
  BY <1>1, <1>2, BeginningStack

(* elementStarted() returns.                                               *)
LEMMA BeginningReturns ==
  ASSUME NEW s \in Seq(FrameSet), Beginning(s)
  PROVE  LET t == Tail(s)
         IN  /\ t \in Seq(FrameSet) /\ Shaped(t) /\ MainOf(t) = MainOf(s)
             /\ ClearingOf(t) = ClearingOf(s) /\ t # <<>>
             /\ Len(t) = Len(s) - 1 /\ t[1] = s[2] /\ t[Len(t)] = s[Len(s)]
<1> DEFINE t == Tail(s)
<1>1. t \in Seq(FrameSet) /\ Len(t) = Len(s) - 1 /\ t[1] = s[2] /\ t[Len(t)] = s[Len(s)]
  BY BeginningStack, PopCall DEF Beginning
<1>2. Alone(t) \/ Beginning(t)
  BY <1>1 DEF Beginning, Alone
<1>3. MainOf(t) = t[Len(t)] /\ ClearingOf(t) = {} /\ Shaped(t) /\ t # <<>>
  BY <1>1, <1>2, BeginningStack, AloneStack DEF Alone
<1> QED
  BY <1>1, <1>3, BeginningStack

-------------------------------------------------------------------------------
(* The invariant *)

(* A job that a thread has taken, until its collection has counted it.     *)
Own == {"store", "execute", "setRunning", "run", "end", "callEnd"}
Reporting == {"finished", "enqueue", "process", "restore"}
TokenOf(f) == IF f.at \in Own THEN {f.of} ELSE IF f.at \in Reporting THEN {f.by} ELSE {}
Bears(w, j) == j \in TokenOf(Main[w])
Tokens == {j \in Jobs : \E w \in Workers : Bears(w, j)}

(* A thread is here with a collection as its own element.                  *)
Itself(w, c, places) == Main[w].at \in places /\ Main[w].of = c /\ Main[w].by = c
Opening(c) ==
  \E w \in Workers :
    \/ Main[w].at \in Own \ {"callEnd"} /\ Main[w].of = c
    \/ Itself(w, c, Reporting)

Live(e) == Queued(e) \/ e \in Tokens \/ (IsCollection(e) /\ coll[e].jobCounter > 0)
Remaining(c) ==
  {e \in ToSet(coll[c].elements) : Live(e)}
    \cup {x \in {c} : \E w \in Workers : Itself(w, c, {"finished", "process", "restore"})}

(* Nothing has become of a job, nor of its elements.                       *)
Unopened(c) == \A e \in Kids(c) : status[e] = "New"
Fresh(j) ==
  /\ begun[j] = 0 /\ ended[j] = 0
  /\ IsCollection(j) =>
       /\ coll[j].jobCounter = 0 /\ coll[j].jobsStarted = 0
       /\ ~ coll[j].self /\ ~ coll[j].selfIsExecuting
       /\ coll[j].elements = program.elements[j]
       /\ Unopened(j)

(* A collection is executed, and has not reported to itself.               *)
Executing(c) ==
  /\ coll[c].self /\ coll[c].selfIsExecuting /\ coll[c].jobCounter = 0
  /\ Unopened(c)

Closed(j) == IsCollection(j) => coll[j].jobCounter = 0 /\ ~ coll[j].selfIsExecuting
Ended(j) == status[j] \in Final /\ ended[j] = 1 /\ Closed(j)
Over(c) == IsCollection(c) /\ status[c] \in Final /\ Closed(c) /\ ~ Opening(c)

(* A job is in the hands of one thread at most.                            *)
OneToken == \A v, w \in Workers : \A j \in Jobs : Bears(v, j) /\ Bears(w, j) => v = w

(* What is queued is queued once, and what is queued or new has not begun. *)
QueueInv ==
  /\ Distinct(assignments)
  /\ \A j \in Jobs : Queued(j) => status[j] = "Queued"
  /\ \A j \in Jobs : Queued(j) \/ status[j] = "New" =>
       Fresh(j) /\ j \notin Tokens /\ j \notin customers
  /\ \A j \in Jobs : status[j] = "New" => ~ Queued(j)

(* What is true at each place of a main call: a job ends once and was      *)
(* counted before it tells its collection; a collection gets its elements  *)
(* into the queue and its counter set in one go; it has its final status   *)
(* when its last element has reported.                                     *)
MainOK(f) ==
  /\ f.at \in Own => f.of \in Jobs /\ ended[f.of] = 0
  /\ f.at \in {"store", "execute"} => status[f.of] = "Queued" /\ Fresh(f.of)
  /\ f.at = "setRunning" => status[f.of] = "Queued"
  /\ f.at = "run" => status[f.of] = "Running"
  /\ f.at \in {"end", "callEnd"} => status[f.of] \in Final
  /\ f.at \in {"setRunning", "run", "end"} /\ IsCollection(f.of) => Executing(f.of)
  /\ f.at \in {"setRunning", "run"} /\ IsCollection(f.of) =>
       coll[f.of].elements = program.elements[f.of]
  /\ f.at = "callEnd" => Closed(f.of)
  /\ f.at \in Reporting =>
       /\ IsCollection(f.of) /\ f.by \in Jobs
       /\ f.by = f.of => ended[f.of] = 0
       /\ f.by # f.of => f.by \in ToSet(coll[f.of].elements) /\ Ended(f.by)
  /\ f.at \in {"finished", "enqueue", "process"} /\ f.by = f.of => status[f.of] \in Final
  /\ f.at \in {"enqueue", "process"} => f.by = f.of
  /\ f.at = "enqueue" =>
       /\ coll[f.of].self /\ ~ coll[f.of].selfIsExecuting
       /\ coll[f.of].jobCounter = Len(coll[f.of].elements) + 1
       /\ Unopened(f.of)
  /\ f.at = "finished" /\ f.by = f.of => Executing(f.of)
  /\ f.at = "restore" => f.kept \in Final

MainInvs == \A w \in Workers : MainOK(Main[w])

(* jobCounter, but for a collection about to enqueue its elements.         *)
CountInv ==
  \A c \in DOMAIN coll :
    \/ \E w \in Workers : Itself(w, c, {"finished", "enqueue"})
    \/ coll[c].jobCounter = Cardinality(Remaining(c))

(* A collection refers to itself from the beginning until its last element *)
(* has reported and it has ended.                                          *)
CollOK(c) ==
  /\ coll[c].elements \in {program.elements[c], Family(program, c)}
  /\ coll[c].jobCounter > 0 =>
       /\ coll[c].self /\ ~ coll[c].selfIsExecuting /\ ended[c] = 0
       /\ status[c] \in {"Running"} \cup Final
       /\ \A w \in Workers : ~ (Main[w].at = "callEnd" /\ Main[w].of = c)
  /\ coll[c].selfIsExecuting =>
       \E w \in Workers :
         \/ Main[w].at \in {"setRunning", "run", "end"} /\ Main[w].of = c
         \/ Itself(w, c, {"finished"})
  /\ coll[c].self => coll[c].selfIsExecuting \/ coll[c].jobCounter > 0 \/ c \in Clearing
  /\ status[c] \notin {"New", "Queued"} => coll[c].jobsStarted > 0

CollInv == \A c \in DOMAIN coll : CollOK(c)

(* What drops its reference is over.                                       *)
ClearInv == \A c \in Clearing : Over(c)

(* What has begun is in a thread's hands, waits for its elements, or is    *)
(* over.                                                                   *)
DoneInv == \A j \in Jobs : begun[j] > 0 =>
  \/ j \in Tokens
  \/ IsCollection(j) /\ coll[j].jobCounter > 0
  \/ Ended(j)

(* A slot is held by who has not finished.                                 *)
CustomersInv == \A j \in customers :
  \/ j \in Tokens /\ ended[j] = 0
  \/ IsCollection(j) /\ coll[j].jobCounter > 0

(* elementStarted() of the job's collection, or of the job and then of its *)
(* collection.                                                             *)
Begins(s) ==
  LET j == s[Len(s)].of IN
  /\ Len(s) = 1 /\ IsCollection(j) => coll[j].jobsStarted > 0
  /\ Len(s) = 2 =>
       /\ IsCollection(j) \/ HasParent(j)
       /\ s[1].of = IF IsCollection(j) THEN j ELSE ParentOf(j)
       /\ s[1].at = "started" /\ IsCollection(j) => coll[j].jobsStarted = 0
       /\ s[1].at = "startedUnlock" => IsCollection(j) /\ coll[j].jobsStarted > 0
  /\ Len(s) = 3 =>
       /\ IsCollection(j) /\ HasParent(j)
       /\ s[1].of = ParentOf(j) /\ s[2].of = j /\ coll[j].jobsStarted > 0
StartInv ==
  \A w \in Workers :
    stack[w] # <<>> /\ stack[w][Len(stack[w])].at = "setRunning" => Begins(stack[w])

(* The mutex that a thread owns, from what it is doing.                    *)
LockedOf(s) ==
  IF s = <<>> THEN {}
  ELSE IF s[1].at \in {"startedUnlock", "enqueue", "process", "stopElement"} THEN {s[1].of}
  ELSE IF s[1].at = "started" /\ s[2].at = "startedUnlock" THEN {s[2].of}
  ELSE {}
LockInv ==
  /\ \A w \in Workers :
       owner["weaver"] = w <=> stack[w] # <<>> /\ stack[w][1].at = "take"
  /\ \A w \in Workers : \A c \in Jobs : owner[c] = w <=> c \in LockedOf(stack[w])
  /\ \A w \in Workers : owner[w] = Nobody

(* The weaver's mutex, the pointers of threads and the count of active     *)
(* ones.                                                                   *)
HeldInv == \A w \in Workers : held[w] # NoJob =>
  stack[w] # <<>> /\ stack[w][Len(stack[w])].at \notin {"take", "store", "report"}
Taken(s) == s # <<>> /\ s[1].at # "take"
ActiveInv == active = Cardinality({w \in Workers : Taken(stack[w])})
TakeInv == \A w \in Workers : stack[w] # <<>> /\ stack[w][1].at = "take" => Runnable # {}

(* The state of the jobs, and that of the threads.                         *)
JobInv ==
  /\ OneToken /\ QueueInv /\ MainInvs /\ CountInv /\ CollInv /\ ClearInv /\ DoneInv
  /\ CustomersInv
Inv == Typed /\ Shapes /\ JobInv /\ StartInv /\ LockInv /\ HeldInv /\ ActiveInv /\ TakeInv

-------------------------------------------------------------------------------
(* Lemmas about trees, tokens and counters *)

(* The beginning of a list without repetitions has none.                   *)
LEMMA PrefixFacts ==
  ASSUME NEW S, NEW s \in Seq(S), NEW t \in Seq(S), Len(s) <= Len(t), IsInjective(t),
         \A i \in 1..Len(s) : t[i] = s[i]
  PROVE  IsInjective(s) /\ ToSet(s) \subseteq ToSet(t)
<1>1. /\ Len(s) \in Nat /\ Len(t) \in Nat
      /\ DOMAIN s = 1..Len(s) /\ DOMAIN t = 1..Len(t)
  BY LenProperties
<1>2. \A i \in 1..Len(s) : i \in 1..Len(t)
  BY <1>1
<1>3. IsInjective(s)
  BY <1>1, <1>2 DEF IsInjective
<1>4. ToSet(s) \subseteq ToSet(t)
  BY <1>1, <1>2 DEF ToSet
<1> QED
  BY <1>3, <1>4

(* What the assumptions say of the elements of a collection.               *)
LEMMA FamilyFacts ==
  ASSUME Typed, NEW c \in DOMAIN coll
  PROVE  /\ c \in Jobs /\ coll[c] \in CollSet /\ DOMAIN coll = DOMAIN program.elements
         /\ program.elements[c] \in Seq(Jobs) /\ Family(program, c) \in Seq(Jobs)
         /\ ToSet(program.elements[c]) \subseteq Kids(c)
         /\ Kids(c) \subseteq Jobs
         /\ IsInjective(program.elements[c]) /\ IsInjective(Family(program, c))
         /\ c \notin Kids(c)
         /\ \A d \in DOMAIN coll : d # c => Kids(c) \cap Kids(d) = {}
<1> DEFINE p == program
           more == IF c \in DOMAIN p.generates THEN p.generates[c] ELSE <<>>
<1>1. p \in Programs /\ DOMAIN coll = DOMAIN p.elements /\ coll[c] \in CollSet
  BY DEF Typed
<1>2. c \in Jobs /\ p.elements[c] \in Seq(Jobs) /\ more \in Seq(Jobs)
  <2>1. /\ p.elements \in [DOMAIN p.elements -> Seq(Jobs)] /\ DOMAIN p.elements \subseteq Jobs
        /\ p.generates \in [DOMAIN p.generates -> Seq(Jobs)]
    BY <1>1, ProgramsAssumption
  <2> QED
    BY <1>1, <2>1, EmptySeq
<1>3. /\ Family(p, c) \in Seq(Jobs) /\ Len(Family(p, c)) = Len(p.elements[c]) + Len(more)
      /\ \A i \in 1..Len(p.elements[c]) : Family(p, c)[i] = p.elements[c][i]
  <2>1. /\ p.elements[c] \o more \in Seq(Jobs)
        /\ Len(p.elements[c] \o more) = Len(p.elements[c]) + Len(more)
        /\ \A i \in 1..Len(p.elements[c]) + Len(more) : (p.elements[c] \o more)[i] =
             IF i <= Len(p.elements[c]) THEN p.elements[c][i] ELSE more[i - Len(p.elements[c])]
    BY <1>2, ConcatProperties, ZenonT(60)
  <2>2. Len(p.elements[c]) \in Nat /\ Len(more) \in Nat
    BY <1>2, LenProperties
  <2>3. Family(p, c) = p.elements[c] \o more
    BY DEF Family
  <2> HIDE DEF more
  <2> QED
    BY <2>1, <2>2, <2>3
<1>4. Len(p.elements[c]) \in Nat /\ Len(more) \in Nat
      /\ DOMAIN p.elements[c] = 1..Len(p.elements[c])
      /\ DOMAIN Family(p, c) = 1..Len(Family(p, c))
  BY <1>2, <1>3, LenProperties
<1>5. IsInjective(Family(p, c))
  BY <1>1, TreesAssumption
<1>6. IsInjective(p.elements[c]) /\ ToSet(p.elements[c]) \subseteq ToSet(Family(p, c))
  <2> HIDE DEF more
  <2>1. Len(p.elements[c]) <= Len(Family(p, c))
    BY <1>3, <1>4
  <2> QED
    BY <1>2, <1>3, <1>5, <2>1, PrefixFacts
<1>7. ToSet(p.elements[c]) \subseteq Kids(c)
  BY <1>6 DEF Kids
<1>8. Kids(c) \subseteq Jobs
  BY <1>3, <1>4, ElementOfSeq DEF ToSet, Kids
<1>9. c \notin Kids(c)
  <2>1. {c} \in (SUBSET DOMAIN p.elements) \ {{}}
    BY <1>1
  <2>2. PICK d \in {c} : ToSet(Family(p, d)) \cap {c} = {}
    BY <1>1, <2>1, TreesAssumption
  <2> QED
    BY <2>2 DEF Kids
<1>10. \A d \in DOMAIN coll : d # c => Kids(c) \cap Kids(d) = {}
  BY <1>1, TreesAssumption DEF Kids
<1> QED
  BY <1>1, <1>2, <1>3, <1>5, <1>6, <1>7, <1>8, <1>9, <1>10

(* The elements a collection has now are some of its family, each once.    *)
LEMMA ElementFacts ==
  ASSUME Typed, CollInv, NEW c \in DOMAIN coll
  PROVE  /\ coll[c].elements \in Seq(Jobs) /\ IsInjective(coll[c].elements)
         /\ ToSet(coll[c].elements) \subseteq Kids(c)
         /\ c \notin ToSet(coll[c].elements) /\ ToSet(coll[c].elements) \subseteq Jobs
         /\ IsFiniteSet(ToSet(coll[c].elements))
         /\ Cardinality(ToSet(coll[c].elements)) = Len(coll[c].elements)
<1> DEFINE s == coll[c].elements
<1>1. s \in {program.elements[c], Family(program, c)}
  BY DEF CollInv, CollOK
<1>2. /\ s \in Seq(Jobs) /\ IsInjective(s) /\ ToSet(s) \subseteq Kids(c)
      /\ c \notin Kids(c) /\ Kids(c) \subseteq Jobs
  BY <1>1, FamilyFacts DEF Kids
<1>3. DOMAIN s = 1..Len(s) /\ Len(s) \in Nat
  BY <1>2, LenProperties
<1> HIDE DEF s
<1>4. s \in Bijection(1..Len(s), ToSet(s))
  <2>1. s \in [1..Len(s) -> ToSet(s)]
    BY <1>2, <1>3, LenProperties DEF ToSet
  <2> QED
    BY <1>2, <1>3, <2>1 DEF Bijection, Injection, Surjection, IsInjective, ToSet
<1>5. IsFiniteSet(1..Len(s)) /\ Cardinality(1..Len(s)) = Len(s)
  BY <1>3, FS_Interval
<1>6. IsFiniteSet(ToSet(s)) /\ Cardinality(ToSet(s)) = Len(s)
  <2>1. ExistsBijection(1..Len(s), ToSet(s))
    BY <1>4 DEF ExistsBijection
  <2> QED
    BY <1>5, <2>1, FS_Bijection
<1> QED
  BY <1>2, <1>6 DEF s

(* A job has one collection at most, and is not its own.                   *)
LEMMA ParentFacts ==
  ASSUME Typed, CollInv, NEW j, HasParent(j)
  PROVE  /\ ParentOf(j) \in DOMAIN coll /\ j \in ToSet(coll[ParentOf(j)].elements)
         /\ j \in Kids(ParentOf(j)) /\ j # ParentOf(j) /\ j \in Jobs
         /\ \A c \in DOMAIN coll : j \in Kids(c) => c = ParentOf(j)
<1>1. ParentOf(j) \in ParentsOf(j)
  BY DEF ParentOf, HasParent
<1>2. ParentOf(j) \in DOMAIN coll /\ j \in ToSet(coll[ParentOf(j)].elements)
  BY <1>1 DEF ParentsOf
<1>3. j \in Kids(ParentOf(j)) /\ j # ParentOf(j) /\ j \in Jobs
  BY <1>2, ElementFacts
<1>4. \A c \in DOMAIN coll : j \in Kids(c) => c = ParentOf(j)
  BY <1>2, <1>3, FamilyFacts
<1> QED
  BY <1>2, <1>3, <1>4

(* A job in a thread's hands, by the place of the main call.               *)
LEMMA BearsIs ==
  ASSUME NEW w \in Workers, NEW j
  PROVE  Bears(w, j) <=> \/ Main[w].at \in Own /\ Main[w].of = j
                         \/ Main[w].at \in Reporting /\ Main[w].by = j
BY DEF Bears, TokenOf, Own, Reporting

(* The main call of a thread is one of its calls, or none.                 *)
LEMMA MainTyped ==
  ASSUME Typed, Shapes
  PROVE  Main \in [Workers -> FrameSet]
<1> SUFFICES ASSUME NEW w \in Workers PROVE MainOf(stack[w]) \in FrameSet
  BY DEF Main
<1>1. stack[w] \in Seq(FrameSet) /\ Shaped(stack[w])
  BY DEF Typed, Shapes, Actors
<1>2. None \in FrameSet
  BY DEF None, Frame, FrameSet, Places, Statuses
<1>3. CASE stack[w] = <<>>
  BY <1>2, <1>3, EmptyStack
<1>4. CASE stack[w] # <<>>
  <2>1. Len(stack[w]) \in Nat \ {0} /\ \A i \in 1..Len(stack[w]) : stack[w][i] \in FrameSet
    BY <1>1, <1>4, StackIs
  <2>2. CASE Alone(stack[w])
    BY <1>1, <2>1, <2>2, AloneStack
  <2>3. CASE Beginning(stack[w])
    BY <1>1, <2>1, <2>3, BeginningStack
  <2>4. CASE Ending(stack[w])
    <3>1. stack[w][1].at \in StopPlaces => Len(stack[w]) > 2
      BY <2>4 DEF Ending, EndingFrom, StopPlaces
    <3> QED
      BY <1>1, <2>1, <2>4, <3>1, EndingStack
  <2> QED
    BY <1>1, <1>4, <2>2, <2>3, <2>4 DEF Shaped
<1> QED
  BY <1>3, <1>4

(* A job that is new is not counted by its collection.                     *)
LEMMA NewIsNotLive ==
  ASSUME Typed, QueueInv, NEW j \in Jobs, status[j] = "New"
  PROVE  ~ Live(j)
BY DEF QueueInv, Live, Fresh

(* The jobs that have still to report are finitely many.                   *)
LEMMA RemainingFacts ==
  ASSUME Typed, CollInv, NEW c \in DOMAIN coll
  PROVE  /\ IsFiniteSet(Remaining(c)) /\ Cardinality(Remaining(c)) \in Nat
         /\ Remaining(c) \subseteq Jobs
         /\ Cardinality(Remaining(c)) = 0 <=> Remaining(c) = {}
         /\ \A x : Cardinality(Remaining(c) \ {x}) =
              IF x \in Remaining(c) THEN Cardinality(Remaining(c)) - 1
                                    ELSE Cardinality(Remaining(c))
<1>1. IsFiniteSet(ToSet(coll[c].elements) \cup {c})
  BY ElementFacts, FS_AddElement
<1>2. Remaining(c) \subseteq ToSet(coll[c].elements) \cup {c}
  BY DEF Remaining
<1>3. IsFiniteSet(Remaining(c))
  BY <1>1, <1>2, FS_Subset
<1> QED
  BY <1>2, <1>3, ElementFacts, FamilyFacts, FS_CardinalityType, FS_EmptySet, FS_RemoveElement

(* An element that is not new has been counted.                            *)
LEMMA ElementCounts ==
  ASSUME Typed, JobInv, NEW c \in DOMAIN coll,
         NEW e \in Kids(c), status[e] # "New"
  PROVE  /\ coll[c].jobCounter = Cardinality(Remaining(c))
         /\ ~ Executing(c)
         /\ \A w \in Workers : ~ Itself(w, c, {"finished", "enqueue"})
<1>1. e \in Jobs /\ ~ Unopened(c)
  BY FamilyFacts DEF Unopened
<1>2. ~ Executing(c)
  BY <1>1 DEF Executing
<1>3. \A w \in Workers : ~ Itself(w, c, {"finished", "enqueue"})
  BY <1>1, <1>2 DEF JobInv, MainInvs, MainOK, Itself
<1> QED
  BY <1>2, <1>3 DEF JobInv, CountInv

(* A collection that counts elements is at no other place.                 *)
LEMMA CountingFacts ==
  ASSUME Typed, JobInv, NEW c \in DOMAIN coll, coll[c].jobCounter > 0
  PROVE  /\ ~ Queued(c) /\ status[c] \in {"Running"} \cup Final
         /\ ~ coll[c].selfIsExecuting /\ coll[c].self /\ ended[c] = 0
         /\ c \notin Clearing
         /\ \A w \in Workers : Bears(w, c) => Itself(w, c, {"enqueue", "process", "restore"})
<1>1. /\ ~ coll[c].selfIsExecuting /\ coll[c].self /\ ended[c] = 0 /\ c \in Jobs
      /\ status[c] \in {"Running"} \cup Final
  BY FamilyFacts DEF JobInv, CollInv, CollOK
<1>2. ~ Queued(c)
  BY <1>1 DEF JobInv, QueueInv, Final
<1>3. c \notin Clearing
  BY DEF JobInv, ClearInv, Over, Closed, IsCollection
<1>4. ASSUME NEW w \in Workers, Bears(w, c)
      PROVE  Itself(w, c, {"enqueue", "process", "restore"})
  <2>1. CASE Main[w].at \in Own /\ Main[w].of = c
    <3>1. Main[w].at # "callEnd"
      BY <2>1 DEF JobInv, CollInv, CollOK
    <3>2. Main[w].at \notin {"store", "execute"}
      BY <1>1, <2>1 DEF JobInv, MainInvs, MainOK, Final
    <3>3. Main[w].at \notin {"setRunning", "run", "end"}
      BY <1>1, <2>1 DEF JobInv, MainInvs, MainOK, Executing, IsCollection
    <3> QED
      BY <2>1, <3>1, <3>2, <3>3 DEF Own
  <2>2. CASE Main[w].at \in Reporting /\ Main[w].by = c
    <3>1. Main[w].of = c
      BY <1>1, <2>2 DEF JobInv, MainInvs, MainOK, Ended
    <3>2. Main[w].at # "finished"
      BY <1>1, <2>2, <3>1 DEF JobInv, MainInvs, MainOK, Executing
    <3> QED
      BY <2>2, <3>1, <3>2 DEF Reporting, Itself
  <2> QED
    BY <1>4, <2>1, <2>2, BearsIs
<1> QED
  BY <1>1, <1>2, <1>3, <1>4

(* What reports to a collection is counted, unless the collection itself   *)
(* reports to itself before it has counted its elements.                   *)
LEMMA ReportingFacts ==
  ASSUME Typed, Shapes, JobInv, NEW w \in Workers, Main[w].at \in Reporting,
         Main[w].by # Main[w].of \/ Main[w].at \in {"process", "restore"}
  PROVE  LET c == Main[w].of
             e == Main[w].by
         IN  /\ c \in DOMAIN coll /\ e \in Remaining(c) /\ e \in Jobs
             /\ coll[c].jobCounter = Cardinality(Remaining(c)) /\ coll[c].jobCounter > 0
             /\ \A v \in Workers : ~ Itself(v, c, {"finished", "enqueue"})
             /\ status[e] \in Final \/ e = c
<1> DEFINE c == Main[w].of
           e == Main[w].by
<1>1. MainOK(Main[w])
  BY DEF JobInv, MainInvs
<1>2. c \in DOMAIN coll /\ e \in Jobs
  BY <1>1 DEF MainOK, IsCollection
<1>3. Bears(w, e)
  BY BearsIs
<1>4. /\ \A v \in Workers : ~ Itself(v, c, {"finished", "enqueue"})
      /\ coll[c].jobCounter = Cardinality(Remaining(c)) /\ e \in Remaining(c)
      /\ status[e] \in Final \/ e = c
  <2>1. CASE e # c
    <3>1. e \in ToSet(coll[c].elements) /\ Ended(e)
      BY <1>1, <2>1 DEF MainOK
    <3>2. e \in Kids(c) /\ status[e] # "New" /\ status[e] \in Final
      BY <1>2, <3>1, ElementFacts DEF JobInv, Ended, Final
    <3>3. e \in Remaining(c)
      BY <1>2, <1>3, <3>1 DEF Remaining, Live, Tokens
    <3> QED
      BY <1>2, <3>2, <3>3, ElementCounts
  <2>2. CASE e = c
    <3>1. Main[w].at \in {"process", "restore"}
      BY <2>2
    <3>2. e \in Remaining(c)
      BY <2>2, <3>1 DEF Remaining, Itself
    <3>3. ASSUME NEW v \in Workers, Itself(v, c, {"finished", "enqueue"}) PROVE FALSE
      <4>1. Bears(v, e)
        BY <2>2, <3>3, BearsIs DEF Itself, Reporting
      <4>2. v = w
        BY <1>2, <1>3, <4>1 DEF JobInv, OneToken
      <4> QED
        BY <3>1, <3>3, <4>2 DEF Itself
    <3>4. coll[c].jobCounter = Cardinality(Remaining(c))
      BY <1>2, <3>3 DEF JobInv, CountInv
    <3> QED
      BY <2>2, <3>2, <3>3, <3>4
  <2> QED
    BY <2>1, <2>2
<1>5. Cardinality(Remaining(c)) > 0
  BY <1>2, <1>4, RemainingFacts DEF JobInv
<1> QED
  BY <1>2, <1>4, <1>5

(* The place of what has m - 1 before it, in an order of n of which it is   *)
(* given what comes before each.                                           *)
Ranked(n, before, m) == CHOOSE k \in 1..n : Cardinality(before[k]) = m - 1

(* In a strict total order of n things there is one with m - 1 before it,  *)
(* for each m, and only one.                                               *)
LEMMA RankedFacts ==
  ASSUME NEW n \in Nat, NEW before \in [1..n -> SUBSET (1..n)],
         \A i, k \in 1..n : /\ k \notin before[k]
                            /\ i # k => i \in before[k] \/ k \in before[i]
                            /\ i \in before[k] => before[i] \subseteq before[k]
  PROVE  /\ \A m \in 1..n : Ranked(n, before, m) \in 1..n
         /\ \A l, m \in 1..n : Ranked(n, before, l) = Ranked(n, before, m) => l = m
         /\ \A k \in 1..n : \E m \in 1..n : Ranked(n, before, m) = k
<1>1. IsFiniteSet(1..n) /\ Cardinality(1..n) = n
  <2>1. IsFiniteSet(1..n) /\ Cardinality(1..n) = IF 1 > n THEN 0 ELSE n - 1 + 1
    BY FS_Interval
  <2> QED
    BY <2>1
<1>2. \A k \in 1..n : IsFiniteSet(before[k]) /\ Cardinality(before[k]) \in 0..(n - 1)
  <2> TAKE k \in 1..n
  <2>1. IsFiniteSet((1..n) \ {k}) /\ Cardinality((1..n) \ {k}) = n - 1
    BY <1>1, FS_RemoveElement
  <2>2. before[k] \in SUBSET ((1..n) \ {k})
    OBVIOUS
  <2>3. IsFiniteSet(before[k]) /\ Cardinality(before[k]) <= n - 1
    BY <2>1, <2>2, FS_Subset
  <2> QED
    BY <2>3, FS_CardinalityType
<1>3. \A i, k \in 1..n : i \in before[k] => Cardinality(before[i]) < Cardinality(before[k])
  <2> SUFFICES ASSUME NEW i \in 1..n, NEW k \in 1..n, i \in before[k]
               PROVE  Cardinality(before[i]) < Cardinality(before[k])
    OBVIOUS
  <2>1. before[i] \cup {i} \in SUBSET before[k] /\ i \notin before[i]
    OBVIOUS
  <2>2. Cardinality(before[i] \cup {i}) = Cardinality(before[i]) + 1
    BY <1>2, <2>1, FS_AddElement
  <2>3. Cardinality(before[i] \cup {i}) <= Cardinality(before[k])
    BY <1>2, <2>1, FS_Subset
  <2> QED
    BY <1>2, <2>2, <2>3
<1> DEFINE place == [k \in 1..n |-> Cardinality(before[k]) + 1]
<1>4. place \in [1..n -> 1..n]
  BY <1>2
<1>5. \A i, k \in 1..n : place[i] = place[k] => i = k
  <2> SUFFICES ASSUME NEW i \in 1..n, NEW k \in 1..n, i # k PROVE place[i] # place[k]
    OBVIOUS
  <2>1. \/ Cardinality(before[i]) < Cardinality(before[k])
        \/ Cardinality(before[k]) < Cardinality(before[i])
    BY <1>3
  <2> QED
    BY <1>2, <2>1
<1>6. \A k \in 1..n : place[k] = Cardinality(before[k]) + 1
  OBVIOUS
<1> HIDE DEF place
<1>7. \A m \in 1..n : \E k \in 1..n : place[k] = m
  <2>1. place \in Injection(1..n, 1..n)
    BY <1>4, <1>5 DEF Injection, IsInjective
  <2>2. place \in Surjection(1..n, 1..n)
    BY <1>1, <2>1, FS_Injection
  <2> QED
    BY <2>2 DEF Surjection
<1> DEFINE at(m) == Ranked(n, before, m)
<1>8. \A m \in 1..n : at(m) \in 1..n /\ place[at(m)] = m
  <2> TAKE m \in 1..n
  <2>1. PICK k \in 1..n : place[k] = m
    BY <1>7
  <2>2. Cardinality(before[k]) = m - 1
    BY <1>2, <1>6, <2>1
  <2>3. at(m) \in 1..n /\ Cardinality(before[at(m)]) = m - 1
    BY <2>2 DEF Ranked
  <2> HIDE DEF at
  <2> QED
    BY <1>6, <2>3
<1> HIDE DEF at
<1>9. \A k \in 1..n : place[k] \in 1..n /\ at(place[k]) = k
  BY <1>4, <1>5, <1>8
<1>10. /\ \A m \in 1..n : at(m) \in 1..n
       /\ \A l, m \in 1..n : at(l) = at(m) => l = m
       /\ \A k \in 1..n : \E m \in 1..n : at(m) = k
  BY <1>8, <1>9
<1> QED
  BY <1>10 DEF at

(* What is put into the queue is in it once, and nothing else changes.     *)
LEMMA InsertAllFacts ==
  ASSUME program \in Programs, NEW queue \in Seq(Jobs), NEW js \in Seq(Jobs),
         Distinct(queue), Distinct(js), ToSet(queue) \cap ToSet(js) = {}
  PROVE  /\ InsertAll(queue, js) \in Seq(Jobs)
         /\ Distinct(InsertAll(queue, js))
         /\ ToSet(InsertAll(queue, js)) = ToSet(queue) \cup ToSet(js)
<1> DEFINE all == queue \o js
           n == Len(all)
           before == [k \in DOMAIN all |->
                        {i \in DOMAIN all : LET p == program.priority[all[i]]
                                                q == program.priority[all[k]]
                                            IN  p > q \/ (p = q /\ i < k)}]
           at(m) == Ranked(n, before, m)
           r == InsertAll(queue, js)
<1>1. /\ all \in Seq(Jobs) /\ Len(all) = Len(queue) + Len(js)
      /\ \A i \in 1..Len(queue) + Len(js) :
           all[i] = IF i <= Len(queue) THEN queue[i] ELSE js[i - Len(queue)]
  BY ConcatProperties
<1>2. /\ Len(queue) \in Nat /\ Len(js) \in Nat /\ n \in Nat /\ DOMAIN all = 1..n
      /\ DOMAIN queue = 1..Len(queue) /\ DOMAIN js = 1..Len(js)
      /\ \A i \in 1..n : all[i] \in Jobs
  BY <1>1, LenProperties, ElementOfSeq
<1>3. program.priority \in [Jobs -> Int]
  BY ProgramsAssumption
<1>4. /\ \A i \in 1..Len(queue) : i \in 1..n /\ all[i] = queue[i]
      /\ \A i \in 1..Len(js) : i + Len(queue) \in 1..n /\ all[i + Len(queue)] = js[i]
      /\ \A i \in 1..n : \/ i \in 1..Len(queue) /\ all[i] = queue[i]
                         \/ i - Len(queue) \in 1..Len(js) /\ all[i] = js[i - Len(queue)]
  BY <1>1, <1>2
<1>5. \A i, k \in 1..n : all[i] = all[k] => i = k
  <2> SUFFICES ASSUME NEW i \in 1..n, NEW k \in 1..n, all[i] = all[k] PROVE i = k
    OBVIOUS
  <2>1. CASE i \in 1..Len(queue) /\ all[i] = queue[i] /\ k \in 1..Len(queue) /\ all[k] = queue[k]
    BY <1>2, <2>1 DEF Distinct
  <2>2. CASE /\ i - Len(queue) \in 1..Len(js) /\ all[i] = js[i - Len(queue)]
             /\ k - Len(queue) \in 1..Len(js) /\ all[k] = js[k - Len(queue)]
    <3>1. i - Len(queue) = k - Len(queue)
      BY <1>2, <2>2 DEF Distinct
    <3> QED
      BY <1>2, <3>1
  <2>3. CASE /\ i \in 1..Len(queue) /\ all[i] = queue[i]
             /\ k - Len(queue) \in 1..Len(js) /\ all[k] = js[k - Len(queue)]
    BY <1>2, <2>3 DEF ToSet
  <2>4. CASE /\ k \in 1..Len(queue) /\ all[k] = queue[k]
             /\ i - Len(queue) \in 1..Len(js) /\ all[i] = js[i - Len(queue)]
    BY <1>2, <2>4 DEF ToSet
  <2> QED
    BY <1>4, <2>1, <2>2, <2>3, <2>4
<1>6. \A x : (\E i \in 1..n : all[i] = x) <=> x \in ToSet(queue) \cup ToSet(js)
  BY <1>2, <1>4, SMTT(30) DEF ToSet
<1>7. r = [m \in 1..n |-> all[at(m)]]
  BY <1>2 DEF InsertAll, Ranked
<1> HIDE DEF all, r, n
<1>8. before \in [1..n -> SUBSET (1..n)]
  BY <1>2
<1>9. \A i, k \in 1..n : /\ k \notin before[k]
                         /\ i # k => i \in before[k] \/ k \in before[i]
                         /\ i \in before[k] => before[i] \subseteq before[k]
  BY <1>2, <1>3
<1> HIDE DEF before
<1>10. /\ \A m \in 1..n : at(m) \in 1..n
       /\ \A l, m \in 1..n : at(l) = at(m) => l = m
       /\ \A k \in 1..n : \E m \in 1..n : at(m) = k
  BY <1>2, <1>8, <1>9, RankedFacts
<1> HIDE DEF at
<1>11. r \in Seq(Jobs) /\ DOMAIN r = 1..n /\ \A m \in 1..n : r[m] = all[at(m)]
  <2>1. r \in [1..n -> Jobs]
    BY <1>2, <1>7, <1>10
  <2>2. r \in Seq(Jobs)
    BY <1>2, <2>1
  <2> QED
    BY <1>7, <2>2
<1>12. Distinct(r)
  <2> SUFFICES ASSUME NEW i \in 1..n, NEW k \in 1..n, r[i] = r[k] PROVE i = k
    BY <1>11 DEF Distinct
  <2>1. at(i) = at(k)
    BY <1>5, <1>10, <1>11, ZenonT(60)
  <2> QED
    BY <1>10, <2>1
<1>13. ToSet(r) = ToSet(queue) \cup ToSet(js)
  <2>1. \A x : x \in ToSet(r) <=> \E m \in 1..n : r[m] = x
    BY <1>11 DEF ToSet
  <2>2. \A x : (\E m \in 1..n : r[m] = x) <=> \E i \in 1..n : all[i] = x
    BY <1>10, <1>11
  <2> QED
    BY <1>6, <2>1, <2>2
<1> QED
  BY <1>11, <1>12, <1>13 DEF r

-------------------------------------------------------------------------------
(* Lemmas about steps *)

(* One thread goes from its stack to another one.                          *)
Goes(w, t) == t \in Seq(FrameSet) /\ Shaped(t) /\ stack' = [stack EXCEPT ![w] = t]

(* One main call changes when one thread moves.                            *)
LEMMA StackMoves ==
  ASSUME Typed, Shapes, NEW w \in Workers, NEW t, Goes(w, t)
  PROVE  /\ Shapes' /\ Main' = [Main EXCEPT ![w] = MainOf(t)]
         /\ stack' \in [Actors -> Seq(FrameSet)]
         /\ \A u \in Users : stack'[u] = <<>>
         /\ stack'[w] = t
         /\ \A v \in Workers : v # w => stack'[v] = stack[v]
         /\ ClearingOf(t) \subseteq Clearing' /\ Clearing' \subseteq Clearing \cup ClearingOf(t)
         /\ Clearing \subseteq Clearing' \cup (ClearingOf(stack[w]) \ ClearingOf(t))
<1>1. /\ stack' \in [Actors -> Seq(FrameSet)] /\ stack'[w] = t
      /\ \A u \in Users : stack'[u] = <<>>
      /\ \A v \in Workers : v # w => stack'[v] = stack[v]
  BY ActorsAssumption DEF Typed, Goes, Actors
<1>2. Shapes'
  BY <1>1 DEF Shapes, Goes
<1>3. Main' = [Main EXCEPT ![w] = MainOf(t)]
  BY <1>1 DEF Main
<1>4. /\ ClearingOf(t) \subseteq Clearing' /\ Clearing' \subseteq Clearing \cup ClearingOf(t)
      /\ Clearing \subseteq Clearing' \cup (ClearingOf(stack[w]) \ ClearingOf(t))
  BY <1>1 DEF Clearing
<1> QED
  BY <1>1, <1>2, <1>3, <1>4

(* The collections to clear are those of the other threads and of this     *)
(* one.                                                                    *)
LEMMA ClearingKept ==
  ASSUME Typed, Shapes, NEW w \in Workers, NEW t, Goes(w, t)
  PROVE  /\ ClearingOf(t) = ClearingOf(stack[w]) => Clearing' = Clearing
         /\ \A c : ClearingOf(t) = ClearingOf(stack[w]) \cup {c} => Clearing' = Clearing \cup {c}
<1>1. ClearingOf(stack[w]) \subseteq Clearing
  BY DEF Clearing
<1>2. ClearingOf(t) \subseteq Clearing' /\ Clearing' \subseteq Clearing \cup ClearingOf(t)
      /\ Clearing \subseteq Clearing' \cup (ClearingOf(stack[w]) \ ClearingOf(t))
  BY StackMoves
<1> QED
  BY <1>1, <1>2

(* Nothing changes that collections count.                                 *)
CollectionsKept(fields) ==
  /\ coll' \in [DOMAIN program.elements -> CollSet] /\ DOMAIN coll' = DOMAIN coll
  /\ \A c \in DOMAIN coll : \A x \in fields : coll'[c][x] = coll[c][x]
Counting == {"elements", "self", "selfIsExecuting", "jobCounter", "jobsStarted"}
JobsKept == UNCHANGED <<program, assignments, status, begun, ended, customers>>

(* A step that leaves the jobs, what counts of the collections, and the    *)
(* job in the thread's hands alone keeps all that is said of jobs.         *)
LEMMA JobInvKept ==
  ASSUME Typed, JobInv, JobsKept, CollectionsKept(Counting), Clearing' = Clearing,
         NEW w \in Workers, NEW f, Main' = [Main EXCEPT ![w] = f],
         \/ f = Main[w]
         \/ f.at \notin Own \cup Reporting /\ Main[w].at \notin Own \cup Reporting
         \/ f.at = "execute" /\ Main[w].at = "store" /\ f.of = Main[w].of
  PROVE  JobInv'
<1> USE DEF JobsKept
<1>1. /\ DOMAIN coll' = DOMAIN coll /\ DOMAIN Main = Workers
      /\ \A c \in DOMAIN coll :
           /\ coll'[c].elements = coll[c].elements /\ coll'[c].self = coll[c].self
           /\ coll'[c].selfIsExecuting = coll[c].selfIsExecuting
           /\ coll'[c].jobCounter = coll[c].jobCounter
           /\ coll'[c].jobsStarted = coll[c].jobsStarted
  BY DEF CollectionsKept, Counting, Main
<1>2. \A v \in Workers : v # w => Main'[v] = Main[v]
  BY <1>1
<1>3. Main'[w] = f
  BY <1>1
<1>4. \A v \in Workers : \A j : Bears(v, j)' <=> Bears(v, j)
  BY <1>2, <1>3 DEF Bears, TokenOf, Own, Reporting
<1>5. Tokens' = Tokens
  BY <1>4 DEF Tokens
<1>6. \A j : /\ Kids(j)' = Kids(j)
             /\ Unopened(j)' <=> Unopened(j)
             /\ Fresh(j)' <=> Fresh(j)
             /\ Queued(j)' <=> Queued(j)
             /\ IsCollection(j)' <=> IsCollection(j)
             /\ Live(j)' <=> Live(j)
             /\ Closed(j)' <=> Closed(j)
             /\ Ended(j)' <=> Ended(j)
             /\ IsCollection(j) => (Executing(j)' <=> Executing(j))
  BY <1>1, <1>5 DEF Kids, Unopened, Fresh, Queued, IsCollection, Live, Closed, Ended, Executing
<1>7. \A v \in Workers : \A c : \A P \in SUBSET Reporting : Itself(v, c, P)' = Itself(v, c, P)
  BY <1>2, <1>3 DEF Itself, Own, Reporting
<1>8. OneToken'
  BY <1>4 DEF JobInv, OneToken
<1>9. QueueInv'
  <2>1. Distinct(assignments')
    BY DEF JobInv, QueueInv
  <2>2. \A j : /\ Queued(j)' <=> Queued(j)
               /\ Fresh(j)' <=> Fresh(j)
    BY <1>6
  <2> QED
    BY <1>5, <2>1, <2>2 DEF JobInv, QueueInv
<1>10. MainInvs'
  <2>1. \A g : MainOK(g) => MainOK(g)'
    <3> SUFFICES ASSUME NEW g, MainOK(g) PROVE MainOK(g)'
      OBVIOUS
    <3>1. g.at \in Reporting => g.of \in DOMAIN coll
      BY DEF MainOK, IsCollection
    <3>2. /\ g.of \in DOMAIN coll =>
               /\ coll'[g.of].elements = coll[g.of].elements
               /\ coll'[g.of].self = coll[g.of].self
               /\ coll'[g.of].selfIsExecuting = coll[g.of].selfIsExecuting
               /\ coll'[g.of].jobCounter = coll[g.of].jobCounter
          /\ Fresh(g.of)' <=> Fresh(g.of)
          /\ Unopened(g.of)' <=> Unopened(g.of)
          /\ Closed(g.of)' <=> Closed(g.of)
          /\ Ended(g.by)' <=> Ended(g.by)
          /\ IsCollection(g.of)' <=> IsCollection(g.of)
          /\ IsCollection(g.of) => (Executing(g.of)' <=> Executing(g.of))
      BY <1>1, <1>6
    <3>3. IsCollection(g.of) <=> g.of \in DOMAIN coll
      BY DEF IsCollection
    <3> QED
      BY <3>1, <3>2, <3>3 DEF MainOK, Reporting
  <2>2. MainOK(f)
    BY DEF JobInv, MainInvs, MainOK, Own, Reporting
  <2> QED
    BY <1>2, <1>3, <2>1, <2>2 DEF JobInv, MainInvs
<1>11. CountInv'
  <2>1. \A c \in DOMAIN coll : Remaining(c)' = Remaining(c)
    BY <1>1, <1>6, <1>7 DEF Remaining, Reporting
  <2> QED
    BY <1>1, <1>7, <2>1 DEF JobInv, CountInv, Reporting
<1>12. CollInv'
  <2> SUFFICES ASSUME NEW c \in DOMAIN coll PROVE CollOK(c)'
    BY <1>1 DEF CollInv
  <2>1. CollOK(c)
    BY DEF JobInv, CollInv
  <2>2. \A v \in Workers : \A at \in {"setRunning", "run", "end", "callEnd"} :
          (Main'[v].at = at /\ Main'[v].of = c) <=> (Main[v].at = at /\ Main[v].of = c)
    BY <1>2, <1>3 DEF Own, Reporting
  <2>3. \A v \in Workers : Itself(v, c, {"finished"})' <=> Itself(v, c, {"finished"})
    BY <1>7 DEF Reporting
  <2> QED
    BY <1>1, <2>1, <2>2, <2>3 DEF CollOK, Family
<1>13. \A c : Opening(c)' <=> Opening(c)
  BY <1>2, <1>3, <1>7 DEF Opening, Own, Reporting
<1>14. ClearInv'
  BY <1>6, <1>13 DEF JobInv, ClearInv, Over
<1>15. \A j : (IsCollection(j) /\ coll[j].jobCounter > 0)'
                <=> IsCollection(j) /\ coll[j].jobCounter > 0
  BY <1>1 DEF IsCollection
<1>16. DoneInv'
  <2>1. \A j : Ended(j)' <=> Ended(j)
    BY <1>6
  <2> QED
    BY <1>5, <1>15, <2>1 DEF JobInv, DoneInv
<1>17. CustomersInv'
  BY <1>5, <1>15 DEF JobInv, CustomersInv
<1> QED
  BY <1>8, <1>9, <1>10, <1>11, <1>12, <1>14, <1>16, <1>17 DEF JobInv

(* The call a thread is in tells the shape of its stack.                   *)
LEMMA TopShape ==
  ASSUME Typed, Shapes, NEW w \in Workers, stack[w] # <<>>
  PROVE  /\ stack[w] \in Seq(FrameSet) /\ Len(stack[w]) \in Nat \ {0}
         /\ Top(w) = stack[w][1] /\ Top(w) \in FrameSet
         /\ Top(w).at \in AlonePlaces =>
              Alone(stack[w]) /\ Main[w] = Top(w) /\ ClearingOf(stack[w]) = {}
         /\ Top(w).at \in {"started", "startedUnlock"} =>
              /\ Beginning(stack[w]) /\ Main[w] = stack[w][Len(stack[w])]
              /\ ClearingOf(stack[w]) = {}
         /\ Top(w).at \in EndPlaces \cup {"clearSelf"} =>
              Ending(stack[w]) /\ Main[w] = Top(w)
         /\ Top(w).at \in StopPlaces =>
              /\ Ending(stack[w]) /\ Main[w] = stack[w][2]
              /\ Main[w].at = "restore" /\ Main[w].of = Top(w).of
         /\ Top(w).at \in AlonePlaces \cup {"started", "startedUnlock", "clearSelf"}
                            \cup EndPlaces \cup StopPlaces
<1> DEFINE s == stack[w]
<1>1. s \in Seq(FrameSet) /\ s # <<>> /\ w \in Actors
  BY DEF Typed, Actors
<1>2. Len(s) \in Nat \ {0} /\ Top(w) = s[1] /\ s[1] \in FrameSet
  BY <1>1, StackIs DEF Top
<1>3. Alone(s) \/ Beginning(s) \/ Ending(s)
  BY <1>1 DEF Shapes, Shaped
<1>4. Main[w] = MainOf(s)
  BY DEF Main
<1>5. CASE Alone(s)
  BY <1>1, <1>2, <1>4, <1>5, AloneStack DEF Alone, AlonePlaces, EndPlaces, StopPlaces
<1>6. CASE Beginning(s)
  <2>1. s[1].at \in {"started", "startedUnlock"}
    BY <1>6 DEF Beginning
  <2> QED
    BY <1>1, <1>2, <1>4, <1>6, <2>1, BeginningStack DEF AlonePlaces, EndPlaces, StopPlaces
<1>7. CASE Ending(s)
  <2>1. s[1].at \in EndPlaces \cup {"clearSelf"} \/ s[1].at \in StopPlaces
    BY <1>7 DEF Ending, EndPlaces
  <2> QED
    BY <1>1, <1>2, <1>4, <1>7, <2>1, EndingStack DEF AlonePlaces, EndPlaces, StopPlaces
<1> QED
  BY <1>3, <1>5, <1>6, <1>7

(* What keeps the state of the threads, when one of them moves.            *)
LEMMA StartKept ==
  ASSUME Typed, CollInv, StartInv, NEW w \in Workers, NEW t, Goes(w, t),
         stack'[w] = t, \A v \in Workers : v # w => stack'[v] = stack[v],
         DOMAIN coll' = DOMAIN coll,
         \A c \in DOMAIN coll : /\ ToSet(coll[c].elements) \subseteq ToSet(coll'[c].elements)
                                /\ ToSet(coll'[c].elements) \subseteq Kids(c),
         t # <<>> /\ t[Len(t)].at = "setRunning" => Begins(t)',
         \A v \in Workers : v # w /\ Main[v].at = "setRunning" =>
           \A c \in DOMAIN coll : c = Main[v].of => coll'[c].jobsStarted = coll[c].jobsStarted
  PROVE  StartInv'
<1> SUFFICES ASSUME NEW v \in Workers, v # w, stack[v] # <<>>,
                    stack[v][Len(stack[v])].at = "setRunning", stack'[v] = stack[v]
             PROVE  Begins(stack[v])'
  BY DEF StartInv, Begins
<1> DEFINE s == stack[v]
           j == s[Len(s)].of
<1>1. Main[v] = s[Len(s)]
  BY DEF Main, MainOf
<1>2. Begins(s)
  BY DEF StartInv
<1>3. \A x : /\ HasParent(x) => HasParent(x)' /\ ParentOf(x)' = ParentOf(x)
             /\ IsCollection(x)' <=> IsCollection(x)
  <2> SUFFICES ASSUME NEW x, HasParent(x) PROVE HasParent(x)' /\ ParentOf(x)' = ParentOf(x)
    BY DEF IsCollection
  <2>1. ParentOf(x) \in DOMAIN coll' /\ x \in ToSet(coll'[ParentOf(x)].elements)
    BY ParentFacts
  <2>2. HasParent(x)'
    BY <2>1 DEF HasParent, ParentsOf
  <2>3. \A c \in DOMAIN coll : x \in Kids(c) => c = ParentOf(x)
    BY ParentFacts
  <2>4. ParentOf(x)' \in ParentsOf(x)'
    BY <2>2 DEF HasParent, ParentOf
  <2> QED
    BY <2>2, <2>3, <2>4 DEF ParentsOf
<1>4. IsCollection(j) => coll'[j].jobsStarted = coll[j].jobsStarted
  BY <1>1 DEF IsCollection
<1> QED
  BY <1>2, <1>3, <1>4 DEF Begins

Taking(s) == s # <<>> /\ s[1].at = "take"

(* A thread takes and releases mutexes as its stack says.                  *)
LEMMA LockKept ==
  ASSUME Typed, LockInv, NEW w \in Workers, NEW t, stack'[w] = t,
         \A v \in Workers : v # w => stack'[v] = stack[v],
         owner' \in [Mutexes -> Workers \cup {Nobody}],
         Taking(t) => owner["weaver"] \in {w, Nobody},
         owner'["weaver"] = IF Taking(t) THEN w
                            ELSE IF Taking(stack[w]) THEN Nobody ELSE owner["weaver"],
         \A c \in LockedOf(t) : owner[c] \in {w, Nobody},
         \A c \in Jobs : owner'[c] = IF c \in LockedOf(t) THEN w
                           ELSE IF c \in LockedOf(stack[w]) THEN Nobody ELSE owner[c],
         \A v \in Workers : owner'[v] = owner[v]
  PROVE  LockInv'
<1>1. \A v \in Workers : v # Nobody
  BY ActorsAssumption DEF Actors
<1>2. \A v \in Workers : owner["weaver"] = v <=> Taking(stack[v])
  BY DEF LockInv, Taking
<1>3. \A v \in Workers : owner'["weaver"] = v <=> Taking(stack'[v])
  BY <1>1, <1>2
<1>4. \A v \in Workers : \A c \in Jobs : owner[c] = v <=> c \in LockedOf(stack[v])
  BY DEF LockInv
<1>5. \A v \in Workers : \A c \in Jobs : owner'[c] = v <=> c \in LockedOf(stack'[v])
  BY <1>1, <1>4
<1> QED
  BY <1>3, <1>5 DEF LockInv, Taking, LockedOf

(* The count of active threads follows one thread that takes a job,        *)
(* returns one, or does neither.                                           *)
LEMMA ActiveKept ==
  ASSUME Typed, ActiveInv, NEW w \in Workers, NEW t, stack'[w] = t,
         \A v \in Workers : v # w => stack'[v] = stack[v]
  PROVE  /\ (Taken(t) <=> Taken(stack[w])) /\ active' = active => ActiveInv'
         /\ Taken(t) /\ ~ Taken(stack[w]) /\ active' = active + 1 => ActiveInv'
         /\ ~ Taken(t) /\ Taken(stack[w]) /\ active' = active - 1 => ActiveInv'
<1> DEFINE A == {v \in Workers : Taken(stack[v])}
           B == {v \in Workers : Taken(stack'[v])}
<1>1. IsFiniteSet(A) /\ active = Cardinality(A)
  BY ActorsAssumption, FS_Subset DEF ActiveInv
<1>2. ActiveInv' <=> active' = Cardinality(B)
  BY DEF ActiveInv, Taken
<1>3. Taken(t) /\ ~ Taken(stack[w]) => B = A \cup {w} /\ w \notin A
  OBVIOUS
<1>4. ~ Taken(t) /\ Taken(stack[w]) => B = A \ {w} /\ w \in A
  OBVIOUS
<1>5. (Taken(t) <=> Taken(stack[w])) => B = A
  OBVIOUS
<1> HIDE DEF A, B
<1>6. Cardinality(A \cup {w}) = IF w \in A THEN Cardinality(A) ELSE Cardinality(A) + 1
  BY <1>1, FS_AddElement
<1>7. Cardinality(A \ {w}) = IF w \in A THEN Cardinality(A) - 1 ELSE Cardinality(A)
  BY <1>1, FS_RemoveElement
<1> QED
  BY <1>1, <1>2, <1>3, <1>4, <1>5, <1>6, <1>7

(* What can run can still run when jobs are resolved or unblocked.         *)
LEMMA TakeKept ==
  ASSUME Typed, TakeInv, LockInv, NEW w \in Workers, NEW t, stack'[w] = t,
         \A v \in Workers : v # w => stack'[v] = stack[v],
         ~ Taking(t), program' = program,
         \/ owner["weaver"] \in {w, Nobody}
         \/ /\ assignments' = assignments
            /\ blocked' \cap ToSet(assignments) \subseteq blocked
            /\ dependencies' \subseteq dependencies /\ customers' \subseteq customers
  PROVE  TakeInv'
<1> SUFFICES ASSUME NEW v \in Workers, v # w, stack[v] # <<>>, stack[v][1].at = "take"
             PROVE  Runnable' # {}
  BY DEF TakeInv, Taking
<1>1. owner["weaver"] = v /\ v # Nobody
  BY ActorsAssumption DEF LockInv, Actors
<1>2. /\ assignments' = assignments
      /\ blocked' \cap ToSet(assignments) \subseteq blocked
      /\ dependencies' \subseteq dependencies /\ customers' \subseteq customers
  BY <1>1
<1>3. PICK i \in Runnable : TRUE
  BY DEF TakeInv
<1>4. assignments[i] \in ToSet(assignments)
  BY <1>3 DEF Runnable, ToSet
<1>5. HasRoom(customers, program.cap) => HasRoom(customers', program.cap)
  <2>1. /\ IsFiniteSet(customers) /\ customers' \subseteq customers
        /\ program.cap \in Nat
    BY <1>2, ProgramsAssumption DEF Typed
  <2>2. /\ Cardinality(customers') <= Cardinality(customers)
        /\ Cardinality(customers') \in Nat /\ Cardinality(customers) \in Nat
    BY <2>1, FS_Subset, FS_CardinalityType
  <2> QED
    BY <2>1, <2>2 DEF HasRoom
<1>6. CanRun(assignments[i])
  BY <1>3 DEF Runnable
<1>7. CanRun(assignments[i])'
  <2>1. ~ Blocks(assignments[i])'
    BY <1>2, <1>4, <1>6 DEF CanRun, Blocks
  <2>2. ~ HasUnresolvedDependencies(dependencies', assignments[i])
    BY <1>2, <1>6 DEF CanRun, HasUnresolvedDependencies
  <2> QED
    BY <1>2, <1>5, <1>6, <2>1, <2>2 DEF CanRun
<1> QED
  BY <1>2, <1>3, <1>7 DEF Runnable

(* A pointer that a thread holds is of the job on its stack.               *)
LEMMA HeldKept ==
  ASSUME Typed, HeldInv, NEW w \in Workers, NEW t, stack'[w] = t, t # <<>>,
         \A v \in Workers : v # w => stack'[v] = stack[v],
         t[Len(t)].at \in {"take", "store", "report"} => held'[w] = NoJob,
         \A v \in Workers : v # w => held'[v] = held[v]
  PROVE  HeldInv'
  BY DEF HeldInv

ThreadInv == LockInv /\ HeldInv /\ ActiveInv /\ TakeInv

(* A thread moves within the execution of a job.                           *)
LEMMA ThreadKept ==
  ASSUME Typed, ThreadInv, NEW w \in Workers, NEW t, stack'[w] = t,
         \A v \in Workers : v # w => stack'[v] = stack[v],
         Taken(stack[w]), Taken(t), UNCHANGED <<program, active, held>>,
         t[Len(t)].at \notin {"take", "store", "report"},
         owner' \in [Mutexes -> Workers \cup {Nobody}],
         \A c \in LockedOf(t) : owner[c] \in {w, Nobody},
         \A c \in Jobs : owner'[c] = IF c \in LockedOf(t) THEN w
                           ELSE IF c \in LockedOf(stack[w]) THEN Nobody ELSE owner[c],
         \A m \in Workers \cup {"weaver"} : owner'[m] = owner[m],
         \/ owner["weaver"] = Nobody
         \/ /\ assignments' = assignments
            /\ blocked' \cap ToSet(assignments) \subseteq blocked
            /\ dependencies' \subseteq dependencies /\ customers' \subseteq customers
  PROVE  ThreadInv'
<1>1. ~ Taking(t) /\ ~ Taking(stack[w]) /\ t # <<>>
  BY DEF Taking, Taken
<1>2. LockInv'
  BY <1>1, LockKept DEF ThreadInv
<1>3. HeldInv'
  BY <1>1, HeldKept DEF ThreadInv
<1>4. ActiveInv'
  BY ActiveKept DEF ThreadInv
<1>5. TakeInv'
  BY <1>1, TakeKept DEF ThreadInv
<1> QED
  BY <1>2, <1>3, <1>4, <1>5 DEF ThreadInv

(* A thread moves, and with its jobs nothing happens.                      *)
LEMMA MovesOnly ==
  ASSUME Typed, Shapes, JobInv, StartInv, NEW w \in Workers, NEW t, Goes(w, t),
         JobsKept, coll' = coll, ClearingOf(t) = ClearingOf(stack[w]),
         \/ MainOf(t) = Main[w]
         \/ /\ MainOf(t).at \notin Own \cup Reporting
            /\ Main[w].at \notin Own \cup Reporting
         \/ MainOf(t).at = "execute" /\ Main[w].at = "store" /\ MainOf(t).of = Main[w].of,
         t # <<>> /\ t[Len(t)].at = "setRunning" => Begins(t)
  PROVE  JobInv' /\ Shapes' /\ StartInv'
<1>1. Clearing' = Clearing
  BY ClearingKept
<1>2. CollectionsKept(Counting)
  BY DEF CollectionsKept, Typed
<1>3. JobInv'
  BY <1>1, <1>2, StackMoves, JobInvKept
<1>4. \A c \in DOMAIN coll : ToSet(coll[c].elements) \subseteq Kids(c)
  BY ElementFacts DEF JobInv
<1>5. Begins(t)' <=> Begins(t)
  BY DEF Begins, IsCollection, HasParent, ParentsOf, ParentOf
<1>6. StartInv'
  BY <1>4, <1>5, StackMoves, StartKept DEF JobInv
<1> QED
  BY <1>3, <1>6, StackMoves

-------------------------------------------------------------------------------
(* The steps of threads and users *)

(* A thread begins to look for a job.                                      *)
LEMMA ApplyKeeps ==
  ASSUME Inv, NEW w \in Workers, Apply(w)
  PROVE  Inv'
<1> DEFINE t == <<Frame("take", NoJob, NoJob)>>
<1>1. t \in Seq(FrameSet) /\ t # <<>> /\ Len(t) = 1 /\ t[1].at = "take"
  BY DEF FrameSet, Places, Statuses, Frame
<1>2. Alone(t) /\ t[Len(t)] = t[1]
  BY <1>1 DEF Alone
<1>3. Goes(w, t) /\ MainOf(t).at = "take" /\ ClearingOf(t) = {}
  BY <1>1, <1>2, AloneStack DEF Goes, Apply
<1>4. stack[w] = <<>> /\ MainOf(stack[w]) = None /\ ClearingOf(stack[w]) = {}
  BY EmptyStack DEF Apply
<1>5. Main[w].at = "none"
  BY <1>4 DEF Main, None, Frame
<1>6. JobsKept /\ coll' = coll
  BY DEF Apply, JobsKept, weaverVars, jobVars, clientVars, policyVars
<1>7. JobInv' /\ Shapes' /\ StartInv'
  BY <1>1, <1>2, <1>3, <1>4, <1>5, <1>6, MovesOnly DEF Inv, Own, Reporting
<1> HIDE DEF t
<1>8. Typed'
  BY <1>3, StackMoves DEF Inv, Typed, Apply, Hold, Mutexes, weaverVars, jobVars, clientVars,
                          policyVars
<1>9. LockInv' /\ HeldInv' /\ ActiveInv' /\ TakeInv'
  <2>1. owner["weaver"] = Nobody /\ owner' = [owner EXCEPT !["weaver"] = w] /\ Runnable # {}
    BY DEF Apply, Hold
  <2>2. /\ stack'[w] = t /\ \A v \in Workers : v # w => stack'[v] = stack[v]
        /\ UNCHANGED <<active, held, assignments, blocked, dependencies, customers, program>>
    BY <1>3, StackMoves DEF Inv, Apply, weaverVars, clientVars, policyVars
  <2>3. LockedOf(t) = {} /\ LockedOf(stack[w]) = {} /\ Taking(t) /\ ~ Taking(stack[w])
        /\ ~ Taken(t) /\ ~ Taken(stack[w])
    BY <1>1, <1>4 DEF LockedOf, Taking, Taken
  <2>4. owner \in [Mutexes -> Workers \cup {Nobody}] /\ "weaver" \in Mutexes
        /\ "weaver" \notin Jobs \cup Workers
    BY ActorsAssumption DEF Inv, Typed, Mutexes
  <2>5. LockInv'
    BY <2>1, <2>2, <2>3, <2>4, LockKept DEF Inv, Mutexes
  <2>6. HeldInv'
    <3>1. held[w] = NoJob
      BY <1>4 DEF Inv, HeldInv
    <3> QED
      BY <1>1, <2>2, <3>1, HeldKept DEF Inv
  <2>7. ActiveInv'
    BY <2>2, <2>3, ActiveKept DEF Inv
  <2>8. TakeInv'
    <3>1. Runnable' = Runnable
      BY <2>2 DEF Runnable, CanRun, Blocks
    <3> QED
      BY <2>1, <3>1 DEF Inv, TakeInv
  <2> QED
    BY <2>5, <2>6, <2>7, <2>8
<1> QED
  BY <1>7, <1>8, <1>9 DEF Inv

(* What a thread may hold, and what a mutex it needs says.                 *)
LEMMA LockFacts ==
  ASSUME Typed, Shapes, LockInv, NEW w \in Workers, stack[w] # <<>>
  PROVE  /\ \A c \in Jobs : owner[c] = w <=> c \in LockedOf(stack[w])
         /\ Nobody \notin Workers /\ "weaver" \notin Jobs \cup Workers
         /\ Workers \cap Jobs = {}
         /\ owner \in [Mutexes -> Workers \cup {Nobody}]
         /\ Jobs \subseteq Mutexes /\ Workers \subseteq Mutexes /\ "weaver" \in Mutexes
         /\ Taken(stack[w]) => owner["weaver"] # w
  BY ActorsAssumption DEF LockInv, Mutexes, Taken, Typed, Actors

(* What a step inside of one call does to the stack.                       *)
LEMMA GotoIs ==
  ASSUME Typed, NEW w \in Workers, stack[w] # <<>>, NEW place \in Places, Goto(w, place)
  PROVE  LET f == [Top(w) EXCEPT !.at = place]
         IN  /\ f \in FrameSet /\ f.at = place /\ f.of = Top(w).of /\ f.by = Top(w).by
             /\ f.k = Top(w).k /\ f.kept = Top(w).kept
             /\ stack' = [stack EXCEPT ![w] = <<f>> \o Tail(stack[w])]
<1>1. Top(w) \in FrameSet
  BY StackIs DEF Typed, Actors, Top
<1>2. stack' = [stack EXCEPT ![w] = <<[Top(w) EXCEPT !.at = place]>> \o Tail(stack[w])]
  BY DEF Goto, Become, Typed
<1> QED
  BY <1>1, <1>2 DEF FrameSet

(* A thread stores the pointer to its job.                                 *)
LEMMA StoreKeeps ==
  ASSUME Inv, NEW w \in Workers, Store(w)
  PROVE  Inv'
<1> DEFINE f == [Top(w) EXCEPT !.at = "execute"]
           t == <<f>> \o Tail(stack[w])
<1>1. stack[w] # <<>> /\ Top(w).at = "store" /\ Goto(w, "execute")
      /\ held' = [held EXCEPT ![w] = Top(w).of]
      /\ UNCHANGED <<clientVars, owner, assignments, active, working, jobVars, coll, policyVars>>
  BY DEF Store, At, Is
<1>2. /\ stack[w] \in Seq(FrameSet) /\ Top(w) = stack[w][1] /\ Top(w) \in FrameSet
      /\ Alone(stack[w]) /\ Main[w] = Top(w) /\ ClearingOf(stack[w]) = {}
  BY <1>1, TopShape DEF Inv, AlonePlaces
<1>3. f \in FrameSet /\ f.at = "execute" /\ f.of = Top(w).of
      /\ stack' = [stack EXCEPT ![w] = t]
  BY <1>1, GotoIs DEF Inv, Places
<1> HIDE DEF f
<1>4. /\ t \in Seq(FrameSet) /\ Shaped(t) /\ MainOf(t) = f /\ ClearingOf(t) = {}
      /\ t # <<>> /\ t[1] = f /\ Len(t) = 1
  BY <1>2, <1>3, AloneMoves DEF AlonePlaces
<1> HIDE DEF t
<1>5. Goes(w, t)
  BY <1>3, <1>4 DEF Goes
<1>6. JobsKept /\ coll' = coll
  BY <1>1 DEF JobsKept, jobVars, clientVars, policyVars
<1>7. JobInv' /\ Shapes' /\ StartInv'
  BY <1>1, <1>2, <1>3, <1>4, <1>5, <1>6, MovesOnly DEF Inv, Own, Reporting
<1>8. Top(w).of \in Jobs
  BY <1>1, <1>2 DEF Inv, JobInv, MainInvs, MainOK, Own
<1>9. /\ stack'[w] = t /\ \A v \in Workers : v # w => stack'[v] = stack[v]
      /\ stack' \in [Actors -> Seq(FrameSet)] /\ \A u \in Users : stack'[u] = <<>>
  BY <1>5, StackMoves DEF Inv
<1>10. Typed'
  BY <1>1, <1>8, <1>9 DEF Inv, Typed, jobVars, clientVars, policyVars
<1>11. LockedOf(t) = {} /\ LockedOf(stack[w]) = {} /\ ~ Taking(t) /\ ~ Taking(stack[w])
       /\ Taken(t) /\ Taken(stack[w])
  BY <1>1, <1>2, <1>3, <1>4 DEF LockedOf, Taking, Taken
<1>12. LockInv'
  BY <1>1, <1>9, <1>11, LockKept, LockFacts DEF Inv
<1>13. HeldInv'
  <2>1. \A v \in Workers : v # w => held'[v] = held[v]
    BY <1>1 DEF Inv, Typed
  <2> QED
    BY <1>3, <1>4, <1>9, <2>1, HeldKept DEF Inv
<1>14. ActiveInv'
  BY <1>1, <1>9, <1>11, ActiveKept DEF Inv
<1>15. TakeInv'
  BY <1>1, <1>9, <1>11, TakeKept DEF Inv, policyVars, clientVars
<1> QED
  BY <1>7, <1>10, <1>12, <1>13, <1>14, <1>15 DEF Inv

(* A thread drops the pointer to its job.                                  *)
LEMMA ClearKeeps ==
  ASSUME Inv, NEW w \in Workers, Clear(w)
  PROVE  Inv'
<1> DEFINE f == [Top(w) EXCEPT !.at = "report"]
           t == <<f>> \o Tail(stack[w])
<1>1. stack[w] # <<>> /\ Top(w).at = "clear" /\ Goto(w, "report")
      /\ held' = [held EXCEPT ![w] = NoJob]
      /\ UNCHANGED <<clientVars, owner, assignments, active, working, jobVars, coll, policyVars>>
  BY DEF Clear, At, Is
<1>2. /\ stack[w] \in Seq(FrameSet) /\ Top(w) = stack[w][1] /\ Top(w) \in FrameSet
      /\ Alone(stack[w]) /\ Main[w] = Top(w) /\ ClearingOf(stack[w]) = {}
  BY <1>1, TopShape DEF Inv, AlonePlaces
<1>3. f \in FrameSet /\ f.at = "report" /\ stack' = [stack EXCEPT ![w] = t]
  BY <1>1, GotoIs DEF Inv, Places
<1> HIDE DEF f
<1>4. /\ t \in Seq(FrameSet) /\ Shaped(t) /\ MainOf(t) = f /\ ClearingOf(t) = {}
      /\ t # <<>> /\ t[1] = f /\ Len(t) = 1
  BY <1>2, <1>3, AloneMoves DEF AlonePlaces
<1> HIDE DEF t
<1>5. Goes(w, t)
  BY <1>3, <1>4 DEF Goes
<1>6. JobsKept /\ coll' = coll
  BY <1>1 DEF JobsKept, jobVars, clientVars, policyVars
<1>7. JobInv' /\ Shapes' /\ StartInv'
  BY <1>1, <1>2, <1>3, <1>4, <1>5, <1>6, MovesOnly DEF Inv, Own, Reporting
<1>8. /\ stack'[w] = t /\ \A v \in Workers : v # w => stack'[v] = stack[v]
      /\ stack' \in [Actors -> Seq(FrameSet)] /\ \A u \in Users : stack'[u] = <<>>
  BY <1>5, StackMoves DEF Inv
<1>9. Typed'
  BY <1>1, <1>8 DEF Inv, Typed, jobVars, clientVars, policyVars
<1>10. LockedOf(t) = {} /\ LockedOf(stack[w]) = {} /\ ~ Taking(t) /\ ~ Taking(stack[w])
       /\ Taken(t) /\ Taken(stack[w])
  BY <1>1, <1>2, <1>3, <1>4 DEF LockedOf, Taking, Taken
<1>11. LockInv'
  BY <1>1, <1>8, <1>10, LockKept, LockFacts DEF Inv
<1>12. HeldInv'
  <2>1. held'[w] = NoJob /\ \A v \in Workers : v # w => held'[v] = held[v]
    BY <1>1 DEF Inv, Typed
  <2> QED
    BY <1>4, <1>8, <2>1, HeldKept DEF Inv
<1>13. ActiveInv'
  BY <1>1, <1>8, <1>10, ActiveKept DEF Inv
<1>14. TakeInv'
  BY <1>1, <1>8, <1>10, TakeKept DEF Inv, policyVars, clientVars
<1> QED
  BY <1>7, <1>9, <1>11, <1>12, <1>13, <1>14 DEF Inv

(* A thread reports that its job is done.                                  *)
LEMMA ReportKeeps ==
  ASSUME Inv, NEW w \in Workers, Report(w)
  PROVE  Inv'
<1> DEFINE t == Tail(stack[w])
<1>1. stack[w] # <<>> /\ Top(w).at = "report" /\ Return(w) /\ active' = active - 1
      /\ UNCHANGED <<clientVars, owner, assignments, working, held, jobVars, coll, policyVars>>
      /\ owner["weaver"] = Nobody
  BY DEF Report, At, Is, Needs
<1>2. /\ stack[w] \in Seq(FrameSet) /\ Top(w) = stack[w][1] /\ Top(w) \in FrameSet
      /\ Alone(stack[w]) /\ Main[w] = Top(w) /\ ClearingOf(stack[w]) = {}
  BY <1>1, TopShape DEF Inv, AlonePlaces
<1>3. t = <<>> /\ t \in Seq(FrameSet) /\ stack' = [stack EXCEPT ![w] = t]
  BY <1>1, <1>2, AloneReturns DEF Return
<1> HIDE DEF t
<1>4. MainOf(t) = None /\ ClearingOf(t) = {} /\ Shaped(t) /\ Goes(w, t)
  BY <1>3, EmptyStack DEF Goes
<1>5. JobsKept /\ coll' = coll
  BY <1>1 DEF JobsKept, jobVars, clientVars, policyVars
<1>6. JobInv' /\ Shapes' /\ StartInv'
  <2>1. MainOf(t).at \notin Own \cup Reporting /\ Main[w].at \notin Own \cup Reporting
    BY <1>1, <1>2, <1>4 DEF Own, Reporting, None, Frame
  <2> QED
    BY <1>2, <1>3, <1>4, <1>5, <2>1, MovesOnly DEF Inv
<1>7. /\ stack'[w] = t /\ \A v \in Workers : v # w => stack'[v] = stack[v]
      /\ stack' \in [Actors -> Seq(FrameSet)] /\ \A u \in Users : stack'[u] = <<>>
  BY <1>4, StackMoves DEF Inv
<1>8. Typed'
  BY <1>1, <1>7 DEF Inv, Typed, jobVars, clientVars, policyVars
<1>9. LockedOf(t) = {} /\ LockedOf(stack[w]) = {} /\ ~ Taking(t) /\ ~ Taking(stack[w])
       /\ ~ Taken(t) /\ Taken(stack[w])
  BY <1>1, <1>2, <1>3 DEF LockedOf, Taking, Taken
<1>10. LockInv'
  BY <1>1, <1>7, <1>9, LockKept, LockFacts DEF Inv
<1>11. HeldInv'
  <2>1. held[w] = NoJob
    BY <1>1, <1>2 DEF Inv, HeldInv, Alone
  <2> QED
    BY <1>1, <1>3, <1>7, <2>1 DEF Inv, HeldInv
<1>12. ActiveInv'
  BY <1>1, <1>7, <1>9, ActiveKept DEF Inv
<1>13. TakeInv'
  BY <1>1, <1>7, <1>9, TakeKept DEF Inv, policyVars, clientVars
<1> QED
  BY <1>6, <1>8, <1>10, <1>11, <1>12, <1>13 DEF Inv

(* elementStarted() unlocks and returns.                                   *)
LEMMA StartedUnlockKeeps ==
  ASSUME Inv, NEW w \in Workers, StartedUnlock(w)
  PROVE  Inv'
<1> DEFINE s == stack[w]
           t == Tail(stack[w])
           j == s[Len(s)].of
<1>1. s # <<>> /\ Top(w).at = "startedUnlock" /\ Return(w)
      /\ owner' = [owner EXCEPT ![Top(w).of] = Nobody]
      /\ UNCHANGED <<clientVars, weaverVars, jobVars, coll, policyVars>>
  BY DEF StartedUnlock, At, Is, Release
<1>2. /\ s \in Seq(FrameSet) /\ Top(w) = s[1] /\ Top(w) \in FrameSet
      /\ Beginning(s) /\ Main[w] = s[Len(s)] /\ ClearingOf(s) = {}
  BY <1>1, TopShape DEF Inv
<1>3. Len(s) = 2 /\ s[2].at = "setRunning" /\ s[Len(s)] = s[2]
  BY <1>1, <1>2 DEF Beginning
<1>4. Begins(s)
  BY <1>1, <1>3 DEF Inv, StartInv
<1>5. IsCollection(j) /\ s[1].of = j /\ coll[j].jobsStarted > 0 /\ j \in Jobs
  <2>1. IsCollection(j) /\ s[1].of = j /\ coll[j].jobsStarted > 0
    BY <1>1, <1>2, <1>3, <1>4 DEF Begins
  <2> QED
    BY <2>1, FamilyFacts DEF Inv, IsCollection
<1>6. /\ t \in Seq(FrameSet) /\ Shaped(t) /\ MainOf(t) = MainOf(s) /\ t # <<>>
      /\ ClearingOf(t) = ClearingOf(s)
      /\ Len(t) = 1 /\ t[1] = s[2]
  BY <1>2, <1>3, BeginningReturns
<1>7. stack' = [stack EXCEPT ![w] = t]
  BY <1>1 DEF Return
<1>8. MainOf(s) = Main[w]
  BY DEF Main
<1>9. Begins(t)
  <2>1. t[Len(t)].of = j
    BY <1>3, <1>6
  <2> HIDE DEF t, j
  <2> QED
    BY <1>5, <1>6, <2>1 DEF Begins
<1> HIDE DEF s, t, j
<1>10. Goes(w, t)
  BY <1>6, <1>7 DEF Goes
<1>11. JobsKept /\ coll' = coll
  BY <1>1 DEF JobsKept, weaverVars, jobVars, clientVars, policyVars
<1>12. JobInv' /\ Shapes' /\ StartInv'
  BY <1>6, <1>8, <1>9, <1>10, <1>11, MovesOnly DEF Inv, s
<1>13. /\ stack'[w] = t /\ \A v \in Workers : v # w => stack'[v] = stack[v]
       /\ stack' \in [Actors -> Seq(FrameSet)] /\ \A u \in Users : stack'[u] = <<>>
  BY <1>10, StackMoves DEF Inv
<1>14. LockedOf(t) = {} /\ LockedOf(stack[w]) = {j} /\ Taken(t) /\ Taken(stack[w])
       /\ t[Len(t)].at = "setRunning"
  BY <1>1, <1>2, <1>3, <1>5, <1>6 DEF LockedOf, Taken, s
<1>15. owner' \in [Mutexes -> Workers \cup {Nobody}]
       /\ \A m \in Mutexes : owner'[m] = IF m = j THEN Nobody ELSE owner[m]
  BY <1>1, <1>2, <1>5, LockFacts DEF Inv, s
<1>16. Typed'
  BY <1>1, <1>13, <1>15 DEF Inv, Typed, weaverVars, jobVars, clientVars, policyVars
<1>17. ThreadInv'
  <2>1. /\ \A c \in Jobs : owner'[c] = IF c \in LockedOf(t) THEN w
                             ELSE IF c \in LockedOf(stack[w]) THEN Nobody ELSE owner[c]
        /\ \A m \in Workers \cup {"weaver"} : owner'[m] = owner[m]
    BY <1>1, <1>5, <1>14, <1>15, LockFacts DEF Inv, s
  <2> QED
    BY <1>1, <1>13, <1>14, <1>15, <2>1, ThreadKept
       DEF Inv, ThreadInv, weaverVars, policyVars, clientVars
<1> QED
  BY <1>12, <1>16, <1>17 DEF Inv, ThreadInv

Locks(w, t) ==
  /\ owner' \in [Mutexes -> Workers \cup {Nobody}]
  /\ \A c \in LockedOf(t) : owner[c] \in {w, Nobody}
  /\ \A c \in Jobs : owner'[c] = IF c \in LockedOf(t) THEN w
                       ELSE IF c \in LockedOf(stack[w]) THEN Nobody ELSE owner[c]
  /\ \A m \in Workers \cup {"weaver"} : owner'[m] = owner[m]

(* A mutex is locked, unlocked or left alone, as the stack says.           *)
LEMMA LocksIs ==
  ASSUME Typed, Shapes, LockInv, NEW w \in Workers, stack[w] # <<>>, NEW t
  PROVE  /\ owner' = owner /\ LockedOf(t) = LockedOf(stack[w]) /\ LockedOf(t) \subseteq Jobs
              => Locks(w, t)
         /\ \A c \in Jobs : /\ owner' = [owner EXCEPT ![c] = w]
                            /\ owner[c] = Nobody \/ c \in LockedOf(stack[w])
                            /\ LockedOf(t) = {c} /\ LockedOf(stack[w]) \subseteq {c}
              => Locks(w, t)
         /\ \A c \in Jobs : /\ owner' = [owner EXCEPT ![c] = Nobody]
                            /\ owner[c] = Nobody \/ c \in LockedOf(stack[w])
                            /\ LockedOf(t) = {} /\ LockedOf(stack[w]) \subseteq {c}
              => Locks(w, t)
<1>1. /\ \A c \in Jobs : owner[c] = w <=> c \in LockedOf(stack[w])
      /\ Nobody \notin Workers /\ "weaver" \notin Jobs \cup Workers
      /\ Workers \cap Jobs = {}
      /\ owner \in [Mutexes -> Workers \cup {Nobody}]
      /\ Jobs \subseteq Mutexes /\ Workers \subseteq Mutexes /\ "weaver" \in Mutexes
  BY LockFacts
<1>2. owner' = owner /\ LockedOf(t) = LockedOf(stack[w]) /\ LockedOf(t) \subseteq Jobs
        => Locks(w, t)
  BY <1>1 DEF Locks
<1>3. ASSUME NEW c \in Jobs, owner' = [owner EXCEPT ![c] = w], LockedOf(t) = {c},
             owner[c] = Nobody \/ c \in LockedOf(stack[w]), LockedOf(stack[w]) \subseteq {c}
      PROVE  Locks(w, t)
  BY <1>1, <1>3 DEF Locks
<1>4. ASSUME NEW c \in Jobs, owner' = [owner EXCEPT ![c] = Nobody], LockedOf(t) = {},
             owner[c] = Nobody \/ c \in LockedOf(stack[w]), LockedOf(stack[w]) \subseteq {c}
      PROVE  Locks(w, t)
  BY <1>1, <1>4 DEF Locks
<1> QED
  BY <1>2, <1>3, <1>4

(* A thread calls or returns, with no more than a mutex of a collection    *)
(* taken or released.                                                      *)
LEMMA CallsKeep ==
  ASSUME Inv, NEW w \in Workers, NEW t, Goes(w, t), Taken(stack[w]), Taken(t),
         MainOf(t) = Main[w], ClearingOf(t) = ClearingOf(stack[w]), Locks(w, t),
         t[Len(t)].at \notin {"take", "store", "report", "setRunning"},
         UNCHANGED <<clientVars, weaverVars, jobVars, coll, policyVars>>
  PROVE  Inv'
<1>1. JobsKept /\ coll' = coll
  BY DEF JobsKept, weaverVars, jobVars, clientVars, policyVars
<1>2. JobInv' /\ Shapes' /\ StartInv'
  BY <1>1, MovesOnly DEF Inv
<1>3. /\ stack'[w] = t /\ \A v \in Workers : v # w => stack'[v] = stack[v]
      /\ stack' \in [Actors -> Seq(FrameSet)] /\ \A u \in Users : stack'[u] = <<>>
  BY StackMoves DEF Inv
<1>4. Typed'
  BY <1>3 DEF Inv, Typed, weaverVars, jobVars, clientVars, policyVars, Locks
<1>5. ThreadInv'
  BY <1>3, ThreadKept DEF Inv, ThreadInv, Locks, weaverVars, policyVars, clientVars
<1> QED
  BY <1>2, <1>4, <1>5 DEF Inv, ThreadInv

(* The mutex that a stack which ends a job stands for.                     *)
LEMMA EndingFacts ==
  ASSUME NEW s \in Seq(FrameSet), Ending(s)
  PROVE  /\ s # <<>> /\ s[Len(s)].at = "clear" /\ Taken(s)
         /\ s[1].at \in {"finished", "callEnd", "restore", "clearSelf", "stop", "stopDequeue",
                         "stopElements"} => LockedOf(s) = {}
         /\ s[1].at \in {"enqueue", "process", "stopElement"} => LockedOf(s) = {s[1].of}
<1>1. s # <<>>
  BY EndingStack
<1>2. s[1].at \in EndPlaces \cup {"clearSelf"} \cup StopPlaces
  BY DEF Ending, EndPlaces
<1>3. s[Len(s)].at = "clear"
  BY DEF Ending, EndingFrom
<1> QED
  BY <1>1, <1>2, <1>3 DEF Taken, LockedOf, EndPlaces, StopPlaces

(* stop() is called for a collection that counts elements.                 *)
LEMMA StopFacts ==
  ASSUME Inv, NEW w \in Workers, stack[w] # <<>>, Top(w).at \in StopPlaces
  PROVE  LET c == Top(w).of
         IN  /\ c \in DOMAIN coll /\ c \in Jobs /\ ~ Queued(c)
             /\ Main[w].at = "restore" /\ Main[w].of = c
             /\ coll[c].jobCounter = Cardinality(Remaining(c)) /\ coll[c].jobCounter > 0
             /\ Main[w].by \in Remaining(c)
             /\ \A v \in Workers : ~ Itself(v, c, {"finished", "enqueue"})
<1>1. Main[w].at = "restore" /\ Main[w].of = Top(w).of
  BY TopShape DEF Inv
<1>2. LET c == Main[w].of
          e == Main[w].by
      IN  /\ c \in DOMAIN coll /\ e \in Remaining(c) /\ e \in Jobs
          /\ coll[c].jobCounter = Cardinality(Remaining(c)) /\ coll[c].jobCounter > 0
          /\ \A v \in Workers : ~ Itself(v, c, {"finished", "enqueue"})
  BY <1>1, ReportingFacts DEF Inv, Reporting
<1> QED
  BY <1>1, <1>2, CountingFacts, FamilyFacts DEF Inv

(* stop() finds out whether there is something to dequeue.                 *)
LEMMA StopKeeps ==
  ASSUME Inv, NEW w \in Workers, Stop(w) \/ StopDequeue(w) \/ StopElements(w)
  PROVE  Inv'
<1> DEFINE s == stack[w]
           c == Top(w).of
           f == [Top(w) EXCEPT !.at = IF Top(w).at = "stop" THEN "stopDequeue" ELSE
                               IF Top(w).at = "stopDequeue" THEN "stopElements" ELSE "stopElement"]
           moved == <<f>> \o Tail(s)
           returned == Tail(s)
<1>1. /\ s # <<>> /\ Top(w).at \in {"stop", "stopDequeue", "stopElements"}
      /\ Top(w).at = "stop" => Stop(w)
      /\ Top(w).at = "stopDequeue" => StopDequeue(w)
      /\ Top(w).at = "stopElements" => StopElements(w)
      /\ Top(w).at \in {"stop", "stopElements"} => owner[c] = Nobody
      /\ UNCHANGED <<clientVars, weaverVars, jobVars, coll, policyVars>>
  BY DEF Stop, StopDequeue, StopElements, At, Is, Needs
<1>2. /\ s \in Seq(FrameSet) /\ Top(w) = s[1] /\ Top(w) \in FrameSet
      /\ Ending(s) /\ s[1].at \in StopPlaces
  BY <1>1, TopShape DEF Inv, StopPlaces
<1>3. c \in Jobs /\ ~ Queued(c)
  BY <1>1, <1>2, StopFacts
<1>4. f \in FrameSet /\ f.at \in StopPlaces /\ f.of = c
      /\ (Top(w).at = "stopElements" => f.at = "stopElement")
      /\ (Top(w).at # "stopElements" => f.at \in {"stopDequeue", "stopElements"})
  BY <1>1, <1>2 DEF FrameSet, Places, StopPlaces
<1>5. \/ /\ stack' = [stack EXCEPT ![w] = moved]
         /\ owner' = IF Top(w).at = "stopElements" THEN [owner EXCEPT ![c] = w] ELSE owner
      \/ stack' = [stack EXCEPT ![w] = returned] /\ owner' = owner
  BY <1>1, <1>3 DEF Stop, StopDequeue, StopElements, Goto, Become, Return, Hold, Inv, Typed
<1> HIDE DEF f, c
<1>6. /\ moved \in Seq(FrameSet) /\ Ending(moved) /\ MainOf(moved) = MainOf(s)
      /\ ClearingOf(moved) = ClearingOf(s) /\ moved[1] = f
  BY <1>2, <1>4, StopMoves DEF c
<1>7. /\ returned \in Seq(FrameSet) /\ Ending(returned) /\ MainOf(returned) = MainOf(s)
      /\ ClearingOf(returned) = ClearingOf(s) /\ returned[1] = s[2] /\ s[2].at = "restore"
  BY <1>2, StopReturns, EndingStack
<1>8. MainOf(s) = Main[w]
  BY DEF Main
<1>9. LockedOf(s) = {} /\ Taken(s)
  BY <1>1, <1>2, EndingFacts
<1>10. CASE stack' = [stack EXCEPT ![w] = moved]
            /\ owner' = IF Top(w).at = "stopElements" THEN [owner EXCEPT ![c] = w] ELSE owner
  <2> HIDE DEF moved
  <2>1. /\ Taken(moved) /\ moved[Len(moved)].at = "clear" /\ Goes(w, moved)
        /\ LockedOf(moved) = IF Top(w).at = "stopElements" THEN {c} ELSE {}
    BY <1>4, <1>6, <1>10, EndingFacts, EndingStack DEF Goes
  <2> HIDE DEF s
  <2>2. Locks(w, moved)
    BY <1>1, <1>3, <1>9, <1>10, <2>1, LocksIs DEF Inv, s
  <2> QED
    BY <1>1, <1>6, <1>8, <1>9, <2>1, <2>2, CallsKeep DEF s
<1>11. CASE stack' = [stack EXCEPT ![w] = returned] /\ owner' = owner
  <2>1. /\ Taken(returned) /\ returned[Len(returned)].at = "clear" /\ Goes(w, returned)
        /\ LockedOf(returned) = {}
    BY <1>7, <1>11, EndingFacts, EndingStack DEF Goes
  <2> HIDE DEF s, returned
  <2>2. Locks(w, returned)
    BY <1>1, <1>9, <1>11, <2>1, LocksIs DEF Inv, s
  <2> QED
    BY <1>1, <1>7, <1>8, <1>9, <2>1, <2>2, CallsKeep DEF s
<1> QED
  BY <1>5, <1>10, <1>11

(* A set of natural numbers has a least one.                               *)
LEMMA LeastNatural ==
  ASSUME NEW S \in SUBSET Nat, S # {}
  PROVE  \E i \in S : \A k \in S : i <= k
<1> DEFINE R == OpToRel(<, Nat)
<1>1. IsWellFoundedOn(R, Nat)
  BY NatLessThanWellFounded
<1>2. \A i, k \in Nat : <<k, i>> \notin R => i <= k
  BY DEF OpToRel
<1> HIDE DEF R
<1>3. PICK i \in S : \A k \in S : <<k, i>> \notin R
  BY <1>1, WFMin
<1>4. ASSUME NEW k \in S PROVE i <= k
  <2>1. k \in Nat /\ i \in Nat
    OBVIOUS
  <2>2. <<k, i>> \notin R
    BY <1>3
  <2> QED
    BY <1>2, <2>1, <2>2
<1> QED
  BY <1>4

(* The first job that can run is taken out of the queue.                   *)
LEMMA TakenJob ==
  ASSUME Typed, QueueInv, Runnable # {}
  PROVE  LET i == FirstRunnable
             j == assignments[i]
             rest == RemoveAt(assignments, i)
         IN  /\ i \in DOMAIN assignments /\ j \in Jobs /\ Queued(j) /\ CanRun(j)
             /\ rest \in Seq(Jobs) /\ Distinct(rest)
             /\ \A x : x \in ToSet(rest) <=> Queued(x) /\ x # j
<1> DEFINE i == FirstRunnable
<1>1. Runnable \subseteq DOMAIN assignments /\ DOMAIN assignments = 1..Len(assignments)
      /\ assignments \in Seq(Jobs)
  BY DEF Runnable, Typed
<1>2. \E k \in Runnable : \A m \in Runnable : k <= m
  BY <1>1, LeastNatural
<1>3. i \in Runnable
  BY <1>2 DEF FirstRunnable
<1>4. i \in 1..Len(assignments) /\ assignments[i] \in Jobs /\ Queued(assignments[i])
      /\ CanRun(assignments[i])
  BY <1>1, <1>3 DEF Runnable, Queued, ToSet
<1> HIDE DEF i
<1>5. /\ \A x : Occurs(RemoveAt(assignments, i), x) <=> Occurs(assignments, x)
                                                        /\ x # assignments[i]
      /\ Distinct(RemoveAt(assignments, i))
  BY <1>1, <1>4, RemoveAtOccurs DEF QueueInv
<1>6. RemoveAt(assignments, i) \in Seq(Jobs)
  BY <1>1, <1>4, RemoveAtProperties
<1>7. \A s : \A x : Occurs(s, x) <=> x \in ToSet(s)
  BY DEF Occurs, ToSet
<1> QED
  BY <1>1, <1>4, <1>5, <1>6, <1>7 DEF i, Queued

(* A job goes from the queue into the hands of a thread.                   *)
LEMMA TakeJob ==
  ASSUME Typed, Shapes, JobInv, NEW w \in Workers, NEW j \in Jobs, NEW f \in FrameSet,
         Main' = [Main EXCEPT ![w] = f], f.at = "store", f.of = j,
         Main[w].at \notin Own \cup Reporting, Clearing' = Clearing,
         Queued(j), Distinct(assignments'),
         \A x : Queued(x)' <=> Queued(x) /\ x # j,
         customers' \subseteq customers \cup {j},
         UNCHANGED <<program, status, begun, ended, coll>>
  PROVE  JobInv'
<1>1. /\ status[j] = "Queued" /\ Fresh(j) /\ j \notin Tokens /\ j \notin customers
      /\ DOMAIN Main = Workers
  BY DEF JobInv, QueueInv, Main
<1>2. Main'[w] = f /\ \A v \in Workers : v # w => Main'[v] = Main[v]
  BY <1>1
<1>3. \A v \in Workers : \A x : Bears(v, x)' <=> Bears(v, x) \/ (v = w /\ x = j)
  BY <1>2 DEF Bears, TokenOf, Own, Reporting
<1>4. Tokens' = Tokens \cup {j}
  BY <1>3 DEF Tokens
<1>5. \A x : /\ Kids(x)' = Kids(x)
             /\ Unopened(x)' <=> Unopened(x)
             /\ Fresh(x)' <=> Fresh(x)
             /\ IsCollection(x)' <=> IsCollection(x)
             /\ Closed(x)' <=> Closed(x)
             /\ Ended(x)' <=> Ended(x)
             /\ Executing(x)' <=> Executing(x)
  BY DEF Kids, Unopened, Fresh, IsCollection, Closed, Ended, Executing
<1>6. \A x : Live(x)' <=> Live(x)
  BY <1>4, <1>5 DEF Live
<1>7. \A v \in Workers : \A c : \A P \in SUBSET Reporting : Itself(v, c, P)' <=> Itself(v, c, P)
  BY <1>2 DEF Itself, Own, Reporting
<1>8. OneToken'
  BY <1>1, <1>3 DEF JobInv, OneToken, Tokens
<1>9. QueueInv'
  <2>1. \A x \in Jobs : x \in ToSet(assignments') <=> Queued(x) /\ x # j
    BY DEF Queued
  <2>2. \A x \in Jobs : Queued(x)' => status[x] = "Queued"
    BY <2>1 DEF JobInv, QueueInv
  <2>3. \A x \in Jobs : status[x] = "New" => ~ Queued(x)' /\ x # j
    BY <1>1, <2>1 DEF JobInv, QueueInv
  <2>4. \A x \in Jobs : Queued(x)' \/ status[x] = "New" =>
          Fresh(x)' /\ x \notin Tokens' /\ x \notin customers'
    BY <1>1, <1>4, <1>5, <2>3 DEF JobInv, QueueInv
  <2> QED
    BY <2>2, <2>3, <2>4 DEF QueueInv
<1>10. MainInvs'
  <2>1. \A g : MainOK(g) => MainOK(g)'
    BY <1>5 DEF MainOK, Unopened, Executing
  <2>2. MainOK(f)'
    BY <1>1, <1>5 DEF MainOK, Own, Reporting, Fresh
  <2> QED
    BY <1>2, <2>1, <2>2 DEF JobInv, MainInvs
<1>11. CountInv'
  <2>1. \A c \in DOMAIN coll : Remaining(c)' = Remaining(c)
    BY <1>6, <1>7 DEF Remaining, Reporting
  <2> QED
    BY <1>7, <2>1 DEF JobInv, CountInv, Reporting
<1>12. CollInv'
  <2> SUFFICES ASSUME NEW c \in DOMAIN coll PROVE CollOK(c)'
    BY DEF CollInv
  <2>1. CollOK(c)
    BY DEF JobInv, CollInv
  <2>2. \A v \in Workers : \A at \in {"setRunning", "run", "end", "callEnd"} :
          (Main'[v].at = at /\ Main'[v].of = c) <=> (Main[v].at = at /\ Main[v].of = c)
    BY <1>2 DEF Own, Reporting
  <2>3. \A v \in Workers : Itself(v, c, {"finished"})' <=> Itself(v, c, {"finished"})
    BY <1>7 DEF Reporting
  <2> QED
    BY <2>1, <2>2, <2>3 DEF CollOK, Family
<1>13. \A c : Opening(c)' <=> Opening(c) \/ c = j
  BY <1>2, <1>7 DEF Opening, Own, Reporting
<1>14. ClearInv'
  BY <1>1, <1>5, <1>13 DEF JobInv, ClearInv, Over, Final
<1>15. DoneInv'
  BY <1>4, <1>5 DEF JobInv, DoneInv
<1>16. CustomersInv'
  BY <1>1, <1>4, <1>5 DEF JobInv, CustomersInv, Fresh
<1> QED
  BY <1>8, <1>9, <1>10, <1>11, <1>12, <1>14, <1>15, <1>16 DEF JobInv

(* A thread takes the first job that can run.                              *)
LEMMA TakeKeeps ==
  ASSUME Inv, NEW w \in Workers, Take(w)
  PROVE  Inv'
<1> DEFINE i == FirstRunnable
           j == assignments[i]
           f == Frame("store", j, j)
           t == <<f>> \o Tail(stack[w])
<1>1. /\ stack[w] # <<>> /\ Top(w).at = "take"
      /\ assignments' = RemoveAt(assignments, i)
      /\ customers' = customers \cup ({j} \cap program.restricted)
      /\ Become(w, f) /\ active' = active + 1 /\ owner' = [owner EXCEPT !["weaver"] = Nobody]
      /\ UNCHANGED <<clientVars, working, held, jobVars, coll, blocked, dependencies>>
  BY DEF Take, At, Is, Release
<1>2. /\ stack[w] \in Seq(FrameSet) /\ Top(w) = stack[w][1] /\ Top(w) \in FrameSet
      /\ Alone(stack[w]) /\ Main[w] = Top(w) /\ ClearingOf(stack[w]) = {}
  BY <1>1, TopShape DEF Inv, AlonePlaces
<1>3. /\ j \in Jobs /\ Queued(j)
      /\ assignments' \in Seq(Jobs) /\ Distinct(assignments')
      /\ \A x : Queued(x)' <=> Queued(x) /\ x # j
  <2>1. Runnable # {}
    BY <1>1, <1>2 DEF Inv, TakeInv
  <2> HIDE DEF f, t
  <2>2. /\ j \in Jobs /\ Queued(j)
        /\ RemoveAt(assignments, i) \in Seq(Jobs) /\ Distinct(RemoveAt(assignments, i))
        /\ \A x : x \in ToSet(RemoveAt(assignments, i)) <=> Queued(x) /\ x # j
    BY <2>1, TakenJob DEF Inv, JobInv
  <2> HIDE DEF i, j
  <2> QED
    BY <1>1, <2>2 DEF Queued
<1> HIDE DEF i, j
<1>4. f \in FrameSet /\ f.at = "store" /\ f.of = j /\ stack' = [stack EXCEPT ![w] = t]
  BY <1>1, <1>3 DEF FrameSet, Places, Statuses, Frame, Become, Inv, Typed
<1> HIDE DEF f
<1>5. /\ t \in Seq(FrameSet) /\ Shaped(t) /\ MainOf(t) = f /\ ClearingOf(t) = {}
      /\ t # <<>> /\ t[1] = f /\ Len(t) = 1
  BY <1>2, <1>4, AloneMoves DEF AlonePlaces
<1> HIDE DEF t
<1>6. Goes(w, t)
  BY <1>4, <1>5 DEF Goes
<1>7. /\ Main' = [Main EXCEPT ![w] = f] /\ Clearing' = Clearing /\ Shapes'
      /\ stack'[w] = t /\ \A v \in Workers : v # w => stack'[v] = stack[v]
      /\ stack' \in [Actors -> Seq(FrameSet)] /\ \A u \in Users : stack'[u] = <<>>
  <2>1. Clearing' = Clearing
    BY <1>2, <1>5, <1>6, ClearingKept DEF Inv
  <2> QED
    BY <1>5, <1>6, <2>1, StackMoves DEF Inv
<1>8. JobInv'
  <2>1. Main[w].at \notin Own \cup Reporting
    BY <1>1, <1>2 DEF Own, Reporting
  <2>2. customers' \subseteq customers \cup {j}
    BY <1>1
  <2> QED
    BY <1>1, <1>3, <1>4, <1>7, <2>1, <2>2, TakeJob DEF Inv, clientVars, jobVars
<1>9. StartInv'
  <2>1. \A c \in DOMAIN coll : ToSet(coll[c].elements) \subseteq Kids(c)
    BY ElementFacts DEF Inv, JobInv
  <2> QED
    BY <1>1, <1>4, <1>5, <1>6, <1>7, <2>1, StartKept DEF Inv, JobInv, clientVars
<1>10. Typed'
  <2>1. IsFiniteSet(customers') /\ customers' \subseteq program.restricted
    BY <1>1, FS_Union, FS_Subset, FS_Singleton DEF Inv, Typed
  <2>2. owner' \in [Mutexes -> Workers \cup {Nobody}]
    BY <1>1, LockFacts DEF Inv
  <2>3. active' \in Int
    BY <1>1 DEF Inv, Typed
  <2> QED
    BY <1>1, <1>3, <1>7, <2>1, <2>2, <2>3 DEF Inv, Typed, clientVars, jobVars
<1>11. LockedOf(t) = {} /\ LockedOf(stack[w]) = {} /\ ~ Taking(t) /\ Taking(stack[w])
       /\ Taken(t) /\ ~ Taken(stack[w])
  BY <1>1, <1>2, <1>4, <1>5 DEF LockedOf, Taking, Taken
<1>12. owner["weaver"] = w
  BY <1>1, <1>2 DEF Inv, LockInv
<1>13. LockInv'
  <2>1. /\ owner' \in [Mutexes -> Workers \cup {Nobody}]
        /\ owner'["weaver"] = Nobody
        /\ \A c \in Jobs \cup Workers : owner'[c] = owner[c]
    BY <1>1, LockFacts DEF Inv
  <2> QED
    BY <1>7, <1>11, <2>1, LockKept DEF Inv
<1>14. HeldInv'
  <2>1. held[w] = NoJob
    BY <1>1, <1>2 DEF Inv, HeldInv, Alone
  <2> QED
    BY <1>1, <1>5, <1>7, <2>1, HeldKept DEF Inv
<1>15. ActiveInv'
  BY <1>1, <1>7, <1>11, ActiveKept DEF Inv
<1>16. TakeInv'
  BY <1>1, <1>7, <1>11, <1>12, TakeKept DEF Inv, clientVars
<1> QED
  BY <1>7, <1>8, <1>9, <1>10, <1>13, <1>14, <1>15, <1>16 DEF Inv

(* What holds of a job in the hands of a thread.                           *)
LEMMA OwnFacts ==
  ASSUME Typed, Shapes, JobInv, NEW w \in Workers, Main[w].at \in Own
  PROVE  LET j == Main[w].of
         IN  /\ j \in Jobs /\ Bears(w, j) /\ j \in Tokens /\ MainOK(Main[w])
             /\ status[j] # "New" /\ ~ Queued(j) /\ ended[j] = 0
             /\ Main[w].at # "callEnd" => j \notin Clearing
             /\ IsCollection(j) =>
                  j \in DOMAIN coll /\ coll[j].jobCounter = 0 /\ Remaining(j) = {}
             /\ \A v \in Workers : v # w => ~ Bears(v, j)
             /\ \A v \in Workers : v # w /\ Main[v].at \in Own \cup Reporting => Main[v].of # j
             /\ \A c \in DOMAIN coll : j \in Kids(c) => ~ Unopened(c)
<1> DEFINE j == Main[w].of
<1>1. MainOK(Main[w]) /\ Bears(w, j) /\ j \in Jobs
  BY BearsIs DEF JobInv, MainInvs, MainOK
<1>2. j \in Tokens /\ ended[j] = 0 /\ ~ Queued(j) /\ status[j] # "New"
  BY <1>1 DEF Tokens, JobInv, QueueInv, MainOK
<1>3. \A v \in Workers : v # w => ~ Bears(v, j)
  BY <1>1 DEF JobInv, OneToken
<1>4. Main[w].at # "callEnd" => j \notin Clearing
  BY DEF JobInv, ClearInv, Over, Opening
<1>5. IsCollection(j) => j \in DOMAIN coll /\ coll[j].jobCounter = 0 /\ Remaining(j) = {}
  <2> SUFFICES ASSUME j \in DOMAIN coll PROVE coll[j].jobCounter = 0 /\ Remaining(j) = {}
    BY DEF IsCollection
  <2>1. coll[j].jobCounter = 0
    BY <1>1 DEF MainOK, Own, Fresh, Executing, Closed, IsCollection
  <2>2. \A v \in Workers : ~ Itself(v, j, {"finished", "enqueue"})
    <3> SUFFICES ASSUME NEW v \in Workers, Itself(v, j, {"finished", "enqueue"}) PROVE FALSE
      OBVIOUS
    <3>1. Bears(v, j) /\ Main[v].at \notin Own
      BY BearsIs DEF Itself, Reporting, Own
    <3> QED
      BY <1>3, <3>1
  <2>3. coll[j].jobCounter = Cardinality(Remaining(j))
    BY <2>2 DEF JobInv, CountInv
  <2> QED
    BY <2>1, <2>3, RemainingFacts DEF JobInv
<1>6. ASSUME NEW v \in Workers, v # w, Main[v].at \in Own \cup Reporting, Main[v].of = j
      PROVE  FALSE
  <2>1. Main[v].at \in Reporting /\ Main[v].by # j
    BY <1>3, <1>6, BearsIs
  <2> QED
    BY <1>5, <1>6, <2>1, ReportingFacts DEF IsCollection
<1>7. \A c \in DOMAIN coll : j \in Kids(c) => ~ Unopened(c)
  BY <1>2 DEF Unopened
<1> QED
  BY <1>1, <1>2, <1>3, <1>4, <1>5, <1>6, <1>7

(* What keeps what is said of a call.                                      *)
Untouched(g) ==
  /\ program' = program
  /\ g.at \in Own \cup Reporting =>
       /\ status'[g.of] = status[g.of] /\ ended'[g.of] = ended[g.of]
       /\ Fresh(g.of) => Fresh(g.of)'
       /\ Closed(g.of) => Closed(g.of)'
       /\ IsCollection(g.of) =>
            /\ Executing(g.of) => Executing(g.of)'
            /\ Unopened(g.of) => Unopened(g.of)'
            /\ coll'[g.of].elements = coll[g.of].elements
            /\ coll'[g.of].self = coll[g.of].self
            /\ coll'[g.of].selfIsExecuting = coll[g.of].selfIsExecuting
            /\ g.at = "enqueue" => coll'[g.of].jobCounter = coll[g.of].jobCounter
  /\ g.at \in Reporting => (Ended(g.by) => Ended(g.by)')
  /\ IsCollection(g.of)' <=> IsCollection(g.of)

(* A main call is as right as before if its jobs are untouched.            *)
LEMMA UntouchedKept ==
  ASSUME NEW g, MainOK(g), Untouched(g)
  PROVE  MainOK(g)'
BY DEF MainOK, Untouched, Own, Reporting

(* A step of one thread with one job, and perhaps with the collection that *)
(* the job is an element of: the thread keeps the job.                     *)
LEMMA OneJobKept ==
  ASSUME Typed, Shapes, JobInv, NEW w \in Workers, Main[w].at \in Own,
         NEW j \in Jobs, j = Main[w].of,
         NEW f \in FrameSet, Main' = [Main EXCEPT ![w] = f],
         \/ f.at \in Own /\ f.of = j
         \/ f.at = "finished" /\ f.by = j,
         UNCHANGED <<program, assignments>>, customers' \subseteq customers,
         Clearing' = Clearing, j \in Clearing => Over(j)',
         \A x \in Jobs \ {j} : /\ status'[x] = status[x] /\ begun'[x] = begun[x]
                               /\ ended'[x] = ended[x],
         status'[j] # "New", ended'[j] = 0 \/ j \notin customers',
         DOMAIN coll' = DOMAIN coll,
         \A c \in DOMAIN coll \ {j} :
           /\ coll'[c].elements = coll[c].elements /\ coll'[c].self = coll[c].self
           /\ coll'[c].selfIsExecuting = coll[c].selfIsExecuting
           /\ coll'[c].jobCounter = coll[c].jobCounter
           /\ \/ coll'[c].jobsStarted = coll[c].jobsStarted
              \/ coll'[c].jobsStarted > 0 /\ ~ Unopened(c),
         IsCollection(j) =>
           /\ coll'[j].jobCounter = coll[j].jobCounter /\ CollOK(j)'
           /\ \A e \in ToSet(coll'[j].elements) :
                e \in Jobs \ {j} /\ (e \in ToSet(coll[j].elements) \/ status[e] = "New"),
         MainOK(f)'
  PROVE  JobInv'
<1>1. /\ Bears(w, j) /\ j \in Tokens
      /\ status[j] # "New" /\ ~ Queued(j)
      /\ IsCollection(j) => j \in DOMAIN coll /\ coll[j].jobCounter = 0 /\ Remaining(j) = {}
      /\ \A v \in Workers : v # w => ~ Bears(v, j)
      /\ \A v \in Workers : v # w /\ Main[v].at \in Own \cup Reporting => Main[v].of # j
      /\ \A c \in DOMAIN coll : j \in Kids(c) => ~ Unopened(c)
  BY OwnFacts
<1>2. Main'[w] = f /\ \A v \in Workers : v # w => Main'[v] = Main[v]
  BY DEF Main
<1>3. \A v \in Workers : \A x : Bears(v, x)' <=> Bears(v, x)
  <2>1. \A x : Bears(w, x)' <=> x = j
    BY <1>2 DEF Bears, TokenOf, Own, Reporting
  <2>2. \A x : Bears(w, x) <=> x = j
    BY DEF Bears, TokenOf, Own, Reporting
  <2> QED
    BY <1>2, <2>1, <2>2 DEF Bears
<1>4. Tokens' = Tokens
  BY <1>3 DEF Tokens
<1>5. /\ \A x : Kids(x)' = Kids(x)
      /\ \A x \in DOMAIN coll : Unopened(x)' <=> Unopened(x)
      /\ \A x : Queued(x)' <=> Queued(x)
      /\ \A x : IsCollection(x)' <=> IsCollection(x)
  <2>1. \A x : Kids(x)' = Kids(x)
    BY DEF Kids
  <2>2. ASSUME NEW x \in DOMAIN coll PROVE Unopened(x)' <=> Unopened(x)
    <3>1. Kids(x) \subseteq Jobs
      BY FamilyFacts
    <3>2. \A e \in Kids(x) : status'[e] = "New" <=> status[e] = "New"
      BY <1>1, <3>1
    <3> QED
      BY <2>1, <3>2 DEF Unopened
  <2> QED
    BY <2>1, <2>2 DEF Queued, IsCollection
<1>6. \A x : Live(x)' <=> Live(x)
  BY <1>4, <1>5 DEF Live, IsCollection
<1>7. ASSUME NEW x \in Jobs, x # j
      PROVE  /\ Fresh(x) => Fresh(x)'
             /\ Closed(x)' <=> Closed(x)
             /\ Ended(x)' <=> Ended(x)
             /\ IsCollection(x) => (Executing(x)' <=> Executing(x))
  <2>1. IsCollection(x) => /\ coll'[x].elements = coll[x].elements /\ coll'[x].self = coll[x].self
                           /\ coll'[x].selfIsExecuting = coll[x].selfIsExecuting
                           /\ coll'[x].jobCounter = coll[x].jobCounter
                           /\ coll'[x].jobsStarted = coll[x].jobsStarted \/ ~ Unopened(x)
                           /\ Unopened(x)' <=> Unopened(x)
    BY <1>5, <1>7 DEF IsCollection
  <2>2. status'[x] = status[x] /\ begun'[x] = begun[x] /\ ended'[x] = ended[x]
        /\ (IsCollection(x)' <=> IsCollection(x)) /\ program' = program
    BY <1>5, <1>7
  <2>3. Closed(x)' <=> Closed(x)
    BY <2>1, <2>2 DEF Closed
  <2> QED
    BY <2>1, <2>2, <2>3 DEF Fresh, Ended, Executing
<1>8. \A v \in Workers : \A c : \A P \in SUBSET Reporting :
        c # j => (Itself(v, c, P)' <=> Itself(v, c, P))
  BY <1>2 DEF Itself, Own, Reporting
<1>9. OneToken'
  BY <1>3 DEF JobInv, OneToken
<1>10. QueueInv'
  <2>1. Distinct(assignments')
    BY DEF JobInv, QueueInv
  <2>2. \A x \in Jobs : Queued(x)' => status'[x] = "Queued"
    BY <1>1, <1>5 DEF JobInv, QueueInv
  <2>3. \A x \in Jobs : Queued(x)' \/ status'[x] = "New" =>
          Fresh(x)' /\ x \notin Tokens' /\ x \notin customers'
    BY <1>1, <1>4, <1>5, <1>7 DEF JobInv, QueueInv
  <2>4. \A x \in Jobs : status'[x] = "New" => ~ Queued(x)'
    BY <1>1, <1>5 DEF JobInv, QueueInv
  <2> QED
    BY <2>1, <2>2, <2>3, <2>4 DEF QueueInv
<1>11. MainInvs'
  <2> SUFFICES ASSUME NEW v \in Workers, v # w PROVE MainOK(Main[v])'
    BY <1>2 DEF MainInvs
  <2> DEFINE g == Main[v]
  <2>1. MainOK(g) /\ Main'[v] = g
    BY <1>2 DEF JobInv, MainInvs
  <2>2. /\ g.at \in Own \cup Reporting => g.of # j
        /\ g.at \in Reporting => g.by # j /\ g.by \in Jobs /\ g.of \in DOMAIN coll
        /\ g.at \in Own => g.of \in Jobs
    BY <1>1, <2>1, BearsIs DEF MainOK, IsCollection
  <2>3. g.of \in DOMAIN coll => g.of \in Jobs
    BY FamilyFacts
  <2>4. Untouched(g)
    BY <1>5, <1>7, <2>2, <2>3 DEF Untouched, IsCollection
  <2>5. \A h : h = g => MainOK(h)'
    BY <2>1, <2>4, UntouchedKept
  <2> QED
    BY <2>1, <2>5
<1>12. CountInv'
  <2> SUFFICES ASSUME NEW c \in DOMAIN coll
               PROVE  \/ \E v \in Workers : Itself(v, c, {"finished", "enqueue"})'
                      \/ coll'[c].jobCounter = Cardinality(Remaining(c)')
    BY DEF CountInv
  <2>1. CASE c # j
    <3>1. Remaining(c)' = Remaining(c)
      BY <1>6, <1>8, <2>1 DEF Remaining, Reporting
    <3> QED
      BY <1>8, <2>1, <3>1 DEF JobInv, CountInv, Reporting
  <2>2. CASE c = j /\ f.at = "finished" /\ f.of = j
    BY <1>2, <2>2 DEF Itself, Own
  <2>3. CASE c = j /\ ~ (f.at = "finished" /\ f.of = j)
    <3>1. IsCollection(j) /\ coll'[j].jobCounter = 0 /\ Remaining(j) = {}
      BY <1>1, <2>3 DEF IsCollection
    <3>2. \A e \in ToSet(coll'[j].elements) : ~ Live(e)'
      <4>1. \A e \in ToSet(coll[j].elements) : ~ Live(e)
        BY <3>1 DEF Remaining
      <4>2. \A e \in Jobs : status[e] = "New" => ~ Live(e)
        BY NewIsNotLive DEF JobInv
      <4> QED
        BY <1>6, <3>1, <4>1, <4>2
    <3>3. \A v \in Workers : ~ Itself(v, j, {"finished", "process", "restore"})'
      BY <1>1, <1>2, <2>3 DEF Itself, Own, Reporting
    <3>4. Remaining(j)' = {}
      BY <3>2, <3>3 DEF Remaining
    <3> QED
      BY <2>3, <3>1, <3>4, FS_EmptySet
  <2> QED
    BY <2>1, <2>2, <2>3
<1>13. CollInv'
  <2> SUFFICES ASSUME NEW c \in DOMAIN coll, c # j PROVE CollOK(c)'
    BY DEF CollInv, IsCollection
  <2>1. CollOK(c)
    BY DEF JobInv, CollInv
  <2>2. \A v \in Workers : \A at \in {"setRunning", "run", "end", "callEnd"} :
          (Main'[v].at = at /\ Main'[v].of = c) <=> (Main[v].at = at /\ Main[v].of = c)
    BY <1>2 DEF Own, Reporting
  <2>3. \A v \in Workers : Itself(v, c, {"finished"})' <=> Itself(v, c, {"finished"})
    BY <1>8 DEF Reporting
  <2>4. c \in Jobs /\ status'[c] = status[c] /\ ended'[c] = ended[c]
    BY FamilyFacts
  <2>5. /\ coll'[c].elements = coll[c].elements /\ coll'[c].self = coll[c].self
        /\ coll'[c].selfIsExecuting = coll[c].selfIsExecuting
        /\ coll'[c].jobCounter = coll[c].jobCounter
        /\ coll'[c].jobsStarted = coll[c].jobsStarted \/ coll'[c].jobsStarted > 0
    OBVIOUS
  <2> QED
    BY <2>1, <2>2, <2>3, <2>4, <2>5 DEF CollOK, Family
<1>14. \A c : c # j => (Opening(c)' <=> Opening(c))
  BY <1>2, <1>8 DEF Opening, Own, Reporting, Itself
<1>15. ClearInv'
  <2> SUFFICES ASSUME NEW c \in Clearing, c # j PROVE Over(c)'
    BY DEF ClearInv
  <2>1. Over(c) /\ c \in Jobs
    BY FamilyFacts DEF JobInv, ClearInv, Over, IsCollection
  <2> QED
    BY <1>5, <1>7, <1>14, <2>1 DEF Over
<1>16. DoneInv'
  BY <1>1, <1>4, <1>5, <1>7 DEF JobInv, DoneInv, IsCollection
<1>17. CustomersInv'
  <2> SUFFICES ASSUME NEW x \in customers'
               PROVE  \/ x \in Tokens' /\ ended'[x] = 0
                      \/ IsCollection(x)' /\ coll'[x].jobCounter > 0
    BY DEF CustomersInv
  <2>1. x \in customers /\ x \in Jobs
    BY ProgramsAssumption DEF Typed
  <2>2. \/ x \in Tokens /\ ended[x] = 0
        \/ IsCollection(x) /\ coll[x].jobCounter > 0
    BY <2>1 DEF JobInv, CustomersInv
  <2>3. CASE x = j
    BY <1>1, <1>4, <2>3
  <2>4. CASE x # j
    BY <1>4, <1>5, <2>1, <2>2, <2>4 DEF IsCollection
  <2> QED
    BY <2>3, <2>4
<1> QED
  BY <1>9, <1>10, <1>11, <1>12, <1>13, <1>15, <1>16, <1>17 DEF JobInv

(* What a step within the execution of a job leaves to show, besides what  *)
(* it does to the jobs.                                                    *)
CollectionsGrow ==
  /\ coll' \in [DOMAIN program.elements -> CollSet]
  /\ \A c \in DOMAIN coll : /\ ToSet(coll[c].elements) \subseteq ToSet(coll'[c].elements)
                            /\ ToSet(coll'[c].elements) \subseteq Kids(c)

(* The parts about threads, of a step of a thread that keeps its job: what *)
(* is left to show is what is said of jobs.                                *)
LEMMA StepKeeps ==
  ASSUME Inv, NEW w \in Workers, NEW t, Goes(w, t), Taken(stack[w]), Taken(t), Locks(w, t),
         t[Len(t)].at \notin {"take", "store", "report"},
         UNCHANGED <<program, script, active, working, held, shouldAbort>>,
         assignments' \in Seq(Jobs), status' \in [Jobs -> Statuses],
         begun' \in [Jobs -> Nat], ended' \in [Jobs -> Nat],
         CollectionsGrow, blocked' \subseteq Jobs,
         dependencies' \subseteq dependencies, customers' \subseteq customers,
         \/ owner["weaver"] = Nobody
         \/ assignments' = assignments /\ blocked' \cap ToSet(assignments) \subseteq blocked,
         t[Len(t)].at = "setRunning" => Begins(t)',
         \A v \in Workers : v # w /\ Main[v].at = "setRunning" =>
           \A c \in DOMAIN coll : c = Main[v].of => coll'[c].jobsStarted = coll[c].jobsStarted,
         JobInv'
  PROVE  Inv'
<1>1. /\ Shapes' /\ stack'[w] = t /\ \A v \in Workers : v # w => stack'[v] = stack[v]
      /\ stack' \in [Actors -> Seq(FrameSet)] /\ \A u \in Users : stack'[u] = <<>>
  BY StackMoves DEF Inv
<1>2. Typed'
  <2>1. IsFiniteSet(customers') /\ customers' \subseteq program.restricted
    BY FS_Subset DEF Inv, Typed
  <2> QED
    BY <1>1, <2>1 DEF Inv, Typed, Locks, CollectionsGrow
<1>3. StartInv'
  <2>1. DOMAIN coll' = DOMAIN coll
    BY DEF CollectionsGrow, Inv, Typed
  <2> QED
    BY <1>1, <2>1, StartKept DEF Inv, JobInv, CollectionsGrow
<1>4. ThreadInv'
  BY <1>1, ThreadKept DEF Inv, ThreadInv, Locks
<1> QED
  BY <1>1, <1>2, <1>3, <1>4 DEF Inv, ThreadInv

(* What a call does to the stack.                                          *)
LEMMA CallIs ==
  ASSUME Typed, NEW w \in Workers, stack[w] # <<>>, NEW place \in Places,
         NEW at \in Places, NEW of \in Jobs, NEW by \in Jobs, Call(w, Frame(at, of, by), place)
  PROVE  LET f == [Top(w) EXCEPT !.at = place]
             g == Frame(at, of, by)
         IN  /\ f \in FrameSet /\ f.at = place /\ f.of = Top(w).of /\ f.by = Top(w).by
             /\ g \in FrameSet /\ g.at = at /\ g.of = of /\ g.by = by
             /\ stack' = [stack EXCEPT ![w] = <<g, f>> \o Tail(stack[w])]
<1>1. Top(w) \in FrameSet
  BY StackIs DEF Typed, Actors, Top
<1>2. stack' = [stack EXCEPT ![w] = <<Frame(at, of, by), [Top(w) EXCEPT !.at = place]>>
                                      \o Tail(stack[w])]
  BY DEF Call, Typed, Top
<1> QED
  BY <1>1, <1>2 DEF FrameSet, Frame, Statuses

(* When collections count, their elements stay.                            *)
LEMMA CollectionsStay ==
  ASSUME Typed, CollInv
  PROVE  /\ coll' = coll => CollectionsGrow
         /\ /\ coll' \in [DOMAIN program.elements -> CollSet]
            /\ \A c \in DOMAIN coll : coll'[c].elements = coll[c].elements
            => CollectionsGrow
BY ElementFacts, FamilyFacts DEF CollectionsGrow, Typed

(* execute(): the job begins, and a collection takes a reference to        *)
(* itself.                                                                 *)
LEMMA ExecuteKeeps ==
  ASSUME Inv, NEW w \in Workers, Execute(w)
  PROVE  Inv'
<1>j. PICK j : j = Top(w).of
  OBVIOUS
<1>b. PICK calls \in BOOLEAN : calls <=> IsCollection(j) \/ HasParent(j)
  OBVIOUS
<1>c. PICK c : c = IF IsCollection(j) THEN j ELSE ParentOf(j)
  OBVIOUS
<1>f. PICK f : f = [Top(w) EXCEPT !.at = "setRunning"]
  OBVIOUS
<1>g. PICK g : g = Frame("started", c, j)
  OBVIOUS
<1>t. PICK t : t = IF calls THEN <<g, f>> \o Tail(stack[w]) ELSE <<f>> \o Tail(stack[w])
  OBVIOUS
<1>1. /\ stack[w] # <<>> /\ Top(w).at = "execute"
      /\ IsCollection(j) =>
           /\ coll' = [coll EXCEPT ![j].self = TRUE, ![j].selfIsExecuting = TRUE]
           /\ begun' = begun
      /\ ~ IsCollection(j) =>
           /\ coll' = coll
           /\ begun' = [begun EXCEPT ![j] = @ + IF HasParent(j) THEN 2 ELSE 1]
      /\ calls => Call(w, g, "setRunning")
      /\ ~ calls => Goto(w, "setRunning")
      /\ UNCHANGED <<clientVars, owner, weaverVars, status, shouldAbort, ended, policyVars>>
  BY <1>j, <1>b, <1>c, <1>g DEF Execute, At, Is
<1>2. /\ stack[w] \in Seq(FrameSet) /\ Top(w) = stack[w][1] /\ Top(w) \in FrameSet
      /\ Alone(stack[w]) /\ Main[w] = Top(w) /\ ClearingOf(stack[w]) = {}
  BY <1>1, TopShape DEF Inv, AlonePlaces
<1>3. /\ j \in Jobs /\ Main[w].at \in Own /\ j = Main[w].of
      /\ status[j] = "Queued" /\ Fresh(j) /\ j \notin Clearing /\ ended[j] = 0
      /\ IsCollection(j) => j \in DOMAIN coll /\ coll[j].jobCounter = 0
  BY <1>j, <1>1, <1>2, OwnFacts, SMTT(30) DEF Inv, MainOK, Own
<1>4. calls => c \in Jobs
  BY <1>b, <1>c, <1>3, ParentFacts, FamilyFacts DEF Inv, JobInv
<1>5. f \in FrameSet /\ f.at = "setRunning" /\ f.of = j
  BY <1>j, <1>f, <1>2 DEF FrameSet, Places
<1>6. calls => g \in FrameSet /\ g.at = "started" /\ g.of = c
               /\ stack' = [stack EXCEPT ![w] = <<g, f>> \o Tail(stack[w])]
  <2> SUFFICES ASSUME calls PROVE g \in FrameSet /\ g.at = "started" /\ g.of = c
               /\ stack' = [stack EXCEPT ![w] = <<g, f>> \o Tail(stack[w])]
    OBVIOUS
  <2>1. Call(w, Frame("started", c, j), "setRunning")
    BY <1>g, <1>1
  <2>2. "started" \in Places /\ "setRunning" \in Places /\ Typed
    BY DEF Places, Inv
  <2>3. /\ Frame("started", c, j) \in FrameSet
        /\ stack' = [stack EXCEPT ![w] =
                       <<Frame("started", c, j), [Top(w) EXCEPT !.at = "setRunning"]>>
                         \o Tail(stack[w])]
    BY <1>1, <1>3, <1>4, <2>1, <2>2, CallIs
  <2> QED
    BY <1>f, <1>g, <2>3 DEF Frame
<1>7. ~ calls => stack' = [stack EXCEPT ![w] = <<f>> \o Tail(stack[w])]
  BY <1>f, <1>1, GotoIs DEF Inv, Places
<1>8. /\ t \in Seq(FrameSet) /\ Shaped(t) /\ MainOf(t) = f /\ ClearingOf(t) = {}
      /\ t # <<>> /\ t[Len(t)] = f /\ t[1].at \in {"started", "setRunning"}
      /\ calls => Len(t) = 2 /\ t[1] = g /\ t[2] = f
      /\ ~ calls => Len(t) = 1 /\ t[1] = f
  <2>1. CASE calls
    <3>1. t = <<g, f>> \o Tail(stack[w])
      BY <1>t, <2>1
    <3>2. /\ t \in Seq(FrameSet) /\ Beginning(t) /\ MainOf(t) = f /\ ClearingOf(t) = {}
          /\ Len(t) = 2 /\ t[1] = g /\ t[2] = f
      BY <1>2, <1>5, <1>6, <2>1, <3>1, AloneBegins
    <3> QED
      BY <1>6, <2>1, <3>2, BeginningStack
  <2>2. CASE ~ calls
    BY <1>t, <1>2, <1>5, <2>2, AloneMoves DEF AlonePlaces
  <2> QED
    BY <2>1, <2>2
<1>9. stack' = [stack EXCEPT ![w] = t]
  BY <1>t, <1>6, <1>7
<1>10. Goes(w, t) /\ Taken(t) /\ Taken(stack[w]) /\ LockedOf(t) = {} /\ LockedOf(stack[w]) = {}
  <2>1. Goes(w, t) /\ Taken(t) /\ Taken(stack[w]) /\ LockedOf(stack[w]) = {}
    BY <1>1, <1>2, <1>8, <1>9 DEF Goes, Taken, LockedOf
  <2>2. LockedOf(t) = {}
    BY <1>5, <1>6, <1>8 DEF LockedOf
  <2> QED
    BY <2>1, <2>2
<1>11. Locks(w, t)
  BY <1>1, <1>10, LocksIs DEF Inv
<1>12. Clearing' = Clearing
  <2>1. ClearingOf(t) = ClearingOf(stack[w])
    BY <1>2, <1>8
  <2> QED
    BY <1>10, <2>1, ClearingKept DEF Inv
<1>13. Main' = [Main EXCEPT ![w] = f]
  BY <1>8, <1>10, StackMoves DEF Inv
<1>14. /\ DOMAIN coll' = DOMAIN coll /\ coll' \in [DOMAIN program.elements -> CollSet]
       /\ \A d \in DOMAIN coll :
            /\ d # j => coll'[d] = coll[d]
            /\ coll'[d].elements = coll[d].elements /\ coll'[d].jobCounter = coll[d].jobCounter
            /\ coll'[d].jobsStarted = coll[d].jobsStarted
            /\ d = j => coll'[d].self /\ coll'[d].selfIsExecuting
  <2>1. coll \in [DOMAIN program.elements -> CollSet]
    BY DEF Inv, Typed
  <2>2. CASE IsCollection(j)
    <3>1. j \in DOMAIN program.elements /\ coll[j] \in CollSet
      BY <2>1, <2>2 DEF IsCollection
    <3>2. coll' = [coll EXCEPT ![j] = [coll[j] EXCEPT !.self = TRUE, !.selfIsExecuting = TRUE]]
      BY <1>1, <2>1, <2>2
    <3> PICK r : r = [coll[j] EXCEPT !.self = TRUE, !.selfIsExecuting = TRUE]
      OBVIOUS
    <3>3. /\ r \in CollSet /\ r.self /\ r.selfIsExecuting /\ r.elements = coll[j].elements
          /\ r.jobCounter = coll[j].jobCounter /\ r.jobsStarted = coll[j].jobsStarted
      BY <3>1 DEF CollSet
    <3>4. coll' = [coll EXCEPT ![j] = r]
      BY <3>2
    <3> QED
      BY <2>1, <3>1, <3>3, <3>4
  <2>3. CASE ~ IsCollection(j)
    BY <1>1, <2>1, <2>3 DEF IsCollection
  <2> QED
    BY <2>2, <2>3
<1>15. MainOK(f)'
  <2>1. IsCollection(j)' <=> IsCollection(j)
    BY <1>14 DEF IsCollection
  <2>2. IsCollection(j) => Executing(j)'
    <3>1. IsCollection(j) => Unopened(j)' /\ coll[j].jobCounter = 0
      BY <1>1, <1>3 DEF Fresh, Unopened, Kids, clientVars
    <3> QED
      BY <1>3, <1>14, <3>1 DEF Executing
  <2>3. status'[j] = "Queued" /\ ended'[j] = 0
    BY <1>1, <1>3
  <2>4. IsCollection(j) => coll'[j].elements = program'.elements[j]
    BY <1>1, <1>3, <1>14 DEF Fresh, clientVars
  <2> QED
    BY <1>3, <1>5, <2>1, <2>2, <2>3, <2>4 DEF MainOK, Own, Reporting
<1>16. IsCollection(j) => CollOK(j)'
  <2> SUFFICES ASSUME j \in DOMAIN coll PROVE CollOK(j)'
    BY DEF IsCollection
  <2>1. CollOK(j) /\ Main'[w].at = "setRunning" /\ Main'[w].of = j
    BY <1>5, <1>13 DEF Inv, JobInv, CollInv, Main
  <2> QED
    <3>1. /\ coll'[j].jobCounter = 0 /\ coll'[j].elements = coll[j].elements
          /\ coll'[j].selfIsExecuting
          /\ program' = program /\ status'[j] = "Queued"
      BY <1>1, <1>3, <1>14 DEF IsCollection, clientVars
    <3>2. coll'[j].elements \in {program.elements[j], Family(program, j)}'
      BY <2>1, <3>1 DEF CollOK, Family
    <3>3. \E v \in Workers :
            \/ Main'[v].at \in {"setRunning", "run", "end"} /\ Main'[v].of = j
            \/ Itself(v, j, {"finished"})'
      BY <2>1
    <3> QED
      BY <3>1, <3>2, <3>3 DEF CollOK
<1>17. JobInv'
  <2>1. \A x \in Jobs \ {j} : status'[x] = status[x] /\ begun'[x] = begun[x] /\ ended'[x] = ended[x]
    BY <1>1 DEF Inv, Typed
  <2>2. IsCollection(j) => \A e \in ToSet(coll'[j].elements) :
                             e \in Jobs \ {j} /\ e \in ToSet(coll[j].elements)
    BY <1>3, <1>14, ElementFacts DEF Inv, JobInv
  <2>3. /\ UNCHANGED <<program, assignments>> /\ customers' \subseteq customers
        /\ status'[j] # "New" /\ ended'[j] = 0
    BY <1>1, <1>3 DEF clientVars, weaverVars, policyVars
  <2> QED
    BY <1>3, <1>5, <1>12, <1>13, <1>14, <1>15, <1>16, <2>1, <2>2, <2>3, OneJobKept, ZenonT(60)
       DEF Inv, Own
<1>18. Begins(t)'
  <2>1. ParentsOf(j)' = ParentsOf(j)
    BY <1>14 DEF ParentsOf
  <2>2. /\ IsCollection(j)' <=> IsCollection(j)
        /\ HasParent(j)' <=> HasParent(j)
        /\ ParentOf(j)' = ParentOf(j)
    BY <1>14, <2>1 DEF IsCollection, HasParent, ParentOf
  <2>3. t[Len(t)].of = j
    BY <1>5, <1>8
  <2>4. IsCollection(j) => coll'[j].jobsStarted = 0
    BY <1>3, <1>14 DEF Fresh
  <2> QED
    <3>1. CASE calls
      <4>1. Len(t) = 2 /\ t[1].of = c /\ t[1].at = "started"
        BY <1>6, <1>8, <3>1
      <4>2. IsCollection(j)' \/ HasParent(j)'
        BY <1>b, <2>2, <3>1
      <4>3. c = IF IsCollection(j)' THEN j ELSE ParentOf(j)'
        BY <1>c, <2>2
      <4>4. IsCollection(j)' => coll'[j].jobsStarted = 0
        BY <2>2, <2>4
      <4>5. t[1].of = IF IsCollection(j)' THEN j ELSE ParentOf(j)'
        BY <4>1, <4>3
      <4> QED
        BY <2>3, <4>1, <4>2, <4>4, <4>5 DEF Begins
    <3>2. CASE ~ calls
      <4>1. Len(t) = 1 /\ ~ IsCollection(j)'
        BY <1>b, <1>8, <2>2, <3>2
      <4> QED
        BY <2>3, <4>1 DEF Begins
    <3> QED
      BY <3>1, <3>2
<1>19. CollectionsGrow
  BY <1>14, CollectionsStay DEF Inv, JobInv
<1>20. begun' \in [Jobs -> Nat]
  <2>1. begun \in [Jobs -> Nat]
    BY DEF Inv, Typed
  <2> QED
    BY <1>1, <1>3, <2>1
<1>21. /\ UNCHANGED <<program, script, active, working, held, shouldAbort, assignments, status,
                      ended, blocked, dependencies, customers>>
       /\ t[Len(t)].at = "setRunning"
  BY <1>1, <1>5, <1>8 DEF clientVars, weaverVars, policyVars
<1> QED
  <2>1. /\ assignments' \in Seq(Jobs) /\ status' \in [Jobs -> Statuses]
        /\ ended' \in [Jobs -> Nat] /\ blocked' \subseteq Jobs
    BY <1>21 DEF Inv, Typed
  <2> QED
    BY <1>10, <1>11, <1>14, <1>17, <1>18, <1>19, <1>20, <1>21, <2>1, StepKeeps

(* A thread that has nothing but a job goes on with it.                    *)
LEMMA AloneStep ==
  ASSUME Inv, NEW w \in Workers, stack[w] # <<>>, Top(w).at \in Own \ {"callEnd"},
         NEW f \in FrameSet, NEW t, stack' = [stack EXCEPT ![w] = t],
         \/ f.at \in Own \ {"callEnd"} /\ t = <<f>> \o Tail(stack[w])
         \/ \E g \in FrameSet : /\ g.at = "clear" /\ f.at \in {"finished", "callEnd"}
                                /\ t = <<f, g>> \o Tail(stack[w])
  PROVE  /\ Main[w] = Top(w) /\ Main[w].at \in Own /\ Main[w].of \in Jobs
         /\ Goes(w, t) /\ Taken(stack[w]) /\ Taken(t)
         /\ owner' = owner => Locks(w, t)
         /\ Clearing' = Clearing /\ Main' = [Main EXCEPT ![w] = f]
         /\ \/ Len(t) = 1 /\ t[Len(t)] = f
            \/ t[Len(t)].at = "clear"
         /\ Len(stack[w]) = 1
<1>1. /\ stack[w] \in Seq(FrameSet) /\ Top(w) = stack[w][1] /\ Top(w) \in FrameSet
      /\ Alone(stack[w]) /\ Main[w] = Top(w) /\ ClearingOf(stack[w]) = {}
  BY TopShape DEF Inv, AlonePlaces, Own
<1>2. MainOK(Main[w]) /\ Main[w].at \in Own
  BY <1>1 DEF Inv, JobInv, MainInvs
<1>3. Main[w].of \in Jobs
  BY <1>2 DEF MainOK
<1>4. Taken(stack[w]) /\ LockedOf(stack[w]) = {} /\ Len(stack[w]) = 1
  BY <1>1 DEF Taken, LockedOf, Alone, Own
<1>5. /\ t \in Seq(FrameSet) /\ Shaped(t) /\ MainOf(t) = f /\ ClearingOf(t) = {} /\ Taken(t)
      /\ LockedOf(t) = {}
      /\ (Len(t) = 1 /\ t[Len(t)] = f) \/ t[Len(t)].at = "clear"
  <2>1. CASE f.at \in Own \ {"callEnd"} /\ t = <<f>> \o Tail(stack[w])
    <3>1. /\ t \in Seq(FrameSet) /\ Shaped(t) /\ MainOf(t) = f /\ ClearingOf(t) = {}
          /\ t # <<>> /\ t[1] = f /\ Len(t) = 1
      BY <1>1, <2>1, AloneMoves DEF Own, AlonePlaces
    <3> QED
      BY <2>1, <3>1 DEF Taken, LockedOf, Own
  <2>2. CASE \E g \in FrameSet : /\ g.at = "clear" /\ f.at \in {"finished", "callEnd"}
                                 /\ t = <<f, g>> \o Tail(stack[w])
    <3>1. /\ t \in Seq(FrameSet) /\ Ending(t) /\ MainOf(t) = f /\ ClearingOf(t) = {}
      BY <1>1, <2>2, AloneEnds DEF EndPlaces
    <3>2. Shaped(t) /\ t # <<>> /\ t[Len(t)].at = "clear" /\ Taken(t)
      BY <3>1, EndingStack, EndingFacts
    <3>3. t[1].at \notin StopPlaces => MainOf(t) = t[1]
      BY <3>1, EndingStack
    <3>4. t[1].at \in StopPlaces => MainOf(t).at = "restore"
      BY <3>1, EndingStack
    <3>5. LockedOf(t) = {}
      BY <2>2, <3>1, <3>2, <3>3, <3>4 DEF LockedOf, StopPlaces
    <3> QED
      BY <3>1, <3>2, <3>5
  <2> QED
    BY <2>1, <2>2
<1>6. Goes(w, t)
  BY <1>5 DEF Goes
<1>7. owner' = owner => Locks(w, t)
  BY <1>4, <1>5, LocksIs DEF Inv
<1>8. Clearing' = Clearing
  <2>1. ClearingOf(t) = ClearingOf(stack[w])
    BY <1>1, <1>5
  <2> QED
    BY <1>6, <2>1, ClearingKept DEF Inv
<1>9. Main' = [Main EXCEPT ![w] = f]
  BY <1>5, <1>6, StackMoves DEF Inv
<1> QED
  BY <1>1, <1>2, <1>3, <1>4, <1>5, <1>6, <1>7, <1>8, <1>9

(* The job is set to running.                                              *)
LEMMA SetRunningKeeps ==
  ASSUME Inv, NEW w \in Workers, SetRunning(w)
  PROVE  Inv'
<1>j. PICK j : j = Top(w).of
  OBVIOUS
<1>f. PICK f : f = [Top(w) EXCEPT !.at = "run"]
  OBVIOUS
<1>t. PICK t : t = <<f>> \o Tail(stack[w])
  OBVIOUS
<1>1. /\ stack[w] # <<>> /\ Top(w).at = "setRunning" /\ Goto(w, "run")
      /\ status' = [status EXCEPT ![j] = "Running"]
      /\ UNCHANGED <<clientVars, owner, weaverVars, shouldAbort, begun, ended, coll, policyVars>>
  BY <1>j DEF SetRunning, At, Is
<1>2. f \in FrameSet /\ f.at = "run" /\ f.of = j /\ stack' = [stack EXCEPT ![w] = t]
  BY <1>j, <1>f, <1>t, <1>1, GotoIs DEF Inv, Places
<1>3. /\ Main[w] = Top(w) /\ Main[w].at \in Own /\ Main[w].of \in Jobs
      /\ Goes(w, t) /\ Taken(stack[w]) /\ Taken(t) /\ Locks(w, t)
      /\ Clearing' = Clearing /\ Main' = [Main EXCEPT ![w] = f]
      /\ t[Len(t)].at \in {"clear", "run"} /\ Len(stack[w]) = 1
  <2>1. Top(w).at \in Own \ {"callEnd"} /\ f.at \in Own \ {"callEnd"}
    BY <1>1, <1>2 DEF Own
  <2>2. /\ Main[w] = Top(w) /\ Main[w].at \in Own /\ Main[w].of \in Jobs
        /\ Goes(w, t) /\ Taken(stack[w]) /\ Taken(t)
        /\ owner' = owner => Locks(w, t)
        /\ Clearing' = Clearing /\ Main' = [Main EXCEPT ![w] = f]
        /\ \/ Len(t) = 1 /\ t[Len(t)] = f
           \/ t[Len(t)].at = "clear"
        /\ Len(stack[w]) = 1
    BY <1>t, <1>1, <1>2, <2>1, AloneStep, ZenonT(60)
  <2> QED
    BY <1>1, <1>2, <2>2
<1>4. /\ j \in Jobs /\ j = Main[w].of /\ Main[w].at = "setRunning" /\ MainOK(Main[w])
      /\ j \notin Clearing /\ ended[j] = 0
      /\ IsCollection(j) => j \in DOMAIN coll /\ coll[j].jobCounter = 0
  BY <1>j, <1>1, <1>3, OwnFacts DEF Inv
<1>5. IsCollection(j) => coll[j].jobsStarted > 0
  <2>1. Begins(stack[w]) /\ stack[w][Len(stack[w])].of = j
    <3>1. stack[w][Len(stack[w])] = Top(w)
      BY <1>3 DEF Top
    <3> QED
      BY <1>j, <1>1, <3>1 DEF Inv, StartInv
  <2> QED
    BY <1>3, <2>1 DEF Begins
<1>6. /\ UNCHANGED <<program, script, active, working, held, shouldAbort, assignments,
                     begun, ended, coll, blocked, dependencies, customers>>
      /\ status' \in [Jobs -> Statuses] /\ status'[j] = "Running"
      /\ \A x \in Jobs \ {j} : status'[x] = status[x]
  <2>1. status \in [Jobs -> Statuses] /\ "Running" \in Statuses
    BY DEF Inv, Typed, Statuses
  <2> QED
    BY <1>1, <1>4, <2>1 DEF clientVars, weaverVars, policyVars
<1>7. \A c : (IsCollection(c)' <=> IsCollection(c)) /\ Kids(c)' = Kids(c)
  BY <1>6 DEF IsCollection, Kids
<1>8. MainOK(f)'
  <2>1. IsCollection(j) => Executing(j)' /\ coll[j].elements = program.elements[j]
    <3>1. IsCollection(j) => Executing(j) /\ coll[j].elements = program.elements[j]
      BY <1>4 DEF MainOK
    <3>2. IsCollection(j) => Unopened(j)'
      <4> SUFFICES ASSUME j \in DOMAIN coll PROVE Unopened(j)'
        BY DEF IsCollection
      <4>1. j \notin Kids(j) /\ Kids(j) \subseteq Jobs
        BY FamilyFacts DEF Inv
      <4> QED
        BY <1>6, <1>7, <3>1, <4>1 DEF Unopened, Executing, IsCollection
    <3> QED
      BY <1>6, <3>1, <3>2 DEF Executing
  <2> QED
    BY <1>2, <1>4, <1>6, <1>7, <2>1 DEF MainOK, Own, Reporting
<1>9. IsCollection(j) => CollOK(j)'
  <2> SUFFICES ASSUME j \in DOMAIN coll PROVE CollOK(j)'
    BY DEF IsCollection
  <2>1. CollOK(j) /\ Main'[w] = f
    BY <1>3 DEF Inv, JobInv, CollInv, Main
  <2>2. coll[j].jobCounter = 0 /\ coll[j].jobsStarted > 0 /\ coll' = coll /\ program' = program
    BY <1>4, <1>5, <1>6 DEF IsCollection
  <2>3. \E v \in Workers : \/ Main'[v].at \in {"setRunning", "run", "end"} /\ Main'[v].of = j
                           \/ Itself(v, j, {"finished"})'
    BY <1>2, <2>1
  <2>4. coll'[j].elements \in {program.elements[j], Family(program, j)}'
    BY <2>1, <2>2 DEF CollOK, Family
  <2>5. coll[j].selfIsExecuting
    BY <1>4 DEF MainOK, Executing, IsCollection
  <2> QED
    BY <2>2, <2>3, <2>4, <2>5 DEF CollOK
<1>10. JobInv'
  <2>1. IsCollection(j) => \A e \in ToSet(coll'[j].elements) :
                             e \in Jobs \ {j} /\ e \in ToSet(coll[j].elements)
    BY <1>4, <1>6, ElementFacts DEF Inv, JobInv
  <2> QED
    BY <1>2, <1>3, <1>4, <1>6, <1>8, <1>9, <2>1, OneJobKept DEF Inv, Own
<1>11. CollectionsGrow
  BY <1>6, CollectionsStay DEF Inv, JobInv
<1>12. /\ assignments' \in Seq(Jobs) /\ begun' \in [Jobs -> Nat]
       /\ ended' \in [Jobs -> Nat] /\ blocked' \subseteq Jobs
  BY <1>6 DEF Inv, Typed
<1> QED
  BY <1>3, <1>6, <1>10, <1>11, <1>12, StepKeeps

(* A job ends with a status: what calls it makes then.                     *)
LEMMA EndKeeps ==
  ASSUME Inv, NEW w \in Workers, End(w)
  PROVE  Inv'
<1>j. PICK j : j = Top(w).of
  OBVIOUS
<1>f. PICK f : f = Frame(IF IsCollection(j) THEN "finished" ELSE "callEnd", j, j)
  OBVIOUS
<1>g. PICK g : g = [Top(w) EXCEPT !.at = "clear"]
  OBVIOUS
<1>t. PICK t : t = <<f, g>> \o Tail(stack[w])
  OBVIOUS
<1>1. /\ stack[w] # <<>> /\ Top(w).at = "end"
      /\ Call(w, Frame(IF IsCollection(j) THEN "finished" ELSE "callEnd", j, j), "clear")
      /\ UNCHANGED <<clientVars, owner, weaverVars, jobVars, coll, policyVars>>
  BY <1>j DEF End, At, Is
<1>2. j \in Jobs
  <2>1. Main[w] = Top(w)
    BY <1>1, TopShape DEF Inv, AlonePlaces
  <2> QED
    BY <1>j, <1>1, <2>1, OwnFacts DEF Inv, Own
<1>3. /\ f \in FrameSet /\ f.at = IF IsCollection(j) THEN "finished" ELSE "callEnd"
      /\ f.of = j /\ f.by = j
      /\ g \in FrameSet /\ g.at = "clear" /\ stack' = [stack EXCEPT ![w] = t]
  <2>1. (IF IsCollection(j) THEN "finished" ELSE "callEnd") \in Places /\ "clear" \in Places
    BY DEF Places
  <2> PICK p : p = IF IsCollection(j) THEN "finished" ELSE "callEnd"
    OBVIOUS
  <2>2. /\ Frame(p, j, j) \in FrameSet
        /\ [Top(w) EXCEPT !.at = "clear"] \in FrameSet
        /\ [Top(w) EXCEPT !.at = "clear"].at = "clear"
        /\ stack' = [stack EXCEPT ![w] =
                       <<Frame(p, j, j), [Top(w) EXCEPT !.at = "clear"]>> \o Tail(stack[w])]
    BY <1>1, <1>2, <2>1, CallIs DEF Inv
  <2> QED
    BY <1>f, <1>g, <1>t, <2>2 DEF Frame
<1>4. /\ Main[w] = Top(w) /\ Main[w].at \in Own /\ Main[w].of \in Jobs
      /\ Goes(w, t) /\ Taken(stack[w]) /\ Taken(t) /\ Locks(w, t)
      /\ Clearing' = Clearing /\ Main' = [Main EXCEPT ![w] = f]
      /\ t[Len(t)].at \in {"clear", "finished", "callEnd"}
  <2>1. Top(w).at \in Own \ {"callEnd"}
    BY <1>1 DEF Own
  <2>2. \E h \in FrameSet : /\ h.at = "clear" /\ f.at \in {"finished", "callEnd"}
                            /\ t = <<f, h>> \o Tail(stack[w])
    BY <1>t, <1>3
  <2>3. /\ Main[w] = Top(w) /\ Main[w].at \in Own /\ Main[w].of \in Jobs
        /\ Goes(w, t) /\ Taken(stack[w]) /\ Taken(t)
        /\ owner' = owner => Locks(w, t)
        /\ Clearing' = Clearing /\ Main' = [Main EXCEPT ![w] = f]
        /\ \/ Len(t) = 1 /\ t[Len(t)] = f
           \/ t[Len(t)].at = "clear"
    BY <1>1, <1>3, <2>1, <2>2, AloneStep
  <2> QED
    BY <1>1, <1>3, <2>3
<1>5. /\ j \in Jobs /\ j = Main[w].of /\ Main[w].at = "end" /\ MainOK(Main[w])
      /\ j \notin Clearing /\ ended[j] = 0 /\ status[j] # "New"
      /\ IsCollection(j) => j \in DOMAIN coll /\ coll[j].jobCounter = 0
  BY <1>j, <1>1, <1>4, OwnFacts DEF Inv
<1>6. UNCHANGED <<program, script, active, working, held, shouldAbort, assignments, status,
                  begun, ended, coll, blocked, dependencies, customers>>
  BY <1>1 DEF clientVars, weaverVars, policyVars, jobVars
<1>7. \A c : /\ IsCollection(c)' <=> IsCollection(c)
             /\ Unopened(c)' <=> Unopened(c)
             /\ Executing(c)' <=> Executing(c)
  BY <1>6 DEF IsCollection, Unopened, Kids, Executing
<1>8. MainOK(f)'
  <2>1. status[j] \in Final /\ (IsCollection(j) => Executing(j))
    BY <1>5 DEF MainOK
  <2>2. ~ IsCollection(j) => Closed(j)'
    BY <1>7 DEF Closed
  <2> QED
    BY <1>3, <1>5, <1>6, <1>7, <2>1, <2>2 DEF MainOK, Own, Reporting
<1>9. IsCollection(j) => CollOK(j)'
  <2> SUFFICES ASSUME j \in DOMAIN coll PROVE CollOK(j)'
    BY DEF IsCollection
  <2>1. CollOK(j) /\ Main'[w] = f
    BY <1>4 DEF Inv, JobInv, CollInv, Main
  <2>2. coll[j].jobCounter = 0 /\ coll' = coll /\ program' = program
    BY <1>5, <1>6 DEF IsCollection
  <2>3. Itself(w, j, {"finished"})'
    BY <1>3, <2>1 DEF Itself, IsCollection
  <2>4. coll'[j].elements \in {program.elements[j], Family(program, j)}'
    BY <2>1, <2>2 DEF CollOK, Family
  <2>5. coll[j].selfIsExecuting
    BY <1>5 DEF MainOK, Executing, IsCollection
  <2>6. status'[j] \notin {"New", "Queued"} => coll'[j].jobsStarted > 0
    BY <1>6, <2>1 DEF CollOK
  <2> QED
    BY <2>2, <2>3, <2>4, <2>5, <2>6 DEF CollOK
<1>10. JobInv'
  <2>1. IsCollection(j) => \A e \in ToSet(coll'[j].elements) :
                             e \in Jobs \ {j} /\ e \in ToSet(coll[j].elements)
    BY <1>5, <1>6, ElementFacts DEF Inv, JobInv
  <2>2. (f.at \in Own /\ f.of = j) \/ (f.at = "finished" /\ f.by = j)
    BY <1>3 DEF Own
  <2> QED
    BY <1>3, <1>4, <1>5, <1>6, <1>8, <1>9, <2>1, <2>2, OneJobKept DEF Inv
<1>11. CollectionsGrow
  BY <1>6, CollectionsStay DEF Inv, JobInv
<1>12. /\ assignments' \in Seq(Jobs) /\ begun' \in [Jobs -> Nat] /\ status' \in [Jobs -> Statuses]
       /\ ended' \in [Jobs -> Nat] /\ blocked' \subseteq Jobs
  BY <1>6 DEF Inv, Typed
<1> QED
  BY <1>4, <1>6, <1>10, <1>11, <1>12, StepKeeps

(* run(): a collection may have more elements now, all of them new.        *)
LEMMA RunKeeps ==
  ASSUME Inv, NEW w \in Workers, Run(w)
  PROVE  Inv'
<1>j. PICK j : j = Top(w).of
  OBVIOUS
<1>f. PICK f : f = [Top(w) EXCEPT !.at = "end"]
  OBVIOUS
<1>t. PICK t : t = <<f>> \o Tail(stack[w])
  OBVIOUS
<1>o. PICK o : o = IF j \in DOMAIN program.outcome THEN program.outcome[j] ELSE "Success"
  OBVIOUS
<1>1. /\ stack[w] # <<>> /\ Top(w).at = "run" /\ Goto(w, "end")
      /\ status' = [status EXCEPT ![j] = o]
      /\ coll' = IF j \in DOMAIN program.generates
                   THEN [coll EXCEPT ![j].elements = @ \o program.generates[j]] ELSE coll
      /\ UNCHANGED <<program, script, owner, weaverVars, shouldAbort, begun, ended, policyVars>>
  BY <1>j, <1>o DEF Run, At, Is
<1>2. f \in FrameSet /\ f.at = "end" /\ f.of = j /\ stack' = [stack EXCEPT ![w] = t]
  BY <1>j, <1>f, <1>t, <1>1, GotoIs DEF Inv, Places
<1>3. /\ Main[w] = Top(w) /\ Main[w].at \in Own /\ Main[w].of \in Jobs
      /\ Goes(w, t) /\ Taken(stack[w]) /\ Taken(t) /\ Locks(w, t)
      /\ Clearing' = Clearing /\ Main' = [Main EXCEPT ![w] = f]
      /\ t[Len(t)].at \in {"clear", "end"}
  <2>1. Top(w).at \in Own \ {"callEnd"} /\ f.at \in Own \ {"callEnd"}
    BY <1>1, <1>2 DEF Own
  <2>2. /\ Main[w] = Top(w) /\ Main[w].at \in Own /\ Main[w].of \in Jobs
        /\ Goes(w, t) /\ Taken(stack[w]) /\ Taken(t)
        /\ owner' = owner => Locks(w, t)
        /\ Clearing' = Clearing /\ Main' = [Main EXCEPT ![w] = f]
        /\ \/ Len(t) = 1 /\ t[Len(t)] = f
           \/ t[Len(t)].at = "clear"
    BY <1>t, <1>1, <1>2, <2>1, AloneStep, ZenonT(60)
  <2> QED
    BY <1>1, <1>2, <2>2
<1>4. /\ j \in Jobs /\ j = Main[w].of /\ Main[w].at = "run" /\ MainOK(Main[w])
      /\ j \notin Clearing /\ ended[j] = 0 /\ status[j] = "Running"
      /\ IsCollection(j) => /\ j \in DOMAIN coll /\ coll[j].jobCounter = 0 /\ Executing(j)
                            /\ coll[j].elements = program.elements[j]
  <2>1. /\ j \in Jobs /\ j = Main[w].of /\ Main[w].at = "run" /\ MainOK(Main[w])
        /\ j \notin Clearing /\ ended[j] = 0
        /\ IsCollection(j) => j \in DOMAIN coll /\ coll[j].jobCounter = 0
    BY <1>j, <1>1, <1>3, OwnFacts DEF Inv
  <2> QED
    BY <2>1 DEF MainOK
<1>5. o \in Final
  BY <1>o, ProgramsAssumption DEF Inv, Typed, Final
<1>6. /\ UNCHANGED <<program, script, active, working, held, shouldAbort, assignments,
                     begun, ended, blocked, dependencies, customers>>
      /\ status' \in [Jobs -> Statuses] /\ status'[j] = o
      /\ \A x \in Jobs \ {j} : status'[x] = status[x]
  <2>1. status \in [Jobs -> Statuses] /\ o \in Statuses
    BY <1>5 DEF Inv, Typed, Statuses
  <2> QED
    BY <1>1, <1>4, <2>1 DEF weaverVars, policyVars
<1>7. /\ DOMAIN coll' = DOMAIN coll /\ coll' \in [DOMAIN program.elements -> CollSet]
      /\ \A d \in DOMAIN coll :
           /\ d # j => coll'[d] = coll[d]
           /\ coll'[d].self = coll[d].self
           /\ coll'[d].selfIsExecuting = coll[d].selfIsExecuting
           /\ coll'[d].jobCounter = coll[d].jobCounter
           /\ coll'[d].jobsStarted = coll[d].jobsStarted
           /\ d = j => /\ coll'[d].elements \in {program.elements[d], Family(program, d)}
                       /\ coll[d].elements = program.elements[d]
  <2>1. coll \in [DOMAIN program.elements -> CollSet] /\ program \in Programs
    BY DEF Inv, Typed
  <2>2. CASE j \in DOMAIN program.generates
    <3>1. j \in DOMAIN program.elements /\ coll[j] \in CollSet /\ program.generates[j] \in Seq(Jobs)
      BY <2>1, <2>2, ProgramsAssumption
    <3>2. coll[j].elements = program.elements[j]
      BY <1>4, <2>1, <3>1 DEF IsCollection
    <3> PICK r : r = [coll[j] EXCEPT !.elements = @ \o program.generates[j]]
      OBVIOUS
    <3>3. coll[j].elements \o program.generates[j] \in Seq(Jobs)
      BY <3>1, ConcatProperties DEF CollSet
    <3>4. /\ r \in CollSet /\ r.self = coll[j].self
          /\ r.elements = coll[j].elements \o program.generates[j]
          /\ r.selfIsExecuting = coll[j].selfIsExecuting
          /\ r.jobCounter = coll[j].jobCounter /\ r.jobsStarted = coll[j].jobsStarted
      BY <3>1, <3>3 DEF CollSet
    <3>5. r.elements = Family(program, j)
      BY <2>2, <3>2, <3>4 DEF Family
    <3>6. coll' = [coll EXCEPT ![j] = r]
      BY <1>1, <2>2
    <3> QED
      BY <2>1, <3>1, <3>2, <3>4, <3>5, <3>6
  <2>3. CASE j \notin DOMAIN program.generates
    <3>1. coll' = coll
      BY <1>1, <2>3
    <3> QED
      BY <1>4, <2>1, <3>1 DEF IsCollection
  <2> QED
    BY <2>2, <2>3
<1>8. \A c : (IsCollection(c)' <=> IsCollection(c)) /\ Kids(c)' = Kids(c)
  BY <1>6, <1>7 DEF IsCollection, Kids
<1>9. MainOK(f)'
  <2>1. IsCollection(j) => Executing(j)'
    <3>1. IsCollection(j) => Unopened(j)'
      <4> SUFFICES ASSUME j \in DOMAIN coll PROVE Unopened(j)'
        BY DEF IsCollection
      <4>1. j \notin Kids(j) /\ Kids(j) \subseteq Jobs
        BY FamilyFacts DEF Inv
      <4>2. Unopened(j)
        BY <1>4 DEF Executing, IsCollection
      <4> QED
        BY <1>6, <1>8, <4>1, <4>2 DEF Unopened
    <3> QED
      BY <1>4, <1>7, <3>1 DEF Executing
  <2> QED
    BY <1>2, <1>4, <1>5, <1>6, <1>8, <2>1 DEF MainOK, Own, Reporting
<1>10. IsCollection(j) => CollOK(j)'
  <2> SUFFICES ASSUME j \in DOMAIN coll PROVE CollOK(j)'
    BY DEF IsCollection
  <2>1. CollOK(j) /\ Main'[w] = f
    BY <1>3 DEF Inv, JobInv, CollInv, Main
  <2>2. /\ coll'[j].jobCounter = 0 /\ coll'[j].selfIsExecuting
        /\ coll'[j].jobsStarted > 0
    BY <1>4, <1>7, <2>1 DEF IsCollection, Executing, CollOK
  <2>3. \E v \in Workers : \/ Main'[v].at \in {"setRunning", "run", "end"} /\ Main'[v].of = j
                           \/ Itself(v, j, {"finished"})'
    BY <1>2, <2>1
  <2>4. coll'[j].elements \in {program.elements[j], Family(program, j)}'
    BY <1>6, <1>7 DEF Family
  <2> QED
    BY <2>2, <2>3, <2>4 DEF CollOK
<1>11. IsCollection(j) => \A e \in ToSet(coll'[j].elements) : e \in Kids(j)
  <2> SUFFICES ASSUME j \in DOMAIN coll PROVE ToSet(coll'[j].elements) \subseteq Kids(j)
    BY DEF IsCollection
  <2>1. ToSet(program.elements[j]) \subseteq Kids(j)
    BY FamilyFacts DEF Inv
  <2> QED
    BY <1>7, <2>1 DEF Kids
<1>12. JobInv'
  <2>1. IsCollection(j) => \A e \in ToSet(coll'[j].elements) :
                             e \in Jobs \ {j} /\ status[e] = "New"
    <3>1. IsCollection(j) => j \notin Kids(j) /\ Kids(j) \subseteq Jobs
      BY FamilyFacts DEF Inv, IsCollection
    <3> QED
      BY <1>4, <1>11, <3>1 DEF Executing, Unopened
  <2>2. status'[j] # "New" /\ f.at \in Own
    BY <1>2, <1>5, <1>6 DEF Final, Own
  <2> QED
    BY <1>2, <1>3, <1>4, <1>6, <1>7, <1>9, <1>10, <2>1, <2>2, OneJobKept DEF Inv, IsCollection
<1>13. CollectionsGrow
  <2> SUFFICES ASSUME NEW c \in DOMAIN coll
               PROVE  /\ ToSet(coll[c].elements) \subseteq ToSet(coll'[c].elements)
                      /\ ToSet(coll'[c].elements) \subseteq Kids(c)
    BY <1>7 DEF CollectionsGrow
  <2>1. ToSet(coll[c].elements) \subseteq Kids(c) /\ ToSet(program.elements[c]) \subseteq Kids(c)
    BY ElementFacts, FamilyFacts DEF Inv, JobInv
  <2> QED
    BY <1>7, <1>11, <2>1 DEF Kids
<1>14. /\ assignments' \in Seq(Jobs) /\ begun' \in [Jobs -> Nat]
       /\ ended' \in [Jobs -> Nat] /\ blocked' \subseteq Jobs
  BY <1>6 DEF Inv, Typed
<1> QED
  <2>1. \A v \in Workers : v # w /\ Main[v].at = "setRunning" =>
          \A c \in DOMAIN coll : c = Main[v].of => coll'[c].jobsStarted = coll[c].jobsStarted
    BY <1>7
  <2> QED
    BY <1>3, <1>6, <1>12, <1>13, <1>14, <2>1, StepKeeps

(* elementStarted() is called for a collection of its own, or for one that *)
(* has started before.                                                     *)
LEMMA StartedFacts ==
  ASSUME Inv, NEW w \in Workers, stack[w] # <<>>, Top(w).at = "started"
  PROVE  LET s == stack[w]
             c == Top(w).of
             j == Main[w].of
         IN  /\ s \in Seq(FrameSet) /\ Top(w) = s[1] /\ Beginning(s) /\ ClearingOf(s) = {}
             /\ Main[w] = s[Len(s)] /\ Main[w].at = "setRunning" /\ Main[w] \in FrameSet
             /\ j \in Jobs /\ c \in DOMAIN coll /\ c \in Jobs
             /\ \/ /\ Len(s) = 2 /\ s[2].at = "setRunning"
                   /\ c = j /\ IsCollection(j) /\ coll[c].jobsStarted = 0
                   /\ LockedOf(s) = {}
                \/ /\ c = ParentOf(j) /\ HasParent(j) /\ c # j
                   /\ coll[c].jobsStarted > 0 /\ coll[c].jobCounter > 0 /\ ~ Unopened(c)
                   /\ \/ Len(s) = 2 /\ ~ IsCollection(j) /\ LockedOf(s) = {}
                      \/ /\ Len(s) = 3 /\ IsCollection(j) /\ coll[j].jobsStarted > 0
                         /\ s[2].at = "startedUnlock" /\ s[2].of = j
                         /\ LockedOf(s) = {j}
<1>s. PICK s : s = stack[w]
  OBVIOUS
<1>c. PICK c : c = Top(w).of
  OBVIOUS
<1>j. PICK j : j = Main[w].of
  OBVIOUS
<1>1. s \in Seq(FrameSet) /\ Top(w) = s[1] /\ Beginning(s) /\ ClearingOf(s) = {}
      /\ Main[w] = s[Len(s)]
  BY <1>s, TopShape DEF Inv
<1>2. /\ Main[w].at = "setRunning" /\ s[1].at = "started" /\ s[1].of = c /\ s # <<>>
      /\ s[Len(s)].of = j /\ Main[w] \in FrameSet
  BY <1>s, <1>c, <1>j, <1>1, MainTyped DEF Beginning, Inv
<1>3. /\ j \in Jobs /\ j \in Tokens /\ status[j] # "New"
      /\ \A d \in DOMAIN coll : j \in Kids(d) => ~ Unopened(d)
  BY <1>j, <1>2, OwnFacts DEF Inv, Own
<1>4. Begins(s)
  BY <1>s, <1>1, <1>2 DEF Inv, StartInv
<1>5. /\ Len(s) = 2 \/ (Len(s) = 3 /\ s[2].at = "startedUnlock")
      /\ Len(s) = 2 => s[2].at = "setRunning" /\ LockedOf(s) = {}
  BY <1>1, <1>2 DEF Beginning, LockedOf
<1>6. \/ /\ Len(s) = 2 /\ c = j /\ IsCollection(j) /\ coll[c].jobsStarted = 0
      \/ /\ c = ParentOf(j) /\ HasParent(j)
         /\ \/ Len(s) = 2 /\ ~ IsCollection(j)
            \/ /\ Len(s) = 3 /\ IsCollection(j) /\ coll[j].jobsStarted > 0
               /\ s[2].of = j
  BY <1>2, <1>4, <1>5 DEF Begins
<1>7. ASSUME c = ParentOf(j), HasParent(j)
      PROVE  /\ c \in DOMAIN coll /\ c # j
             /\ coll[c].jobsStarted > 0 /\ coll[c].jobCounter > 0 /\ ~ Unopened(c)
  <2>1. c \in DOMAIN coll /\ j \in ToSet(coll[c].elements) /\ j \in Kids(c) /\ c # j
    BY <1>7, ParentFacts DEF Inv, JobInv
  <2>2. coll[c].jobCounter = Cardinality(Remaining(c))
    BY <1>3, <2>1, ElementCounts DEF Inv
  <2>3. j \in Remaining(c)
    BY <1>3, <2>1 DEF Remaining, Live
  <2>4. coll[c].jobCounter > 0
    BY <2>1, <2>2, <2>3, RemainingFacts DEF Inv, JobInv
  <2>5. coll[c].jobsStarted > 0
    <3>1. CollOK(c)
      BY <2>1 DEF Inv, JobInv, CollInv
    <3>2. status[c] \in {"Running"} \cup Final
      BY <2>4, <3>1 DEF CollOK
    <3> QED
      BY <3>1, <3>2 DEF CollOK, Final
  <2> QED
    BY <1>3, <2>1, <2>4, <2>5
<1>8. Len(s) = 3 /\ s[2].of = j => LockedOf(s) = {j}
  BY <1>2, <1>5 DEF LockedOf
<1>9. c \in DOMAIN coll
  BY <1>6, <1>7 DEF IsCollection
<1>10. c \in Jobs
  BY <1>9, FamilyFacts DEF Inv
<1> QED
  BY <1>s, <1>c, <1>j, <1>1, <1>2, <1>3, <1>5, <1>6, <1>7, <1>8, <1>9, <1>10

(* elementStarted(): the first element to start sets the collection        *)
(* running.                                                                *)
LEMMA ElementStartedKeeps ==
  ASSUME Inv, NEW w \in Workers, ElementStarted(w)
  PROVE  Inv'
<1>s. PICK s : s = stack[w]
  OBVIOUS
<1>c. PICK c : c = Top(w).of
  OBVIOUS
<1>j. PICK j : j = Main[w].of
  OBVIOUS
<1>n. PICK calls \in BOOLEAN : calls <=> coll[c].jobsStarted = 0 /\ HasParent(c)
  OBVIOUS
<1>f. PICK f : f = [Top(w) EXCEPT !.at = "startedUnlock"]
  OBVIOUS
<1>g. PICK g : g = Frame("started", ParentOf(c), c)
  OBVIOUS
<1>t. PICK t : t = IF calls THEN <<g, f>> \o Tail(s) ELSE Tail(s)
  OBVIOUS
<1>1. /\ stack[w] # <<>> /\ Top(w).at = "started" /\ owner[c] = Nobody
      /\ coll' = [coll EXCEPT ![c].jobsStarted = @ + 1]
      /\ calls => Hold(w, c) /\ Call(w, g, "startedUnlock")
      /\ ~ calls => Return(w) /\ owner' = owner
      /\ begun' = IF coll[c].jobsStarted = 0
                    THEN [begun EXCEPT ![c] = @ + IF HasParent(c) THEN 2 ELSE 1] ELSE begun
      /\ UNCHANGED <<clientVars, weaverVars, status, shouldAbort, ended, policyVars>>
  BY <1>c, <1>n, <1>g DEF ElementStarted, At, Is, Needs
<1>2. /\ s \in Seq(FrameSet) /\ Top(w) = s[1] /\ Beginning(s) /\ ClearingOf(s) = {} /\ s # <<>>
      /\ Main[w] = s[Len(s)] /\ Main[w].at = "setRunning" /\ Main[w] \in FrameSet
      /\ j \in Jobs /\ c \in DOMAIN coll /\ c \in Jobs /\ s[1].at = "started" /\ s[1].of = c
      /\ \/ /\ Len(s) = 2 /\ s[2].at = "setRunning"
            /\ c = j /\ IsCollection(j) /\ coll[c].jobsStarted = 0
            /\ LockedOf(s) = {}
         \/ /\ c = ParentOf(j) /\ HasParent(j) /\ c # j
            /\ coll[c].jobsStarted > 0 /\ coll[c].jobCounter > 0 /\ ~ Unopened(c)
            /\ \/ Len(s) = 2 /\ ~ IsCollection(j) /\ LockedOf(s) = {}
               \/ /\ Len(s) = 3 /\ IsCollection(j) /\ coll[j].jobsStarted > 0
                  /\ s[2].at = "startedUnlock" /\ s[2].of = j
                  /\ LockedOf(s) = {j}
  BY <1>s, <1>c, <1>j, <1>1, StartedFacts
<1>3. Main[w] = MainOf(s)
  BY <1>s DEF Main
<1>4. calls => /\ f \in FrameSet /\ f.at = "startedUnlock" /\ f.of = c
               /\ g \in FrameSet /\ g.at = "started" /\ g.of = ParentOf(c)
               /\ stack' = [stack EXCEPT ![w] = t]
  <2> SUFFICES ASSUME calls
               PROVE  /\ f \in FrameSet /\ f.at = "startedUnlock" /\ f.of = c
                      /\ g \in FrameSet /\ g.at = "started" /\ g.of = ParentOf(c)
                      /\ stack' = [stack EXCEPT ![w] = t]
    OBVIOUS
  <2>1. ParentOf(c) \in Jobs
    <3>1. HasParent(c)
      BY <1>n
    <3>2. ParentOf(c) \in DOMAIN coll
      BY <3>1, ParentFacts DEF Inv, JobInv
    <3> QED
      BY <3>2, FamilyFacts DEF Inv
  <2>2. "started" \in Places /\ "startedUnlock" \in Places /\ Typed
    BY DEF Places, Inv
  <2>3. Call(w, Frame("started", ParentOf(c), c), "startedUnlock")
    BY <1>g, <1>1
  <2> PICK d : d = ParentOf(c)
    OBVIOUS
  <2>4. /\ f \in FrameSet /\ f.at = "startedUnlock" /\ f.of = Top(w).of
        /\ g \in FrameSet
        /\ stack' = [stack EXCEPT ![w] = <<g, f>> \o Tail(stack[w])]
    BY <1>f, <1>g, <1>1, <1>2, <2>1, <2>2, <2>3, CallIs, SMTT(30)
  <2> QED
    BY <1>t, <1>s, <1>c, <1>g, <2>4 DEF Frame
<1>5. stack' = [stack EXCEPT ![w] = t]
  BY <1>s, <1>t, <1>1, <1>4 DEF Return
<1>6. /\ t \in Seq(FrameSet) /\ Shaped(t) /\ MainOf(t) = MainOf(s)
      /\ ClearingOf(t) = ClearingOf(s) /\ t # <<>>
      /\ calls => Len(t) = 3 /\ t[1] = g /\ t[2] = f /\ t[3] = s[2] /\ Len(s) = 2
      /\ ~ calls => Len(t) = Len(s) - 1 /\ t[1] = s[2]
      /\ t[Len(t)] = s[Len(s)]
  <2>1. CASE calls
    <3>1. Len(s) = 2 /\ s[2].at = "setRunning"
      BY <1>n, <1>2, <2>1
    <3>2. t = <<g, f>> \o Tail(s)
      BY <1>t, <2>1
    <3>3. /\ t \in Seq(FrameSet) /\ Beginning(t) /\ MainOf(t) = MainOf(s)
          /\ ClearingOf(t) = ClearingOf(s)
          /\ Len(t) = 3 /\ t[1] = g /\ t[2] = f /\ t[3] = s[2]
      BY <1>2, <1>4, <2>1, <3>1, <3>2, BeginningCalls, SMTT(30)
    <3> QED
      BY <2>1, <3>1, <3>3, BeginningStack
  <2>2. CASE ~ calls
    <3>1. t = Tail(s)
      BY <1>t, <2>2
    <3>2. /\ t \in Seq(FrameSet) /\ Shaped(t) /\ MainOf(t) = MainOf(s)
          /\ ClearingOf(t) = ClearingOf(s) /\ t # <<>>
          /\ Len(t) = Len(s) - 1 /\ t[1] = s[2] /\ t[Len(t)] = s[Len(s)]
      BY <1>2, <3>1, BeginningReturns
    <3> QED
      BY <2>2, <3>2
  <2> QED
    BY <2>1, <2>2
<1>7. Goes(w, t)
  BY <1>5, <1>6 DEF Goes
<1>8. /\ Taken(s) /\ Taken(t)
      /\ LockedOf(t) = IF calls THEN {c} ELSE LockedOf(s)
  <2>1. Taken(s)
    BY <1>2 DEF Taken
  <2>2. CASE calls
    BY <1>4, <1>6, <2>1, <2>2 DEF Taken, LockedOf
  <2>3. CASE ~ calls /\ Len(s) = 2
    BY <1>2, <1>6, <2>1, <2>3 DEF Taken, LockedOf
  <2>4. CASE ~ calls /\ Len(s) # 2
    BY <1>2, <1>6, <2>1, <2>4 DEF Taken, LockedOf
  <2> QED
    BY <2>1, <2>2, <2>3, <2>4
<1>9. Locks(w, t)
  <2>1. LockedOf(s) \subseteq Jobs
    BY <1>2
  <2>2. CASE calls
    <3>1. owner' = [owner EXCEPT ![c] = w] /\ LockedOf(stack[w]) = {}
      BY <1>s, <1>n, <1>1, <1>2, <2>2 DEF Hold
    <3>2. owner[c] = Nobody /\ LockedOf(t) = {c} /\ LockedOf(stack[w]) \subseteq {c}
      BY <1>1, <1>8, <2>2, <3>1
    <3>3. Typed /\ Shapes /\ LockInv /\ stack[w] # <<>>
      BY <1>1 DEF Inv
    <3> QED
      BY <1>2, <3>1, <3>2, <3>3, LocksIs
  <2>3. CASE ~ calls
    BY <1>s, <1>1, <1>8, <2>1, <2>3, LocksIs DEF Inv
  <2> QED
    BY <2>2, <2>3
<1>10. Clearing' = Clearing /\ Main' = [Main EXCEPT ![w] = Main[w]]
  <2>1. Clearing' = Clearing
    BY <1>s, <1>6, <1>7, ClearingKept DEF Inv
  <2> QED
    BY <1>3, <1>6, <1>7, <2>1, StackMoves DEF Inv
<1>11. /\ UNCHANGED <<program, script, active, working, held, shouldAbort, assignments, status,
                      ended, blocked, dependencies, customers>>
       /\ begun' \in [Jobs -> Nat] /\ \A x \in Jobs \ {j} : begun'[x] = begun[x]
  <2>1. begun \in [Jobs -> Nat]
    BY DEF Inv, Typed
  <2>2. coll[c].jobsStarted = 0 => c = j
    BY <1>2
  <2>3. \A n \in Nat : n + (IF HasParent(c) THEN 2 ELSE 1) \in Nat
    OBVIOUS
  <2> QED
    BY <1>1, <1>2, <2>1, <2>2, <2>3 DEF clientVars, weaverVars, policyVars
<1>12. /\ DOMAIN coll' = DOMAIN coll /\ coll' \in [DOMAIN program.elements -> CollSet]
       /\ \A d \in DOMAIN coll :
            /\ coll'[d].elements = coll[d].elements /\ coll'[d].self = coll[d].self
            /\ coll'[d].selfIsExecuting = coll[d].selfIsExecuting
            /\ coll'[d].jobCounter = coll[d].jobCounter
            /\ d # c => coll'[d].jobsStarted = coll[d].jobsStarted
            /\ d = c => coll'[d].jobsStarted > 0
  <2>1. coll \in [DOMAIN program.elements -> CollSet] /\ coll[c] \in CollSet
    BY <1>2, FamilyFacts DEF Inv, Typed
  <2> PICK n : n = coll[c].jobsStarted + 1
    OBVIOUS
  <2> PICK r : r = [coll[c] EXCEPT !.jobsStarted = n]
    OBVIOUS
  <2>4. n \in Nat /\ n > 0
    BY <2>1 DEF CollSet
  <2>2. /\ r \in CollSet /\ r.elements = coll[c].elements /\ r.self = coll[c].self
        /\ r.selfIsExecuting = coll[c].selfIsExecuting /\ r.jobCounter = coll[c].jobCounter
        /\ r.jobsStarted > 0
    BY <2>1, <2>4 DEF CollSet
  <2>3. coll' = [coll EXCEPT ![c] = r]
    BY <1>1
  <2> QED
    BY <1>2, <2>1, <2>2, <2>3
<1>13. /\ Main[w].at \in Own /\ MainOK(Main[w]) /\ status[j] = "Queued" /\ ended[j] = 0
       /\ j \notin Clearing
       /\ IsCollection(j) => j \in DOMAIN coll /\ coll[j].jobCounter = 0
       /\ \A v \in Workers : v # w /\ Main[v].at \in Own \cup Reporting => Main[v].of # j
  <2>1. Main[w].at \in Own
    BY <1>2 DEF Own
  <2>2. /\ MainOK(Main[w]) /\ ended[j] = 0
        /\ j \notin Clearing
        /\ IsCollection(j) => j \in DOMAIN coll /\ coll[j].jobCounter = 0
        /\ \A v \in Workers : v # w /\ Main[v].at \in Own \cup Reporting => Main[v].of # j
    BY <1>j, <1>2, <2>1, OwnFacts DEF Inv
  <2>3. status[j] = "Queued"
    BY <1>j, <1>2, <2>2 DEF MainOK
  <2> QED
    BY <2>1, <2>2, <2>3
<1>14. \A d : /\ IsCollection(d)' <=> IsCollection(d)
              /\ Unopened(d)' <=> Unopened(d)
              /\ d \in DOMAIN coll => (Executing(d)' <=> Executing(d))
  BY <1>11, <1>12 DEF IsCollection, Unopened, Kids, Executing
<1>15. \A f0 : f0 = Main[w] => MainOK(f0)'
  BY <1>j, <1>2, <1>11, <1>12, <1>13, <1>14 DEF MainOK, Own, Reporting, IsCollection
<1>16. IsCollection(j) => CollOK(j)'
  <2> SUFFICES ASSUME j \in DOMAIN coll PROVE CollOK(j)'
    BY DEF IsCollection
  <2>1. CollOK(j) /\ Main'[w] = Main[w]
    BY <1>10 DEF Inv, JobInv, CollInv, Main
  <2>2. /\ coll'[j].jobCounter = 0 /\ coll'[j].elements = coll[j].elements
        /\ coll'[j].self => coll[j].selfIsExecuting
        /\ coll'[j].selfIsExecuting = coll[j].selfIsExecuting
        /\ program' = program /\ status'[j] = "Queued"
    BY <1>j, <1>2, <1>11, <1>12, <1>13 DEF IsCollection, MainOK, Executing
  <2>3. coll'[j].elements \in {program.elements[j], Family(program, j)}'
    BY <2>1, <2>2 DEF CollOK, Family
  <2>4. \E v \in Workers :
          \/ Main'[v].at \in {"setRunning", "run", "end"} /\ Main'[v].of = j
          \/ Itself(v, j, {"finished"})'
    BY <1>j, <1>2, <2>1
  <2> QED
    BY <2>2, <2>3, <2>4 DEF CollOK
<1>17. JobInv'
  <2>1. IsCollection(j) => \A e \in ToSet(coll'[j].elements) :
                             e \in Jobs \ {j} /\ e \in ToSet(coll[j].elements)
    BY <1>12, <1>13, ElementFacts DEF Inv, JobInv
  <2>2. \A d \in DOMAIN coll \ {j} : \/ coll'[d].jobsStarted = coll[d].jobsStarted
                                     \/ coll'[d].jobsStarted > 0 /\ ~ Unopened(d)
    BY <1>2, <1>12
  <2>3. IsCollection(j) => coll'[j].jobCounter = coll[j].jobCounter
    BY <1>12, <1>13
  <2>4. \A x \in Jobs \ {j} : status'[x] = status[x] /\ begun'[x] = begun[x] /\ ended'[x] = ended[x]
    BY <1>11
  <2>5. /\ UNCHANGED <<program, assignments>> /\ customers' \subseteq customers
        /\ status'[j] # "New" /\ ended'[j] = 0
    BY <1>11, <1>13
  <2> PICK f0 : f0 = Main[w]
    OBVIOUS
  <2>6. MainOK(f0)'
    BY <1>15
  <2> QED
    BY <1>j, <1>2, <1>10, <1>12, <1>13, <1>16, <2>1, <2>2, <2>3, <2>4, <2>5, <2>6,
       OneJobKept, ZenonT(60) DEF Inv
<1>18. Begins(t)'
  <2>1. ParentsOf(j)' = ParentsOf(j)
    BY <1>12 DEF ParentsOf
  <2>2. /\ IsCollection(j)' <=> IsCollection(j)
        /\ HasParent(j)' <=> HasParent(j)
        /\ ParentOf(j)' = ParentOf(j)
    BY <1>12, <2>1 DEF IsCollection, HasParent, ParentOf
  <2>3. t[Len(t)].of = j
    BY <1>j, <1>2, <1>6
  <2>4. CASE calls
    <3>1. /\ Len(t) = 3 /\ t[1].of = ParentOf(j)' /\ t[2].of = j
          /\ IsCollection(j)' /\ HasParent(j)' /\ coll'[j].jobsStarted > 0
      BY <1>n, <1>2, <1>4, <1>6, <1>12, <2>2, <2>4
    <3> QED
      BY <2>3, <3>1 DEF Begins
  <2>5. CASE ~ calls /\ Len(s) = 2
    <3>1. Len(t) = 1 /\ (IsCollection(j)' => coll'[j].jobsStarted > 0)
      BY <1>2, <1>6, <1>12, <2>2, <2>5
    <3> QED
      BY <2>3, <3>1 DEF Begins
  <2>6. CASE ~ calls /\ Len(s) = 3
    <3>1. /\ Len(t) = 2 /\ t[1].at = "startedUnlock" /\ t[1].of = j
          /\ IsCollection(j)' /\ coll'[j].jobsStarted > 0
      BY <1>2, <1>6, <1>12, <1>13, <2>2, <2>6
    <3> QED
      BY <2>3, <3>1 DEF Begins
  <2> QED
    BY <1>2, <2>4, <2>5, <2>6
<1>19. CollectionsGrow
  BY <1>12, CollectionsStay DEF Inv, JobInv
<1>20. \A v \in Workers : v # w /\ Main[v].at = "setRunning" =>
         \A d \in DOMAIN coll : d = Main[v].of => coll'[d].jobsStarted = coll[d].jobsStarted
  <2> SUFFICES ASSUME NEW v \in Workers, v # w, Main[v].at = "setRunning", Main[v].of = c
               PROVE  FALSE
    BY <1>12
  <2>1. Bears(v, c) /\ Main[v].at \in Own \cup Reporting
    BY BearsIs DEF Own
  <2>2. c # j
    BY <1>13, <2>1
  <2>3. coll[c].jobCounter > 0
    BY <1>2, <2>2
  <2>4. Itself(v, c, {"enqueue", "process", "restore"})
    BY <1>2, <2>1, <2>3, CountingFacts DEF Inv
  <2> QED
    BY <2>4 DEF Itself
<1>21. /\ assignments' \in Seq(Jobs) /\ status' \in [Jobs -> Statuses]
       /\ ended' \in [Jobs -> Nat] /\ blocked' \subseteq Jobs
  BY <1>11 DEF Inv, Typed
<1>22. t[Len(t)].at = "setRunning"
  BY <1>2, <1>6
<1> QED
  BY <1>s, <1>7, <1>8, <1>9, <1>11, <1>17, <1>18, <1>19, <1>20, <1>21, <1>22, StepKeeps

(* A thread goes on at the end of a job: it is in another place of the     *)
(* same call, returns or calls.  Then f is what it has in its hands, and   *)
(* the collections in C wait for their last handler.                       *)
LockOf(f) == IF f.at \in {"enqueue", "process"} THEN {f.of} ELSE {}
EndsWith(s, f, C, t) ==
  \/ /\ f \in FrameSet /\ f.at \in EndPlaces /\ C = {}
     /\ t = <<f>> \o Tail(s)
  \/ f = MainOf(t) /\ C = {} /\ t = Tail(s)
  \/ /\ f \in FrameSet /\ f.at = "callEnd"
     /\ \E g \in FrameSet : /\ g.at = "clearSelf" /\ C = {g.of}
                            /\ t = <<f, g>> \o Tail(s)
  \/ /\ f \in FrameSet /\ f.at = "restore" /\ C = {}
     /\ \E g \in FrameSet : /\ g.at = "stop" /\ g.of = f.of
                            /\ t = <<g, f>> \o Tail(s)

Continues(w, f, C, t) ==
  /\ Main[w] = Top(w) /\ MainOK(Main[w]) /\ Goes(w, t)
  /\ Taken(stack[w]) /\ Taken(t) /\ t[Len(t)].at = "clear"
  /\ Clearing' = Clearing \cup C /\ Main' = [Main EXCEPT ![w] = f]
  /\ LockedOf(stack[w]) = LockOf(Top(w)) /\ LockedOf(t) = LockOf(f)
  /\ t = Tail(stack[w]) /\ f = MainOf(t) => f.at \in {"clear", "clearSelf"}

(* The shapes of stacks that a step of an ending job leads to.             *)
LEMMA EndStep ==
  ASSUME Inv, NEW w \in Workers, stack[w] # <<>>, Top(w).at \in EndPlaces,
         NEW f, NEW C, NEW t, stack' = [stack EXCEPT ![w] = t],
         EndsWith(stack[w], f, C, t)
  PROVE  Continues(w, f, C, t)
<1>s. PICK s : s = stack[w]
  OBVIOUS
<1>1. /\ s \in Seq(FrameSet) /\ s # <<>> /\ Top(w) = s[1] /\ Top(w) \in FrameSet
      /\ Ending(s) /\ Main[w] = s[1] /\ s[1].at \in EndPlaces
  BY <1>s, TopShape DEF Inv
<1>2. MainOK(Main[w])
  BY DEF Inv, JobInv, MainInvs
<1>3. Taken(s) /\ LockedOf(s) = LockOf(Top(w))
  BY <1>1, EndingFacts DEF EndPlaces, LockOf
<1>4. /\ t \in Seq(FrameSet) /\ Shaped(t) /\ MainOf(t) = f /\ ClearingOf(t) = ClearingOf(s) \cup C
      /\ Taken(t) /\ t[Len(t)].at = "clear"
      /\ LockedOf(t) = LockOf(f)
      /\ t = Tail(s) /\ f = MainOf(t) => f.at \in {"clear", "clearSelf"}
  <2>1. CASE f \in FrameSet /\ f.at \in EndPlaces /\ C = {} /\ t = <<f>> \o Tail(s)
    <3>1. t \in Seq(FrameSet) /\ Ending(t) /\ MainOf(t) = f /\ ClearingOf(t) = ClearingOf(s)
      BY <1>1, <2>1, EndingReplace
    <3>2. t[1] = f
      BY <1>1, <2>1, ReplaceTop
    <3>3. t # <<>> /\ t[Len(t)].at = "clear" /\ Taken(t) /\ Shaped(t)
          /\ LockedOf(t) = LockOf(f)
      BY <2>1, <3>1, <3>2, EndingFacts, EndingStack DEF EndPlaces, LockOf
    <3>4. t # Tail(s)
      <4>1. Len(t) = Len(s) /\ Len(Tail(s)) = Len(s) - 1 /\ Len(s) \in Nat
        BY <1>1, <2>1, ReplaceTop, PopCall
      <4> QED
        BY <4>1
    <3> QED
      BY <2>1, <3>1, <3>3, <3>4
  <2>2. CASE f = MainOf(t) /\ C = {} /\ t = Tail(s)
    <3>1. /\ t \in Seq(FrameSet) /\ t # <<>> /\ Shaped(t)
          /\ MainOf(t).at \in {"clear", "clearSelf"}
          /\ t[1].at \in {"clear", "clearSelf"} /\ t[Len(t)].at = "clear"
          /\ ClearingOf(t) \subseteq ClearingOf(s)
          /\ ClearingOf(s) \subseteq ClearingOf(t)
      BY <1>1, <2>2, EndingPop DEF EndPlaces
    <3>2. Taken(t) /\ LockedOf(t) = {}
      BY <3>1 DEF Taken, LockedOf
    <3> QED
      BY <2>2, <3>1, <3>2 DEF LockOf
  <2>3. CASE /\ f \in FrameSet /\ f.at = "callEnd"
             /\ \E g \in FrameSet : /\ g.at = "clearSelf" /\ C = {g.of}
                                    /\ t = <<f, g>> \o Tail(s)
    <3>1. PICK g \in FrameSet : /\ g.at = "clearSelf" /\ C = {g.of}
                                /\ t = <<f, g>> \o Tail(s)
      BY <2>3
    <3>2. /\ t \in Seq(FrameSet) /\ Ending(t) /\ MainOf(t) = f
          /\ ClearingOf(t) = ClearingOf(s) \cup {g.of}
      BY <1>1, <2>3, <3>1, EndingLast
    <3>3. t[1] = f /\ Len(t) = Len(s) + 1
      BY <1>1, <2>3, <3>1, PushCall
    <3>4. t[Len(t)].at = "clear" /\ Taken(t) /\ LockedOf(t) = {} /\ Shaped(t)
      BY <2>3, <3>2, <3>3, EndingFacts, EndingStack
    <3>5. t # Tail(s)
      BY <1>1, <3>3, PopCall
    <3> QED
      BY <2>3, <3>1, <3>2, <3>4, <3>5 DEF LockOf
  <2>4. CASE /\ f \in FrameSet /\ f.at = "restore" /\ C = {}
             /\ \E g \in FrameSet : /\ g.at = "stop" /\ g.of = f.of
                                    /\ t = <<g, f>> \o Tail(s)
    <3>1. PICK g \in FrameSet : /\ g.at = "stop" /\ g.of = f.of
                                /\ t = <<g, f>> \o Tail(s)
      BY <2>4
    <3>2. t \in Seq(FrameSet) /\ Ending(t) /\ MainOf(t) = f /\ ClearingOf(t) = ClearingOf(s)
          /\ t[1] = g
      BY <1>1, <2>4, <3>1, EndingStops DEF StopPlaces
    <3>3. Len(t) = Len(s) + 1
      BY <1>1, <2>4, <3>1, PushCall
    <3>4. t[Len(t)].at = "clear" /\ Taken(t) /\ LockedOf(t) = {} /\ Shaped(t)
      BY <3>1, <3>2, EndingFacts, EndingStack
    <3>5. t # Tail(s)
      BY <1>1, <3>3, PopCall
    <3> QED
      BY <2>4, <3>2, <3>4, <3>5 DEF LockOf
  <2> QED
    BY <1>s, <2>1, <2>2, <2>3, <2>4 DEF EndsWith
<1>5. Goes(w, t)
  BY <1>4 DEF Goes
<1>6. Main' = [Main EXCEPT ![w] = f]
  BY <1>4, <1>5, StackMoves DEF Inv
<1>7. Clearing' = Clearing \cup C
  <2>1. ClearingOf(stack[w]) \subseteq Clearing
    BY DEF Clearing
  <2>2. ClearingOf(t) \subseteq Clearing' /\ Clearing' \subseteq Clearing \cup ClearingOf(t)
        /\ Clearing \subseteq Clearing' \cup (ClearingOf(stack[w]) \ ClearingOf(t))
    BY <1>5, StackMoves DEF Inv
  <2> QED
    BY <1>s, <1>4, <2>1, <2>2
<1> QED
  BY <1>s, <1>1, <1>2, <1>3, <1>4, <1>5, <1>6, <1>7 DEF Continues

(* A job ends that is no collection's element: no thread has it in its     *)
(* hands any more.                                                         *)
LEMMA DroppedKept ==
  ASSUME Typed, Shapes, JobInv, NEW w \in Workers, Main[w].at = "callEnd",
         NEW j, j = Main[w].of, ~ HasParent(j),
         NEW f, Main' = [Main EXCEPT ![w] = f], f.at \in {"clear", "clearSelf"},
         Clearing' = Clearing, ended' = [ended EXCEPT ![j] = @ + 1],
         customers' = customers \ {j},
         UNCHANGED <<program, assignments, status, begun, coll>>
  PROVE  JobInv'
<1>1. /\ j \in Jobs /\ Bears(w, j) /\ j \in Tokens /\ MainOK(Main[w])
      /\ status[j] # "New" /\ ~ Queued(j) /\ ended[j] = 0
      /\ IsCollection(j) =>
           j \in DOMAIN coll /\ coll[j].jobCounter = 0 /\ Remaining(j) = {}
      /\ \A v \in Workers : v # w => ~ Bears(v, j)
      /\ \A v \in Workers : v # w /\ Main[v].at \in Own \cup Reporting => Main[v].of # j
      /\ \A c \in DOMAIN coll : j \in Kids(c) => ~ Unopened(c)
  BY OwnFacts DEF Own
<1>2. /\ status[j] \in Final /\ Closed(j)
      /\ ended'[j] = 1 /\ \A x \in Jobs \ {j} : ended'[x] = ended[x]
  BY <1>1 DEF MainOK, Typed
<1>3. Main'[w] = f /\ \A v \in Workers : v # w => Main'[v] = Main[v]
  BY DEF Main
<1>4. /\ \A x : ~ Bears(w, x)'
      /\ \A v \in Workers : \A x : Bears(v, x)' <=> Bears(v, x) /\ v # w
  BY <1>3 DEF Bears, TokenOf, Own, Reporting
<1>5. Tokens' = Tokens \ {j}
  <2>1. \A x : Bears(w, x) => x = j
    BY DEF Bears, TokenOf, Own, Reporting
  <2> QED
    BY <1>1, <1>4, <2>1 DEF Tokens
<1>6. \A x : /\ Kids(x)' = Kids(x)
             /\ Unopened(x)' <=> Unopened(x)
             /\ Queued(x)' <=> Queued(x)
             /\ IsCollection(x)' <=> IsCollection(x)
             /\ Executing(x)' <=> Executing(x)
             /\ Closed(x)' <=> Closed(x)
  BY DEF Kids, Unopened, Queued, IsCollection, Executing, Closed
<1>7. \A x \in Jobs : x # j => /\ Live(x)' <=> Live(x)
                               /\ Fresh(x)' <=> Fresh(x)
                               /\ Ended(x)' <=> Ended(x)
  BY <1>2, <1>5, <1>6 DEF Live, Fresh, Ended
<1>8. /\ Ended(j)'
      /\ \A x \in Jobs : Ended(x) => Ended(x)'
  BY <1>1, <1>2, <1>6, <1>7 DEF Ended
<1>9. \A v \in Workers : \A c : \A P \in SUBSET Reporting : Itself(v, c, P)' <=> Itself(v, c, P)
  BY <1>3 DEF Itself, Reporting
<1>10. OneToken'
  BY <1>4 DEF JobInv, OneToken
<1>11. QueueInv'
  BY <1>1, <1>5, <1>6, <1>7 DEF JobInv, QueueInv
<1>12. MainInvs'
  <2>1. MainOK(f)'
    BY DEF MainOK, Own, Reporting
  <2> SUFFICES ASSUME NEW v \in Workers, v # w PROVE MainOK(Main[v])'
    BY <1>3, <2>1 DEF MainInvs
  <2>g. PICK g : g = Main[v]
    OBVIOUS
  <2>2. MainOK(g) /\ Main'[v] = g
    BY <2>g, <1>3 DEF JobInv, MainInvs
  <2>3. /\ g.at \in Own \cup Reporting => g.of # j
        /\ g.at \in Reporting => g.by # j /\ g.by \in Jobs /\ g.of \in DOMAIN coll
        /\ g.at \in Own => g.of \in Jobs
    BY <2>g, <1>1, <2>2, BearsIs DEF MainOK, IsCollection
  <2>4. g.of \in DOMAIN coll => g.of \in Jobs
    BY FamilyFacts
  <2>5. Untouched(g)
    BY <1>2, <1>6, <1>7, <1>8, <2>3, <2>4 DEF Untouched, IsCollection
  <2>6. MainOK(g)'
    BY <2>2, <2>5, UntouchedKept
  <2> QED
    BY <2>g, <2>2, <2>6
<1>13. CountInv'
  <2>1. \A c \in DOMAIN coll : Remaining(c)' = Remaining(c)
    <3> SUFFICES ASSUME NEW c \in DOMAIN coll PROVE Remaining(c)' = Remaining(c)
      OBVIOUS
    <3>1. j \notin ToSet(coll[c].elements) /\ ToSet(coll[c].elements) \subseteq Jobs
      BY ElementFacts DEF HasParent, ParentsOf, JobInv
    <3>2. \A e \in ToSet(coll[c].elements) : Live(e)' <=> Live(e)
      BY <1>7, <3>1
    <3>3. \A v \in Workers : Itself(v, c, {"finished", "process", "restore"})'
                               <=> Itself(v, c, {"finished", "process", "restore"})
      BY <1>9 DEF Reporting
    <3> QED
      BY <3>2, <3>3 DEF Remaining
  <2> QED
    BY <1>9, <2>1 DEF JobInv, CountInv, Reporting
<1>14. CollInv'
  <2> SUFFICES ASSUME NEW c \in DOMAIN coll PROVE CollOK(c)'
    BY DEF CollInv
  <2>1. CollOK(c) /\ c \in Jobs
    BY FamilyFacts DEF JobInv, CollInv
  <2>2. \A v \in Workers : (Main'[v].at = "callEnd" /\ Main'[v].of = c)
                              => (Main[v].at = "callEnd" /\ Main[v].of = c)
    BY <1>3
  <2>3. \A v \in Workers : (Main[v].at \in {"setRunning", "run", "end"} /\ Main[v].of = c)
                              => (Main'[v].at \in {"setRunning", "run", "end"} /\ Main'[v].of = c)
    BY <1>3
  <2>4. \A v \in Workers : Itself(v, c, {"finished"})' <=> Itself(v, c, {"finished"})
    BY <1>9 DEF Reporting
  <2>5. coll[c].jobCounter > 0 => ended'[c] = 0
    <3>1. coll[c].jobCounter > 0 => c # j
      BY <1>1 DEF IsCollection
    <3> QED
      BY <1>2, <2>1, <3>1 DEF CollOK
  <2>6. coll'[c].elements \in {program.elements[c], Family(program, c)}'
    BY <2>1 DEF CollOK, Family
  <2> QED
    BY <2>1, <2>2, <2>3, <2>4, <2>5, <2>6 DEF CollOK
<1>15. ClearInv'
  <2>1. \A c : Opening(c)' => Opening(c)
    BY <1>3, <1>9 DEF Opening, Reporting, Own
  <2> QED
    BY <1>6, <2>1 DEF JobInv, ClearInv, Over
<1>16. DoneInv'
  BY <1>5, <1>6, <1>8 DEF JobInv, DoneInv
<1>17. CustomersInv'
  <2> SUFFICES ASSUME NEW x \in customers'
               PROVE  \/ x \in Tokens' /\ ended'[x] = 0
                      \/ IsCollection(x)' /\ coll'[x].jobCounter > 0
    BY DEF CustomersInv
  <2>1. x \in customers /\ x # j /\ x \in Jobs
    BY ProgramsAssumption DEF Typed
  <2> QED
    BY <1>2, <1>5, <1>6, <2>1 DEF JobInv, CustomersInv
<1> QED
  BY <1>10, <1>11, <1>12, <1>13, <1>14, <1>15, <1>16, <1>17 DEF JobInv

(* A job has counted its end and tells its collection.                     *)
LEMMA CallEndKeeps ==
  ASSUME Inv, NEW w \in Workers, CallEnd(w)
  PROVE  Inv'
<1>j. PICK j : j = Top(w).of
  OBVIOUS
<1>p. PICK parent : parent = ParentOf(j)
  OBVIOUS
<1>t. PICK t : t = IF HasParent(j) THEN <<Frame("finished", parent, j)>> \o Tail(stack[w])
                                   ELSE Tail(stack[w])
  OBVIOUS
<1>f. PICK f : f = IF HasParent(j) THEN Frame("finished", parent, j) ELSE MainOf(t)
  OBVIOUS
<1>1. /\ stack[w] # <<>> /\ Top(w).at = "callEnd"
      /\ ended' = [ended EXCEPT ![j] = @ + 1]
      /\ dependencies' \subseteq dependencies /\ customers' = customers \ {j}
      /\ stack' = [stack EXCEPT ![w] = t]
      /\ UNCHANGED <<clientVars, owner, weaverVars, status, shouldAbort, begun, coll, blocked>>
  BY <1>j, <1>p, <1>t DEF CallEnd, At, Is, FreePolicies, ResolveDependencies, Become, Return,
                          Inv, Typed
<1>2. HasParent(j) => /\ parent \in DOMAIN coll /\ parent \in Jobs /\ parent # j
                      /\ j \in ToSet(coll[parent].elements) /\ j \in Jobs
  BY <1>p, ParentFacts, FamilyFacts DEF Inv, JobInv
<1>3. HasParent(j) => f \in FrameSet /\ f.at = "finished" /\ f.of = parent /\ f.by = j
  BY <1>f, <1>2 DEF FrameSet, Frame, Places, Statuses
<1>4. /\ Main[w] = Top(w) /\ MainOK(Main[w]) /\ Goes(w, t)
      /\ Taken(stack[w]) /\ Taken(t) /\ t[Len(t)].at = "clear"
      /\ Clearing' = Clearing /\ Main' = [Main EXCEPT ![w] = f]
      /\ LockedOf(stack[w]) = {}
      /\ LockedOf(t) = LockOf(f)
      /\ ~ HasParent(j) => f.at \in {"clear", "clearSelf"}
  <2>c. PICK C : C = {}
    OBVIOUS
  <2>1. Top(w).at \in EndPlaces
    BY <1>1 DEF EndPlaces
  <2>2. EndsWith(stack[w], f, C, t)
    BY <1>f, <1>t, <1>3, <2>c DEF EndsWith, EndPlaces
  <2>3. Continues(w, f, C, t)
    <3>1. stack[w] # <<>> /\ stack' = [stack EXCEPT ![w] = t]
      BY <1>1
    <3> QED
      BY <2>1, <2>2, <3>1, EndStep
  <2> QED
    BY <1>f, <1>t, <1>1, <2>3, <2>c DEF LockOf, Continues
<1>5. LockedOf(t) = {}
  BY <1>3, <1>4 DEF LockOf
<1>6. Locks(w, t)
  BY <1>1, <1>4, <1>5, LocksIs DEF Inv
<1>7. /\ Main[w].at = "callEnd" /\ Main[w].of = j
      /\ j \in Jobs /\ status[j] \in Final /\ Closed(j) /\ ended[j] = 0
      /\ IsCollection(j) => j \in DOMAIN coll /\ coll[j].jobCounter = 0
      /\ \A v \in Workers : v # w /\ Main[v].at \in Own \cup Reporting => Main[v].of # j
  <2>1. Main[w].at = "callEnd" /\ Main[w].of = j
    BY <1>j, <1>1, <1>4
  <2>2. Main[w].at \in Own
    BY <2>1 DEF Own
  <2>3. /\ j \in Jobs /\ ended[j] = 0
        /\ IsCollection(j) => j \in DOMAIN coll /\ coll[j].jobCounter = 0
        /\ \A v \in Workers : v # w /\ Main[v].at \in Own \cup Reporting => Main[v].of # j
    BY <2>1, <2>2, OwnFacts DEF Inv
  <2> QED
    BY <1>4, <2>1, <2>3 DEF MainOK
<1>8. /\ UNCHANGED <<program, script, active, working, held, shouldAbort, assignments, status,
                      begun, blocked, coll>>
      /\ customers' \subseteq customers /\ dependencies' \subseteq dependencies
      /\ ended' \in [Jobs -> Nat] /\ ended'[j] = 1 /\ \A x \in Jobs \ {j} : ended'[x] = ended[x]
  <2>1. ended \in [Jobs -> Nat]
    BY DEF Inv, Typed
  <2> QED
    BY <1>1, <1>7, <2>1 DEF clientVars, weaverVars
<1>9. JobInv'
  <2>1. CASE HasParent(j)
    <3>1. \A c : (IsCollection(c)' <=> IsCollection(c)) /\ (Closed(c)' <=> Closed(c))
      BY <1>8 DEF IsCollection, Closed
    <3>2. MainOK(f)'
      <4>1. Ended(j)'
        BY <1>7, <1>8, <3>1 DEF Ended
      <4>2. IsCollection(parent)' /\ j \in ToSet(coll'[parent].elements)
        BY <1>2, <1>8, <2>1 DEF IsCollection
      <4> QED
        BY <1>2, <1>3, <2>1, <4>1, <4>2 DEF MainOK, Own, Reporting
    <3>3. j \in Clearing => Over(j)'
      <4>1. j \in Clearing => Over(j)
        BY DEF Inv, JobInv, ClearInv
      <4>2. ~ Opening(j)'
        <5>1. Main'[w] = f /\ \A v \in Workers : v # w => Main'[v] = Main[v]
          BY <1>4 DEF Main
        <5> QED
          BY <1>2, <1>3, <1>7, <2>1, <5>1 DEF Opening, Itself, Own, Reporting
      <4> QED
        BY <1>8, <3>1, <4>1, <4>2 DEF Over
    <3>4. IsCollection(j) => CollOK(j)'
      <4> SUFFICES ASSUME j \in DOMAIN coll PROVE CollOK(j)'
        BY DEF IsCollection
      <4>1. CollOK(j)
        BY DEF Inv, JobInv, CollInv
      <4>2. coll'[j].elements \in {program.elements[j], Family(program, j)}'
        BY <1>8, <4>1 DEF CollOK, Family
      <4>3. coll'[j].jobCounter = 0 /\ ~ coll'[j].selfIsExecuting
        BY <1>7, <1>8 DEF Closed, IsCollection
      <4>4. coll'[j].self => j \in Clearing'
        BY <1>4, <1>8, <4>1, <4>3 DEF CollOK
      <4>5. status'[j] \notin {"New", "Queued"} => coll'[j].jobsStarted > 0
        BY <1>8, <4>1 DEF CollOK
      <4> QED
        BY <4>2, <4>3, <4>4, <4>5 DEF CollOK
    <3>5. IsCollection(j) => \A e \in ToSet(coll'[j].elements) :
                               e \in Jobs \ {j} /\ e \in ToSet(coll[j].elements)
      BY <1>7, <1>8, ElementFacts DEF Inv, JobInv
    <3>6. Main[w].at \in Own /\ status'[j] # "New" /\ j \notin customers'
      BY <1>1, <1>7, <1>8 DEF Own, Final
    <3> QED
      BY <1>3, <1>4, <1>7, <1>8, <2>1, <3>2, <3>3, <3>4, <3>5, <3>6, OneJobKept, ZenonT(60) DEF Inv
  <2>2. CASE ~ HasParent(j)
    BY <1>1, <1>4, <1>7, <1>8, <2>2, DroppedKept DEF Inv
  <2> QED
    BY <2>1, <2>2
<1>10. CollectionsGrow
  BY <1>8, CollectionsStay DEF Inv, JobInv
<1>11. /\ assignments' \in Seq(Jobs) /\ begun' \in [Jobs -> Nat] /\ status' \in [Jobs -> Statuses]
       /\ blocked' \subseteq Jobs
  BY <1>8 DEF Inv, Typed
<1> QED
  BY <1>4, <1>6, <1>8, <1>9, <1>10, <1>11, StepKeeps

(* A collection reports to itself, before it has queued its elements.      *)
LEMMA ItselfFacts ==
  ASSUME Typed, Shapes, JobInv, NEW w \in Workers, NEW c, Itself(w, c, {"finished", "enqueue"})
  PROVE  /\ c \in DOMAIN coll /\ c \in Jobs /\ coll[c] \in CollSet /\ IsCollection(c)
         /\ status[c] \in Final /\ ended[c] = 0 /\ coll[c].self /\ Unopened(c)
         /\ Bears(w, c) /\ c \in Tokens /\ ~ Queued(c) /\ c \notin Clearing
         /\ \A v \in Workers : v # w => ~ Bears(v, c)
         /\ \A v \in Workers : v # w /\ Main[v].at \in Own \cup Reporting => Main[v].of # c
<1>1. MainOK(Main[w]) /\ Main[w].of = c /\ Main[w].by = c /\ Main[w].at \in {"finished", "enqueue"}
  BY DEF JobInv, MainInvs, Itself
<1>2. /\ c \in DOMAIN coll /\ IsCollection(c) /\ status[c] \in Final /\ ended[c] = 0
      /\ coll[c].self /\ Unopened(c) /\ ~ Closed(c)
  <2>1. c \in DOMAIN coll /\ IsCollection(c) /\ status[c] \in Final /\ ended[c] = 0
    BY <1>1 DEF MainOK, Reporting, IsCollection
  <2>2. coll[c].elements \in Seq(Jobs)
    BY <2>1, ElementFacts DEF JobInv
  <2>3. Len(coll[c].elements) \in Nat
    BY <2>2, LenProperties
  <2>4. CASE Main[w].at = "finished"
    BY <1>1, <2>1, <2>4 DEF MainOK, Executing, Closed
  <2>5. CASE Main[w].at = "enqueue"
    <3>1. coll[c].self /\ Unopened(c) /\ coll[c].jobCounter = Len(coll[c].elements) + 1
      BY <1>1, <2>5 DEF MainOK
    <3>2. coll[c].jobCounter # 0
      BY <2>3, <3>1
    <3> QED
      BY <2>1, <3>1, <3>2 DEF Closed
  <2> QED
    BY <1>1, <2>1, <2>4, <2>5
<1>3. c \in Jobs /\ coll[c] \in CollSet
  BY <1>2, FamilyFacts
<1>4. Bears(w, c) /\ c \in Tokens /\ ~ Queued(c)
  <2>1. Bears(w, c)
    BY <1>1, BearsIs DEF Reporting
  <2> QED
    BY <1>3, <2>1 DEF Tokens, JobInv, QueueInv
<1>5. c \notin Clearing
  BY <1>2 DEF JobInv, ClearInv, Over
<1>6. \A v \in Workers : v # w => ~ Bears(v, c)
  BY <1>3, <1>4 DEF JobInv, OneToken
<1>7. ASSUME NEW v \in Workers, v # w, Main[v].at \in Own \cup Reporting, Main[v].of = c
      PROVE  FALSE
  <2>1. Main[v].at \in Reporting /\ Main[v].by # c
    BY <1>6, <1>7, BearsIs
  <2> QED
    BY <1>7, <2>1, ReportingFacts DEF Itself
<1> QED
  BY <1>2, <1>3, <1>4, <1>5, <1>6, <1>7

(* The collection counts its elements and itself.                          *)
LEMMA PrepareKept ==
  ASSUME Typed, Shapes, JobInv, NEW w \in Workers, NEW c, Itself(w, c, {"finished"}),
         NEW f, Main' = [Main EXCEPT ![w] = f], f.at = "enqueue", f.of = c, f.by = c,
         Clearing' = Clearing, DOMAIN coll' = DOMAIN coll,
         \A d \in DOMAIN coll : d # c => coll'[d] = coll[d],
         coll'[c].elements = coll[c].elements, coll'[c].self = coll[c].self,
         coll'[c].jobsStarted = coll[c].jobsStarted,
         ~ coll'[c].selfIsExecuting, coll'[c].jobCounter = Len(coll[c].elements) + 1,
         UNCHANGED <<program, assignments, status, begun, ended, customers>>
  PROVE  JobInv'
<1>1. /\ c \in DOMAIN coll /\ c \in Jobs /\ coll[c] \in CollSet /\ IsCollection(c)
      /\ status[c] \in Final /\ ended[c] = 0 /\ coll[c].self /\ Unopened(c)
      /\ Bears(w, c) /\ c \in Tokens /\ ~ Queued(c) /\ c \notin Clearing
      /\ \A v \in Workers : v # w => ~ Bears(v, c)
      /\ \A v \in Workers : v # w /\ Main[v].at \in Own \cup Reporting => Main[v].of # c
  <2>1. Itself(w, c, {"finished", "enqueue"})
    BY DEF Itself
  <2> QED
    BY <2>1, ItselfFacts
<1>2. Main'[w] = f /\ \A v \in Workers : v # w => Main'[v] = Main[v]
  BY DEF Main
<1>3. Main[w].at = "finished" /\ Main[w].of = c /\ Main[w].by = c
  BY DEF Itself
<1>4. \A v \in Workers : \A x : Bears(v, x)' <=> Bears(v, x)
  <2>1. \A x : Bears(w, x)' <=> x = c
    BY <1>2 DEF Bears, TokenOf, Own, Reporting
  <2>2. \A x : Bears(w, x) <=> x = c
    BY <1>3 DEF Bears, TokenOf, Own, Reporting
  <2> QED
    BY <1>2, <2>1, <2>2 DEF Bears
<1>5. Tokens' = Tokens
  BY <1>4 DEF Tokens
<1>6. Len(coll[c].elements) \in Nat
  BY <1>1, LenProperties DEF CollSet
<1>7. \A x : /\ Kids(x)' = Kids(x)
             /\ Unopened(x)' <=> Unopened(x)
             /\ Queued(x)' <=> Queued(x)
             /\ IsCollection(x)' <=> IsCollection(x)
  BY DEF Kids, Unopened, Queued, IsCollection
<1>8. \A x : Live(x)' <=> Live(x)
  <2>1. Live(c) /\ Live(c)'
    BY <1>1, <1>5 DEF Live
  <2>2. \A x : x # c => (Live(x)' <=> Live(x))
    BY <1>5, <1>7 DEF Live, IsCollection
  <2> QED
    BY <2>1, <2>2
<1>9. \A x : x # c => /\ Fresh(x)' <=> Fresh(x)
                      /\ Closed(x)' <=> Closed(x)
                      /\ Ended(x)' <=> Ended(x)
                      /\ IsCollection(x) => (Executing(x)' <=> Executing(x))
  BY <1>7 DEF Fresh, Closed, Ended, Executing, IsCollection
<1>10. \A v \in Workers : \A d : \A P \in SUBSET Reporting :
         v # w \/ d # c => (Itself(v, d, P)' <=> Itself(v, d, P))
  BY <1>2, <1>3 DEF Itself, Reporting
<1>11. OneToken'
  BY <1>4 DEF JobInv, OneToken
<1>12. QueueInv'
  <2>1. c \in Jobs => ~ Queued(c) /\ status[c] # "New"
    BY <1>1 DEF Final
  <2> QED
    BY <1>5, <1>7, <1>9, <2>1 DEF JobInv, QueueInv
<1>13. MainInvs'
  <2>1. MainOK(f)'
    BY <1>1, <1>7 DEF MainOK, Own, Reporting
  <2> SUFFICES ASSUME NEW v \in Workers, v # w PROVE MainOK(Main[v])'
    BY <1>2, <2>1 DEF MainInvs
  <2>g. PICK g : g = Main[v]
    OBVIOUS
  <2>2. MainOK(g) /\ Main'[v] = g
    BY <2>g, <1>2 DEF JobInv, MainInvs
  <2>3. /\ g.at \in Own \cup Reporting => g.of # c
        /\ g.at \in Reporting => g.by # c
    BY <2>g, <1>1, BearsIs
  <2>4. Untouched(g)
    BY <1>7, <1>9, <2>3 DEF Untouched, IsCollection
  <2>5. MainOK(g)'
    BY <2>2, <2>4, UntouchedKept
  <2> QED
    BY <2>g, <2>2, <2>5
<1>14. CountInv'
  <2> SUFFICES ASSUME NEW d \in DOMAIN coll
               PROVE  \/ \E v \in Workers : Itself(v, d, {"finished", "enqueue"})'
                      \/ coll'[d].jobCounter = Cardinality(Remaining(d)')
    BY DEF CountInv
  <2>1. CASE d = c
    BY <1>2, <2>1 DEF Itself
  <2>2. CASE d # c
    <3>1. Remaining(d)' = Remaining(d)
      BY <1>8, <1>10, <2>2 DEF Remaining, Reporting
    <3> QED
      BY <1>10, <2>2, <3>1 DEF JobInv, CountInv, Reporting
  <2> QED
    BY <2>1, <2>2
<1>15. CollInv'
  <2> SUFFICES ASSUME NEW d \in DOMAIN coll PROVE CollOK(d)'
    BY DEF CollInv
  <2>1. CollOK(d)
    BY DEF JobInv, CollInv
  <2>2. coll'[d].elements \in {program.elements[d], Family(program, d)}'
    BY <2>1 DEF CollOK, Family
  <2>3. \A v \in Workers : \A at \in Own :
          (Main'[v].at = at /\ Main'[v].of = d) <=> (Main[v].at = at /\ Main[v].of = d)
    BY <1>2, <1>3 DEF Own
  <2>4. CASE d = c
    <3>1. \A v \in Workers : ~ (Main'[v].at = "callEnd" /\ Main'[v].of = c)
      BY <1>1, <1>2 DEF Own
    <3>2. coll'[c].jobCounter > 0
      BY <1>6
    <3> QED
      BY <1>1, <2>1, <2>2, <2>4, <3>1, <3>2 DEF CollOK
  <2>5. CASE d # c
    <3>1. \A v \in Workers : Itself(v, d, {"finished"})' <=> Itself(v, d, {"finished"})
      BY <1>10, <2>5 DEF Reporting
    <3> QED
      BY <2>1, <2>2, <2>3, <2>5, <3>1 DEF CollOK, Own
  <2> QED
    BY <2>4, <2>5
<1>16. ClearInv'
  <2>1. \A d : d # c /\ Opening(d)' => Opening(d)
    BY <1>2, <1>10 DEF Opening, Reporting, Own
  <2> QED
    BY <1>1, <1>7, <1>9, <2>1 DEF JobInv, ClearInv, Over
<1>17. DoneInv'
  BY <1>1, <1>5, <1>7, <1>9 DEF JobInv, DoneInv, IsCollection
<1>18. CustomersInv'
  <2> SUFFICES ASSUME NEW x \in customers
               PROVE  \/ x \in Tokens' /\ ended'[x] = 0
                      \/ IsCollection(x)' /\ coll'[x].jobCounter > 0
    BY DEF CustomersInv
  <2>1. CASE x = c
    BY <1>1, <1>5, <2>1
  <2>2. CASE x # c
    BY <1>5, <1>7, <2>2 DEF JobInv, CustomersInv, IsCollection
  <2> QED
    BY <2>1, <2>2
<1> QED
  BY <1>11, <1>12, <1>13, <1>14, <1>15, <1>16, <1>17, <1>18 DEF JobInv

(* elementFinished() of the collection itself: it is here that it counts.  *)
LEMMA PrepareElementsKeeps ==
  ASSUME Inv, NEW w \in Workers, PrepareElements(w)
  PROVE  Inv'
<1>c. PICK c : c = Top(w).of
  OBVIOUS
<1>f. PICK f : f = [Top(w) EXCEPT !.at = "enqueue"]
  OBVIOUS
<1>t. PICK t : t = <<f>> \o Tail(stack[w])
  OBVIOUS
<1>r. PICK r : r = [coll[c] EXCEPT !.selfIsExecuting = FALSE, !.completed = 0,
                                   !.jobCounter = InitialCount(c)]
  OBVIOUS
<1>1. /\ stack[w] # <<>> /\ Top(w).at = "finished"
      /\ coll[c].selfIsExecuting /\ owner[c] = Nobody
      /\ Hold(w, c) /\ Goto(w, "enqueue")
      /\ coll' = [coll EXCEPT ![c] = r]
      /\ blocked' = IF IsSequence(c) THEN blocked \cup ToSet(coll[c].elements) ELSE blocked
      /\ UNCHANGED <<clientVars, weaverVars, jobVars, dependencies, customers>>
  BY <1>c, <1>r DEF PrepareElements, At, Is, Needs, QueuesElements
<1>2. Main[w] = Top(w) /\ MainOK(Main[w])
  <2>1. Top(w).at \in EndPlaces
    BY <1>1 DEF EndPlaces
  <2> QED
    BY <1>1, <2>1, TopShape DEF Inv, JobInv, MainInvs
<1>3. Itself(w, c, {"finished"})
  <2>1. Main[w].at = "finished" /\ Main[w].of = c
    BY <1>c, <1>1, <1>2
  <2>2. ASSUME Main[w].by # Main[w].of PROVE FALSE
    <3>1. c \in DOMAIN coll /\ coll[c].jobCounter > 0
      BY <2>1, <2>2, ReportingFacts DEF Inv, Reporting
    <3> QED
      BY <1>1, <3>1 DEF Inv, JobInv, CollInv, CollOK
  <2> QED
    BY <2>1, <2>2 DEF Itself
<1>4. /\ c \in DOMAIN coll /\ c \in Jobs /\ coll[c] \in CollSet /\ Unopened(c)
  <2>1. Itself(w, c, {"finished", "enqueue"})
    BY <1>3 DEF Itself
  <2> QED
    BY <2>1, ItselfFacts DEF Inv
<1>5. /\ coll[c].elements \in Seq(Jobs) /\ ToSet(coll[c].elements) \subseteq Kids(c)
      /\ ToSet(coll[c].elements) \subseteq Jobs /\ Len(coll[c].elements) \in Nat
  BY <1>4, ElementFacts, LenProperties DEF Inv, JobInv
<1>6. f \in FrameSet /\ f.at = "enqueue" /\ f.of = c /\ f.by = c
      /\ stack' = [stack EXCEPT ![w] = t]
  <2>1. Top(w).by = c
    BY <1>2, <1>3 DEF Itself
  <2> QED
    BY <1>c, <1>f, <1>t, <1>1, <2>1, GotoIs DEF Inv, Places
<1>7. Main[w] = Top(w) /\ Goes(w, t) /\ Taken(stack[w]) /\ Taken(t) /\ t[Len(t)].at = "clear"
      /\ Clearing' = Clearing /\ Main' = [Main EXCEPT ![w] = f]
      /\ LockedOf(stack[w]) = {} /\ LockedOf(t) = {c}
  <2>c. PICK C : C = {}
    OBVIOUS
  <2>1. Top(w).at \in EndPlaces
    BY <1>1 DEF EndPlaces
  <2>2. EndsWith(stack[w], f, C, t)
    BY <1>t, <1>6, <2>c DEF EndsWith, EndPlaces
  <2>3. Continues(w, f, C, t)
    BY <1>1, <1>6, <2>1, <2>2, EndStep
  <2> QED
    BY <1>1, <1>6, <2>3, <2>c DEF LockOf, Continues
<1>8. Locks(w, t)
  <2>1. owner' = [owner EXCEPT ![c] = w]
    BY <1>1 DEF Hold
  <2> QED
    BY <1>1, <1>4, <1>7, <2>1, LocksIs DEF Inv
<1>9. /\ r \in CollSet /\ r.elements = coll[c].elements /\ r.self = coll[c].self
      /\ r.jobsStarted = coll[c].jobsStarted /\ ~ r.selfIsExecuting
      /\ r.jobCounter = Len(coll[c].elements) + 1
  <2>i. PICK i : i = InitialCount(c)
    OBVIOUS
  <2>1. i \in Int /\ i = Len(coll[c].elements) + 1
    BY <1>5, <2>i DEF InitialCount
  <2>2. r = [coll[c] EXCEPT !.selfIsExecuting = FALSE, !.completed = 0, !.jobCounter = i]
    BY <1>r, <2>i
  <2> QED
    BY <1>4, <2>1, <2>2 DEF CollSet
<1>10. /\ DOMAIN coll' = DOMAIN coll /\ coll' \in [DOMAIN program.elements -> CollSet]
       /\ coll'[c] = r /\ \A d \in DOMAIN coll : d # c => coll'[d] = coll[d]
  <2>1. coll \in [DOMAIN program.elements -> CollSet]
    BY DEF Inv, Typed
  <2> QED
    BY <1>1, <1>4, <1>9, <2>1
<1>11. UNCHANGED <<program, script, active, working, held, shouldAbort, assignments, status,
                   begun, ended, customers, dependencies>>
  BY <1>1 DEF clientVars, weaverVars, jobVars
<1>12. JobInv'
  BY <1>3, <1>6, <1>7, <1>9, <1>10, <1>11, PrepareKept, ZenonT(60) DEF Inv
<1>13. CollectionsGrow
  <2>1. \A d \in DOMAIN coll : coll'[d].elements = coll[d].elements
    BY <1>9, <1>10
  <2> QED
    BY <1>10, <2>1, CollectionsStay DEF Inv, JobInv
<1>14. blocked' \subseteq Jobs /\ blocked' \cap ToSet(assignments) \subseteq blocked
  <2>1. blocked \subseteq Jobs
    BY DEF Inv, Typed
  <2>2. \A e \in ToSet(coll[c].elements) : e \notin ToSet(assignments)
    <3>1. \A e \in ToSet(coll[c].elements) : e \in Jobs /\ status[e] = "New"
      BY <1>4, <1>5 DEF Unopened
    <3> QED
      BY <3>1 DEF Inv, JobInv, QueueInv, Queued
  <2> QED
    BY <1>1, <1>5, <2>1, <2>2
<1>15. /\ assignments' \in Seq(Jobs) /\ begun' \in [Jobs -> Nat] /\ status' \in [Jobs -> Statuses]
       /\ ended' \in [Jobs -> Nat]
  BY <1>11 DEF Inv, Typed
<1>16. \A v \in Workers : v # w /\ Main[v].at = "setRunning" =>
         \A d \in DOMAIN coll : d = Main[v].of => coll'[d].jobsStarted = coll[d].jobsStarted
  BY <1>9, <1>10
<1> QED
  BY <1>7, <1>8, <1>11, <1>12, <1>13, <1>14, <1>15, <1>16, StepKeeps

(* What is reported to is not new.                                         *)
LEMMA PlacedFacts ==
  ASSUME Typed, Shapes, JobInv, NEW w \in Workers, Main[w].at \in Own \cup Reporting
  PROVE  /\ Main[w].of \in Jobs => status[Main[w].of] # "New"
         /\ Main[w].at \in Reporting => Main[w].by \in Jobs /\ status[Main[w].by] # "New"
<1>1. MainOK(Main[w])
  BY DEF JobInv, MainInvs
<1>2. CASE Main[w].at \in Own
  BY <1>2, OwnFacts DEF Own, Reporting
<1>3. CASE Main[w].at \in Reporting
  <2>1. Main[w].by \in Jobs /\ Main[w].of \in DOMAIN coll
    BY <1>1, <1>3 DEF MainOK, IsCollection
  <2>2. Main[w].by \in Tokens
    BY <1>3, <2>1, BearsIs DEF Tokens
  <2>3. status[Main[w].by] # "New"
    BY <2>1, <2>2 DEF JobInv, QueueInv
  <2>4. CASE Main[w].by = Main[w].of
    BY <2>1, <2>3, <2>4
  <2>5. CASE Main[w].by # Main[w].of
    <3>1. coll[Main[w].of].jobCounter > 0
      BY <1>3, <2>5, ReportingFacts
    <3>2. status[Main[w].of] # "New"
      BY <2>1, <3>1, CountingFacts DEF Final
    <3> QED
      BY <2>1, <2>3, <3>2
  <2> QED
    BY <2>4, <2>5, <2>1, <2>3
<1> QED
  BY <1>2, <1>3

(* A collection puts its elements into the queue.                          *)
LEMMA EnqueueKept ==
  ASSUME Typed, Shapes, JobInv, NEW w \in Workers, NEW c, Itself(w, c, {"enqueue"}),
         NEW f, Main' = [Main EXCEPT ![w] = f], f.at = "process", f.of = c, f.by = c,
         Clearing' = Clearing, CollectionsKept(Counting),
         NEW K, K = ToSet(coll[c].elements),
         Distinct(assignments'), ToSet(assignments') = ToSet(assignments) \cup K,
         status' = [j \in Jobs |-> IF j \in K THEN "Queued" ELSE status[j]],
         UNCHANGED <<program, begun, ended, customers>>
  PROVE  JobInv'
<1>1. /\ c \in DOMAIN coll /\ c \in Jobs /\ coll[c] \in CollSet /\ IsCollection(c)
      /\ status[c] \in Final /\ ended[c] = 0 /\ coll[c].self /\ Unopened(c)
      /\ Bears(w, c) /\ c \in Tokens /\ ~ Queued(c) /\ c \notin Clearing
      /\ \A v \in Workers : v # w => ~ Bears(v, c)
      /\ \A v \in Workers : v # w /\ Main[v].at \in Own \cup Reporting => Main[v].of # c
  <2>1. Itself(w, c, {"finished", "enqueue"})
    BY DEF Itself
  <2> QED
    BY <2>1, ItselfFacts
<1>2. Main'[w] = f /\ \A v \in Workers : v # w => Main'[v] = Main[v]
  BY DEF Main
<1>3. /\ Main[w].at = "enqueue" /\ Main[w].of = c /\ Main[w].by = c
      /\ coll[c].jobCounter = Len(coll[c].elements) + 1 /\ ~ coll[c].selfIsExecuting
  <2>1. Main[w].at = "enqueue" /\ Main[w].of = c /\ Main[w].by = c
    BY DEF Itself
  <2> QED
    BY <2>1 DEF JobInv, MainInvs, MainOK
<1>4. /\ K \subseteq Kids(c) /\ K \subseteq Jobs /\ c \notin K
      /\ IsFiniteSet(K) /\ Cardinality(K) = Len(coll[c].elements)
  BY <1>1, ElementFacts DEF JobInv
<1>5. \A e \in K : /\ e \in Jobs /\ status[e] = "New" /\ Fresh(e) /\ e \notin Tokens
                   /\ e \notin customers /\ ~ Queued(e)
  <2>1. \A e \in K : e \in Jobs /\ status[e] = "New"
    BY <1>1, <1>4 DEF Unopened
  <2> QED
    BY <2>1 DEF JobInv, QueueInv
<1>6. /\ DOMAIN coll' = DOMAIN coll
      /\ \A d \in DOMAIN coll :
           /\ coll'[d].elements = coll[d].elements /\ coll'[d].self = coll[d].self
           /\ coll'[d].selfIsExecuting = coll[d].selfIsExecuting
           /\ coll'[d].jobCounter = coll[d].jobCounter
           /\ coll'[d].jobsStarted = coll[d].jobsStarted
  BY DEF CollectionsKept, Counting
<1>7. \A v \in Workers : \A x : Bears(v, x)' <=> Bears(v, x)
  <2>1. \A x : Bears(w, x)' <=> x = c
    BY <1>2 DEF Bears, TokenOf, Own, Reporting
  <2>2. \A x : Bears(w, x) <=> x = c
    BY <1>3 DEF Bears, TokenOf, Own, Reporting
  <2> QED
    BY <1>2, <2>1, <2>2 DEF Bears
<1>8. Tokens' = Tokens
  BY <1>7 DEF Tokens
<1>9. /\ \A x : Kids(x)' = Kids(x)
      /\ \A x : IsCollection(x)' <=> IsCollection(x)
      /\ \A x : Queued(x)' <=> Queued(x) \/ x \in K
      /\ \A x \in Jobs : status'[x] = IF x \in K THEN "Queued" ELSE status[x]
  BY <1>6 DEF Kids, IsCollection, Queued
<1>10. \A d \in DOMAIN coll : d # c => (Unopened(d)' <=> Unopened(d))
  <2> SUFFICES ASSUME NEW d \in DOMAIN coll, d # c PROVE Unopened(d)' <=> Unopened(d)
    OBVIOUS
  <2>1. Kids(d) \subseteq Jobs /\ Kids(d) \cap Kids(c) = {}
    BY <1>1, FamilyFacts
  <2>2. \A e \in Kids(d) : status'[e] = status[e]
    BY <1>4, <1>9, <2>1
  <2> QED
    BY <1>9, <2>2 DEF Unopened
<1>11. \A x : /\ x # c => (Fresh(x)' <=> Fresh(x))
              /\ x # c /\ IsCollection(x) => (Executing(x)' <=> Executing(x))
              /\ Closed(x)' <=> Closed(x)
              /\ x \in Jobs \ K => (Ended(x)' <=> Ended(x))
  <2>1. \A x : Closed(x)' <=> Closed(x)
    BY <1>6, <1>9 DEF Closed, IsCollection
  <2>2. \A x \in Jobs \ K : Ended(x)' <=> Ended(x)
    BY <1>9, <2>1 DEF Ended
  <2>3. \A x : x # c => (Fresh(x)' <=> Fresh(x))
    BY <1>6, <1>10 DEF Fresh, IsCollection
  <2>4. \A x : x # c /\ IsCollection(x) => (Executing(x)' <=> Executing(x))
    BY <1>6, <1>10 DEF Executing, IsCollection
  <2> QED
    BY <2>1, <2>2, <2>3, <2>4
<1>12. \A x : Live(x)' <=> Live(x) \/ x \in K
  BY <1>6, <1>8, <1>9 DEF Live, IsCollection
<1>13. \A v \in Workers : Main[v].at \in Own \cup Reporting =>
         /\ Main[v].of \notin K
         /\ Main[v].at \in Reporting => Main[v].by \in Jobs \ K
  BY <1>5, PlacedFacts
<1>14. OneToken'
  BY <1>7 DEF JobInv, OneToken
<1>15. QueueInv'
  <2>1. status[c] # "New" /\ ~ Queued(c)'
    BY <1>1, <1>4, <1>9 DEF Final
  <2>2. \A j \in Jobs : Queued(j)' => status'[j] = "Queued"
    BY <1>9 DEF JobInv, QueueInv
  <2>3. \A j \in Jobs : status'[j] = "New" => ~ Queued(j)'
    BY <1>9 DEF JobInv, QueueInv
  <2>4. ASSUME NEW j \in Jobs, Queued(j)' \/ status'[j] = "New"
        PROVE  Fresh(j)' /\ j \notin Tokens' /\ j \notin customers'
    <3>1. j # c
      BY <1>4, <1>9, <2>1, <2>4
    <3>2. Fresh(j) /\ j \notin Tokens /\ j \notin customers
      BY <1>5, <1>9, <2>4 DEF JobInv, QueueInv
    <3> QED
      BY <1>8, <1>11, <3>1, <3>2
  <2> QED
    BY <2>2, <2>3, <2>4 DEF QueueInv
<1>16. MainInvs'
  <2>1. MainOK(f)'
    <3>1. status'[c] \in Final /\ IsCollection(c)'
      BY <1>1, <1>4, <1>9
    <3> QED
      BY <1>1, <3>1 DEF MainOK, Own, Reporting
  <2> SUFFICES ASSUME NEW v \in Workers, v # w PROVE MainOK(Main[v])'
    BY <1>2, <2>1 DEF MainInvs
  <2>g. PICK g : g = Main[v]
    OBVIOUS
  <2>2. MainOK(g) /\ Main'[v] = g
    BY <2>g, <1>2 DEF JobInv, MainInvs
  <2>3. /\ g.at \in Own \cup Reporting => g.of # c /\ g.of \notin K
        /\ g.at \in Reporting => g.by \in Jobs \ K
    BY <2>g, <1>1, <1>13
  <2>4. g.at \in Own \cup Reporting => g.of \in Jobs
    <3>1. g.at \in Reporting => g.of \in DOMAIN coll
      BY <2>2 DEF MainOK, IsCollection
    <3> QED
      BY <2>2, <3>1, FamilyFacts DEF MainOK
  <2>5. Untouched(g)
    BY <1>6, <1>9, <1>10, <1>11, <2>3, <2>4 DEF Untouched, IsCollection
  <2>6. MainOK(g)'
    BY <2>2, <2>5, UntouchedKept
  <2> QED
    BY <2>g, <2>2, <2>6
<1>17. \A v \in Workers : \A d : \A P \in SUBSET Reporting :
         v # w \/ d # c => (Itself(v, d, P)' <=> Itself(v, d, P))
  BY <1>2, <1>3 DEF Itself, Reporting
<1>18. CountInv'
  <2> SUFFICES ASSUME NEW d \in DOMAIN coll
               PROVE  \/ \E v \in Workers : Itself(v, d, {"finished", "enqueue"})'
                      \/ coll'[d].jobCounter = Cardinality(Remaining(d)')
    BY <1>6 DEF CountInv
  <2>1. CASE d = c
    <3>1. Remaining(c)' = K \cup {c}
      <4>1. Itself(w, c, {"finished", "process", "restore"})'
        BY <1>2 DEF Itself
      <4>2. ToSet(coll'[c].elements) = K
        BY <1>1, <1>6
      <4> QED
        BY <1>12, <4>1, <4>2 DEF Remaining
    <3>2. Cardinality(K \cup {c}) = Cardinality(K) + 1
      BY <1>4, FS_AddElement
    <3>3. coll'[c].jobCounter = Len(coll[c].elements) + 1
      BY <1>1, <1>3, <1>6
    <3> QED
      BY <1>4, <2>1, <3>1, <3>2, <3>3
  <2>2. CASE d # c
    <3>1. \A e \in ToSet(coll[d].elements) : e \notin K
      <4>1. ToSet(coll[d].elements) \subseteq Kids(d) /\ Kids(d) \cap Kids(c) = {}
        BY <1>1, <2>2, ElementFacts, FamilyFacts DEF JobInv
      <4> QED
        BY <1>4, <4>1
    <3>2. Remaining(d)' = Remaining(d)
      <4>1. \A v \in Workers : Itself(v, d, {"finished", "process", "restore"})'
                                 <=> Itself(v, d, {"finished", "process", "restore"})
        BY <1>17, <2>2 DEF Reporting
      <4>2. coll'[d].elements = coll[d].elements
        BY <1>6
      <4> QED
        BY <1>12, <3>1, <4>1, <4>2 DEF Remaining
    <3>3. \A v \in Workers : Itself(v, d, {"finished", "enqueue"})'
                                 <=> Itself(v, d, {"finished", "enqueue"})
      BY <1>17, <2>2 DEF Reporting
    <3> QED
      BY <1>6, <3>2, <3>3 DEF JobInv, CountInv
  <2> QED
    BY <2>1, <2>2
<1>19. CollInv'
  <2> SUFFICES ASSUME NEW d \in DOMAIN coll PROVE CollOK(d)'
    BY <1>6 DEF CollInv
  <2>1. CollOK(d) /\ d \in Jobs
    BY FamilyFacts DEF JobInv, CollInv
  <2>2. coll'[d].elements \in {program.elements[d], Family(program, d)}'
    BY <1>6, <2>1 DEF CollOK, Family
  <2>3. \A v \in Workers : \A at \in Own :
          (Main'[v].at = at /\ Main'[v].of = d) <=> (Main[v].at = at /\ Main[v].of = d)
    BY <1>2, <1>3 DEF Own
  <2>4. \A v \in Workers : d # c => (Itself(v, d, {"finished"})' <=> Itself(v, d, {"finished"}))
    BY <1>17 DEF Reporting
  <2>5. coll'[d].jobCounter > 0 => status'[d] = status[d]
    <3>1. d \in K => coll[d].jobCounter = 0
      BY <1>5 DEF Fresh, IsCollection
    <3> QED
      BY <1>6, <1>9, <2>1, <3>1
  <2>6. status'[d] \notin {"New", "Queued"} => status'[d] = status[d]
    BY <1>9, <2>1
  <2>7. d = c => ~ coll'[d].selfIsExecuting
    BY <1>3, <1>6
  <2> QED
    BY <1>6, <2>1, <2>2, <2>3, <2>4, <2>5, <2>6, <2>7 DEF CollOK, Own
<1>20. ClearInv'
  <2> SUFFICES ASSUME NEW d \in Clearing PROVE Over(d)'
    BY DEF ClearInv
  <2>1. Over(d) /\ d # c /\ d \in Jobs
    BY <1>1, FamilyFacts DEF JobInv, ClearInv, Over, IsCollection
  <2>2. d \notin K
    BY <1>5, <2>1 DEF Over, Final
  <2>3. Opening(d)' => Opening(d)
    BY <1>2, <1>17, <2>1 DEF Opening, Reporting, Own
  <2> QED
    BY <1>9, <1>11, <2>1, <2>2, <2>3 DEF Over
<1>21. DoneInv'
  <2> SUFFICES ASSUME NEW j \in Jobs, begun[j] > 0
               PROVE  \/ j \in Tokens'
                      \/ IsCollection(j)' /\ coll'[j].jobCounter > 0
                      \/ Ended(j)'
    BY DEF DoneInv
  <2>1. j \notin K
    BY <1>5 DEF Fresh
  <2>2. \/ j \in Tokens \/ Ended(j)
        \/ IsCollection(j) /\ coll[j].jobCounter > 0
    BY DEF JobInv, DoneInv
  <2>3. Ended(j) => Ended(j)'
    BY <1>11, <2>1
  <2> QED
    BY <1>6, <1>8, <1>9, <2>2, <2>3 DEF IsCollection
<1>22. CustomersInv'
  BY <1>6, <1>8, <1>9 DEF JobInv, CustomersInv, IsCollection
<1> QED
  BY <1>14, <1>15, <1>16, <1>18, <1>19, <1>20, <1>21, <1>22 DEF JobInv

(* Jobs get or lose their queue: nothing that counts.                      *)
LEMMA KnowKept ==
  ASSUME Typed, NEW js, coll' = KnowQueue(js, coll) \/ coll' = ForgetQueue(js, coll),
         program' = program
  PROVE  CollectionsKept(Counting)
<1>1. coll \in [DOMAIN program.elements -> CollSet]
  BY DEF Typed
<1>2. DOMAIN coll' = DOMAIN coll
  BY DEF KnowQueue, ForgetQueue
<1>3. ASSUME NEW d \in DOMAIN coll
      PROVE  coll'[d] \in CollSet /\ \A x \in Counting : coll'[d][x] = coll[d][x]
  <2>1. PICK b \in BOOLEAN : coll'[d] = [coll[d] EXCEPT !.api = b]
    <3>1. coll[d].api \in BOOLEAN
      BY <1>1 DEF CollSet
    <3>2. CASE coll' = KnowQueue(js, coll)
      <4>1. coll'[d] = [coll[d] EXCEPT !.api = coll[d].api \/ d \in js]
        BY <3>2 DEF KnowQueue
      <4> QED
        BY <4>1
    <3>3. CASE coll' = ForgetQueue(js, coll)
      <4>1. coll'[d] = [coll[d] EXCEPT !.api = coll[d].api /\ d \notin js]
        BY <3>3 DEF ForgetQueue
      <4> QED
        BY <4>1
    <3> QED
      BY <3>2, <3>3
  <2>2. coll[d] \in CollSet
    BY <1>1
  <2>r. PICK r : r = coll[d]
    OBVIOUS
  <2>3. [r EXCEPT !.api = b] \in CollSet
        /\ \A x \in Counting : [r EXCEPT !.api = b][x] = r[x]
    BY <2>2, <2>r DEF CollSet, Counting
  <2> QED
    BY <2>1, <2>r, <2>3
<1>4. coll' \in [DOMAIN program.elements -> CollSet]
  <2>1. coll' = [d \in DOMAIN coll |-> coll'[d]]
    BY DEF KnowQueue, ForgetQueue
  <2> QED
    BY <1>1, <1>2, <1>3, <2>1
<1> QED
  BY <1>2, <1>3, <1>4 DEF CollectionsKept

(* api->enqueue() of the elements, with the mutex of the collection held.  *)
LEMMA EnqueueElementsKeeps ==
  ASSUME Inv, NEW w \in Workers, EnqueueElements(w)
  PROVE  Inv'
<1>c. PICK c : c = Top(w).of
  OBVIOUS
<1>js. PICK js : js = coll[c].elements
  OBVIOUS
<1>f. PICK f : f = [Top(w) EXCEPT !.at = "process"]
  OBVIOUS
<1>t. PICK t : t = <<f>> \o Tail(stack[w])
  OBVIOUS
<1>1. /\ stack[w] # <<>> /\ Top(w).at = "enqueue"
      /\ owner["weaver"] = Nobody
      /\ EnqueueAll(js) /\ coll' = KnowQueue(ToSet(js), coll)
      /\ Goto(w, "process")
      /\ UNCHANGED <<clientVars, owner, active, working, held, shouldAbort, begun, ended,
                     policyVars>>
  BY <1>c, <1>js DEF EnqueueElements, At, Is, Needs
<1>2. Main[w] = Top(w) /\ MainOK(Main[w])
  <2>1. Top(w).at \in EndPlaces
    BY <1>1 DEF EndPlaces
  <2> QED
    BY <1>1, <2>1, TopShape DEF Inv, JobInv, MainInvs
<1>3. Itself(w, c, {"enqueue"})
  <2>1. Main[w].at = "enqueue" /\ Main[w].of = c /\ Main[w].by = c
    BY <1>c, <1>1, <1>2 DEF MainOK
  <2> QED
    BY <2>1 DEF Itself
<1>4. /\ c \in DOMAIN coll /\ c \in Jobs /\ coll[c] \in CollSet /\ Unopened(c)
  <2>1. Itself(w, c, {"finished", "enqueue"})
    BY <1>3 DEF Itself
  <2> QED
    BY <2>1, ItselfFacts DEF Inv
<1>5. /\ js \in Seq(Jobs) /\ ToSet(js) \subseteq Kids(c) /\ IsInjective(js)
      /\ ToSet(js) \subseteq Jobs /\ Len(js) \in Nat
  BY <1>js, <1>4, ElementFacts, LenProperties DEF Inv, JobInv
<1>6. f \in FrameSet /\ f.at = "process" /\ f.of = c /\ f.by = c
      /\ stack' = [stack EXCEPT ![w] = t]
  <2>1. Top(w).by = c
    BY <1>2, <1>3 DEF Itself
  <2> QED
    BY <1>c, <1>f, <1>t, <1>1, <2>1, GotoIs DEF Inv, Places
<1>7. Main[w] = Top(w) /\ Goes(w, t) /\ Taken(stack[w]) /\ Taken(t) /\ t[Len(t)].at = "clear"
      /\ Clearing' = Clearing /\ Main' = [Main EXCEPT ![w] = f]
      /\ LockedOf(stack[w]) = {c} /\ LockedOf(t) = {c}
  <2>c. PICK C : C = {}
    OBVIOUS
  <2>1. Top(w).at \in EndPlaces
    BY <1>1 DEF EndPlaces
  <2>2. EndsWith(stack[w], f, C, t)
    BY <1>t, <1>6, <2>c DEF EndsWith, EndPlaces
  <2>3. Continues(w, f, C, t)
    BY <1>1, <1>6, <2>1, <2>2, EndStep
  <2> QED
    BY <1>c, <1>1, <1>6, <2>3, <2>c DEF LockOf, Continues
<1>8. Locks(w, t)
  BY <1>1, <1>4, <1>7, LocksIs DEF Inv
<1>9. /\ assignments' \in Seq(Jobs) /\ Distinct(assignments')
      /\ ToSet(assignments') = ToSet(assignments) \cup ToSet(js)
      /\ status' = [j \in Jobs |-> IF j \in ToSet(js) THEN "Queued" ELSE status[j]]
  <2>1. ToSet(assignments) \cap ToSet(js) = {}
    <3>1. \A e \in ToSet(js) : e \in Jobs /\ status[e] = "New"
      BY <1>4, <1>5 DEF Unopened
    <3> QED
      BY <3>1 DEF Inv, JobInv, QueueInv, Queued
  <2>2. Distinct(js)
    BY <1>5 DEF Distinct, IsInjective
  <2>3. assignments \in Seq(Jobs) /\ Distinct(assignments) /\ program \in Programs
    BY DEF Inv, Typed, JobInv, QueueInv
  <2> QED
    BY <1>1, <1>5, <2>1, <2>2, <2>3, InsertAllFacts DEF EnqueueAll
<1>10. CollectionsKept(Counting)
  <2>1. program' = program
    BY <1>1 DEF clientVars
  <2> QED
    BY <1>1, <2>1, KnowKept DEF Inv
<1>11. UNCHANGED <<program, script, active, working, held, shouldAbort, begun, ended, blocked,
                   customers, dependencies>>
  BY <1>1 DEF clientVars, policyVars
<1>12. JobInv'
  <2>k. PICK K : K = ToSet(js)
    OBVIOUS
  <2> QED
    BY <1>js, <1>3, <1>6, <1>7, <1>9, <1>10, <1>11, <2>k, EnqueueKept DEF Inv
<1>13. CollectionsGrow
  <2>1. \A d \in DOMAIN coll : coll'[d].elements = coll[d].elements
    BY <1>10 DEF CollectionsKept, Counting
  <2> QED
    BY <1>10, <2>1, CollectionsStay DEF Inv, JobInv, CollectionsKept
<1>14. /\ blocked' \subseteq Jobs /\ begun' \in [Jobs -> Nat] /\ status' \in [Jobs -> Statuses]
       /\ ended' \in [Jobs -> Nat]
  BY <1>9, <1>11 DEF Inv, Typed, Statuses
<1>15. \A v \in Workers : v # w /\ Main[v].at = "setRunning" =>
         \A d \in DOMAIN coll : d = Main[v].of => coll'[d].jobsStarted = coll[d].jobsStarted
  BY <1>10 DEF CollectionsKept, Counting
<1> QED
  BY <1>1, <1>7, <1>8, <1>9, <1>11, <1>12, <1>13, <1>14, <1>15, StepKeeps

(* What is so when a collection counts what has reported to it.            *)
LEMMA ReporterFacts ==
  ASSUME Typed, Shapes, JobInv, NEW w \in Workers, Main[w].at \in Reporting,
         Main[w].by # Main[w].of \/ Main[w].at \in {"process", "restore"},
         NEW c, c = Main[w].of, NEW e, e = Main[w].by
  PROVE  /\ c \in DOMAIN coll /\ c \in Jobs /\ coll[c] \in CollSet /\ IsCollection(c) /\ e \in Jobs
         /\ coll[c].jobCounter = Cardinality(Remaining(c)) /\ coll[c].jobCounter \in Nat \ {0}
         /\ e \in Remaining(c) /\ ~ Queued(c) /\ status[c] \in {"Running"} \cup Final
         /\ ~ coll[c].selfIsExecuting /\ coll[c].self /\ ended[c] = 0 /\ c \notin Clearing
         /\ coll[c].jobsStarted > 0
         /\ e # c => /\ Ended(e) /\ e \in ToSet(coll[c].elements) /\ ~ Queued(e)
                     /\ e \notin customers
         /\ Bears(w, e) /\ \A v \in Workers : v # w => ~ Bears(v, e)
         /\ \A v \in Workers : ~ Itself(v, c, {"finished", "enqueue"})
         /\ \A v \in Workers : /\ Main[v].at \in Own => Main[v].of # c
                               /\ Main[v].at \in Reporting /\ Main[v].by = c => Main[v].of = c
         /\ coll[c].jobCounter = 1 =>
              /\ Remaining(c) = {e}
              /\ \A v \in Workers : v # w =>
                   ~ Bears(v, c) /\ ~ (Main[v].at \in Own \cup Reporting /\ Main[v].of = c)
<1>1. /\ c \in DOMAIN coll /\ e \in Remaining(c) /\ e \in Jobs
      /\ coll[c].jobCounter = Cardinality(Remaining(c)) /\ coll[c].jobCounter > 0
      /\ \A v \in Workers : ~ Itself(v, c, {"finished", "enqueue"})
  BY ReportingFacts
<1>2. c \in Jobs /\ coll[c] \in CollSet /\ IsCollection(c) /\ coll[c].jobCounter \in Nat \ {0}
  <2>1. c \in Jobs /\ coll[c] \in CollSet /\ IsCollection(c)
    BY <1>1, FamilyFacts DEF IsCollection
  <2> QED
    BY <1>1, <2>1, RemainingFacts DEF JobInv
<1>3. /\ ~ Queued(c) /\ status[c] \in {"Running"} \cup Final
      /\ ~ coll[c].selfIsExecuting /\ coll[c].self /\ ended[c] = 0
      /\ c \notin Clearing
      /\ \A v \in Workers : Bears(v, c) => Itself(v, c, {"enqueue", "process", "restore"})
  BY <1>1, CountingFacts
<1>4. coll[c].jobsStarted > 0
  BY <1>1, <1>3 DEF JobInv, CollInv, CollOK, Final
<1>5. MainOK(Main[w])
  BY DEF JobInv, MainInvs
<1>6. Bears(w, e) /\ \A v \in Workers : v # w => ~ Bears(v, e)
  <2>1. Bears(w, e)
    BY BearsIs
  <2> QED
    BY <1>1, <2>1 DEF JobInv, OneToken
<1>7. ASSUME e # c
      PROVE  Ended(e) /\ e \in ToSet(coll[c].elements) /\ ~ Queued(e) /\ e \notin customers
  <2>1. Ended(e) /\ e \in ToSet(coll[c].elements)
    BY <1>5, <1>7 DEF MainOK
  <2>2. e \in Tokens
    BY <1>1, <1>6 DEF Tokens
  <2>3. ~ Queued(e)
    BY <1>1, <2>2 DEF JobInv, QueueInv
  <2>4. e \notin customers
    <3>1. ended[e] = 1 /\ (IsCollection(e) => coll[e].jobCounter = 0)
      BY <2>1 DEF Ended, Closed
    <3> QED
      BY <3>1 DEF JobInv, CustomersInv
  <2> QED
    BY <2>1, <2>3, <2>4
<1>8. \A v \in Workers : /\ Main[v].at \in Own => Main[v].of # c
                         /\ Main[v].at \in Reporting /\ Main[v].by = c => Main[v].of = c
  <2> TAKE v \in Workers
  <2>1. Bears(v, c) => Main[v].at \in Reporting /\ Main[v].of = c
    BY <1>3 DEF Itself, Reporting
  <2> QED
    BY <2>1, BearsIs DEF Own, Reporting
<1>9. ASSUME coll[c].jobCounter = 1
      PROVE  /\ Remaining(c) = {e}
             /\ \A v \in Workers : v # w =>
                  ~ Bears(v, c) /\ ~ (Main[v].at \in Own \cup Reporting /\ Main[v].of = c)
  <2>1. Remaining(c) = {e}
    <3>1. IsFiniteSet(Remaining(c)) /\ Cardinality(Remaining(c)) = 1
      BY <1>1, <1>9, RemainingFacts DEF JobInv
    <3>2. PICK x : Remaining(c) = {x}
      BY <3>1, FS_Singleton
    <3> QED
      BY <1>1, <3>2
  <2>2. ASSUME NEW v \in Workers, v # w, Main[v].at \in Reporting, Main[v].of = c PROVE FALSE
    <3>1. Main[v].by # Main[v].of \/ Main[v].at \in {"process", "restore"}
      BY <1>1, <2>2 DEF Itself, Reporting
    <3>2. Main[v].by \in Remaining(c)
      BY <2>2, <3>1, ReportingFacts
    <3>3. Bears(v, e)
      BY <2>1, <2>2, <3>2, BearsIs
    <3> QED
      BY <1>6, <2>2, <3>3
  <2>3. ASSUME NEW v \in Workers, v # w, Bears(v, c) PROVE FALSE
    <3>1. Main[v].at \in Reporting /\ Main[v].of = c
      BY <1>3, <2>3 DEF Itself, Reporting
    <3> QED
      BY <2>2, <2>3, <3>1
  <2> QED
    BY <1>8, <2>1, <2>2, <2>3
<1> QED
  BY <1>1, <1>2, <1>3, <1>4, <1>6, <1>7, <1>8, <1>9

(* A collection counts one less, and the last to report calls its end().   *)
LEMMA CountedKept ==
  ASSUME Typed, Shapes, JobInv, NEW w \in Workers, Main[w].at \in Reporting,
         Main[w].by # Main[w].of \/ Main[w].at \in {"process", "restore"},
         NEW c, c = Main[w].of,
         \A v \in Workers : v # w => ~ Itself(v, c, {"process"}),
         NEW f, Main' = [Main EXCEPT ![w] = f],
         NEW last \in BOOLEAN, last <=> coll[c].jobCounter = 1,
         last => /\ f.at = "callEnd" /\ f.of = c /\ Clearing' = Clearing \cup {c}
                 /\ customers' = customers \ {c} /\ status'[c] \in Final,
         ~ last => /\ f.at \in {"clear", "clearSelf"} /\ Clearing' = Clearing
                   /\ customers' = customers /\ status'[c] \in {"Running"} \cup Final,
         \A x \in Jobs \ {c} : status'[x] = status[x],
         DOMAIN coll' = DOMAIN coll, \A d \in DOMAIN coll \ {c} : coll'[d] = coll[d],
         coll'[c].elements = coll[c].elements, coll'[c].self = coll[c].self,
         coll'[c].jobsStarted = coll[c].jobsStarted, ~ coll'[c].selfIsExecuting,
         coll'[c].jobCounter = coll[c].jobCounter - 1,
         UNCHANGED <<program, assignments, begun, ended>>
  PROVE  JobInv'
<1>e. PICK e : e = Main[w].by
  OBVIOUS
<1>1. /\ c \in DOMAIN coll /\ c \in Jobs /\ coll[c] \in CollSet /\ IsCollection(c) /\ e \in Jobs
      /\ coll[c].jobCounter = Cardinality(Remaining(c)) /\ coll[c].jobCounter \in Nat \ {0}
      /\ e \in Remaining(c) /\ ~ Queued(c) /\ status[c] \in {"Running"} \cup Final
      /\ ~ coll[c].selfIsExecuting /\ coll[c].self /\ ended[c] = 0 /\ c \notin Clearing
      /\ coll[c].jobsStarted > 0
      /\ e # c => /\ Ended(e) /\ e \in ToSet(coll[c].elements) /\ ~ Queued(e)
                  /\ e \notin customers
      /\ Bears(w, e) /\ \A v \in Workers : v # w => ~ Bears(v, e)
      /\ \A v \in Workers : ~ Itself(v, c, {"finished", "enqueue"})
      /\ \A v \in Workers : /\ Main[v].at \in Own => Main[v].of # c
                            /\ Main[v].at \in Reporting /\ Main[v].by = c => Main[v].of = c
      /\ last =>
           /\ Remaining(c) = {e}
           /\ \A v \in Workers : v # w =>
                ~ Bears(v, c) /\ ~ (Main[v].at \in Own \cup Reporting /\ Main[v].of = c)
  <2>1. /\ c \in DOMAIN coll /\ c \in Jobs /\ coll[c] \in CollSet /\ IsCollection(c) /\ e \in Jobs
        /\ coll[c].jobCounter = Cardinality(Remaining(c)) /\ coll[c].jobCounter \in Nat \ {0}
        /\ e \in Remaining(c) /\ ~ Queued(c) /\ status[c] \in {"Running"} \cup Final
        /\ ~ coll[c].selfIsExecuting /\ coll[c].self /\ ended[c] = 0 /\ c \notin Clearing
        /\ coll[c].jobsStarted > 0
        /\ e # c => /\ Ended(e) /\ e \in ToSet(coll[c].elements) /\ ~ Queued(e)
                    /\ e \notin customers
        /\ Bears(w, e) /\ \A v \in Workers : v # w => ~ Bears(v, e)
        /\ \A v \in Workers : ~ Itself(v, c, {"finished", "enqueue"})
        /\ \A v \in Workers : /\ Main[v].at \in Own => Main[v].of # c
                              /\ Main[v].at \in Reporting /\ Main[v].by = c => Main[v].of = c
        /\ coll[c].jobCounter = 1 =>
             /\ Remaining(c) = {e}
             /\ \A v \in Workers : v # w =>
                  ~ Bears(v, c) /\ ~ (Main[v].at \in Own \cup Reporting /\ Main[v].of = c)
    BY <1>e, ReporterFacts, SMTT(30)
  <2> QED
    BY <2>1
<1>2. Main'[w] = f /\ \A v \in Workers : v # w => Main'[v] = Main[v]
  BY DEF Main
<1>3. /\ last => coll'[c].jobCounter = 0
      /\ ~ last => coll'[c].jobCounter > 0
      /\ status'[c] # "New" /\ status[c] # "New"
  BY <1>1 DEF Final
<1>4. /\ \A v \in Workers : v # w => \A x : Bears(v, x)' <=> Bears(v, x)
      /\ \A x : Bears(w, x)' <=> last /\ x = c
      /\ \A x : Bears(w, x) <=> x = e
  <2>1. \A x : Bears(w, x)' <=> last /\ x = c
    BY <1>2 DEF Bears, TokenOf, Own, Reporting
  <2>2. \A x : Bears(w, x) <=> x = e
    BY <1>e DEF Bears, TokenOf, Own, Reporting
  <2> QED
    BY <1>2, <2>1, <2>2 DEF Bears
<1>5. \A x \in Jobs : x # e /\ x # c => (x \in Tokens' <=> x \in Tokens)
  BY <1>4 DEF Tokens
<1>6. /\ e # c => e \notin Tokens'
      /\ last => c \in Tokens'
      /\ e = c /\ ~ last => c \notin Tokens'
  BY <1>1, <1>4 DEF Tokens
<1>7. \A x : /\ Kids(x)' = Kids(x)
             /\ Queued(x)' <=> Queued(x)
             /\ IsCollection(x)' <=> IsCollection(x)
  BY DEF Kids, Queued, IsCollection
<1>8. \A d \in DOMAIN coll : Unopened(d)' <=> Unopened(d)
  <2> SUFFICES ASSUME NEW d \in DOMAIN coll PROVE Unopened(d)' <=> Unopened(d)
    OBVIOUS
  <2>1. Kids(d) \subseteq Jobs
    BY FamilyFacts
  <2>2. \A x \in Kids(d) : status'[x] = "New" <=> status[x] = "New"
    BY <1>3, <2>1
  <2> QED
    BY <1>7, <2>2 DEF Unopened
<1>9. \A x : x # c => /\ Fresh(x)' <=> Fresh(x)
                      /\ Closed(x)' <=> Closed(x)
                      /\ x \in Jobs => (Ended(x)' <=> Ended(x))
                      /\ IsCollection(x) => (Executing(x)' <=> Executing(x))
  <2> TAKE x
  <2>1. x # c /\ IsCollection(x) => coll'[x] = coll[x] /\ (Unopened(x)' <=> Unopened(x))
    BY <1>8 DEF IsCollection
  <2>2. x # c => (Fresh(x)' <=> Fresh(x))
    BY <1>7, <2>1 DEF Fresh
  <2>3. x # c => (Closed(x)' <=> Closed(x))
    BY <1>7, <2>1 DEF Closed
  <2> QED
    BY <2>1, <2>2, <2>3 DEF Ended, Executing
<1>10. /\ \A x \in Jobs : x # e /\ x # c => (Live(x)' <=> Live(x))
       /\ e # c => ~ Live(e)'
       /\ Live(c) /\ Live(c)'
  <2>1. \A x \in Jobs : x # e /\ x # c => (Live(x)' <=> Live(x))
    BY <1>5, <1>7 DEF Live, IsCollection
  <2>2. e # c => ~ Live(e)'
    <3>1. e # c => ~ (IsCollection(e)' /\ coll'[e].jobCounter > 0)
      BY <1>1, <1>7 DEF IsCollection, Ended, Closed
    <3> QED
      BY <1>1, <1>6, <1>7, <3>1 DEF Live
  <2>3. Live(c)
    BY <1>1 DEF Live
  <2>4. Live(c)'
    BY <1>1, <1>3, <1>6, <1>7 DEF Live
  <2> QED
    BY <2>1, <2>2, <2>3, <2>4
<1>11. \A v \in Workers : \A d : \A P \in SUBSET Reporting :
         v # w \/ d # c => (Itself(v, d, P)' <=> Itself(v, d, P))
  BY <1>2 DEF Itself, Reporting
<1>12. \A P \in SUBSET Reporting : ~ Itself(w, c, P)'
  BY <1>2 DEF Itself, Reporting
<1>13. OneToken'
  <2> SUFFICES ASSUME NEW u \in Workers, NEW v \in Workers, NEW x \in Jobs,
                      Bears(u, x)', Bears(v, x)'
               PROVE  u = v
    BY DEF OneToken
  <2>1. u # w /\ v # w => u = v
    BY <1>4 DEF JobInv, OneToken
  <2> QED
    BY <1>1, <1>4, <2>1
<1>14. QueueInv'
  <2>1. \A j \in Jobs : Queued(j)' \/ status'[j] = "New" =>
          j # c /\ (Queued(j) \/ status[j] = "New")
    BY <1>1, <1>3, <1>7
  <2>2. \A j \in Jobs : Queued(j) \/ status[j] = "New" =>
          Fresh(j) /\ j \notin Tokens /\ j \notin customers /\ j # e
    <3>1. e \in Tokens
      BY <1>1 DEF Tokens
    <3> QED
      BY <3>1 DEF JobInv, QueueInv
  <2>3. customers' \subseteq customers
    OBVIOUS
  <2>4. \A j \in Jobs : Queued(j)' => status'[j] = "Queued"
    BY <2>1, <1>7 DEF JobInv, QueueInv
  <2>5. \A j \in Jobs : status'[j] = "New" => ~ Queued(j)'
    BY <2>1, <1>7 DEF JobInv, QueueInv
  <2>6. \A j \in Jobs : Queued(j)' \/ status'[j] = "New" =>
          Fresh(j)' /\ j \notin Tokens' /\ j \notin customers'
    BY <1>5, <1>9, <2>1, <2>2, <2>3
  <2>7. Distinct(assignments')
    BY DEF JobInv, QueueInv
  <2> QED
    BY <2>4, <2>5, <2>6, <2>7 DEF QueueInv
<1>15. MainInvs'
  <2>1. MainOK(f)'
    <3>1. last => MainOK(f)'
      BY <1>1, <1>3, <1>7 DEF MainOK, Own, Reporting, Closed
    <3>2. ~ last => MainOK(f)'
      BY DEF MainOK, Own, Reporting
    <3> QED
      BY <3>1, <3>2
  <2> SUFFICES ASSUME NEW v \in Workers, v # w PROVE MainOK(Main[v])'
    BY <1>2, <2>1 DEF MainInvs
  <2>g. PICK g : g = Main[v]
    OBVIOUS
  <2>2. MainOK(g) /\ Main'[v] = g
    BY <2>g, <1>2 DEF JobInv, MainInvs
  <2>3. /\ g.at \in Own => g.of # c
        /\ g.at \in Reporting /\ g.by = c => g.of = c
    BY <2>g, <1>1
  <2>4. CASE g.at \in Own \cup Reporting => g.of # c
    <3>1. g.at \in Own \cup Reporting => g.of \in Jobs
      <4>1. g.at \in Reporting => g.of \in DOMAIN coll
        BY <2>2 DEF MainOK, IsCollection
      <4> QED
        BY <2>2, <4>1, FamilyFacts DEF MainOK
    <3>2. g.at \in Reporting => g.by # c /\ g.by \in Jobs
      BY <2>2, <2>3, <2>4 DEF MainOK
    <3>3. Untouched(g)
      BY <1>7, <1>8, <1>9, <2>4, <3>1, <3>2 DEF Untouched, IsCollection
    <3>4. MainOK(g)'
      BY <2>2, <3>3, UntouchedKept
    <3> QED
      BY <2>g, <2>2, <3>4
  <2>5. CASE g.at \in Reporting /\ g.of = c
    <3>1. /\ ~ (g.by = c /\ g.at \in {"finished", "enqueue", "process"})
      BY <2>g, <2>5, <1>1 DEF Itself
    <3>2. /\ g.by \in Jobs /\ (g.at \in {"enqueue", "process"} => g.by = g.of)
          /\ (g.by # g.of => g.by \in ToSet(coll[c].elements) /\ Ended(g.by))
          /\ (g.at = "restore" => g.kept \in Final)
      BY <2>2, <2>5 DEF MainOK
    <3>3. g.by # g.of => Ended(g.by)'
      BY <1>9, <2>5, <3>2
    <3>4. IsCollection(c)' /\ ended'[c] = 0
      BY <1>1, <1>7
    <3> HIDE DEF Own
    <3>5. g.at \notin Own /\ g.at \notin {"setRunning", "run", "end", "callEnd", "store", "execute"}
      BY <2>5 DEF Reporting, Own
    <3>6. MainOK(g)'
      BY <2>5, <3>1, <3>2, <3>3, <3>4, <3>5 DEF MainOK
    <3> QED
      BY <2>g, <2>2, <3>6
  <2> QED
    BY <2>3, <2>4, <2>5
<1>16. CountInv'
  <2> SUFFICES ASSUME NEW d \in DOMAIN coll
               PROVE  \/ \E v \in Workers : Itself(v, d, {"finished", "enqueue"})'
                      \/ coll'[d].jobCounter = Cardinality(Remaining(d)')
    BY DEF CountInv
  <2>els. ToSet(coll[d].elements) \subseteq Jobs /\ ToSet(coll[d].elements) \subseteq Kids(d)
          /\ d \notin ToSet(coll[d].elements)
    BY ElementFacts DEF JobInv
  <2>1. CASE d = c
    <3>1. \A x \in ToSet(coll[c].elements) : Live(x)' <=> Live(x) /\ x # e
      BY <1>10, <2>1, <2>els
    <3>2. (\E v \in Workers : Itself(v, c, {"finished", "process", "restore"})')
            <=> e # c /\ \E v \in Workers : Itself(v, c, {"finished", "process", "restore"})
      <4>1. CASE e = c
        <5>1. \A v \in Workers : v # w => ~ Itself(v, c, {"finished", "process", "restore"})
          <6> SUFFICES ASSUME NEW v \in Workers, v # w,
                              Itself(v, c, {"finished", "process", "restore"})
                       PROVE  FALSE
            OBVIOUS
          <6>1. Bears(v, c)
            BY BearsIs DEF Itself, Reporting
          <6> QED
            BY <1>1, <4>1, <6>1
        <5>2. \A v \in Workers : ~ Itself(v, c, {"finished", "process", "restore"})'
          BY <1>11, <1>12, <5>1 DEF Reporting
        <5> QED
          BY <4>1, <5>2
      <4>2. CASE e # c
        <5>1. ~ Itself(w, c, {"finished", "process", "restore"})
          BY <1>e, <4>2 DEF Itself
        <5>2. \A v \in Workers : Itself(v, c, {"finished", "process", "restore"})'
                <=> Itself(v, c, {"finished", "process", "restore"})
          BY <1>11, <1>12, <5>1 DEF Reporting
        <5> QED
          BY <4>2, <5>2
      <4> QED
        BY <4>1, <4>2
    <3>3. Remaining(c)' = Remaining(c) \ {e}
      <4>1. e = c => c \notin ToSet(coll[c].elements)
        BY <2>1, <2>els
      <4> QED
        BY <3>1, <3>2, <4>1, <2>1, <2>els DEF Remaining
    <3>4. Cardinality(Remaining(c) \ {e}) = Cardinality(Remaining(c)) - 1
      BY <1>1, RemainingFacts DEF JobInv
    <3> QED
      BY <1>1, <2>1, <3>3, <3>4
  <2>2. CASE d # c
    <3>1. \A x \in ToSet(coll[d].elements) : Live(x)' <=> Live(x)
      <4>1. e # c => e \notin ToSet(coll[d].elements)
        <5>1. e # c => e \in Kids(c)
          BY <1>1, ElementFacts DEF JobInv
        <5>2. Kids(c) \cap Kids(d) = {}
          BY <1>1, <2>2, FamilyFacts
        <5> QED
          BY <2>els, <5>1, <5>2
      <4> QED
        BY <1>10, <2>els, <4>1
    <3>2. Remaining(d)' = Remaining(d)
      <4>1. \A v \in Workers : Itself(v, d, {"finished", "process", "restore"})'
                                 <=> Itself(v, d, {"finished", "process", "restore"})
        BY <1>11, <2>2 DEF Reporting
      <4>2. coll'[d].elements = coll[d].elements
        BY <2>2
      <4> QED
        BY <3>1, <4>1, <4>2 DEF Remaining
    <3>3. \A v \in Workers : Itself(v, d, {"finished", "enqueue"})'
                                 <=> Itself(v, d, {"finished", "enqueue"})
      BY <1>11, <2>2 DEF Reporting
    <3> QED
      BY <2>2, <3>2, <3>3 DEF JobInv, CountInv
  <2> QED
    BY <2>1, <2>2
<1>17. CollInv'
  <2> SUFFICES ASSUME NEW d \in DOMAIN coll PROVE CollOK(d)'
    BY DEF CollInv
  <2>1. CollOK(d) /\ d \in Jobs
    BY FamilyFacts DEF JobInv, CollInv
  <2>2. coll'[d].elements \in {program.elements[d], Family(program, d)}'
    BY <2>1 DEF CollOK, Family
  <2>3. CASE d = c
    <3>1. coll'[c].jobCounter > 0 =>
            \A v \in Workers : ~ (Main'[v].at = "callEnd" /\ Main'[v].of = c)
      BY <1>1, <1>2, <1>3 DEF Own
    <3>2. coll'[c].self => coll'[c].jobCounter > 0 \/ c \in Clearing'
      BY <1>3
    <3> QED
      BY <1>1, <2>2, <2>3, <3>1, <3>2 DEF CollOK
  <2>4. CASE d # c
    <3>1. \A v \in Workers : Itself(v, d, {"finished"})' <=> Itself(v, d, {"finished"})
      BY <1>11, <2>4 DEF Reporting
    <3>2. \A v \in Workers : \A at \in Own :
            (Main'[v].at = at /\ Main'[v].of = d) <=> (Main[v].at = at /\ Main[v].of = d)
      BY <1>2, <2>4 DEF Own, Reporting
    <3>3. d \in Clearing => d \in Clearing'
      OBVIOUS
    <3> QED
      BY <2>1, <2>2, <2>4, <3>1, <3>2, <3>3 DEF CollOK, Own
  <2> QED
    BY <2>3, <2>4
<1>18. ClearInv'
  <2> SUFFICES ASSUME NEW d \in Clearing' PROVE Over(d)'
    BY DEF ClearInv
  <2>1. CASE d = c
    <3>1. last
      BY <1>1, <2>1
    <3>2. ~ Opening(c)'
      <4>1. \A v \in Workers : v # w => \/ ~ Itself(v, c, Reporting)' /\ Main'[v].of # c
                                        \/ Main'[v].at \notin Own \cup Reporting
        BY <1>1, <1>2, <3>1 DEF Itself
      <4> QED
        BY <1>2, <1>12, <3>1, <4>1 DEF Opening, Itself
    <3> QED
      BY <1>1, <1>3, <1>7, <2>1, <3>1, <3>2 DEF Over, Closed
  <2>2. CASE d # c
    <3>1. Over(d) /\ d \in Jobs
      BY <2>2, FamilyFacts DEF JobInv, ClearInv, Over, IsCollection
    <3>2. Opening(d)' => Opening(d)
      BY <1>2, <1>11, <2>2 DEF Opening, Reporting, Own
    <3> QED
      BY <1>7, <1>9, <2>2, <3>1, <3>2 DEF Over
  <2> QED
    BY <2>1, <2>2
<1>19. DoneInv'
  <2> SUFFICES ASSUME NEW j \in Jobs, begun[j] > 0
               PROVE  \/ j \in Tokens'
                      \/ IsCollection(j)' /\ coll'[j].jobCounter > 0
                      \/ Ended(j)'
    BY DEF DoneInv
  <2>1. CASE j = c
    BY <1>1, <1>3, <1>6, <1>7, <2>1
  <2>2. CASE j # c
    <3>1. \/ j \in Tokens /\ j # e
          \/ Ended(j)
          \/ IsCollection(j) /\ coll[j].jobCounter > 0
      BY <1>1, <2>2 DEF JobInv, DoneInv
    <3>2. Ended(j) => Ended(j)'
      BY <1>9, <2>2
    <3> QED
      BY <1>5, <1>7, <2>2, <3>1, <3>2 DEF IsCollection
  <2> QED
    BY <2>1, <2>2
<1>20. CustomersInv'
  <2> SUFFICES ASSUME NEW j \in customers'
               PROVE  \/ j \in Tokens' /\ ended'[j] = 0
                      \/ IsCollection(j)' /\ coll'[j].jobCounter > 0
    BY DEF CustomersInv
  <2>1. j \in customers /\ j \in Jobs
    BY ProgramsAssumption DEF Typed
  <2>2. CASE j = c
    BY <1>1, <1>3, <1>7, <2>2
  <2>3. CASE j # c
    <3>1. j # e
      BY <1>1, <2>1, <2>3
    <3> QED
      BY <1>5, <1>7, <2>1, <2>3, <3>1 DEF JobInv, CustomersInv, IsCollection
  <2> QED
    BY <2>2, <2>3
<1> QED
  BY <1>13, <1>14, <1>15, <1>16, <1>17, <1>18, <1>19, <1>20 DEF JobInv

(* The mutex of the collection is kept from PrepareElements to the end of  *)
(* elementFinished(), so that no other thread is there.                    *)
LEMMA ProcessHolds ==
  ASSUME Typed, Shapes, LockInv, NEW v \in Workers, Main[v].at = "process", Main[v].of \in Jobs
  PROVE  owner[Main[v].of] = v
<1>s. PICK s : s = stack[v]
  OBVIOUS
<1>1. s # <<>>
  BY <1>s, EmptyStack DEF Main, None, Frame
<1>2. s \in Seq(FrameSet) /\ Top(v) = s[1]
  BY <1>s, <1>1, TopShape
<1>3. Main[v] = MainOf(s)
  BY <1>s DEF Main
<1>4. Top(v).at \in StopPlaces => Main[v].at = "restore"
  BY <1>s, <1>1, TopShape
<1>5. Main[v] = s[1]
  BY <1>1, <1>2, <1>3, <1>4 DEF MainOf
<1>6. LockedOf(s) = {Main[v].of}
  BY <1>1, <1>5 DEF LockedOf
<1> QED
  BY <1>s, <1>6 DEF LockInv

(* The end of elementFinished().                                           *)
LEMMA CountKeeps ==
  ASSUME Inv, NEW w \in Workers, stack[w] # <<>>,
         Top(w).at \in {"finished", "process", "restore"},
         Top(w).at = "finished" => ~ QueuesElements(Top(w).of),
         Top(w).at # "process" => owner[Top(w).of] = Nobody,
         NEW current \in {"Running"} \cup Final, Count(w, Top(w).of, current),
         UNCHANGED <<clientVars, weaverVars, shouldAbort, begun, ended>>
  PROVE  Inv'
<1>c. PICK c : c = Top(w).of
  OBVIOUS
<1>e. PICK e : e = Top(w).by
  OBVIOUS
<1>l. PICK last \in BOOLEAN : last <=> coll[c].jobCounter = 1
  OBVIOUS
<1>d. PICK done : done = [coll[c] EXCEPT !.selfIsExecuting = FALSE, !.completed = @ + 1,
                                         !.jobCounter = @ - 1]
  OBVIOUS
<1>r. PICK r : r = IF last THEN [done EXCEPT !.api = FALSE] ELSE done
  OBVIOUS
<1>g. PICK g : g = [Top(w) EXCEPT !.at = "clearSelf"]
  OBVIOUS
<1>t. PICK t : t = IF last THEN <<Frame("callEnd", c, c), g>> \o Tail(stack[w]) ELSE Tail(stack[w])
  OBVIOUS
<1>f. PICK f : f = IF last THEN Frame("callEnd", c, c) ELSE MainOf(t)
  OBVIOUS
<1>C. PICK C : C = IF last THEN {c} ELSE {}
  OBVIOUS
<1>0. Main[w] = Top(w) /\ MainOK(Main[w]) /\ Top(w) \in FrameSet /\ Top(w).at \in EndPlaces
  <2>1. Top(w).at \in EndPlaces
    BY DEF EndPlaces
  <2> QED
    BY <2>1, TopShape DEF Inv, JobInv, MainInvs
<1>1. Main[w].at \in Reporting /\ (Main[w].by # Main[w].of \/ Main[w].at \in {"process", "restore"})
  <2>1. Main[w].at \in Reporting
    BY <1>0 DEF Reporting
  <2>2. ASSUME Main[w].by = Main[w].of, Main[w].at = "finished" PROVE FALSE
    <3>1. Executing(c) /\ c \in DOMAIN coll
      BY <1>c, <1>0, <2>1, <2>2 DEF MainOK, IsCollection
    <3>2. shouldAbort[c] = FALSE
      BY <3>1, FamilyFacts DEF Inv, Typed
    <3> QED
      BY <1>c, <1>0, <2>2, <3>1, <3>2 DEF QueuesElements, Executing
  <2> QED
    BY <1>0, <2>1, <2>2
<1>2. /\ c \in DOMAIN coll /\ c \in Jobs /\ coll[c] \in CollSet /\ e \in Jobs
      /\ coll[c].jobCounter \in Nat \ {0}
  BY <1>c, <1>e, <1>0, <1>1, ReporterFacts DEF Inv
<1>3. /\ done \in CollSet /\ done.elements = coll[c].elements /\ done.self = coll[c].self
      /\ done.jobsStarted = coll[c].jobsStarted /\ ~ done.selfIsExecuting
      /\ done.jobCounter = coll[c].jobCounter - 1
  <2>n. PICK n : n = coll[c].completed + 1
    OBVIOUS
  <2>m. PICK m : m = coll[c].jobCounter - 1
    OBVIOUS
  <2>1. n \in Nat /\ m \in Int
    BY <1>2, <2>n, <2>m DEF CollSet
  <2>2. done = [coll[c] EXCEPT !.selfIsExecuting = FALSE, !.completed = n, !.jobCounter = m]
    BY <1>d, <2>n, <2>m
  <2> QED
    BY <1>2, <2>m, <2>1, <2>2 DEF CollSet
<1>4. /\ r \in CollSet /\ r.elements = coll[c].elements /\ r.self = coll[c].self
      /\ r.jobsStarted = coll[c].jobsStarted /\ ~ r.selfIsExecuting
      /\ r.jobCounter = coll[c].jobCounter - 1
  <2>1. r = done \/ r = [done EXCEPT !.api = FALSE]
    BY <1>r
  <2>d. PICK x : x = done
    OBVIOUS
  <2>2. [x EXCEPT !.api = FALSE] \in CollSet
        /\ [x EXCEPT !.api = FALSE].elements = x.elements /\ [x EXCEPT !.api = FALSE].self = x.self
        /\ [x EXCEPT !.api = FALSE].jobsStarted = x.jobsStarted
        /\ [x EXCEPT !.api = FALSE].selfIsExecuting = x.selfIsExecuting
        /\ [x EXCEPT !.api = FALSE].jobCounter = x.jobCounter
    BY <1>3, <2>d DEF CollSet
  <2> QED
    BY <1>3, <2>1, <2>2, <2>d
<1>5. LastToReport(done.jobCounter) <=> last
  BY <1>l, <1>2, <1>3 DEF LastToReport
<1>6. /\ blocked' = blocked \ Unblocked(c) /\ Release(c)
      /\ coll' = [coll EXCEPT ![c] = r]
      /\ stack' = [stack EXCEPT ![w] = t]
      /\ last => FinalCleanup(c, current)
      /\ ~ last => status' = [status EXCEPT ![c] = current]
                   /\ UNCHANGED <<dependencies, customers>>
  <2>1. /\ blocked' = blocked \ Unblocked(c) /\ Release(c)
        /\ IF last
             THEN /\ FinalCleanup(c, current)
                  /\ coll' = [coll EXCEPT ![c] = [done EXCEPT !.api = FALSE]]
                  /\ stack' = [stack EXCEPT ![w] = <<Frame("callEnd", c, c),
                                 [Head(@) EXCEPT !.at = "clearSelf"]>> \o Tail(@)]
             ELSE /\ status' = [status EXCEPT ![c] = current]
                  /\ coll' = [coll EXCEPT ![c] = done]
                  /\ Return(w)
                  /\ UNCHANGED <<dependencies, customers>>
    BY <1>c, <1>d, <1>5 DEF Count
  <2>2. last => stack' = [stack EXCEPT ![w] = t]
    BY <1>t, <1>g, <2>1 DEF Top, Inv, Typed
  <2> QED
    BY <1>r, <1>t, <2>1, <2>2 DEF Return
<1>7. last => /\ f \in FrameSet /\ f.at = "callEnd" /\ f.of = c
              /\ g \in FrameSet /\ g.at = "clearSelf" /\ g.of = c
  BY <1>c, <1>f, <1>g, <1>0, <1>2 DEF FrameSet, Frame, Places, Statuses
<1>8. /\ Goes(w, t) /\ Taken(stack[w]) /\ Taken(t) /\ t[Len(t)].at = "clear"
      /\ Clearing' = Clearing \cup C /\ Main' = [Main EXCEPT ![w] = f]
      /\ LockedOf(stack[w]) = LockOf(Top(w)) /\ LockedOf(t) = LockOf(f)
      /\ ~ last => f.at \in {"clear", "clearSelf"}
  <2>1. EndsWith(stack[w], f, C, t)
    BY <1>f, <1>t, <1>C, <1>7 DEF EndsWith
  <2>2. Continues(w, f, C, t)
    BY <1>0, <1>6, <2>1, EndStep
  <2> QED
    BY <1>f, <1>t, <2>2 DEF Continues
<1>9. LockedOf(t) = {} /\ LockedOf(stack[w]) \subseteq {c}
      /\ (Top(w).at = "process" => LockedOf(stack[w]) = {c})
  BY <1>c, <1>7, <1>8 DEF LockOf
<1>10. Locks(w, t)
  <2>1. owner' = [owner EXCEPT ![c] = Nobody]
    BY <1>6 DEF Release
  <2>2. owner[c] = Nobody \/ c \in LockedOf(stack[w])
    BY <1>c, <1>9
  <2> QED
    BY <1>2, <1>9, <2>1, <2>2, LocksIs DEF Inv
<1>11. \A v \in Workers : v # w => ~ Itself(v, c, {"process"})
  <2> SUFFICES ASSUME NEW v \in Workers, v # w, Itself(v, c, {"process"}) PROVE FALSE
    OBVIOUS
  <2>1. Main[v].at = "process" /\ Main[v].of = c
    BY DEF Itself
  <2>2. owner[c] = v
    BY <1>2, <2>1, ProcessHolds DEF Inv
  <2>3. owner[c] \in {Nobody, w}
    <3>1. c \in LockedOf(stack[w]) => owner[c] = w
      BY <1>2, LockFacts DEF Inv
    <3> QED
      BY <1>c, <1>9, <3>1
  <2>4. v # Nobody
    BY ActorsAssumption DEF Actors
  <2> QED
    BY <2>2, <2>3, <2>4
<1>12. /\ UNCHANGED <<program, script, active, working, held, shouldAbort>>
       /\ UNCHANGED <<assignments, begun, ended>>
       /\ status' \in [Jobs -> Statuses]
       /\ last => status'[c] \in Final /\ customers' = customers \ {c}
       /\ ~ last => status'[c] \in {"Running"} \cup Final /\ customers' = customers
       /\ dependencies' \subseteq dependencies
       /\ \A x \in Jobs \ {c} : status'[x] = status[x]
  <2>1. status \in [Jobs -> Statuses]
    BY DEF Inv, Typed
  <2>2. CASE last
    <3>1. FinalStatus(c, current) \in Final
      BY <1>2 DEF FinalStatus, Final, Inv, Typed
    <3>2. /\ status' = [status EXCEPT ![c] = FinalStatus(c, current)]
          /\ dependencies' \subseteq dependencies /\ customers' = customers \ {c}
      BY <1>6, <2>2 DEF FinalCleanup, FreePolicies, ResolveDependencies, Inv, Typed
    <3> QED
      BY <1>2, <2>1, <2>2, <3>1, <3>2 DEF clientVars, weaverVars, Statuses
  <2>3. CASE ~ last
    BY <1>2, <1>6, <2>1, <2>3 DEF clientVars, weaverVars, Statuses
  <2> QED
    BY <2>2, <2>3
<1>13. /\ DOMAIN coll' = DOMAIN coll /\ coll' \in [DOMAIN program.elements -> CollSet]
       /\ coll'[c] = r /\ \A d \in DOMAIN coll : d # c => coll'[d] = coll[d]
  <2>1. coll \in [DOMAIN program.elements -> CollSet]
    BY DEF Inv, Typed
  <2> QED
    BY <1>2, <1>4, <1>6, <2>1
<1>14. JobInv'
  <2>1. /\ last => /\ f.at = "callEnd" /\ f.of = c /\ Clearing' = Clearing \cup {c}
                   /\ customers' = customers \ {c} /\ status'[c] \in Final
        /\ ~ last => /\ f.at \in {"clear", "clearSelf"} /\ Clearing' = Clearing
                     /\ customers' = customers /\ status'[c] \in {"Running"} \cup Final
    BY <1>7, <1>8, <1>12, <1>C
  <2>2. c = Main[w].of
    BY <1>c, <1>0
  <2> QED
    BY <1>1, <1>4, <1>8, <1>11, <1>12, <1>13, <1>l, <2>1, <2>2, CountedKept DEF Inv
<1>15. CollectionsGrow
  <2>1. \A d \in DOMAIN coll : coll'[d].elements = coll[d].elements
    BY <1>4, <1>13
  <2> QED
    BY <1>13, <2>1, CollectionsStay DEF Inv, JobInv
<1>16. blocked' \subseteq Jobs /\ blocked' \cap ToSet(assignments) \subseteq blocked
       /\ assignments' \in Seq(Jobs) /\ begun' \in [Jobs -> Nat] /\ ended' \in [Jobs -> Nat]
       /\ customers' \subseteq customers
  <2>1. blocked' \subseteq blocked
    BY <1>6
  <2> QED
    BY <1>12, <2>1 DEF Inv, Typed
<1>17. \A v \in Workers : v # w /\ Main[v].at = "setRunning" =>
         \A d \in DOMAIN coll : d = Main[v].of => coll'[d].jobsStarted = coll[d].jobsStarted
  BY <1>4, <1>13
<1> QED
  BY <1>8, <1>10, <1>12, <1>14, <1>15, <1>16, <1>17, StepKeeps

(* What a collection is told that it has not to queue its elements for.    *)
LEMMA ProcessingFacts ==
  ASSUME Inv, NEW w \in Workers, Processing(w)
  PROVE  /\ stack[w] # <<>> /\ Top(w).at \in {"finished", "process"}
         /\ Top(w).at = "finished" => ~ QueuesElements(Top(w).of)
         /\ Top(w).at # "process" => owner[Top(w).of] = Nobody
         /\ Main[w] = Top(w) /\ Top(w).of \in DOMAIN coll /\ Top(w).by \in Jobs
         /\ status[Top(w).by] \in Final
         /\ Top(w).at = "finished" => Top(w).by # Top(w).of
<1>1. /\ stack[w] # <<>> /\ Top(w).at \in {"finished", "process"}
      /\ Top(w).at = "finished" => ~ QueuesElements(Top(w).of)
      /\ Top(w).at # "process" => owner[Top(w).of] = Nobody
  BY DEF Processing, At, Is, Needs
<1>2. Main[w] = Top(w) /\ MainOK(Main[w])
  <2>1. Top(w).at \in EndPlaces
    BY <1>1 DEF EndPlaces
  <2> QED
    BY <1>1, <2>1, TopShape DEF Inv, JobInv, MainInvs
<1>3. Top(w).of \in DOMAIN coll /\ Top(w).by \in Jobs /\ status[Top(w).by] \in Final
  BY <1>1, <1>2 DEF MainOK, Reporting, IsCollection, Ended
<1>4. Top(w).at = "finished" => Top(w).by # Top(w).of
  <2> SUFFICES ASSUME Top(w).at = "finished", Top(w).by = Top(w).of PROVE FALSE
    OBVIOUS
  <2>1. coll[Top(w).of].selfIsExecuting
    BY <1>2 DEF MainOK, Executing
  <2>2. shouldAbort[Top(w).of] = FALSE
    BY <1>3, FamilyFacts DEF Inv, Typed
  <2> QED
    BY <1>1, <2>1, <2>2 DEF QueuesElements
<1> QED
  BY <1>1, <1>2, <1>3, <1>4

(* A collection sets its counter once its elements are enqueued.           *)
LEMMA ProcessAndCountKeeps ==
  ASSUME Inv, NEW w \in Workers, ProcessAndCount(w)
  PROVE  Inv'
<1>1. Processing(w)
  BY DEF ProcessAndCount
<1>2. PICK current : current = UpdatedStatus(Top(w).by)
  OBVIOUS
<1>3. current \in {"Running"} \cup Final
  BY <1>1, <1>2, ProcessingFacts DEF UpdatedStatus
<1>4. /\ Count(w, Top(w).of, current)
      /\ UNCHANGED <<clientVars, weaverVars, shouldAbort, begun, ended>>
  BY <1>2 DEF ProcessAndCount
<1>5. /\ stack[w] # <<>> /\ Top(w).at \in {"finished", "process", "restore"}
      /\ Top(w).at = "finished" => ~ QueuesElements(Top(w).of)
      /\ Top(w).at # "process" => owner[Top(w).of] = Nobody
  BY <1>1, ProcessingFacts
<1> QED
  BY <1>3, <1>4, <1>5, CountKeeps

(* The last element has reported: the status is restored, the collection   *)
(* ends and tells its own collection.                                      *)
LEMMA RestoreKeeps ==
  ASSUME Inv, NEW w \in Workers, Restore(w)
  PROVE  Inv'
<1>1. /\ stack[w] # <<>> /\ Top(w).at = "restore" /\ owner[Top(w).of] = Nobody
      /\ Count(w, Top(w).of, Top(w).kept)
      /\ UNCHANGED <<clientVars, weaverVars, shouldAbort, begun, ended>>
  BY DEF Restore, At, Is, Needs
<1>2. Top(w).kept \in Final
  <2>1. Top(w).at \in EndPlaces
    BY <1>1 DEF EndPlaces
  <2>2. Main[w] = Top(w) /\ MainOK(Main[w])
    BY <1>1, <2>1, TopShape DEF Inv, JobInv, MainInvs
  <2> QED
    BY <1>1, <2>2 DEF MainOK
<1>3. PICK current : current = Top(w).kept
  OBVIOUS
<1> QED
  BY <1>1, <1>2, <1>3, CountKeeps

(* A sequence takes the status of an element that has failed, and has      *)
(* still to count it.                                                      *)
LEMMA RestoringKept ==
  ASSUME Typed, Shapes, JobInv, NEW w \in Workers, Main[w].at \in Reporting,
         Main[w].by # Main[w].of \/ Main[w].at \in {"process", "restore"},
         NEW c, c = Main[w].of,
         NEW f, Main' = [Main EXCEPT ![w] = f], f.at = "restore", f.of = c, f.by = Main[w].by,
         f.kept \in Final, Clearing' = Clearing, CollectionsKept(Counting),
         status'[c] \in Final, \A x \in Jobs \ {c} : status'[x] = status[x],
         UNCHANGED <<program, assignments, begun, ended>>, customers' \subseteq customers
  PROVE  JobInv'
<1>e. PICK e : e = Main[w].by
  OBVIOUS
<1>k. /\ DOMAIN coll' = DOMAIN coll
      /\ \A d \in DOMAIN coll :
           /\ coll'[d].elements = coll[d].elements /\ coll'[d].self = coll[d].self
           /\ coll'[d].selfIsExecuting = coll[d].selfIsExecuting
           /\ coll'[d].jobCounter = coll[d].jobCounter
           /\ coll'[d].jobsStarted = coll[d].jobsStarted
  BY DEF CollectionsKept, Counting
<1>1. /\ c \in DOMAIN coll /\ c \in Jobs /\ IsCollection(c) /\ e \in Jobs
      /\ coll[c].jobCounter \in Nat \ {0}
      /\ ~ Queued(c) /\ status[c] \in {"Running"} \cup Final
      /\ c \notin Clearing
      /\ ended[c] = 0
      /\ e # c => Ended(e) /\ e \in ToSet(coll[c].elements)
      /\ \A v \in Workers : ~ Itself(v, c, {"finished", "enqueue"})
      /\ \A v \in Workers : /\ Main[v].at \in Own => Main[v].of # c
                            /\ Main[v].at \in Reporting /\ Main[v].by = c => Main[v].of = c
  BY <1>e, ReporterFacts
<1>2. Main'[w] = f /\ \A v \in Workers : v # w => Main'[v] = Main[v]
  BY DEF Main
<1>3. status'[c] # "New" /\ status[c] # "New" /\ status'[c] # "Queued"
  BY <1>1 DEF Final
<1>4. \A v \in Workers : \A x : Bears(v, x)' <=> Bears(v, x)
  <2>1. \A x : Bears(w, x)' <=> x = e
    BY <1>e, <1>2 DEF Bears, TokenOf, Own, Reporting
  <2>2. \A x : Bears(w, x) <=> x = e
    BY <1>e DEF Bears, TokenOf, Own, Reporting
  <2> QED
    BY <1>2, <2>1, <2>2 DEF Bears
<1>5. Tokens' = Tokens
  BY <1>4 DEF Tokens
<1>6. \A x : /\ Kids(x)' = Kids(x)
             /\ Queued(x)' <=> Queued(x)
             /\ IsCollection(x)' <=> IsCollection(x)
             /\ Closed(x)' <=> Closed(x)
  BY <1>k DEF Kids, Queued, IsCollection, Closed
<1>7. \A d \in DOMAIN coll : Unopened(d)' <=> Unopened(d)
  <2> SUFFICES ASSUME NEW d \in DOMAIN coll PROVE Unopened(d)' <=> Unopened(d)
    OBVIOUS
  <2>1. Kids(d) \subseteq Jobs
    BY FamilyFacts
  <2>2. \A x \in Kids(d) : status'[x] = "New" <=> status[x] = "New"
    BY <1>3, <2>1
  <2> QED
    BY <1>6, <2>2 DEF Unopened
<1>8. \A x : /\ Fresh(x)' <=> Fresh(x)
             /\ Live(x)' <=> Live(x)
             /\ x # c /\ x \in Jobs => (Ended(x)' <=> Ended(x))
             /\ IsCollection(x) => (Executing(x)' <=> Executing(x))
  <2> TAKE x
  <2>1. IsCollection(x) => (Unopened(x)' <=> Unopened(x))
    BY <1>7 DEF IsCollection
  <2>2. Fresh(x)' <=> Fresh(x)
    BY <1>k, <1>6, <2>1 DEF Fresh, IsCollection
  <2>3. Live(x)' <=> Live(x)
    BY <1>k, <1>5, <1>6 DEF Live, IsCollection
  <2> QED
    BY <1>k, <1>6, <2>1, <2>2, <2>3 DEF Ended, Executing, IsCollection
<1>9. \A v \in Workers : \A d :
        /\ Itself(v, d, {"finished", "process", "restore"})'
             <=> Itself(v, d, {"finished", "process", "restore"})
        /\ Itself(v, d, {"finished", "enqueue"})' <=> Itself(v, d, {"finished", "enqueue"})
        /\ Itself(v, d, {"finished"})' <=> Itself(v, d, {"finished"})
        /\ Itself(v, d, Reporting)' <=> Itself(v, d, Reporting)
  BY <1>2 DEF Itself, Reporting
<1>10. OneToken'
  BY <1>4 DEF JobInv, OneToken
<1>11. QueueInv'
  <2>1. \A j \in Jobs : status'[j] \in {"New", "Queued"} => status'[j] = status[j]
    BY <1>3
  <2>2. \A j \in Jobs : Queued(j)' => status'[j] = "Queued"
    BY <1>1, <1>6 DEF JobInv, QueueInv
  <2>3. \A j \in Jobs : Queued(j)' \/ status'[j] = "New" =>
          Fresh(j)' /\ j \notin Tokens' /\ j \notin customers'
    BY <1>5, <1>6, <1>8, <2>1 DEF JobInv, QueueInv
  <2>4. \A j \in Jobs : status'[j] = "New" => ~ Queued(j)'
    BY <1>6, <2>1 DEF JobInv, QueueInv
  <2>5. Distinct(assignments')
    BY DEF JobInv, QueueInv
  <2> QED
    BY <2>2, <2>3, <2>4, <2>5 DEF QueueInv
<1>12. MainInvs'
  <2>1. MainOK(f)'
    <3>1. e # c => Ended(e)'
      BY <1>1, <1>8
    <3> QED
      BY <1>1, <1>e, <1>k, <1>6, <3>1 DEF MainOK, Own, Reporting
  <2> SUFFICES ASSUME NEW v \in Workers, v # w PROVE MainOK(Main[v])'
    BY <1>2, <2>1 DEF MainInvs
  <2>g. PICK g : g = Main[v]
    OBVIOUS
  <2>2. MainOK(g) /\ Main'[v] = g
    BY <2>g, <1>2 DEF JobInv, MainInvs
  <2>3. /\ g.at \in Own => g.of # c
        /\ g.at \in Reporting /\ g.by = c => g.of = c
    BY <2>g, <1>1
  <2>4. CASE g.at \in Own \cup Reporting => g.of # c
    <3>1. g.at \in Own \cup Reporting => g.of \in Jobs
      <4>1. g.at \in Reporting => g.of \in DOMAIN coll
        BY <2>2 DEF MainOK, IsCollection
      <4> QED
        BY <2>2, <4>1, FamilyFacts DEF MainOK
    <3>2. g.at \in Reporting => g.by # c /\ g.by \in Jobs
      BY <2>2, <2>3, <2>4 DEF MainOK
    <3>3. Untouched(g)
      BY <1>k, <1>6, <1>7, <1>8, <2>4, <3>1, <3>2 DEF Untouched, IsCollection
    <3>4. MainOK(g)'
      BY <2>2, <3>3, UntouchedKept
    <3> QED
      BY <2>g, <2>2, <3>4
  <2>5. CASE g.at \in Reporting /\ g.of = c
    <3>1. ~ (g.by = c /\ g.at \in {"finished", "enqueue"})
      BY <2>g, <2>5, <1>1 DEF Itself
    <3>2. /\ g.by \in Jobs /\ (g.at \in {"enqueue", "process"} => g.by = g.of)
          /\ (g.by # g.of => g.by \in ToSet(coll[c].elements) /\ Ended(g.by))
          /\ (g.at = "restore" => g.kept \in Final)
      BY <2>2, <2>5 DEF MainOK
    <3>3. g.by # g.of => Ended(g.by)'
      BY <1>8, <2>5, <3>2
    <3>4. IsCollection(c)' /\ ended'[c] = 0
      BY <1>1, <1>6
    <3> HIDE DEF Own
    <3>5. g.at \notin Own /\ g.at \notin {"setRunning", "run", "end", "callEnd", "store", "execute"}
      BY <2>5 DEF Reporting, Own
    <3>6. MainOK(g)'
      BY <1>1, <1>k, <2>5, <3>1, <3>2, <3>3, <3>4, <3>5 DEF MainOK
    <3> QED
      BY <2>g, <2>2, <3>6
  <2> QED
    BY <2>3, <2>4, <2>5
<1>13. CountInv'
  <2>1. \A d \in DOMAIN coll : Remaining(d)' = Remaining(d)
    BY <1>k, <1>8, <1>9 DEF Remaining
  <2> QED
    BY <1>k, <1>9, <2>1 DEF JobInv, CountInv
<1>14. CollInv'
  <2> SUFFICES ASSUME NEW d \in DOMAIN coll PROVE CollOK(d)'
    BY <1>k DEF CollInv
  <2>1. CollOK(d) /\ d \in Jobs
    BY FamilyFacts DEF JobInv, CollInv
  <2>2. coll'[d].elements \in {program.elements[d], Family(program, d)}'
    BY <1>k, <2>1 DEF CollOK, Family
  <2>3. \A v \in Workers : \A at \in Own :
          (Main'[v].at = at /\ Main'[v].of = d) <=> (Main[v].at = at /\ Main[v].of = d)
    BY <1>2 DEF Own, Reporting
  <2>4. /\ coll[d].jobCounter > 0 => status'[d] \in {"Running"} \cup Final
        /\ status'[d] \notin {"New", "Queued"} => coll[d].jobsStarted > 0
    <3>1. status[d] \notin {"New", "Queued"} => coll[d].jobsStarted > 0
      BY <2>1 DEF CollOK
    <3>2. d = c => coll[d].jobsStarted > 0
      BY <1>1, <3>1 DEF Final
    <3> QED
      BY <2>1, <3>1, <3>2 DEF CollOK
  <2> QED
    BY <1>k, <1>9, <2>1, <2>2, <2>3, <2>4 DEF CollOK, Own
<1>15. ClearInv'
  <2> SUFFICES ASSUME NEW d \in Clearing PROVE Over(d)'
    BY DEF ClearInv
  <2>1. Over(d) /\ d # c /\ d \in Jobs
    BY <1>1, FamilyFacts DEF JobInv, ClearInv, Over, IsCollection
  <2>2. Opening(d)' => Opening(d)
    BY <1>2, <1>9 DEF Opening, Own
  <2> QED
    BY <1>6, <2>1, <2>2 DEF Over
<1>16. DoneInv'
  <2> SUFFICES ASSUME NEW j \in Jobs, begun[j] > 0
               PROVE  \/ j \in Tokens'
                      \/ IsCollection(j)' /\ coll'[j].jobCounter > 0
                      \/ Ended(j)'
    BY DEF DoneInv
  <2>1. CASE j = c
    BY <1>1, <1>k, <1>6, <2>1
  <2>2. CASE j # c
    BY <1>k, <1>5, <1>6, <1>8, <2>2 DEF JobInv, DoneInv, IsCollection
  <2> QED
    BY <2>1, <2>2
<1>17. CustomersInv'
  BY <1>k, <1>5, <1>6 DEF JobInv, CustomersInv, IsCollection
<1> QED
  BY <1>10, <1>11, <1>12, <1>13, <1>14, <1>15, <1>16, <1>17 DEF JobInv

(* An element that is not the last one reports: its failure stops a        *)
(* sequence.                                                               *)
LEMMA ProcessAndStopKeeps ==
  ASSUME Inv, NEW w \in Workers, ProcessAndStop(w)
  PROVE  Inv'
<1>c. PICK c : c = Top(w).of
  OBVIOUS
<1>o. PICK o : o = UpdatedStatus(Top(w).by)
  OBVIOUS
<1>f. PICK f : f = [Top(w) EXCEPT !.at = "restore", !.kept = o]
  OBVIOUS
<1>g. PICK g : g = Frame("stop", c, c)
  OBVIOUS
<1>t. PICK t : t = <<g, f>> \o Tail(stack[w])
  OBVIOUS
<1>1. /\ Processing(w) /\ StopsSequence(c, Top(w).by)
      /\ status' = [status EXCEPT ![c] = o]
      /\ coll' = [coll EXCEPT ![c].selfIsExecuting = FALSE]
      /\ Release(c)
      /\ stack' = [stack EXCEPT ![w] = <<Frame("stop", c, c),
                     [Head(@) EXCEPT !.at = "restore", !.kept = o]>> \o Tail(@)]
      /\ UNCHANGED <<clientVars, weaverVars, shouldAbort, begun, ended, policyVars>>
  BY <1>c, <1>o DEF ProcessAndStop, GivesUpMutex
<1>2. /\ stack[w] # <<>> /\ Top(w).at \in {"finished", "process"}
      /\ Top(w).at # "process" => owner[c] = Nobody
      /\ Main[w] = Top(w) /\ c \in DOMAIN coll /\ Top(w).by \in Jobs
      /\ o \in Final
      /\ Main[w].by # Main[w].of \/ Main[w].at = "process"
  <2>1. Top(w).at \in {"finished", "process"} /\ status[Top(w).by] \in Final
        /\ (Top(w).at = "finished" => Top(w).by # Top(w).of)
        /\ Main[w] = Top(w)
    BY <1>1, ProcessingFacts
  <2>2. o \in Final
    BY <1>o, <1>1, <2>1 DEF UpdatedStatus, StopsSequence
  <2> QED
    BY <1>c, <1>1, <2>1, <2>2, ProcessingFacts
<1>3. /\ c \in Jobs /\ coll[c] \in CollSet /\ ~ coll[c].selfIsExecuting
  <2>1. /\ Main[w].at \in Reporting
        /\ Main[w].by # Main[w].of \/ Main[w].at \in {"process", "restore"}
        /\ c = Main[w].of
    BY <1>c, <1>2 DEF Reporting
  <2> QED
    BY <2>1, ReporterFacts DEF Inv
<1>4. coll' = coll
  <2>1. [coll[c] EXCEPT !.selfIsExecuting = FALSE] = coll[c]
    BY <1>3 DEF CollSet
  <2>2. coll \in [DOMAIN program.elements -> CollSet]
    BY DEF Inv, Typed
  <2>r. PICK r : r = [coll[c] EXCEPT !.selfIsExecuting = FALSE]
    OBVIOUS
  <2>3. coll' = [coll EXCEPT ![c] = r] /\ r = coll[c]
    BY <1>1, <2>1, <2>r
  <2> QED
    BY <2>2, <2>3
<1>5. /\ f \in FrameSet /\ f.at = "restore" /\ f.of = c /\ f.by = Main[w].by /\ f.kept = o
      /\ g \in FrameSet /\ g.at = "stop" /\ g.of = f.of
      /\ stack' = [stack EXCEPT ![w] = t]
  <2>1. Top(w) \in FrameSet
    BY <1>2, TopShape DEF Inv
  <2>2. /\ f \in FrameSet /\ f.at = "restore" /\ f.of = c /\ f.by = Main[w].by /\ f.kept = o
    BY <1>c, <1>f, <1>2, <2>1 DEF FrameSet, Places, Statuses
  <2>3. g \in FrameSet /\ g.at = "stop" /\ g.of = c
    BY <1>g, <1>3 DEF FrameSet, Places, StopPlaces, Statuses, Frame
  <2>4. stack' = [stack EXCEPT ![w] = t]
    BY <1>t, <1>f, <1>g, <1>1 DEF Top, Inv, Typed
  <2> QED
    BY <2>2, <2>3, <2>4
<1>6. /\ Goes(w, t) /\ Taken(stack[w]) /\ Taken(t) /\ t[Len(t)].at = "clear"
      /\ Clearing' = Clearing /\ Main' = [Main EXCEPT ![w] = f]
      /\ LockedOf(stack[w]) = LockOf(Top(w)) /\ LockedOf(t) = {}
  <2>C. PICK C : C = {}
    OBVIOUS
  <2>1. Top(w).at \in EndPlaces
    BY <1>2 DEF EndPlaces
  <2>2. EndsWith(stack[w], f, C, t)
    BY <1>t, <1>5, <2>C DEF EndsWith
  <2>3. Continues(w, f, C, t)
    BY <1>2, <1>5, <2>1, <2>2, EndStep
  <2> QED
    BY <1>5, <2>3, <2>C DEF Continues, LockOf
<1>7. Locks(w, t)
  <2>1. owner' = [owner EXCEPT ![c] = Nobody]
    BY <1>1 DEF Release
  <2>2. LockedOf(stack[w]) \subseteq {c} /\ (Top(w).at = "process" => LockedOf(stack[w]) = {c})
    BY <1>c, <1>6 DEF LockOf
  <2>3. owner[c] = Nobody \/ c \in LockedOf(stack[w])
    BY <1>2, <2>2
  <2> QED
    BY <1>2, <1>3, <1>6, <2>1, <2>2, <2>3, LocksIs DEF Inv
<1>8. /\ UNCHANGED <<program, script, active, working, held, shouldAbort, assignments, begun,
                     ended, blocked, dependencies, customers>>
      /\ status' \in [Jobs -> Statuses] /\ status'[c] \in Final
      /\ \A x \in Jobs \ {c} : status'[x] = status[x]
  <2>1. status \in [Jobs -> Statuses]
    BY DEF Inv, Typed
  <2> QED
    BY <1>1, <1>2, <1>3, <2>1 DEF clientVars, weaverVars, policyVars, Statuses
<1>9. JobInv'
  <2>1. c = Main[w].of /\ f.kept \in Final
    BY <1>c, <1>2, <1>5
  <2>2. /\ Main[w].at \in Reporting
        /\ Main[w].by # Main[w].of \/ Main[w].at \in {"process", "restore"}
    BY <1>2 DEF Reporting
  <2>3. CollectionsKept(Counting)
    BY <1>4 DEF CollectionsKept, Inv, Typed
  <2> QED
    BY <1>2, <1>5, <1>6, <1>8, <2>1, <2>2, <2>3, RestoringKept DEF Inv
<1>10. CollectionsGrow
  BY <1>4, CollectionsStay DEF Inv, JobInv
<1>11. blocked' \subseteq Jobs /\ blocked' \cap ToSet(assignments) \subseteq blocked
       /\ assignments' \in Seq(Jobs) /\ begun' \in [Jobs -> Nat] /\ ended' \in [Jobs -> Nat]
  BY <1>8 DEF Inv, Typed
<1>12. \A v \in Workers : v # w /\ Main[v].at = "setRunning" =>
         \A d \in DOMAIN coll : d = Main[v].of => coll'[d].jobsStarted = coll[d].jobsStarted
  BY <1>4
<1> QED
  BY <1>6, <1>7, <1>8, <1>9, <1>10, <1>11, <1>12, StepKeeps

(* A collection that is over does not refer to itself any more.            *)
LEMMA ClearedKept ==
  ASSUME Typed, Shapes, JobInv, NEW w \in Workers, NEW c \in DOMAIN coll, Over(c),
         Main[w].at \notin Own \cup Reporting,
         NEW f, Main' = [Main EXCEPT ![w] = f], f.at \notin Own \cup Reporting,
         Clearing' \subseteq Clearing, Clearing \subseteq Clearing' \cup {c},
         DOMAIN coll' = DOMAIN coll, \A d \in DOMAIN coll \ {c} : coll'[d] = coll[d],
         coll'[c].elements = coll[c].elements, ~ coll'[c].self,
         coll'[c].jobsStarted = coll[c].jobsStarted,
         coll'[c].selfIsExecuting = coll[c].selfIsExecuting,
         coll'[c].jobCounter = coll[c].jobCounter, JobsKept
  PROVE  JobInv'
<1> USE DEF JobsKept
<1>1. /\ coll[c].jobCounter = 0 /\ ~ coll[c].selfIsExecuting /\ c \in Jobs
      /\ status[c] \in Final
  BY FamilyFacts DEF Over, Closed, IsCollection
<1>2. Main'[w] = f /\ \A v \in Workers : v # w => Main'[v] = Main[v]
  BY DEF Main
<1>3. /\ \A d \in DOMAIN coll :
           /\ coll'[d].elements = coll[d].elements
           /\ coll'[d].selfIsExecuting = coll[d].selfIsExecuting
           /\ coll'[d].jobCounter = coll[d].jobCounter
           /\ coll'[d].jobsStarted = coll[d].jobsStarted
           /\ coll'[d].self => coll[d].self
           /\ d # c => coll'[d].self = coll[d].self
  OBVIOUS
<1>4. \A v \in Workers : \A j : Bears(v, j)' <=> Bears(v, j)
  BY <1>2 DEF Bears, TokenOf
<1>5. Tokens' = Tokens
  BY <1>4 DEF Tokens
<1>6. \A j : /\ Kids(j)' = Kids(j)
             /\ Unopened(j)' <=> Unopened(j)
             /\ Queued(j)' <=> Queued(j)
             /\ IsCollection(j)' <=> IsCollection(j)
  BY DEF Kids, Unopened, Queued, IsCollection
<1>7. \A j : /\ Live(j)' <=> Live(j)
             /\ Closed(j)' <=> Closed(j)
             /\ Ended(j)' <=> Ended(j)
  BY <1>3, <1>5, <1>6 DEF Live, Closed, Ended, IsCollection
<1>8. \A j : /\ Fresh(j) => Fresh(j)'
             /\ IsCollection(j) /\ Executing(j) => Executing(j)'
  <2> TAKE j
  <2>1. Fresh(j) => Fresh(j)'
    BY <1>3, <1>6 DEF Fresh, IsCollection
  <2>2. IsCollection(j) /\ Executing(j) => Executing(j)'
    <3>1. IsCollection(j) /\ Executing(j) => j # c
      BY <1>1 DEF Executing
    <3> QED
      BY <1>3, <1>6, <3>1 DEF Executing, IsCollection
  <2> QED
    BY <2>1, <2>2
<1>9. \A v \in Workers : \A d : \A P \in SUBSET Reporting : Itself(v, d, P)' <=> Itself(v, d, P)
  BY <1>2 DEF Itself, Reporting
<1>10. OneToken'
  BY <1>4 DEF JobInv, OneToken
<1>11. QueueInv'
  <2>1. Distinct(assignments')
    BY DEF JobInv, QueueInv
  <2>2. \A j : /\ Queued(j)' <=> Queued(j)
               /\ Fresh(j) => Fresh(j)'
    BY <1>6, <1>8
  <2> QED
    BY <1>5, <2>1, <2>2 DEF JobInv, QueueInv
<1>12. MainInvs'
  <2>1. MainOK(f)'
    BY DEF MainOK, Own, Reporting
  <2> SUFFICES ASSUME NEW v \in Workers, v # w PROVE MainOK(Main[v])'
    BY <1>2, <2>1 DEF MainInvs
  <2>g. PICK g : g = Main[v]
    OBVIOUS
  <2>2. MainOK(g) /\ Main'[v] = g
    BY <2>g, <1>2 DEF JobInv, MainInvs
  <2>3. g.at = "enqueue" => g.of # c
    <3> SUFFICES ASSUME g.at = "enqueue", g.of = c PROVE FALSE
      OBVIOUS
    <3>1. coll[c].jobCounter = Len(coll[c].elements) + 1
      BY <2>2 DEF MainOK
    <3>2. Len(coll[c].elements) \in Nat
      BY ElementFacts, LenProperties DEF JobInv
    <3> QED
      BY <1>1, <3>1, <3>2
  <2>4. /\ IsCollection(g.of) => /\ coll'[g.of].elements = coll[g.of].elements
                                 /\ coll'[g.of].selfIsExecuting = coll[g.of].selfIsExecuting
                                 /\ coll'[g.of].jobCounter = coll[g.of].jobCounter
                                 /\ g.of # c => coll'[g.of].self = coll[g.of].self
        /\ IsCollection(g.of)' <=> IsCollection(g.of)
        /\ Fresh(g.of) => Fresh(g.of)'
        /\ IsCollection(g.of) /\ Executing(g.of) => Executing(g.of)'
        /\ Closed(g.of) => Closed(g.of)'
        /\ Ended(g.by) => Ended(g.by)'
        /\ Unopened(g.of)' <=> Unopened(g.of)
    BY <1>3, <1>6, <1>7, <1>8 DEF IsCollection
  <2>5. MainOK(g)'
    BY <2>2, <2>3, <2>4 DEF MainOK, Reporting
  <2> QED
    BY <2>g, <2>2, <2>5
<1>13. CountInv'
  <2>1. \A d \in DOMAIN coll : Remaining(d)' = Remaining(d)
    BY <1>3, <1>7, <1>9 DEF Remaining, Reporting
  <2> QED
    BY <1>3, <1>9, <2>1 DEF JobInv, CountInv, Reporting
<1>14. CollInv'
  <2> SUFFICES ASSUME NEW d \in DOMAIN coll PROVE CollOK(d)'
    BY DEF CollInv
  <2>1. CollOK(d)
    BY DEF JobInv, CollInv
  <2>2. coll'[d].elements \in {program.elements[d], Family(program, d)}'
    BY <1>3, <2>1 DEF CollOK, Family
  <2>3. \A v \in Workers : \A at \in Own :
          (Main'[v].at = at /\ Main'[v].of = d) <=> (Main[v].at = at /\ Main[v].of = d)
    BY <1>2
  <2>4. \A v \in Workers : Itself(v, d, {"finished"})' <=> Itself(v, d, {"finished"})
    BY <1>9 DEF Reporting
  <2> QED
    BY <1>1, <1>3, <2>1, <2>2, <2>3, <2>4 DEF CollOK, Own
<1>15. ClearInv'
  <2>1. \A d : Opening(d)' <=> Opening(d)
    <3>1. \A v \in Workers : \A d : (Main'[v].at \in Own \ {"callEnd"} /\ Main'[v].of = d)
                                      <=> (Main[v].at \in Own \ {"callEnd"} /\ Main[v].of = d)
      BY <1>2
    <3>2. \A v \in Workers : \A d : Itself(v, d, Reporting)' <=> Itself(v, d, Reporting)
      BY <1>9
    <3> QED
      BY <3>1, <3>2 DEF Opening
  <2> QED
    BY <1>6, <1>7, <2>1 DEF JobInv, ClearInv, Over
<1>16. DoneInv'
  BY <1>3, <1>5, <1>6, <1>7 DEF JobInv, DoneInv, IsCollection
<1>17. CustomersInv'
  BY <1>3, <1>5, <1>6 DEF JobInv, CustomersInv, IsCollection
<1> QED
  BY <1>10, <1>11, <1>12, <1>13, <1>14, <1>15, <1>16, <1>17 DEF JobInv

(* A collection that is over drops the reference to itself.                *)
LEMMA ClearSelfKeeps ==
  ASSUME Inv, NEW w \in Workers, ClearSelf(w)
  PROVE  Inv'
<1>c. PICK c : c = Top(w).of
  OBVIOUS
<1>s. PICK s : s = stack[w]
  OBVIOUS
<1>t. PICK t : t = Tail(s)
  OBVIOUS
<1>f. PICK f : f = MainOf(t)
  OBVIOUS
<1>1. /\ stack[w] # <<>> /\ Top(w).at = "clearSelf"
      /\ coll' = [coll EXCEPT ![c].self = FALSE]
      /\ stack' = [stack EXCEPT ![w] = t]
      /\ UNCHANGED <<clientVars, owner, weaverVars, jobVars, policyVars>>
  BY <1>c, <1>s, <1>t DEF ClearSelf, At, Is, Return, Inv, Typed
<1>2. /\ s \in Seq(FrameSet) /\ s # <<>> /\ Top(w) = s[1] /\ Ending(s) /\ Main[w] = Top(w)
  BY <1>s, <1>1, TopShape DEF Inv
<1>3. /\ t \in Seq(FrameSet) /\ t # <<>> /\ Shaped(t)
      /\ f.at \in {"clear", "clearSelf"}
      /\ t[1].at \in {"clear", "clearSelf"} /\ t[Len(t)].at = "clear"
      /\ ClearingOf(t) \subseteq ClearingOf(s)
      /\ ClearingOf(s) \subseteq ClearingOf(t) \cup {c}
      /\ c \in ClearingOf(s)
  BY <1>c, <1>t, <1>f, <1>1, <1>2, EndingPop
<1>4. /\ Goes(w, t) /\ Taken(s) /\ Taken(t) /\ LockedOf(t) = {} /\ LockedOf(s) = {}
  BY <1>1, <1>2, <1>3 DEF Goes, Taken, LockedOf
<1>5. Locks(w, t)
  BY <1>s, <1>1, <1>4, LocksIs DEF Inv
<1>6. /\ Main' = [Main EXCEPT ![w] = f]
      /\ Clearing' \subseteq Clearing /\ Clearing \subseteq Clearing' \cup {c} /\ c \in Clearing
  <2>1. /\ Main' = [Main EXCEPT ![w] = f]
        /\ ClearingOf(t) \subseteq Clearing' /\ Clearing' \subseteq Clearing \cup ClearingOf(t)
        /\ Clearing \subseteq Clearing' \cup (ClearingOf(s) \ ClearingOf(t))
    BY <1>f, <1>s, <1>4, StackMoves DEF Inv
  <2>2. ClearingOf(s) \subseteq Clearing
    BY <1>s DEF Clearing
  <2> QED
    BY <1>3, <2>1, <2>2
<1>7. Over(c) /\ c \in DOMAIN coll
  BY <1>6 DEF Inv, JobInv, ClearInv, Over, IsCollection
<1>8. /\ DOMAIN coll' = DOMAIN coll /\ coll' \in [DOMAIN program.elements -> CollSet]
      /\ \A d \in DOMAIN coll : d # c => coll'[d] = coll[d]
      /\ coll'[c].elements = coll[c].elements /\ ~ coll'[c].self
      /\ coll'[c].jobsStarted = coll[c].jobsStarted
      /\ coll'[c].selfIsExecuting = coll[c].selfIsExecuting
      /\ coll'[c].jobCounter = coll[c].jobCounter
  <2>1. coll \in [DOMAIN program.elements -> CollSet]
    BY DEF Inv, Typed
  <2>2. coll[c] \in CollSet
    BY <1>7, <2>1
  <2>r. PICK r : r = [coll[c] EXCEPT !.self = FALSE]
    OBVIOUS
  <2>3. /\ r \in CollSet /\ r.elements = coll[c].elements /\ ~ r.self
        /\ r.jobsStarted = coll[c].jobsStarted
        /\ r.selfIsExecuting = coll[c].selfIsExecuting
        /\ r.jobCounter = coll[c].jobCounter
    BY <2>r, <2>2 DEF CollSet
  <2>4. coll' = [coll EXCEPT ![c] = r]
    BY <1>1, <2>r
  <2> QED
    BY <1>7, <2>1, <2>3, <2>4
<1>9. /\ UNCHANGED <<program, script, active, working, held, shouldAbort, assignments, status,
                     begun, ended, blocked, dependencies, customers>>
  BY <1>1 DEF clientVars, weaverVars, jobVars, policyVars
<1>10. JobInv'
  <2>1. Main[w].at \notin Own \cup Reporting /\ f.at \notin Own \cup Reporting
    BY <1>1, <1>2, <1>3 DEF Own, Reporting
  <2>2. JobsKept
    BY <1>9 DEF JobsKept
  <2> QED
    BY <1>6, <1>7, <1>8, <2>1, <2>2, ClearedKept DEF Inv
<1>11. CollectionsGrow
  <2>1. \A d \in DOMAIN coll : coll'[d].elements = coll[d].elements
    BY <1>8
  <2> QED
    BY <1>8, <2>1, CollectionsStay DEF Inv, JobInv
<1>12. blocked' \subseteq Jobs /\ blocked' \cap ToSet(assignments) \subseteq blocked
       /\ assignments' \in Seq(Jobs) /\ begun' \in [Jobs -> Nat] /\ ended' \in [Jobs -> Nat]
       /\ status' \in [Jobs -> Statuses]
  BY <1>9 DEF Inv, Typed
<1>13. \A v \in Workers : v # w /\ Main[v].at = "setRunning" =>
         \A d \in DOMAIN coll : d = Main[v].of => coll'[d].jobsStarted = coll[d].jobsStarted
  BY <1>8
<1> QED
  BY <1>s, <1>3, <1>4, <1>5, <1>9, <1>10, <1>11, <1>12, <1>13, StepKeeps

(* Taking a job out of the queue takes it and no other out.                *)
LEMMA WithoutFacts ==
  ASSUME assignments \in Seq(Jobs), Distinct(assignments), NEW j
  PROVE  /\ Without(j) \in Seq(Jobs) /\ Distinct(Without(j))
         /\ ToSet(Without(j)) = ToSet(assignments) \ {j}
         /\ ~ Queued(j) => Without(j) = assignments
<1>1. DOMAIN assignments = 1..Len(assignments) /\ Len(assignments) \in Nat
  BY LenProperties
<1>2. \A s : \A x : x \in ToSet(s) <=> Occurs(s, x)
  BY DEF ToSet, Occurs
<1>3. CASE Queued(j)
  <2>p. PICK p : p = CHOOSE i \in DOMAIN assignments :
                       assignments[i] = j /\ \A k \in 1..(i - 1) : assignments[k] # j
    OBVIOUS
  <2>1. PICK i \in 1..Len(assignments) : assignments[i] = j
    BY <1>1, <1>3 DEF Queued, ToSet
  <2>2. \A k \in 1..(i - 1) : assignments[k] # j
    BY <1>1, <2>1 DEF Distinct
  <2>3. p \in 1..Len(assignments) /\ assignments[p] = j
    BY <1>1, <2>p, <2>1, <2>2
  <2>4. Without(j) = RemoveAt(assignments, p)
    BY <1>3, <2>p DEF Without
  <2>5. RemoveAt(assignments, p) \in Seq(Jobs)
    BY <2>3, RemoveAtProperties
  <2>6. /\ \A x : Occurs(RemoveAt(assignments, p), x)
                    <=> Occurs(assignments, x) /\ x # assignments[p]
        /\ Distinct(RemoveAt(assignments, p))
    BY <2>3, RemoveAtOccurs
  <2> QED
    BY <1>2, <1>3, <2>3, <2>4, <2>5, <2>6
<1>4. CASE ~ Queued(j)
  BY <1>4 DEF Without, Queued
<1> QED
  BY <1>3, <1>4

(* A collection takes back an element that has not been taken.             *)
LEMMA TakenBackKept ==
  ASSUME Typed, Shapes, JobInv, NEW w \in Workers, Main[w].at = "restore",
         NEW c, c = Main[w].of, NEW e \in ToSet(coll[c].elements), Queued(e),
         Main' = Main, Clearing' = Clearing,
         Distinct(assignments'), ToSet(assignments') = ToSet(assignments) \ {e},
         status' = [status EXCEPT ![e] = "New"],
         DOMAIN coll' = DOMAIN coll,
         \A d \in DOMAIN coll :
           /\ coll'[d].elements = coll[d].elements /\ coll'[d].self = coll[d].self
           /\ coll'[d].selfIsExecuting = coll[d].selfIsExecuting
           /\ coll'[d].jobsStarted = coll[d].jobsStarted
           /\ coll'[d].jobCounter = IF d = c THEN coll[d].jobCounter - 1 ELSE coll[d].jobCounter,
         UNCHANGED <<program, begun, ended, customers>>
  PROVE  JobInv'
<1>b. PICK b : b = Main[w].by
  OBVIOUS
<1>1. /\ c \in DOMAIN coll /\ c \in Jobs /\ IsCollection(c) /\ coll[c] \in CollSet
      /\ coll[c].jobCounter = Cardinality(Remaining(c)) /\ coll[c].jobCounter \in Nat \ {0}
      /\ b \in Remaining(c) /\ ~ Queued(c) /\ c \notin Clearing
      /\ ~ coll[c].selfIsExecuting
      /\ \A v \in Workers : ~ Itself(v, c, {"finished", "enqueue"})
      /\ Bears(w, b)
      /\ \A v \in Workers : /\ Main[v].at \in Own => Main[v].of # c
                            /\ Main[v].at \in Reporting /\ Main[v].by = c => Main[v].of = c
  BY <1>b, ReporterFacts DEF Reporting
<1>2. /\ e \in Jobs /\ e # c /\ e \in Kids(c) /\ coll[c].elements \in Seq(Jobs)
  BY <1>1, ElementFacts DEF JobInv
<1>3. /\ status[e] = "Queued" /\ Fresh(e) /\ e \notin Tokens /\ e \notin customers
      /\ (IsCollection(e) => coll[e].jobCounter = 0) /\ begun[e] = 0
  BY <1>2 DEF JobInv, QueueInv, Fresh
<1>4. b # e
  BY <1>1, <1>2, <1>3 DEF Tokens
<1>5. coll[c].jobCounter > 1 /\ coll'[c].jobCounter = coll[c].jobCounter - 1
      /\ coll'[c].jobCounter > 0
  <2>1. e \in Remaining(c)
    BY DEF Remaining, Live
  <2>2. /\ Cardinality(Remaining(c) \ {e}) = Cardinality(Remaining(c)) - 1
        /\ IsFiniteSet(Remaining(c) \ {e}) /\ b \in Remaining(c) \ {e}
    BY <1>1, <1>4, <2>1, RemainingFacts, FS_Subset DEF JobInv
  <2>3. Cardinality(Remaining(c) \ {e}) \in Nat /\ Cardinality(Remaining(c) \ {e}) # 0
    BY <2>2, FS_CardinalityType, FS_EmptySet
  <2> QED
    BY <1>1, <2>2, <2>3
<1>6. /\ \A v \in Workers : \A j : Bears(v, j)' <=> Bears(v, j)
      /\ Tokens' = Tokens
      /\ \A v \in Workers : \A d : \A P : Itself(v, d, P)' <=> Itself(v, d, P)
      /\ \A d : Opening(d)' <=> Opening(d)
  BY DEF Bears, Tokens, Itself, Opening
<1>7. /\ \A x : /\ Kids(x)' = Kids(x)
                /\ IsCollection(x)' <=> IsCollection(x)
                /\ Queued(x)' <=> Queued(x) /\ x # e
      /\ status'[e] = "New" /\ \A x \in Jobs \ {e} : status'[x] = status[x]
  BY <1>2 DEF Kids, IsCollection, Queued, Typed
<1>8. \A d \in DOMAIN coll : (Unopened(d) => Unopened(d)')
  <2> SUFFICES ASSUME NEW d \in DOMAIN coll, Unopened(d) PROVE Unopened(d)'
    OBVIOUS
  <2>1. Kids(d) \subseteq Jobs
    BY FamilyFacts
  <2> QED
    BY <1>7, <2>1 DEF Unopened
<1>9. \A x : /\ x # e => (Live(x)' <=> Live(x))
             /\ ~ Live(e)'
  BY <1>1, <1>3, <1>5, <1>6, <1>7, <1>2 DEF Live, IsCollection
<1>10. \A x : /\ Fresh(x) => Fresh(x)'
              /\ Closed(x)' <=> Closed(x)
              /\ x \in Jobs \ {e} => (Ended(x)' <=> Ended(x))
              /\ IsCollection(x) /\ Executing(x) => Executing(x)'
  <2> TAKE x
  <2>1. IsCollection(x) => (Unopened(x) => Unopened(x)')
    BY <1>8 DEF IsCollection
  <2>2. x = c => ~ Fresh(x) /\ ~ Executing(x) /\ ~ Closed(x) /\ ~ Closed(x)'
    BY <1>1, <1>5, <1>7 DEF Fresh, Executing, Closed
  <2>3. IsCollection(x) /\ x # c =>
          /\ coll'[x].elements = coll[x].elements /\ coll'[x].self = coll[x].self
          /\ coll'[x].selfIsExecuting = coll[x].selfIsExecuting
          /\ coll'[x].jobCounter = coll[x].jobCounter
          /\ coll'[x].jobsStarted = coll[x].jobsStarted
    BY DEF IsCollection
  <2>4. Closed(x)' <=> Closed(x)
    BY <1>7, <2>2, <2>3 DEF Closed
  <2>5. Fresh(x) => Fresh(x)'
    BY <1>7, <2>1, <2>2, <2>3 DEF Fresh
  <2>6. x \in Jobs \ {e} => (Ended(x)' <=> Ended(x))
    BY <1>7, <2>4 DEF Ended
  <2>7. IsCollection(x) /\ Executing(x) => Executing(x)'
    BY <2>1, <2>2, <2>3 DEF Executing
  <2> QED
    BY <2>4, <2>5, <2>6, <2>7
<1>11. OneToken'
  BY <1>6 DEF JobInv, OneToken
<1>12. QueueInv'
  <2>1. \A j \in Jobs : Queued(j)' => status'[j] = "Queued"
    BY <1>7 DEF JobInv, QueueInv
  <2>2. \A j \in Jobs : Queued(j)' \/ status'[j] = "New" =>
          Fresh(j)' /\ j \notin Tokens' /\ j \notin customers'
    BY <1>3, <1>6, <1>7, <1>10 DEF JobInv, QueueInv
  <2>3. \A j \in Jobs : status'[j] = "New" => ~ Queued(j)'
    BY <1>7 DEF JobInv, QueueInv
  <2> QED
    BY <2>1, <2>2, <2>3 DEF QueueInv
<1>13. MainInvs'
  <2> SUFFICES ASSUME NEW v \in Workers PROVE MainOK(Main[v])'
    BY DEF MainInvs
  <2>g. PICK g : g = Main[v]
    OBVIOUS
  <2>1. MainOK(g) /\ Main'[v] = g
    BY <2>g DEF JobInv, MainInvs
  <2>2. /\ g.at \in Own \cup Reporting => g.of # e /\ g.of \in Jobs
        /\ g.at \in Reporting => g.by # e /\ g.by \in Jobs /\ g.of \in DOMAIN coll
    <3>1. /\ g.at \in Reporting => g.by \in Jobs /\ g.of \in DOMAIN coll /\ g.of \in Jobs
          /\ g.at \in Own => g.of \in Jobs
      <4>1. g.at \in Reporting => g.by \in Jobs /\ g.of \in DOMAIN coll
        BY <2>1 DEF MainOK, IsCollection
      <4>2. g.at \in Own => g.of \in Jobs
        BY <2>1 DEF MainOK
      <4> QED
        BY <4>1, <4>2, FamilyFacts
    <3>2. ~ Bears(v, e)
      BY <1>2, <1>3 DEF Tokens
    <3>3. g.at \in Own => g.of # e
      BY <2>g, <3>2, BearsIs
    <3>4. g.at \in Reporting => g.by # e
      BY <2>g, <3>2, BearsIs
    <3>5. g.at \in Reporting => g.of # e
      <4> SUFFICES ASSUME g.at \in Reporting, g.of = e PROVE FALSE
        OBVIOUS
      <4>1. Main[v].at \in Reporting /\ Main[v].by # Main[v].of
        BY <2>g, <3>4
      <4>2. coll[e].jobCounter > 0
        BY <2>g, <4>1, ReportingFacts
      <4> QED
        BY <1>3, <3>1, <4>2 DEF IsCollection
    <3> QED
      BY <3>1, <3>3, <3>4, <3>5
  <2>3. g.at = "enqueue" => g.of # c
    <3> SUFFICES ASSUME g.at = "enqueue", g.of = c PROVE FALSE
      OBVIOUS
    <3>1. g.by = g.of
      BY <2>1 DEF MainOK
    <3> QED
      BY <2>g, <1>1, <3>1 DEF Itself
  <2>4. Untouched(g)
    <3>1. g.at \in Own \cup Reporting => status'[g.of] = status[g.of] /\ ended'[g.of] = ended[g.of]
      BY <1>7, <2>2
    <3>2. /\ Fresh(g.of) => Fresh(g.of)'
          /\ Closed(g.of) => Closed(g.of)'
          /\ IsCollection(g.of) /\ Executing(g.of) => Executing(g.of)'
          /\ IsCollection(g.of) => (Unopened(g.of) => Unopened(g.of)')
          /\ IsCollection(g.of)' <=> IsCollection(g.of)
      BY <1>7, <1>8, <1>10 DEF IsCollection
    <3>3. g.at \in Reporting => (Ended(g.by) => Ended(g.by)')
      BY <1>10, <2>2
    <3>4. IsCollection(g.of) =>
            /\ coll'[g.of].elements = coll[g.of].elements
            /\ coll'[g.of].self = coll[g.of].self
            /\ coll'[g.of].selfIsExecuting = coll[g.of].selfIsExecuting
            /\ g.at = "enqueue" => coll'[g.of].jobCounter = coll[g.of].jobCounter
      BY <2>3 DEF IsCollection
    <3> QED
      BY <3>1, <3>2, <3>3, <3>4 DEF Untouched
  <2>5. MainOK(g)'
    BY <2>1, <2>4, UntouchedKept
  <2> QED
    BY <2>g, <2>1, <2>5
<1>14. CountInv'
  <2> SUFFICES ASSUME NEW d \in DOMAIN coll
               PROVE  \/ \E v \in Workers : Itself(v, d, {"finished", "enqueue"})'
                      \/ coll'[d].jobCounter = Cardinality(Remaining(d)')
    BY DEF CountInv
  <2>1. CASE d # c
    <3>1. e \notin ToSet(coll[d].elements)
      <4>1. ToSet(coll[d].elements) \subseteq Kids(d)
        BY ElementFacts DEF JobInv
      <4>2. Kids(c) \cap Kids(d) = {}
        BY <1>1, <2>1, FamilyFacts
      <4> QED
        BY <1>2, <4>1, <4>2
    <3>2. Remaining(d)' = Remaining(d)
      BY <1>6, <1>9, <3>1 DEF Remaining
    <3> QED
      BY <1>6, <2>1, <3>2 DEF JobInv, CountInv
  <2>2. CASE d = c
    <3>1. Remaining(c)' = Remaining(c) \ {e}
      BY <1>1, <1>2, <1>6, <1>9 DEF Remaining
    <3>2. Cardinality(Remaining(c) \ {e}) = Cardinality(Remaining(c)) - 1
      <4>1. e \in Remaining(c)
        BY DEF Remaining, Live
      <4> QED
        BY <1>1, <4>1, RemainingFacts DEF JobInv
    <3> QED
      BY <1>1, <1>5, <2>2, <3>1, <3>2
  <2> QED
    BY <2>1, <2>2
<1>15. CollInv'
  <2> SUFFICES ASSUME NEW d \in DOMAIN coll PROVE CollOK(d)'
    BY DEF CollInv
  <2>1. CollOK(d) /\ d \in Jobs
    BY FamilyFacts DEF JobInv, CollInv
  <2>2. coll'[d].elements \in {program.elements[d], Family(program, d)}'
    BY <2>1 DEF CollOK, Family
  <2>3. coll'[d].jobCounter > 0 <=> coll[d].jobCounter > 0
    BY <1>1, <1>5
  <2>4. coll[d].jobCounter > 0 => d # e
    BY <1>3 DEF IsCollection
  <2>5. /\ coll[d].jobCounter > 0 => status'[d] \in {"Running"} \cup Final
        /\ status'[d] \notin {"New", "Queued"} => coll[d].jobsStarted > 0
    BY <1>7, <2>1, <2>4 DEF CollOK
  <2> QED
    BY <1>6, <2>1, <2>2, <2>3, <2>5 DEF CollOK
<1>16. ClearInv'
  <2> SUFFICES ASSUME NEW d \in Clearing PROVE Over(d)'
    BY DEF ClearInv
  <2>1. Over(d) /\ d # c /\ d \in Jobs
    BY <1>1, FamilyFacts DEF JobInv, ClearInv, Over, IsCollection
  <2>2. d # e
    BY <1>3, <2>1 DEF Over, Final
  <2> QED
    BY <1>6, <1>7, <1>10, <2>1, <2>2 DEF Over
<1>17. \A x : (IsCollection(x) /\ coll[x].jobCounter > 0)'
                <=> IsCollection(x) /\ coll[x].jobCounter > 0
  BY <1>1, <1>5 DEF IsCollection
<1>18. DoneInv'
  <2> SUFFICES ASSUME NEW j \in Jobs, begun[j] > 0
               PROVE  \/ j \in Tokens'
                      \/ IsCollection(j)' /\ coll'[j].jobCounter > 0
                      \/ Ended(j)'
    BY DEF DoneInv
  <2>1. j # e
    BY <1>3
  <2> QED
    BY <1>6, <1>10, <1>17, <2>1 DEF JobInv, DoneInv
<1>19. CustomersInv'
  BY <1>6, <1>17 DEF JobInv, CustomersInv
<1> QED
  BY <1>11, <1>12, <1>13, <1>14, <1>15, <1>16, <1>18, <1>19 DEF JobInv

(* An element is taken out of the queue, or is no longer there.            *)
LEMMA StopElementKeeps ==
  ASSUME Inv, NEW w \in Workers, StopElement(w)
  PROVE  Inv'
<1>c. PICK c : c = Top(w).of
  OBVIOUS
<1>n. PICK n : n = Top(w).k
  OBVIOUS
<1>e. PICK e : e = coll[c].elements[n]
  OBVIOUS
<1>f. PICK f : f = [Top(w) EXCEPT !.k = @ + 1]
  OBVIOUS
<1>t. PICK t : t = <<f>> \o Tail(stack[w])
  OBVIOUS
<1>1. /\ stack[w] # <<>> /\ Top(w).at = "stopElement" /\ n <= Len(coll[c].elements)
      /\ owner["weaver"] = Nobody
      /\ assignments' = Without(e)
      /\ status' = IF Queued(e) THEN [status EXCEPT ![e] = "New"] ELSE status
      /\ coll' = IF Queued(e) THEN CountDequeued(c, ForgetQueue({e}, coll)) ELSE coll
      /\ blocked' \subseteq blocked
      /\ stack' = [stack EXCEPT ![w] = t]
      /\ UNCHANGED <<clientVars, owner, active, working, held, shouldAbort, begun, ended,
                     dependencies, customers>>
  <2>1. /\ stack[w] # <<>> /\ Top(w).at = "stopElement" /\ n <= Len(coll[c].elements)
        /\ \A m \in Needs(w) : owner[m] = Nobody
        /\ assignments' = Without(e)
        /\ status' = IF Queued(e) THEN [status EXCEPT ![e] = "New"] ELSE status
        /\ coll' = IF Queued(e) THEN CountDequeued(c, ForgetQueue({e}, coll)) ELSE coll
        /\ ElementDequeued(c, e)
        /\ Become(w, f)
        /\ UNCHANGED <<clientVars, owner, active, working, held, shouldAbort, begun, ended,
                       dependencies, customers>>
    BY <1>c, <1>n, <1>e, <1>f DEF StopElement, At, Is
  <2>2. "weaver" \in Needs(w)
    BY <1>c, <1>n, <2>1 DEF Needs
  <2>3. blocked' \subseteq blocked
    BY <2>1 DEF ElementDequeued
  <2>4. stack' = [stack EXCEPT ![w] = t]
    BY <1>t, <2>1 DEF Become, Inv, Typed
  <2> QED
    BY <2>1, <2>2, <2>3, <2>4
<1>2. /\ stack[w] \in Seq(FrameSet) /\ Top(w) = stack[w][1] /\ Top(w) \in FrameSet
      /\ Ending(stack[w]) /\ stack[w][1].at \in StopPlaces
      /\ c \in DOMAIN coll /\ c \in Jobs /\ Main[w].at = "restore" /\ Main[w].of = c
  BY <1>c, <1>1, TopShape, StopFacts DEF Inv, StopPlaces
<1>3. n \in Nat \ {0} /\ f \in FrameSet /\ f.at = "stopElement" /\ f.of = c
  <2>1. n \in Nat \ {0}
    BY <1>2, <1>n DEF FrameSet
  <2>m. PICK m : m = n + 1
    OBVIOUS
  <2>2. m \in Nat \ {0}
    BY <2>1, <2>m
  <2>3. f = [Top(w) EXCEPT !.k = m]
    BY <1>f, <1>n, <2>m
  <2> QED
    BY <1>c, <1>1, <1>2, <2>1, <2>2, <2>3 DEF FrameSet
<1>4. /\ t \in Seq(FrameSet) /\ Ending(t) /\ MainOf(t) = MainOf(stack[w])
      /\ ClearingOf(t) = ClearingOf(stack[w]) /\ t[1] = f
  BY <1>c, <1>t, <1>2, <1>3, StopMoves DEF StopPlaces
<1>5. /\ Goes(w, t) /\ Taken(stack[w]) /\ Taken(t) /\ t[Len(t)].at = "clear"
      /\ LockedOf(stack[w]) = {c} /\ LockedOf(t) = {c}
  BY <1>c, <1>1, <1>2, <1>3, <1>4, EndingFacts, EndingStack DEF Goes
<1>6. Clearing' = Clearing /\ Main' = Main /\ Main' = [Main EXCEPT ![w] = Main[w]]
  <2>1. Clearing' = Clearing /\ Main' = [Main EXCEPT ![w] = MainOf(t)]
    BY <1>4, <1>5, ClearingKept, StackMoves DEF Inv
  <2>2. Main[w] = MainOf(t)
    BY <1>4 DEF Main
  <2>3. Main = [v \in Workers |-> Main[v]]
    BY DEF Main
  <2> QED
    BY <2>1, <2>2, <2>3
<1>7. Locks(w, t)
  <2>1. owner' = owner
    BY <1>1
  <2> QED
    BY <1>1, <1>2, <1>5, <2>1, LocksIs DEF Inv
<1>8. e \in ToSet(coll[c].elements) /\ e \in Jobs
  <2>1. coll[c].elements \in Seq(Jobs) /\ ToSet(coll[c].elements) \subseteq Jobs
    BY <1>2, ElementFacts DEF Inv, JobInv
  <2>2. DOMAIN coll[c].elements = 1..Len(coll[c].elements) /\ Len(coll[c].elements) \in Nat
    BY <2>1, LenProperties
  <2> QED
    BY <1>e, <1>1, <1>3, <2>1, <2>2 DEF ToSet
<1>9. /\ assignments' \in Seq(Jobs) /\ Distinct(assignments')
      /\ ToSet(assignments') = ToSet(assignments) \ {e}
      /\ ~ Queued(e) => assignments' = assignments
  BY <1>1, WithoutFacts DEF Inv, Typed, JobInv, QueueInv
<1>10. /\ coll' \in [DOMAIN program.elements -> CollSet] /\ DOMAIN coll' = DOMAIN coll
       /\ \A d \in DOMAIN coll :
            /\ coll'[d].elements = coll[d].elements /\ coll'[d].self = coll[d].self
            /\ coll'[d].selfIsExecuting = coll[d].selfIsExecuting
            /\ coll'[d].jobsStarted = coll[d].jobsStarted
            /\ Queued(e) => coll'[d].jobCounter =
                              IF d = c THEN coll[d].jobCounter - 1 ELSE coll[d].jobCounter
       /\ ~ Queued(e) => coll' = coll
  <2>1. coll \in [DOMAIN program.elements -> CollSet]
    BY DEF Inv, Typed
  <2>2. CASE ~ Queued(e)
    BY <1>1, <2>1, <2>2
  <2>3. CASE Queued(e)
    <3>1. coll' = [ForgetQueue({e}, coll) EXCEPT ![c].jobCounter = @ - 1]
      BY <1>1, <2>3 DEF CountDequeued
    <3>x. PICK x : x = ForgetQueue({e}, coll)
      OBVIOUS
    <3>2. /\ DOMAIN x = DOMAIN coll /\ x \in [DOMAIN program.elements -> CollSet]
          /\ \A d \in DOMAIN coll : x[d] \in CollSet /\ \A y \in Counting : x[d][y] = coll[d][y]
      <4>1. \A d \in DOMAIN coll : \E b \in BOOLEAN : x[d] = [coll[d] EXCEPT !.api = b]
        <5> SUFFICES ASSUME NEW d \in DOMAIN coll
                     PROVE  \E b \in BOOLEAN : x[d] = [coll[d] EXCEPT !.api = b]
          OBVIOUS
        <5>1. x[d] = [coll[d] EXCEPT !.api = coll[d].api /\ d \notin {e}]
          BY <3>x DEF ForgetQueue
        <5> QED
          BY <5>1
      <4>2. ASSUME NEW d \in DOMAIN coll
            PROVE  x[d] \in CollSet /\ \A y \in Counting : x[d][y] = coll[d][y]
        <5>1. PICK b \in BOOLEAN : x[d] = [coll[d] EXCEPT !.api = b]
          BY <4>1
        <5>r. PICK r : r = coll[d]
          OBVIOUS
        <5>2. r \in CollSet
          BY <2>1, <5>r
        <5>3. [r EXCEPT !.api = b] \in CollSet
              /\ \A y \in Counting : [r EXCEPT !.api = b][y] = r[y]
          BY <5>2 DEF CollSet, Counting
        <5> QED
          BY <5>1, <5>r, <5>3
      <4>3. DOMAIN x = DOMAIN coll /\ x = [d \in DOMAIN coll |-> x[d]]
        BY <3>x DEF ForgetQueue
      <4> QED
        BY <2>1, <4>2, <4>3
    <3>m. PICK m : m = x[c].jobCounter - 1
      OBVIOUS
    <3>r. PICK r : r = [x[c] EXCEPT !.jobCounter = m]
      OBVIOUS
    <3>3. coll' = [x EXCEPT ![c] = r]
      BY <3>1, <3>x, <3>m, <3>r
    <3>4. m \in Int /\ m = coll[c].jobCounter - 1
      BY <1>2, <3>2, <3>m DEF CollSet, Counting
    <3>5. /\ r \in CollSet /\ r.elements = coll[c].elements /\ r.self = coll[c].self
          /\ r.selfIsExecuting = coll[c].selfIsExecuting
          /\ r.jobsStarted = coll[c].jobsStarted /\ r.jobCounter = m
      <4>y. PICK y : y = x[c]
        OBVIOUS
      <4>1. /\ y \in CollSet /\ y.elements = coll[c].elements /\ y.self = coll[c].self
            /\ y.selfIsExecuting = coll[c].selfIsExecuting
            /\ y.jobsStarted = coll[c].jobsStarted
        BY <1>2, <3>2, <4>y DEF Counting
      <4>2. r = [y EXCEPT !.jobCounter = m]
        BY <3>r, <4>y
      <4> QED
        BY <3>4, <4>1, <4>2 DEF CollSet
    <3>6. \A d \in DOMAIN coll : d # c =>
            /\ coll'[d].elements = coll[d].elements /\ coll'[d].self = coll[d].self
            /\ coll'[d].selfIsExecuting = coll[d].selfIsExecuting
            /\ coll'[d].jobsStarted = coll[d].jobsStarted
            /\ coll'[d].jobCounter = coll[d].jobCounter
      BY <3>2, <3>3 DEF Counting
    <3>7. coll'[c] = r /\ DOMAIN coll' = DOMAIN coll
          /\ coll' \in [DOMAIN program.elements -> CollSet]
      BY <1>2, <3>2, <3>3, <3>5
    <3> QED
      BY <2>3, <3>4, <3>5, <3>6, <3>7
  <2> QED
    BY <2>2, <2>3
<1>11. /\ UNCHANGED <<program, script, active, working, held, shouldAbort, begun, ended,
                      dependencies, customers>>
       /\ status' \in [Jobs -> Statuses]
       /\ ~ Queued(e) => status' = status
       /\ Queued(e) => status' = [status EXCEPT ![e] = "New"]
  <2>1. status \in [Jobs -> Statuses]
    BY DEF Inv, Typed
  <2> QED
    BY <1>1, <2>1 DEF clientVars, Statuses
<1>12. JobInv'
  <2>1. CASE Queued(e)
    BY <1>2, <1>6, <1>8, <1>9, <1>10, <1>11, <2>1, TakenBackKept DEF Inv
  <2>2. CASE ~ Queued(e)
    <3>1. JobsKept
      BY <1>9, <1>11, <2>2 DEF JobsKept
    <3>2. CollectionsKept(Counting)
      BY <1>10, <2>2 DEF CollectionsKept
    <3> QED
      BY <1>6, <3>1, <3>2, JobInvKept DEF Inv
  <2> QED
    BY <2>1, <2>2
<1>13. CollectionsGrow
  <2>1. \A d \in DOMAIN coll : coll'[d].elements = coll[d].elements
    BY <1>10
  <2> QED
    BY <1>10, <2>1, CollectionsStay DEF Inv, JobInv
<1>14. blocked' \subseteq Jobs /\ begun' \in [Jobs -> Nat] /\ ended' \in [Jobs -> Nat]
  BY <1>1, <1>11 DEF Inv, Typed
<1>15. \A v \in Workers : v # w /\ Main[v].at = "setRunning" =>
         \A d \in DOMAIN coll : d = Main[v].of => coll'[d].jobsStarted = coll[d].jobsStarted
  BY <1>10
<1> QED
  BY <1>1, <1>5, <1>7, <1>9, <1>11, <1>12, <1>13, <1>14, <1>15, StepKeeps

(* stop() returns, and has cleaned up for the element that stops it.       *)
LEMMA StopDoneKeeps ==
  ASSUME Inv, NEW w \in Workers, StopDone(w)
  PROVE  Inv'
<1>c. PICK c : c = Top(w).of
  OBVIOUS
<1>s. PICK s : s = stack[w]
  OBVIOUS
<1>t. PICK t : t = Tail(s)
  OBVIOUS
<1>1. /\ s # <<>> /\ Top(w).at = "stopElement"
      /\ \/ FinalCleanup(c, status[c]) /\ coll' = [coll EXCEPT ![c].api = FALSE]
         \/ UNCHANGED <<status, dependencies, customers, coll>>
      /\ Release(c)
      /\ stack' = [stack EXCEPT ![w] = t]
      /\ UNCHANGED <<clientVars, weaverVars, shouldAbort, begun, ended, blocked>>
  BY <1>c, <1>s, <1>t DEF StopDone, At, Is, Return, Inv, Typed
<1>2. /\ s \in Seq(FrameSet) /\ Top(w) = s[1] /\ Ending(s) /\ s[1].at \in StopPlaces
      /\ c \in DOMAIN coll /\ c \in Jobs /\ Main[w].at = "restore" /\ Main[w].of = c
  BY <1>c, <1>s, <1>1, TopShape, StopFacts DEF Inv, StopPlaces
<1>3. /\ t \in Seq(FrameSet) /\ Ending(t) /\ MainOf(t) = MainOf(s)
      /\ ClearingOf(t) = ClearingOf(s) /\ t[1] = s[2] /\ s[2].at = "restore"
  BY <1>t, <1>2, StopReturns, EndingStack
<1>4. /\ Goes(w, t) /\ Taken(s) /\ Taken(t) /\ t[Len(t)].at = "clear"
      /\ LockedOf(s) = {c} /\ LockedOf(t) = {}
  BY <1>c, <1>1, <1>2, <1>3, EndingFacts, EndingStack DEF Goes
<1>5. Clearing' = Clearing /\ Main' = [Main EXCEPT ![w] = Main[w]]
  <2>1. Clearing' = Clearing /\ Main' = [Main EXCEPT ![w] = MainOf(t)]
    BY <1>s, <1>3, <1>4, ClearingKept, StackMoves DEF Inv
  <2>2. Main[w] = MainOf(t)
    BY <1>s, <1>3 DEF Main
  <2> QED
    BY <2>1, <2>2
<1>6. Locks(w, t)
  <2>1. owner' = [owner EXCEPT ![c] = Nobody]
    BY <1>1 DEF Release
  <2> QED
    BY <1>s, <1>1, <1>2, <1>4, <2>1, LocksIs DEF Inv
<1>7. CollectionsKept(Counting)
  <2>1. coll \in [DOMAIN program.elements -> CollSet]
    BY DEF Inv, Typed
  <2>2. CASE coll' = coll
    BY <2>1, <2>2 DEF CollectionsKept
  <2>3. CASE coll' = [coll EXCEPT ![c].api = FALSE]
    <3>x. PICK x : x = coll[c]
      OBVIOUS
    <3>r. PICK r : r = [x EXCEPT !.api = FALSE]
      OBVIOUS
    <3>c. x \in CollSet
      BY <1>2, <2>1, <3>x
    <3>1. r \in CollSet /\ \A y \in Counting : r[y] = x[y]
      <4>1. r \in CollSet
        BY <3>c, <3>r DEF CollSet
      <4>2. \A y \in Counting : r[y] = x[y]
        BY <3>c, <3>r DEF CollSet, Counting
      <4> QED
        BY <4>1, <4>2
    <3>2. coll' = [coll EXCEPT ![c] = r]
      BY <2>3, <3>x, <3>r
    <3> QED
      BY <1>2, <2>1, <3>1, <3>2, <3>x DEF CollectionsKept
  <2> QED
    BY <1>1, <2>2, <2>3
<1>8. /\ UNCHANGED <<program, script, active, working, held, shouldAbort, assignments, begun,
                     ended, blocked>>
      /\ status' \in [Jobs -> Statuses]
      /\ dependencies' \subseteq dependencies /\ customers' \subseteq customers
      /\ (status' = status /\ customers' = customers) \/ status'[c] \in Final
      /\ \A x \in Jobs \ {c} : status'[x] = status[x]
  <2>1. UNCHANGED <<program, script, active, working, held, shouldAbort, assignments, begun,
                    ended, blocked>>
    BY <1>1 DEF clientVars, weaverVars
  <2>2. status \in [Jobs -> Statuses]
    BY DEF Inv, Typed
  <2>3. CASE FinalCleanup(c, status[c])
    <3>1. status' = [status EXCEPT ![c] = FinalStatus(c, status[c])]
      BY <2>3 DEF FinalCleanup
    <3>2. FinalStatus(c, status[c]) \in Final
      BY DEF FinalStatus, Final
    <3>3. dependencies' \subseteq dependencies /\ customers' \subseteq customers
      BY <2>3 DEF FinalCleanup, FreePolicies, ResolveDependencies
    <3> QED
      BY <1>2, <2>1, <2>2, <3>1, <3>2, <3>3 DEF Statuses
  <2>4. CASE UNCHANGED <<status, dependencies, customers, coll>>
    BY <2>1, <2>2, <2>4
  <2> QED
    BY <1>1, <2>3, <2>4
<1>9. JobInv'
  <2>1. CASE status' = status /\ customers' = customers
    <3>1. JobsKept
      BY <1>8, <2>1 DEF JobsKept
    <3> QED
      BY <1>5, <1>7, <3>1, JobInvKept DEF Inv
  <2>2. CASE status'[c] \in Final
    <3>f. PICK f : f = Main[w]
      OBVIOUS
    <3>1. f.kept \in Final
      BY <3>f, <1>2 DEF Inv, JobInv, MainInvs, MainOK
    <3>2. /\ Main[w].at \in Reporting
          /\ Main[w].by # Main[w].of \/ Main[w].at \in {"process", "restore"}
      BY <1>2 DEF Reporting
    <3>3. /\ f.at = "restore" /\ f.of = c /\ f.by = Main[w].by /\ c = Main[w].of
          /\ Main' = [Main EXCEPT ![w] = f]
      BY <1>2, <1>5, <3>f
    <3>4. UNCHANGED <<program, assignments, begun, ended>> /\ customers' \subseteq customers
      BY <1>8
    <3> QED
      BY <1>5, <1>7, <1>8, <2>2, <3>1, <3>2, <3>3, <3>4, RestoringKept DEF Inv
  <2> QED
    BY <1>8, <2>1, <2>2
<1>10. CollectionsGrow
  <2>1. /\ \A d \in DOMAIN coll : coll'[d].elements = coll[d].elements
        /\ coll' \in [DOMAIN program.elements -> CollSet]
    BY <1>7 DEF CollectionsKept, Counting
  <2> QED
    BY <2>1, CollectionsStay DEF Inv, JobInv
<1>11. blocked' \subseteq Jobs /\ blocked' \cap ToSet(assignments) \subseteq blocked
       /\ assignments' \in Seq(Jobs) /\ begun' \in [Jobs -> Nat] /\ ended' \in [Jobs -> Nat]
  BY <1>8 DEF Inv, Typed
<1>12. \A v \in Workers : v # w /\ Main[v].at = "setRunning" =>
         \A d \in DOMAIN coll : d = Main[v].of => coll'[d].jobsStarted = coll[d].jobsStarted
  BY <1>7 DEF CollectionsKept, Counting
<1> QED
  BY <1>s, <1>4, <1>6, <1>8, <1>9, <1>10, <1>11, <1>12, StepKeeps

(* Nothing happens to jobs, collections and calls.                         *)
LEMMA StandsStill ==
  ASSUME Inv, UNCHANGED <<program, stack, owner, assignments, active, held, jobVars, coll,
                          blocked, customers>>,
         working' \in BOOLEAN, dependencies' \subseteq dependencies,
         \A u \in Users : script'[u] \in Seq(ToSet(program.scripts[u]))
  PROVE  Inv'
<1>1. UNCHANGED <<program, stack, owner, assignments, active, held, status, shouldAbort, begun,
                  ended, coll, blocked, customers>>
  BY DEF jobVars
<1>2. Typed'
  BY <1>1 DEF Inv, Typed
<1>3. Main' = Main /\ Clearing' = Clearing
  BY <1>1 DEF Main, Clearing
<1>4. Shapes'
  BY <1>1 DEF Inv, Shapes
<1>5. /\ Tokens' = Tokens
      /\ \A w \in Workers : \A j : Bears(w, j)' <=> Bears(w, j)
      /\ \A w \in Workers : \A c : \A P : Itself(w, c, P)' <=> Itself(w, c, P)
      /\ \A c : Opening(c)' <=> Opening(c)
  BY <1>3 DEF Tokens, Bears, Itself, Opening
<1>6. \A j : /\ Kids(j)' = Kids(j)
             /\ Unopened(j)' <=> Unopened(j)
             /\ Fresh(j)' <=> Fresh(j)
             /\ Queued(j)' <=> Queued(j)
             /\ IsCollection(j)' <=> IsCollection(j)
             /\ Live(j)' <=> Live(j)
             /\ Closed(j)' <=> Closed(j)
             /\ Ended(j)' <=> Ended(j)
             /\ Executing(j)' <=> Executing(j)
             /\ Over(j)' <=> Over(j)
             /\ Remaining(j)' = Remaining(j)
  BY <1>1, <1>5 DEF Kids, Unopened, Fresh, Queued, IsCollection, Live, Closed, Ended, Executing,
                    Over, Remaining
<1>7. OneToken'
  BY <1>5 DEF Inv, JobInv, OneToken
<1>8. QueueInv'
  <2>1. Distinct(assignments')
    BY <1>1 DEF Inv, JobInv, QueueInv
  <2> QED
    BY <1>1, <1>5, <1>6, <2>1 DEF Inv, JobInv, QueueInv
<1>9. MainInvs'
  <2>1. \A g : MainOK(g) => MainOK(g)'
    BY <1>1, <1>6 DEF MainOK
  <2> QED
    BY <1>3, <2>1 DEF Inv, JobInv, MainInvs
<1>10. CountInv'
  BY <1>1, <1>5, <1>6 DEF Inv, JobInv, CountInv
<1>11. CollInv'
  <2>1. \A c : CollOK(c) => CollOK(c)'
    BY <1>1, <1>3, <1>5 DEF CollOK, Family
  <2> QED
    BY <1>1, <2>1 DEF Inv, JobInv, CollInv
<1>12. ClearInv' /\ DoneInv' /\ CustomersInv'
  BY <1>1, <1>3, <1>5, <1>6 DEF Inv, JobInv, ClearInv, DoneInv, CustomersInv
<1>13. StartInv'
  <2>1. \A s : Begins(s)' <=> Begins(s)
    BY <1>1 DEF Begins, IsCollection, HasParent, ParentOf, ParentsOf
  <2> QED
    BY <1>1, <2>1 DEF Inv, StartInv
<1>14. LockInv' /\ HeldInv' /\ ActiveInv'
  BY <1>1 DEF Inv, LockInv, HeldInv, ActiveInv, LockedOf, Taken
<1>15. TakeInv'
  <2>1. \A j : CanRun(j) => CanRun(j)'
    BY <1>1 DEF CanRun, Blocks, HasUnresolvedDependencies, HasRoom
  <2>2. Runnable \subseteq Runnable'
    BY <1>1, <2>1 DEF Runnable
  <2> QED
    BY <1>1, <2>2 DEF Inv, TakeInv
<1> QED
  BY <1>2, <1>4, <1>7, <1>8, <1>9, <1>10, <1>11, <1>12, <1>13, <1>14, <1>15 DEF Inv, JobInv

(* A user enqueues jobs that are new, and are elements of no collection.   *)
LEMMA EnqueuedKept ==
  ASSUME Typed, Shapes, JobInv, Main' = Main, Clearing' = Clearing, CollectionsKept(Counting),
         NEW K \in SUBSET Jobs, \A e \in K : status[e] = "New" /\ ~ IsElement(e),
         Distinct(assignments'), ToSet(assignments') = ToSet(assignments) \cup K,
         status' = [j \in Jobs |-> IF j \in K THEN "Queued" ELSE status[j]],
         UNCHANGED <<program, begun, ended, customers>>
  PROVE  JobInv'
<1>1. \A e \in K : /\ e \in Jobs /\ status[e] = "New" /\ Fresh(e) /\ e \notin Tokens
                   /\ e \notin customers /\ ~ Queued(e)
  BY DEF JobInv, QueueInv
<1>2. /\ DOMAIN coll' = DOMAIN coll
      /\ \A d \in DOMAIN coll :
           /\ coll'[d].elements = coll[d].elements /\ coll'[d].self = coll[d].self
           /\ coll'[d].selfIsExecuting = coll[d].selfIsExecuting
           /\ coll'[d].jobCounter = coll[d].jobCounter
           /\ coll'[d].jobsStarted = coll[d].jobsStarted
  BY DEF CollectionsKept, Counting
<1>3. /\ Tokens' = Tokens
      /\ \A w \in Workers : \A j : Bears(w, j)' <=> Bears(w, j)
      /\ \A w \in Workers : \A c : \A P : Itself(w, c, P)' <=> Itself(w, c, P)
      /\ \A c : Opening(c)' <=> Opening(c)
  BY DEF Tokens, Bears, Itself, Opening
<1>4. /\ \A x : Kids(x)' = Kids(x)
      /\ \A x : IsCollection(x)' <=> IsCollection(x)
      /\ \A x : Queued(x)' <=> Queued(x) \/ x \in K
      /\ \A x \in Jobs : status'[x] = IF x \in K THEN "Queued" ELSE status[x]
  BY <1>2 DEF Kids, IsCollection, Queued
<1>5. \A d \in DOMAIN coll : (Unopened(d)' <=> Unopened(d))
  <2> SUFFICES ASSUME NEW d \in DOMAIN coll PROVE Unopened(d)' <=> Unopened(d)
    OBVIOUS
  <2>1. Kids(d) \subseteq Jobs
    BY FamilyFacts
  <2>2. \A e \in Kids(d) : e \notin K
    BY DEF IsElement
  <2> QED
    BY <1>4, <2>1, <2>2 DEF Unopened
<1>6. \A x : /\ Fresh(x)' <=> Fresh(x)
             /\ IsCollection(x) => (Executing(x)' <=> Executing(x))
             /\ Closed(x)' <=> Closed(x)
             /\ x \in Jobs \ K => (Ended(x)' <=> Ended(x))
  <2> TAKE x
  <2>1. Closed(x)' <=> Closed(x)
    BY <1>2, <1>4 DEF Closed, IsCollection
  <2>2. x \in Jobs \ K => (Ended(x)' <=> Ended(x))
    BY <1>4, <2>1 DEF Ended
  <2>3. Fresh(x)' <=> Fresh(x)
    BY <1>2, <1>4, <1>5 DEF Fresh, IsCollection
  <2>4. IsCollection(x) => (Executing(x)' <=> Executing(x))
    BY <1>2, <1>5 DEF Executing, IsCollection
  <2> QED
    BY <2>1, <2>2, <2>3, <2>4
<1>7. \A x : Live(x)' <=> Live(x) \/ x \in K
  BY <1>2, <1>3, <1>4 DEF Live, IsCollection
<1>8. \A v \in Workers : Main[v].at \in Own \cup Reporting =>
        /\ Main[v].of \notin K
        /\ Main[v].at \in Reporting => Main[v].by \in Jobs \ K
  BY <1>1, PlacedFacts
<1>9. OneToken'
  BY <1>3 DEF JobInv, OneToken
<1>10. QueueInv'
  BY <1>1, <1>3, <1>4, <1>6 DEF JobInv, QueueInv
<1>11. MainInvs'
  <2> SUFFICES ASSUME NEW v \in Workers PROVE MainOK(Main[v])'
    BY DEF MainInvs
  <2>g. PICK g : g = Main[v]
    OBVIOUS
  <2>1. MainOK(g) /\ Main'[v] = g
    BY <2>g DEF JobInv, MainInvs
  <2>2. /\ g.at \in Own \cup Reporting => g.of \notin K
        /\ g.at \in Reporting => g.by \in Jobs \ K
    BY <2>g, <1>8
  <2>3. g.at \in Own \cup Reporting => g.of \in Jobs
    <3>1. g.at \in Reporting => g.of \in DOMAIN coll
      BY <2>1 DEF MainOK, IsCollection
    <3> QED
      BY <2>1, <3>1, FamilyFacts DEF MainOK
  <2>4. Untouched(g)
    BY <1>2, <1>4, <1>5, <1>6, <2>2, <2>3 DEF Untouched, IsCollection
  <2>5. MainOK(g)'
    BY <2>1, <2>4, UntouchedKept
  <2> QED
    BY <2>g, <2>1, <2>5
<1>12. CountInv'
  <2>1. \A d \in DOMAIN coll : Remaining(d)' = Remaining(d)
    <3> SUFFICES ASSUME NEW d \in DOMAIN coll PROVE Remaining(d)' = Remaining(d)
      OBVIOUS
    <3>1. \A e \in ToSet(coll[d].elements) : e \notin K
      <4>1. ToSet(coll[d].elements) \subseteq Kids(d)
        BY ElementFacts DEF JobInv
      <4> QED
        BY <4>1 DEF IsElement
    <3> QED
      BY <1>2, <1>3, <1>7, <3>1 DEF Remaining
  <2> QED
    BY <1>2, <1>3, <2>1 DEF JobInv, CountInv
<1>13. CollInv'
  <2> SUFFICES ASSUME NEW d \in DOMAIN coll PROVE CollOK(d)'
    BY <1>2 DEF CollInv
  <2>1. CollOK(d) /\ d \in Jobs
    BY FamilyFacts DEF JobInv, CollInv
  <2>2. coll'[d].elements \in {program.elements[d], Family(program, d)}'
    BY <1>2, <2>1 DEF CollOK, Family
  <2>3. coll'[d].jobCounter > 0 => status'[d] = status[d]
    <3>1. d \in K => coll[d].jobCounter = 0
      BY <1>1 DEF Fresh, IsCollection
    <3> QED
      BY <1>2, <1>4, <2>1, <3>1
  <2>4. status'[d] \notin {"New", "Queued"} => status'[d] = status[d]
    BY <1>4, <2>1
  <2> QED
    BY <1>2, <1>3, <2>1, <2>2, <2>3, <2>4 DEF CollOK
<1>14. ClearInv'
  <2> SUFFICES ASSUME NEW d \in Clearing PROVE Over(d)'
    BY DEF ClearInv
  <2>1. Over(d) /\ d \in Jobs
    BY FamilyFacts DEF JobInv, ClearInv, Over, IsCollection
  <2>2. d \notin K
    BY <1>1, <2>1 DEF Over, Final
  <2> QED
    BY <1>3, <1>4, <1>6, <2>1, <2>2 DEF Over
<1>15. DoneInv'
  <2> SUFFICES ASSUME NEW j \in Jobs, begun[j] > 0
               PROVE  \/ j \in Tokens'
                      \/ IsCollection(j)' /\ coll'[j].jobCounter > 0
                      \/ Ended(j)'
    BY DEF DoneInv
  <2>1. j \notin K
    BY <1>1 DEF Fresh
  <2>2. \/ j \in Tokens \/ Ended(j)
        \/ IsCollection(j) /\ coll[j].jobCounter > 0
    BY DEF JobInv, DoneInv
  <2>3. Ended(j) => Ended(j)'
    BY <1>6, <2>1
  <2> QED
    BY <1>2, <1>3, <1>4, <2>2, <2>3 DEF IsCollection
<1>16. CustomersInv'
  BY <1>2, <1>3, <1>4 DEF JobInv, CustomersInv, IsCollection
<1> QED
  BY <1>9, <1>10, <1>11, <1>12, <1>13, <1>14, <1>15, <1>16 DEF JobInv

(* A user enqueues new jobs.                                               *)
LEMMA UserEnqueueKeeps ==
  ASSUME Inv, NEW u \in Users, Enqueue(u), IsInjective(On(u)),
         \A j \in ToSet(On(u)) : status[j] = "New" /\ ~ IsElement(j)
  PROVE  Inv'
<1>js. PICK js : js = On(u)
  OBVIOUS
<1>k. PICK K : K = ToSet(js)
  OBVIOUS
<1>1. /\ stack[u] = <<>> /\ script[u] # <<>> /\ Head(script[u]).do = "enqueue"
      /\ owner["weaver"] = Nobody
      /\ EnqueueAll(js) /\ coll' = KnowQueue(K, coll)
      /\ script' = [script EXCEPT ![u] = Tail(@)]
      /\ UNCHANGED <<program, output, stack, owner, active, working, held, shouldAbort, begun,
                     ended, blocked, dependencies, customers>>
  BY <1>js, <1>k DEF Enqueue, Calls, Called, policyVars
<1>2. js \in Seq(Jobs)
  <2>1. script[u] \in Seq(ToSet(program.scripts[u])) /\ program \in Programs
    BY DEF Inv, Typed
  <2>2. Head(script[u]) \in ToSet(program.scripts[u])
    BY <1>1, <2>1, HeadTailProperties
  <2> QED
    BY <1>js, <1>1, <2>1, <2>2, ProgramsAssumption DEF On
<1>3. K \subseteq Jobs /\ Distinct(js) /\ \A e \in K : status[e] = "New" /\ ~ IsElement(e)
  <2>1. DOMAIN js = 1..Len(js)
    BY <1>2, LenProperties
  <2> QED
    BY <1>js, <1>k, <1>2, <2>1, ElementOfSeq DEF ToSet, Distinct, IsInjective
<1>4. /\ assignments' \in Seq(Jobs) /\ Distinct(assignments')
      /\ ToSet(assignments') = ToSet(assignments) \cup K
      /\ status' = [j \in Jobs |-> IF j \in K THEN "Queued" ELSE status[j]]
  <2>1. ToSet(assignments) \cap K = {}
    BY <1>3 DEF Inv, JobInv, QueueInv, Queued
  <2>2. assignments \in Seq(Jobs) /\ Distinct(assignments) /\ program \in Programs
    BY DEF Inv, Typed, JobInv, QueueInv
  <2> QED
    BY <1>k, <1>1, <1>2, <1>3, <2>1, <2>2, InsertAllFacts DEF EnqueueAll
<1>5. CollectionsKept(Counting)
  BY <1>1, KnowKept DEF Inv
<1>6. /\ DOMAIN coll' = DOMAIN coll /\ coll' \in [DOMAIN program.elements -> CollSet]
      /\ \A d \in DOMAIN coll :
           coll'[d].elements = coll[d].elements /\ coll'[d].jobsStarted = coll[d].jobsStarted
  BY <1>5 DEF CollectionsKept, Counting
<1>7. Main' = Main /\ Clearing' = Clearing /\ Shapes'
  BY <1>1 DEF Main, Clearing, Shapes, Inv
<1>8. JobInv'
  BY <1>1, <1>3, <1>4, <1>5, <1>7, EnqueuedKept DEF Inv
<1>9. Typed'
  <2>1. \A v \in Users : script'[v] \in Seq(ToSet(program.scripts[v]))
    <3>1. \A v \in Users : script[v] \in Seq(ToSet(program.scripts[v]))
      BY DEF Inv, Typed
    <3>2. Tail(script[u]) \in Seq(ToSet(program.scripts[u]))
      BY <1>1, <3>1, HeadTailProperties
    <3> QED
      BY <1>1, <3>1, <3>2
  <2>2. status' \in [Jobs -> Statuses]
    BY <1>4 DEF Inv, Typed, Statuses
  <2> QED
    BY <1>1, <1>4, <1>6, <2>1, <2>2 DEF Inv, Typed
<1>10. StartInv'
  <2>1. \A s : Begins(s)' <=> Begins(s)
    <3>1. \A j : /\ IsCollection(j)' <=> IsCollection(j)
                 /\ ParentsOf(j)' = ParentsOf(j)
                 /\ IsCollection(j) => coll'[j].jobsStarted = coll[j].jobsStarted
      BY <1>6 DEF IsCollection, ParentsOf
    <3>2. \A j : (HasParent(j)' <=> HasParent(j)) /\ ParentOf(j)' = ParentOf(j)
      BY <3>1 DEF HasParent, ParentOf
    <3> QED
      BY <3>1, <3>2 DEF Begins
  <2> QED
    BY <1>1, <2>1 DEF Inv, StartInv
<1>11. LockInv' /\ HeldInv' /\ ActiveInv'
  BY <1>1 DEF Inv, LockInv, HeldInv, ActiveInv, LockedOf, Taken
<1>12. TakeInv'
  <2>1. \A w \in Workers : owner["weaver"] # w
    BY <1>1, ActorsAssumption DEF Actors
  <2> QED
    BY <1>1, <2>1 DEF Inv, LockInv, TakeInv
<1> QED
  BY <1>7, <1>8, <1>9, <1>10, <1>11, <1>12 DEF Inv

(* A step of a user, of those that disturb nothing.                        *)
LEMMA UserKeeps ==
  ASSUME Inv, NEW u \in Users, UserStep(u), Undisturbed
  PROVE  Inv'
<1>1. stack[u] = <<>> /\ script[u] \in Seq(ToSet(program.scripts[u]))
  BY DEF Inv, Typed
<1>2. ~ CallJob(u)
  BY DEF Undisturbed
<1>3. CASE Enqueue(u)
  BY <1>3, UserEnqueueKeeps DEF Undisturbed
<1>4. ASSUME script[u] # <<>>, Called(u)
      PROVE  \A v \in Users : script'[v] \in Seq(ToSet(program.scripts[v]))
  <2>1. Tail(script[u]) \in Seq(ToSet(program.scripts[u]))
    BY <1>1, <1>4, HeadTailProperties
  <2>2. \A v \in Users : script[v] \in Seq(ToSet(program.scripts[v]))
    BY DEF Inv, Typed
  <2> QED
    BY <1>4, <2>1, <2>2 DEF Called
<1>5. CASE DequeueAll(u)
  <2>1. assignments = <<>>
    BY <1>5 DEF Undisturbed
  <2>2. coll' = coll
    <3>1. coll \in [DOMAIN program.elements -> CollSet]
      BY DEF Inv, Typed
    <3>2. \A d \in DOMAIN coll : [coll[d] EXCEPT !.api = coll[d].api /\ d \notin {}] = coll[d]
      <4> TAKE d \in DOMAIN coll
      <4>x. PICK x : x = coll[d]
        OBVIOUS
      <4>1. x \in CollSet
        BY <3>1, <4>x
      <4>2. [x EXCEPT !.api = x.api /\ d \notin {}] = x
        <5>b. PICK b : b = x.api
          OBVIOUS
        <5>1. b \in BOOLEAN
          BY <4>1, <5>b DEF CollSet
        <5>2. (b /\ d \notin {}) = b
          BY <5>1
        <5>3. [x EXCEPT !.api = b] = x
          BY <4>1, <5>b DEF CollSet
        <5> QED
          BY <5>b, <5>2, <5>3
      <4> QED
        BY <4>x, <4>2
    <3>3. ToSet(assignments) = {}
      BY <2>1 DEF ToSet
    <3>4. coll' = [d \in DOMAIN coll |-> [coll[d] EXCEPT !.api = coll[d].api /\ d \notin {}]]
      BY <1>5, <3>3 DEF DequeueAll, ForgetQueue
    <3> QED
      BY <3>1, <3>2, <3>4
  <2>3. /\ UNCHANGED <<program, stack, owner, assignments, active, held, jobVars, coll, blocked,
                       customers, working, dependencies>>
        /\ script[u] # <<>> /\ Called(u)
    BY <1>5, <2>1, <2>2 DEF DequeueAll, Calls, Called, policyVars
  <2> QED
    BY <1>4, <2>3, StandsStill DEF Inv, Typed
<1>6. CASE SuspendOrResume(u) \/ Finish(u) \/ AwaitStart(u) \/ Observe(u) \/ RemoveDependency(u)
  <2>1. /\ UNCHANGED <<program, stack, owner, assignments, active, held, jobVars, coll, blocked,
                       customers>>
        /\ working' \in BOOLEAN /\ dependencies' \subseteq dependencies
        /\ script[u] # <<>> /\ Called(u)
    BY <1>6 DEF SuspendOrResume, Finish, AwaitStart, Observe, RemoveDependency, Calls, Called,
                policyVars, weaverVars, Inv, Typed
  <2> QED
    BY <1>4, <2>1, StandsStill
<1> QED
  BY <1>2, <1>3, <1>5, <1>6 DEF UserStep

(* A step of a thread.                                                     *)
LEMMA WorkerKeeps ==
  ASSUME Inv, NEW w \in Workers, WorkerStep(w) \/ CallStep(w)
  PROVE  Inv'
<1>1. CASE WorkerStep(w)
  BY <1>1, ApplyKeeps, TakeKeeps, StoreKeeps, ReportKeeps DEF WorkerStep
<1>2. CASE CallStep(w)
  <2>1. ASSUME stack[w] # <<>>
        PROVE  Top(w).at \notin {"dequeue", "dequeueFound", "abort", "abortElements",
                                 "abortElement", "abortAll", "abortThread", "abortedThread"}
    <3>1. Top(w) \in FrameSet
      BY <2>1, TopShape DEF Inv
    <3> QED
      BY <3>1 DEF FrameSet, Places, StopPlaces
  <2>2. ~ (\/ Dequeue(w) \/ DequeueFound(w) \/ Abort(w) \/ AbortElements(w) \/ AbortElement(w)
           \/ AbortAll(w) \/ AbortThread(w) \/ AbortedThread(w))
    BY <2>1 DEF Dequeue, DequeueFound, Abort, AbortElements, AbortElement, AbortAll, AbortThread,
                AbortedThread, At, Is
  <2>3. CASE \/ Execute(w) \/ SetRunning(w) \/ Run(w) \/ End(w) \/ CallEnd(w) \/ Clear(w)
             \/ ElementStarted(w) \/ StartedUnlock(w)
    BY <2>3, ExecuteKeeps, SetRunningKeeps, RunKeeps, EndKeeps, CallEndKeeps, ClearKeeps,
       ElementStartedKeeps, StartedUnlockKeeps
  <2>4. CASE \/ PrepareElements(w) \/ EnqueueElements(w) \/ ProcessAndCount(w)
             \/ ProcessAndStop(w) \/ Restore(w) \/ ClearSelf(w)
    BY <2>4, PrepareElementsKeeps, EnqueueElementsKeeps, ProcessAndCountKeeps,
       ProcessAndStopKeeps, RestoreKeeps, ClearSelfKeeps
  <2>5. CASE \/ Stop(w) \/ StopDequeue(w) \/ StopElements(w) \/ StopElement(w) \/ StopDone(w)
    BY <2>5, StopKeeps, StopElementKeeps, StopDoneKeeps
  <2> QED
    BY <1>2, <2>2, <2>3, <2>4, <2>5 DEF CallStep
<1> QED
  BY <1>1, <1>2

(* A step.                                                                 *)
LEMMA NextKeeps ==
  ASSUME Inv, [Next]_vars, [Undisturbed]_vars
  PROVE  Inv'
<1>1. CASE UNCHANGED vars
  <2>1. /\ UNCHANGED <<program, stack, owner, assignments, active, held, jobVars, coll, blocked,
                       customers, working, dependencies, script>>
    BY <1>1 DEF vars, clientVars, weaverVars, policyVars
  <2> QED
    BY <2>1, StandsStill DEF Inv, Typed
<1>2. ASSUME NEW a \in Actors, Step(a), Undisturbed PROVE Inv'
  <2>1. CASE a \in Workers
    <3>1. a \notin Users
      BY <2>1, ActorsAssumption
    <3> QED
      BY <1>2, <2>1, <3>1, WorkerKeeps DEF Step
  <2>2. CASE a \in Users
    <3>1. a \notin Workers /\ stack[a] = <<>>
      BY <2>2, ActorsAssumption DEF Inv, Typed
    <3>2. ~ CallStep(a)
      BY <3>1 DEF CallStep, Execute, SetRunning, Run, End, CallEnd, Clear, ElementStarted,
         StartedUnlock, PrepareElements, EnqueueElements, ProcessAndCount, ProcessAndStop,
         Processing, Restore, ClearSelf, Stop, StopDequeue, Dequeue, DequeueFound, StopElements,
         StopElement, StopDone, Abort, AbortElements, AbortElement, AbortAll, AbortThread,
         AbortedThread, At, Is
    <3> QED
      BY <1>2, <2>2, <3>1, <3>2, UserKeeps DEF Step
  <2> QED
    BY <2>1, <2>2 DEF Actors
<1> QED
  BY <1>1, <1>2 DEF Next

(* At first nothing is enqueued, nor has anything been done.               *)
LEMMA InitInv == Init => Inv
<1> SUFFICES ASSUME Init PROVE Inv
  OBVIOUS
<1>1. /\ program \in Programs /\ script = program.scripts
      /\ stack = [a \in Actors |-> <<>>] /\ owner = [m \in Mutexes |-> Nobody]
      /\ assignments = <<>> /\ active = 0 /\ working = TRUE
      /\ held = [w \in Workers |-> NoJob]
      /\ status = [j \in Jobs |-> "New"] /\ shouldAbort = [j \in Jobs |-> FALSE]
      /\ begun = [j \in Jobs |-> 0] /\ ended = [j \in Jobs |-> 0]
      /\ coll = [c \in DOMAIN program.elements |-> NewCollection(program.elements[c])]
      /\ blocked = {} /\ dependencies = program.dependsOn /\ customers = {}
  BY DEF Init
<1>2. /\ program.elements \in [DOMAIN program.elements -> Seq(Jobs)]
      /\ DOMAIN program.elements \subseteq Jobs
      /\ \A u \in Users : program.scripts[u] \in Seq(ToSet(program.scripts[u]))
  BY <1>1, ProgramsAssumption
<1>3. \A c \in DOMAIN coll :
        /\ coll[c] \in CollSet /\ coll[c].elements = program.elements[c]
        /\ ~ coll[c].self /\ ~ coll[c].selfIsExecuting
        /\ coll[c].jobCounter = 0 /\ coll[c].jobsStarted = 0
  BY <1>1, <1>2 DEF NewCollection, CollSet
<1>4. Typed
  <2>1. coll \in [DOMAIN program.elements -> CollSet]
    BY <1>1, <1>3
  <2>2. <<>> \in Seq(FrameSet) /\ <<>> \in Seq(Jobs) /\ IsFiniteSet({})
    BY EmptySeq, FS_EmptySet
  <2> QED
    BY <1>1, <1>2, <2>1, <2>2 DEF Typed, Statuses, Actors
<1>5. /\ \A w \in Workers : stack[w] = <<>> /\ Main[w] = None
      /\ Clearing = {} /\ Tokens = {} /\ Shapes
      /\ \A w \in Workers : \A j : ~ Bears(w, j)
      /\ \A w \in Workers : Main[w].at \notin Own \cup Reporting
  <2>1. \A w \in Workers : stack[w] = <<>>
    BY <1>1 DEF Actors
  <2>2. \A w \in Workers : Main[w] = None
    BY <2>1, EmptyStack DEF Main
  <2>3. None.at \notin Own \cup Reporting
    BY DEF None, Frame, Own, Reporting
  <2>4. \A w \in Workers : \A j : ~ Bears(w, j)
    BY <2>2, <2>3 DEF Bears, TokenOf
  <2>5. Clearing = {} /\ Shapes
    BY <2>1, EmptyStack DEF Clearing, Shapes
  <2> QED
    BY <2>1, <2>2, <2>3, <2>4, <2>5 DEF Tokens
<1>6. \A j : ~ Queued(j)
  BY <1>1 DEF Queued, ToSet
<1>7. \A c \in DOMAIN coll : Unopened(c)
  <2> SUFFICES ASSUME NEW c \in DOMAIN coll PROVE Unopened(c)
    OBVIOUS
  <2>1. Kids(c) \subseteq Jobs
    BY <1>4, FamilyFacts
  <2> QED
    BY <1>1, <2>1 DEF Unopened
<1>8. \A j \in Jobs : Fresh(j)
  BY <1>1, <1>3, <1>7 DEF Fresh, IsCollection
<1>9. OneToken /\ QueueInv
  BY <1>1, <1>5, <1>6, <1>8 DEF OneToken, QueueInv, Distinct
<1>10. MainInvs
  BY <1>5 DEF MainInvs, MainOK, Own, Reporting
<1>11. CountInv
  <2> SUFFICES ASSUME NEW c \in DOMAIN coll PROVE coll[c].jobCounter = Cardinality(Remaining(c))
    BY DEF CountInv
  <2>1. \A e : ~ Live(e)
    BY <1>3, <1>5, <1>6 DEF Live, IsCollection
  <2>2. \A w \in Workers : ~ Itself(w, c, {"finished", "process", "restore"})
    BY <1>5 DEF Itself, Reporting
  <2>3. Remaining(c) = {}
    BY <2>1, <2>2 DEF Remaining
  <2> QED
    BY <1>3, <2>3, FS_EmptySet
<1>12. CollInv
  <2> SUFFICES ASSUME NEW c \in DOMAIN coll PROVE CollOK(c)
    BY DEF CollInv
  <2>1. status[c] = "New"
    BY <1>1, <1>2
  <2>2. coll[c].jobCounter = 0 /\ ~ coll[c].self /\ ~ coll[c].selfIsExecuting
        /\ coll[c].elements = program.elements[c]
    BY <1>3
  <2> QED
    BY <2>1, <2>2 DEF CollOK
<1>13. ClearInv /\ DoneInv /\ CustomersInv
  BY <1>1, <1>5 DEF ClearInv, DoneInv, CustomersInv
<1>14. StartInv /\ HeldInv /\ TakeInv
  BY <1>1, <1>5 DEF StartInv, HeldInv, TakeInv
<1>15. LockInv
  BY <1>1, <1>5, ActorsAssumption DEF LockInv, LockedOf, Mutexes, Actors
<1>16. ActiveInv
  <2>1. {w \in Workers : Taken(stack[w])} = {}
    BY <1>5 DEF Taken
  <2> QED
    BY <1>1, <2>1, FS_EmptySet DEF ActiveInv
<1> QED
  BY <1>4, <1>5, <1>9, <1>10, <1>11, <1>12, <1>13, <1>14, <1>15, <1>16 DEF Inv, JobInv

(* The invariant, of programs that are not disturbed.                      *)
THEOREM CollectionsInvariant == Spec /\ [][Undisturbed]_vars => []Inv
<1>1. Inv /\ [Next]_vars /\ [Undisturbed]_vars => Inv'
  BY NextKeeps
<1> QED
  BY <1>1, InitInv, PTL DEF Spec

-------------------------------------------------------------------------------
(* What the invariant says of the calls of all threads                     *)

Held == Own \cup Reporting

(* No call but the main one of a thread has a job in its hands.            *)
LEMMA MainIsOnly ==
  ASSUME Typed, Shapes, NEW w \in Workers, NEW i \in 1..Len(stack[w]), stack[w][i].at \in Held
  PROVE  stack[w][i] = Main[w]
<1>s. PICK s : s = stack[w]
  OBVIOUS
<1>1. s \in Seq(FrameSet) /\ Shaped(s) /\ Len(s) \in Nat
  BY <1>s, LenProperties DEF Typed, Shapes, Actors
<1>2. s # <<>>
  BY <1>s, EmptySeq
<1>3. s[i].at \in Held
  BY <1>s
<1>4. Main[w] = MainOf(s)
  BY <1>s DEF Main
<1>5. CASE Alone(s)
  BY <1>s, <1>1, <1>2, <1>4, <1>5, AloneStack DEF Alone
<1>6. CASE Beginning(s)
  <2>1. i = Len(s)
    BY <1>s, <1>1, <1>3, <1>6 DEF Beginning, Held, Own, Reporting
  <2> QED
    BY <1>s, <1>1, <1>4, <1>6, <2>1, BeginningStack
<1>7. CASE Ending(s)
  <2>1. CASE EndingFrom(s, 1) /\ s[1].at \notin StopPlaces
    <3>1. i = 1
      <4> SUFFICES ASSUME i # 1 PROVE FALSE
        OBVIOUS
      <4>1. i \in 2..(Len(s) - 1) \/ i = Len(s)
        BY <1>s, <1>1
      <4> QED
        BY <1>3, <2>1, <4>1 DEF EndingFrom, Held, Own, Reporting
    <3> QED
      BY <1>s, <1>1, <1>4, <1>7, <2>1, <3>1, EndingStack
  <2>2. CASE EndingFrom(s, 2) /\ s[1].at \in StopPlaces
    <3>1. i = 2
      <4> SUFFICES ASSUME i # 2 PROVE FALSE
        OBVIOUS
      <4>1. i = 1 \/ i \in 3..(Len(s) - 1) \/ i = Len(s)
        BY <1>s, <1>1
      <4> QED
        BY <1>3, <2>2, <4>1 DEF EndingFrom, Held, Own, Reporting, StopPlaces
    <3> QED
      BY <1>s, <1>1, <1>4, <1>7, <2>2, <3>1, EndingStack
  <2> QED
    BY <1>7, <2>1, <2>2 DEF Ending, StopPlaces
<1> QED
  BY <1>1, <1>2, <1>5, <1>6, <1>7 DEF Shaped

(* The main call of a thread is one of its calls.                          *)
LEMMA MainIsCall ==
  ASSUME Typed, Shapes, NEW w \in Workers, Main[w].at \in Held
  PROVE  stack[w] # <<>> /\ Main[w] \in ToSet(stack[w])
<1>s. PICK s : s = stack[w]
  OBVIOUS
<1>1. s \in Seq(FrameSet) /\ Shaped(s)
  BY <1>s DEF Typed, Shapes, Actors
<1>2. Main[w] = MainOf(s)
  BY <1>s DEF Main
<1>3. s # <<>>
  BY <1>2, EmptyStack DEF None, Frame, Held, Own, Reporting
<1>4. Len(s) \in Nat \ {0} /\ DOMAIN s = 1..Len(s)
  BY <1>1, <1>3, StackIs
<1>5. \E i \in 1..Len(s) : MainOf(s) = s[i]
  <2>1. CASE Alone(s) \/ Beginning(s)
    BY <1>1, <1>4, <2>1, AloneStack, BeginningStack
  <2>2. CASE Ending(s)
    <3>1. s[1].at \in StopPlaces => Len(s) > 2
      BY <2>2 DEF Ending, EndingFrom, StopPlaces
    <3> QED
      BY <1>1, <1>4, <2>2, <3>1, EndingStack
  <2> QED
    BY <1>1, <1>3, <2>1, <2>2 DEF Shaped
<1> QED
  BY <1>s, <1>2, <1>3, <1>4, <1>5 DEF ToSet

(* So that the calls that have a job in their hands are the main ones.     *)
LEMMA FramesAre ==
  ASSUME Typed, Shapes, NEW f
  PROVE  /\ f \in Frames /\ f.at \in Held => \E w \in Workers : f = Main[w]
         /\ \A w \in Workers : Main[w].at \in Held => Main[w] \in Frames
<1>1. ASSUME f \in Frames, f.at \in Held PROVE \E w \in Workers : f = Main[w]
  <2>1. PICK a \in Actors : f \in ToSet(stack[a])
    BY <1>1 DEF Frames
  <2>2. PICK i \in DOMAIN stack[a] : f = stack[a][i]
    BY <2>1 DEF ToSet
  <2>3. a \in Workers
    <3>1. stack[a] # <<>>
      BY <2>2
    <3> QED
      BY <3>1 DEF Actors, Typed
  <2>4. DOMAIN stack[a] = 1..Len(stack[a])
    BY LenProperties DEF Typed
  <2> QED
    BY <1>1, <2>2, <2>3, <2>4, MainIsOnly
<1>2. ASSUME NEW w \in Workers, Main[w].at \in Held PROVE Main[w] \in Frames
  BY <1>2, MainIsCall DEF Frames, Actors
<1> QED
  BY <1>1, <1>2

(* The jobs that Collections calls busy are in a thread's hands.           *)
LEMMA BusyIs ==
  ASSUME Typed, Shapes, JobInv
  PROVE  \A j : j \in Busy <=> j \in Tokens
<1> TAKE j
<1>1. j \in Busy <=> \E f \in Frames : j \in TokenOf(f)
  <2>1. \A f : j \in TokenOf(f) <=>
          j \in (IF f.at \in {"store", "execute", "setRunning", "run", "end", "callEnd"}
                   THEN {f.of} ELSE {})
                \cup (IF f.at \in {"finished", "enqueue", "process", "restore"} THEN {f.by} ELSE {})
    BY DEF TokenOf, Own, Reporting
  <2> QED
    BY <2>1 DEF Busy
<1>2. \A f : j \in TokenOf(f) => f.at \in Held
  BY DEF TokenOf, Held
<1>3. \A w \in Workers : Bears(w, j) => j \in Jobs
  BY BearsIs DEF JobInv, MainInvs, MainOK
<1>4. (\E f \in Frames : j \in TokenOf(f)) <=> \E w \in Workers : Bears(w, j)
  BY <1>2, FramesAre DEF Bears
<1> QED
  BY <1>1, <1>3, <1>4 DEF Tokens

(* The jobs that CounterExact counts are those that remain.                *)
LEMMA OutstandingIs ==
  ASSUME Typed, Shapes, JobInv, NEW c \in DOMAIN coll
  PROVE  Outstanding(c) = Remaining(c)
<1>1. \A e : Queued(e) \/ InProgress(e) <=> Live(e)
  BY BusyIs DEF InProgress, Live
<1>2. (\E f \in Frames : f.of = c /\ f.by = c /\ f.at \in {"finished", "process", "restore"})
        <=> \E w \in Workers : Itself(w, c, {"finished", "process", "restore"})
  BY FramesAre DEF Itself, Held, Reporting
<1>3. \A x : x \in Outstanding(c) <=> x \in Remaining(c)
  BY <1>1, <1>2 DEF Outstanding, Remaining
<1> QED
  BY <1>3

(* No thread is between two assignments to a counter when its mutex is     *)
(* free.                                                                   *)
LEMMA CounterIsExact == Inv => CounterExact
<1> SUFFICES ASSUME Inv, NEW c \in DOMAIN coll, coll[c].jobCounter > 0,
                    ~ \E f \in Frames : f.of = c /\ f.at = "enqueue"
             PROVE  coll[c].jobCounter = Cardinality(Outstanding(c))
  BY DEF CounterExact
<1>1. ASSUME NEW w \in Workers, Itself(w, c, {"finished", "enqueue"}) PROVE FALSE
  <2>1. CASE Main[w].at = "finished"
    BY <1>1, <2>1 DEF Itself, Inv, JobInv, MainInvs, MainOK, Executing
  <2>2. CASE Main[w].at = "enqueue"
    BY <1>1, <2>2, FramesAre DEF Itself, Inv, Held, Reporting
  <2> QED
    BY <1>1, <2>1, <2>2 DEF Itself
<1> QED
  BY <1>1, OutstandingIs DEF Inv, JobInv, CountInv

(* In an idle queue no collection counts elements: an innermost one of     *)
(* those that do would count none.                                         *)
LEMMA IdleFacts ==
  ASSUME Inv, Idle
  PROVE  /\ \A w \in Workers : stack[w] = <<>>
         /\ Tokens = {} /\ Clearing = {}
         /\ \A c \in DOMAIN coll : coll[c].jobCounter = 0 /\ ~ coll[c].self
<1>1. \A j : ~ Queued(j)
  BY DEF Idle, Queued, ToSet
<1>2. \A w \in Workers : stack[w] = <<>>
  <2>1. {w \in Workers : Taken(stack[w])} = {}
    <3>1. IsFiniteSet({w \in Workers : Taken(stack[w])})
      BY ActorsAssumption, FS_Subset
    <3> QED
      BY <3>1, FS_EmptySet DEF Idle, Inv, ActiveInv
  <2>2. Runnable = {}
    BY DEF Idle, Runnable
  <2> QED
    BY <2>1, <2>2 DEF Inv, TakeInv, Taken
<1>3. /\ \A w \in Workers : Main[w].at = "none"
      /\ Clearing = {}
  BY <1>2, EmptyStack DEF Main, Clearing, None, Frame
<1>4. Tokens = {} /\ \A w \in Workers : \A c : \A P \in SUBSET Reporting : ~ Itself(w, c, P)
  BY <1>3 DEF Tokens, Bears, TokenOf, Own, Reporting, Itself
<1>5. \A c \in DOMAIN coll : coll[c].jobCounter = Cardinality(Remaining(c))
  <2>1. \A w \in Workers : \A c : ~ Itself(w, c, {"finished", "enqueue"})
    BY <1>4 DEF Reporting
  <2> QED
    BY <2>1 DEF Inv, JobInv, CountInv
<1>6. \A c \in DOMAIN coll : coll[c].jobCounter = 0
  <2> DEFINE S == {c \in DOMAIN coll : coll[c].jobCounter > 0}
  <2>1. S = {}
    <3> SUFFICES ASSUME S # {} PROVE FALSE
      OBVIOUS
    <3>1. S \in (SUBSET DOMAIN program.elements) \ {{}} /\ program \in Programs
      BY DEF Inv, Typed
    <3>2. PICK c \in S : ToSet(Family(program, c)) \cap S = {}
      BY <3>1, TreesAssumption
    <3>3. \A e \in ToSet(coll[c].elements) : e \notin S
      BY <3>2, ElementFacts DEF Inv, JobInv, Kids
    <3>4. \A e \in ToSet(coll[c].elements) : ~ Live(e)
      BY <1>1, <1>4, <3>3 DEF Live, IsCollection
    <3>5. Remaining(c) = {}
      <4>1. \A w \in Workers : ~ Itself(w, c, {"finished", "process", "restore"})
        BY <1>4 DEF Reporting
      <4> QED
        BY <3>4, <4>1 DEF Remaining
    <3>6. c \in DOMAIN coll /\ coll[c].jobCounter > 0
      OBVIOUS
    <3>7. Cardinality({}) = 0
      BY FS_EmptySet
    <3> QED
      BY <1>5, <3>5, <3>6, <3>7
  <2> SUFFICES ASSUME NEW c \in DOMAIN coll PROVE coll[c].jobCounter = 0
    OBVIOUS
  <2>2. ~ (coll[c].jobCounter > 0)
    BY <2>1
  <2>3. coll[c].jobCounter \in Nat
    BY <1>5, RemainingFacts DEF Inv, JobInv
  <2> QED
    BY <2>2, <2>3
<1>7. \A c \in DOMAIN coll : ~ coll[c].self
  <2> SUFFICES ASSUME NEW c \in DOMAIN coll PROVE ~ coll[c].self
    OBVIOUS
  <2>1. ~ coll[c].selfIsExecuting
    <3>1. \A w \in Workers : ~ Itself(w, c, {"finished"})
      BY <1>4 DEF Reporting
    <3> QED
      BY <1>3, <3>1 DEF Inv, JobInv, CollInv, CollOK
  <2> QED
    BY <1>3, <1>6, <2>1 DEF Inv, JobInv, CollInv, CollOK
<1> QED
  BY <1>2, <1>3, <1>4, <1>6, <1>7

(* A counter above zero needs somebody who is to report, and in a tree     *)
(* there is an innermost such collection: so there is none in an idle      *)
(* queue.                                                                  *)
LEMMA IdleIsFinished == Inv => IdleMeansFinished
<1> SUFFICES ASSUME Inv, Idle, NEW c \in DOMAIN coll, begun[c] > 0
             PROVE  ended[c] = 1 /\ status[c] \in Final
  BY DEF IdleMeansFinished
<1>1. c \in Jobs /\ coll[c].jobCounter = 0 /\ Tokens = {}
  BY FamilyFacts, IdleFacts DEF Inv
<1> QED
  BY <1>1 DEF Inv, JobInv, DoneInv, Ended

(* A collection to which a thread reports refers to itself.                *)
LEMMA StaysAlive ==
  ASSUME Inv, NEW f \in Frames, f.at \in {"started", "finished", "enqueue", "process", "restore"}
  PROVE  coll[f.of].self
<1>1. CASE f.at \in Reporting
  <2>1. PICK w \in Workers : f = Main[w]
    BY <1>1, FramesAre DEF Inv, Held
  <2>2. MainOK(f)
    BY <2>1 DEF Inv, JobInv, MainInvs
  <2>3. CASE f.at = "enqueue"
    BY <2>2, <2>3 DEF MainOK
  <2>4. CASE f.at = "finished" /\ f.by = f.of
    BY <2>2, <2>4 DEF MainOK, Executing
  <2>5. CASE f.by # f.of \/ f.at \in {"process", "restore"}
    <3>1. f.of \in DOMAIN coll /\ coll[f.of].jobCounter > 0
      BY <1>1, <2>1, <2>5, ReportingFacts DEF Inv
    <3> QED
      BY <3>1, CountingFacts DEF Inv
  <2> QED
    BY <1>1, <2>3, <2>4, <2>5 DEF Reporting
<1>2. CASE f.at = "started"
  <2>1. PICK a \in Actors : f \in ToSet(stack[a])
    BY DEF Frames
  <2>2. PICK i \in DOMAIN stack[a] : f = stack[a][i]
    BY <2>1 DEF ToSet
  <2>3. a \in Workers /\ stack[a] # <<>>
    <3>1. stack[a] # <<>>
      BY <2>2
    <3> QED
      BY <3>1 DEF Actors, Inv, Typed
  <2>s. PICK s : s = stack[a]
    OBVIOUS
  <2>4. s \in Seq(FrameSet) /\ Shaped(s) /\ Len(s) \in Nat \ {0} /\ i \in 1..Len(s) /\ s[i] = f
        /\ s # <<>>
    BY <2>s, <2>2, <2>3, StackIs, LenProperties DEF Inv, Typed, Shapes, Actors
  <2>5. Beginning(s) /\ i = 1
    <3>1. ~ Alone(s)
      BY <1>2, <2>4 DEF Alone
    <3>2. ~ Ending(s)
      <4> SUFFICES ASSUME Ending(s) PROVE FALSE
        OBVIOUS
      <4>1. CASE s[1].at \notin StopPlaces
        <5>1. EndingFrom(s, 1) /\ s[1].at # "started"
          BY <4>1 DEF Ending
        <5>2. i = 1 \/ i \in 2..(Len(s) - 1) \/ i = Len(s)
          BY <2>4
        <5> QED
          BY <1>2, <2>4, <5>1, <5>2 DEF EndingFrom
      <4>2. CASE s[1].at \in StopPlaces
        <5>1. EndingFrom(s, 2) /\ s[2].at = "restore"
          BY <4>2 DEF Ending, StopPlaces
        <5>2. i = 1 \/ i = 2 \/ i \in 3..(Len(s) - 1) \/ i = Len(s)
          BY <2>4
        <5> QED
          BY <1>2, <2>4, <4>2, <5>1, <5>2 DEF EndingFrom, StopPlaces
      <4> QED
        BY <4>1, <4>2
    <3>3. Beginning(s)
      BY <2>4, <3>1, <3>2 DEF Shaped
    <3> QED
      BY <1>2, <2>4, <3>3 DEF Beginning
  <2>j. PICK j : j = s[Len(s)].of
    OBVIOUS
  <2>6. Main[a] = s[Len(s)] /\ Main[a].at = "setRunning" /\ Main[a].of = j
    BY <2>s, <2>j, <2>3, <2>4, <2>5, BeginningStack DEF Main, Beginning
  <2>7. Begins(s) /\ Len(s) \in {2, 3}
    BY <2>s, <2>3, <2>5 DEF Inv, StartInv, Beginning
  <2>8. MainOK(Main[a]) /\ Bears(a, j) /\ j \in Jobs
    <3>1. MainOK(Main[a])
      BY <2>3 DEF Inv, JobInv, MainInvs
    <3> QED
      BY <2>3, <2>6, <3>1, BearsIs DEF MainOK, Own
  <2>9. CASE f.of = j /\ IsCollection(j)
    BY <2>6, <2>8, <2>9 DEF MainOK, Executing
  <2>10. CASE HasParent(j) /\ f.of = ParentOf(j)
    <3>p. PICK p : p = ParentOf(j)
      OBVIOUS
    <3>1. p \in DOMAIN coll /\ j \in ToSet(coll[p].elements) /\ j \in Kids(p)
      BY <2>10, <3>p, ParentFacts DEF Inv, JobInv
    <3>2. status[j] # "New" /\ j \in Tokens
      BY <2>3, <2>6, <2>8 DEF MainOK, Tokens
    <3>3. coll[p].jobCounter = Cardinality(Remaining(p)) /\ j \in Remaining(p)
      BY <3>1, <3>2, ElementCounts DEF Inv, Remaining, Live
    <3>4. coll[p].jobCounter > 0
      BY <3>1, <3>3, RemainingFacts DEF Inv, JobInv
    <3> QED
      BY <2>10, <3>p, <3>1, <3>4, CountingFacts DEF Inv
  <2> QED
    BY <2>j, <2>4, <2>5, <2>7, <2>9, <2>10 DEF Begins
<1> QED
  BY <1>1, <1>2 DEF Reporting

(* Who reports to a collection is one of those it counts, and it refers to *)
(* itself while there are any.                                             *)
LEMMA AliveIs == Inv => KeepsItselfAlive
<1> SUFFICES ASSUME Inv, Idle, NEW j \in Jobs PROVE ~ Referenced(j)
  BY StaysAlive DEF KeepsItselfAlive
<1>1. /\ \A w \in Workers : stack[w] = <<>>
      /\ Tokens = {}
      /\ \A c \in DOMAIN coll : coll[c].jobCounter = 0 /\ ~ coll[c].self
  BY IdleFacts
<1>2. ~ Queued(j)
  BY DEF Idle, Queued, ToSet
<1>3. j \notin customers
  BY <1>1 DEF Inv, JobInv, CustomersInv, IsCollection
<1>4. ~ (IsCollection(j) /\ coll[j].self)
  BY <1>1 DEF IsCollection
<1>5. \A w \in Workers : held[w] # j
  BY <1>1, ActorsAssumption DEF Inv, HeldInv
<1>6. \A w \in Workers : ~ \E f \in ToSet(stack[w]) : j \in {f.of, f.by}
  BY <1>1 DEF ToSet
<1> QED
  BY <1>2, <1>3, <1>4, <1>5, <1>6 DEF Referenced

(* jobCounter is the number of the elements that have still to report.     *)
THEOREM CountersAreExact == Spec /\ [][Undisturbed]_vars => []CounterExact
BY CollectionsInvariant, CounterIsExact, PTL

(* A collection is alive when a thread reports to it, and nothing refers   *)
(* to a job when the queue is idle.                                        *)
THEOREM CollectionsKeepAlive == Spec /\ [][Undisturbed]_vars => []KeepsItselfAlive
BY CollectionsInvariant, AliveIs, PTL

(* In an idle queue the collections that have begun are finished.          *)
THEOREM IdleCollectionsAreFinished == Spec /\ [][Undisturbed]_vars => []IdleMeansFinished
BY CollectionsInvariant, IdleIsFinished, PTL
===============================================================================
