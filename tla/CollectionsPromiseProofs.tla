----------------------- MODULE CollectionsPromiseProofs -----------------------
(***************************************************************************)
(* Collections implements JobTree, as long as the users let run what they  *)
(* have enqueued: each kind of step of CollectionsOrderProofs is a step of *)
(* JobTree, or leaves the phases, the elements and the successes alone.    *)
(***************************************************************************)
EXTENDS CollectionsOrderProofs

-------------------------------------------------------------------------------
(* The refinement mapping *)

(* A job runs while a thread has it, and a collection while it counts.     *)
Running(j) == j \in Tokens \/ (IsCollection(j) /\ coll[j].jobCounter > 0)

(* What is said of a job in JobTree.                                       *)
Phase(j) ==
  IF ended[j] > 0 THEN "over"
  ELSE IF Queued(j) THEN "queued" ELSE IF Running(j) THEN "running" ELSE "idle"

(* A step that changes no collection's list.                               *)
ListsKept ==
  /\ program' = program /\ DOMAIN coll' = DOMAIN coll
  /\ \A c \in DOMAIN coll : coll'[c].elements = coll[c].elements

(* A job has succeeded as before.                                          *)
SameSuccess(j) == status'[j] = "Success" <=> status[j] = "Success"

(* Phases, read through Tokens.                                            *)
LEMMA PhasesAre == Inv => Phases = [j \in Jobs |-> Phase(j)]
<1> SUFFICES ASSUME Inv PROVE Phases = [j \in Jobs |-> Phase(j)]
  OBVIOUS
<1>1. \A j : j \in Busy <=> j \in Tokens
  BY BusyIs DEF Inv
<1> QED
  BY <1>1 DEF Phases, Phase, Running

(* The same in the next state.                                             *)
LEMMA PhasesNext == Inv' => (Phases = [j \in Jobs |-> Phase(j)])'
BY PhasesAre, PTL

(* A step that moves nothing on is none of JobTree.                        *)
LEMMA RefineStill ==
  ASSUME Inv, Inv', ListsKept, \A j \in Jobs : SameSuccess(j) /\ Phase(j)' = Phase(j)
  PROVE  UNCHANGED Promise!vars
<1>1. Phases' = [j \in Jobs |-> Phase(j)']
  BY PhasesNext
<1>2. Phases' = Phases
  BY <1>1, PhasesAre
<1>3. [c \in DOMAIN coll |-> coll[c].elements]' = [c \in DOMAIN coll |-> coll[c].elements]
  BY DEF ListsKept
<1>4. {j \in Jobs : status[j] = "Success"}' = {j \in Jobs : status[j] = "Success"}
  BY DEF SameSuccess
<1> QED
  BY <1>2, <1>3, <1>4 DEF Promise!vars, ListsKept

(* Some jobs move on together.                                             *)
LEMMA RefineMove ==
  ASSUME Inv, Inv', ListsKept, NEW J, NEW p, NEW q,
         \A j \in Jobs : /\ SameSuccess(j)
                         /\ \/ Phase(j)' = Phase(j)
                            \/ j \in J /\ Phase(j) \in p /\ Phase(j)' = q
  PROVE  Promise!Move(J, p, q)
<1>1. Phases' = [j \in Jobs |-> Phase(j)']
  BY PhasesNext
<1>2. \A j \in Jobs : Phases'[j] = Phase(j)' /\ Phases[j] = Phase(j)
  BY <1>1, PhasesAre
<1>3. [c \in DOMAIN coll |-> coll[c].elements]' = [c \in DOMAIN coll |-> coll[c].elements]
  BY DEF ListsKept
<1>4. {j \in Jobs : status[j] = "Success"}' = {j \in Jobs : status[j] = "Success"}
  BY DEF SameSuccess
<1> QED
  BY <1>2, <1>3, <1>4 DEF Promise!Move, ListsKept

(* A job that is not over has or has not succeeded.                        *)
LEMMA RefineDecide ==
  ASSUME Inv, Inv', ListsKept, NEW c \in Jobs, Phase(c) # "over",
         \A j \in Jobs : Phase(j)' = Phase(j),
         \A j \in Jobs : j # c => SameSuccess(j)
  PROVE  Promise!Decide(c)
<1>1. Phases' = [j \in Jobs |-> Phase(j)']
  BY PhasesNext
<1>2. Phases' = Phases /\ Phases[c] = Phase(c)
  BY <1>1, PhasesAre
<1>3. [d \in DOMAIN coll |-> coll[d].elements]' = [d \in DOMAIN coll |-> coll[d].elements]
  BY DEF ListsKept
<1>4. {j \in Jobs : status[j] = "Success"}' \in
        {{j \in Jobs : status[j] = "Success"} \cup {c}, {j \in Jobs : status[j] = "Success"} \ {c}}
  BY DEF SameSuccess
<1> QED
  BY <1>2, <1>3, <1>4 DEF Promise!Decide, ListsKept

(* At first every job is idle.                                             *)
LEMMA RefineStart == Init => Promise!Init
<1> SUFFICES ASSUME Init PROVE Promise!Init
  OBVIOUS
<1>1. Inv
  BY InitInv
<1>2. \A j \in Jobs : status[j] = "New"
  BY DEF Init
<1>3. \A j \in Jobs : Fresh(j) /\ ~ Queued(j) /\ j \notin Tokens
  BY <1>1, <1>2 DEF Inv, JobInv, QueueInv
<1>4. \A j \in Jobs : Phase(j) = "idle"
  BY <1>3 DEF Phase, Running, Fresh
<1> QED
  BY <1>1, <1>2, <1>4, PhasesAre DEF Promise!Init

(* The tokens of one thread change.                                        *)
LEMMA TokensMove ==
  ASSUME Inv, NEW w \in Workers, NEW t, Goes(w, t)
  PROVE  \A j \in Jobs :
           /\ (j \in Tokens)' <=> \/ j \in TokenOf(MainOf(t))
                                 \/ \E v \in Workers : v # w /\ Bears(v, j)
           /\ j \in Tokens <=> \/ j \in TokenOf(Main[w])
                               \/ \E v \in Workers : v # w /\ Bears(v, j)
           /\ TokenOf(MainOf(t)) = TokenOf(Main[w]) => ((j \in Tokens)' <=> j \in Tokens)
<1>1. Main' = [Main EXCEPT ![w] = MainOf(t)]
  BY StackMoves DEF Inv
<1>2. \A v \in Workers : Main'[v] = IF v = w THEN MainOf(t) ELSE Main[v]
  BY <1>1 DEF Main
<1>3. \A v \in Workers : \A j : /\ v # w => (Bears(v, j)' <=> Bears(v, j))
                                /\ v = w => (Bears(v, j)' <=> j \in TokenOf(MainOf(t)))
  <2> TAKE v \in Workers
  <2> TAKE j
  <2>1. Bears(v, j)' <=> j \in TokenOf(Main'[v])
    BY DEF Bears, TokenOf
  <2> QED
    BY <1>2, <2>1 DEF Bears
<1>4. \A j \in Jobs : (j \in Tokens)' <=> \E v \in Workers : Bears(v, j)'
  BY DEF Tokens
<1>5. \A j \in Jobs : j \in Tokens <=> \E v \in Workers : Bears(v, j)
  BY DEF Tokens
<1> QED
  BY <1>3, <1>4, <1>5 DEF Bears

(* What a thread does that is about no order is no step of JobTree.        *)
LEMMA RefineNothing ==
  ASSUME Inv, Inv', NEW w \in Workers, NEW t, StillStep(w, t) \/ StopStep(w, t)
  PROVE  UNCHANGED Promise!vars
<1>1. /\ UNCHANGED <<program, assignments, status, ended>> /\ Goes(w, t)
      /\ TokenOf(MainOf(t)) = TokenOf(Main[w])
  BY DEF StillStep, StopStep
<1>2. /\ DOMAIN coll' = DOMAIN coll
      /\ \A c \in DOMAIN coll :
           coll'[c].elements = coll[c].elements /\ coll'[c].jobCounter = coll[c].jobCounter
  BY DEF StillStep, StopStep, CollectionsKept, Ordering
<1>3. \A j \in Jobs : (j \in Tokens)' <=> j \in Tokens
  BY <1>1, TokensMove
<1>4. \A j \in Jobs : SameSuccess(j) /\ Phase(j)' = Phase(j)
  <2> TAKE j \in Jobs
  <2>1. Running(j)' <=> Running(j)
    BY <1>2, <1>3 DEF Running, IsCollection
  <2>2. Queued(j)' <=> Queued(j)
    BY <1>1 DEF Queued
  <2> QED
    BY <1>1, <2>1, <2>2 DEF Phase, SameSuccess
<1>5. ListsKept
  BY <1>1, <1>2 DEF ListsKept
<1> QED
  BY <1>4, <1>5, RefineStill

(* A job that is taken from the queue begins: its collection is running,   *)
(* and in a sequence the elements before it are done.                      *)
LEMMA RefineTake ==
  ASSUME Inv, Inv', SeqInv, NEW w \in Workers, NEW t, NEW j, TakeStep(w, t, j)
  PROVE  j \in Jobs /\ Promise!Begin(j)
<1>1. /\ UNCHANGED <<program, status, ended, coll>> /\ Goes(w, t) /\ j \in Jobs
      /\ Queued(j) /\ CanRun(j) /\ \A x : Queued(x)' <=> Queued(x) /\ x # j
      /\ TokenOf(Main[w]) = {} /\ TokenOf(MainOf(t)) = {j}
  BY DEF TakeStep, TokenOf, Own, Reporting
<1>2. /\ status[j] = "Queued" /\ ended[j] = 0 /\ ~ Waits(j)
  BY <1>1 DEF Inv, JobInv, QueueInv, Fresh, CanRun, Waits, HasUnresolvedDependencies
<1>3. Phase(j) = "queued" /\ Phase(j)' = "running"
  <2>1. Phase(j) = "queued"
    BY <1>1, <1>2 DEF Phase
  <2>2. (j \in Tokens)'
    BY <1>1, TokensMove
  <2> QED
    BY <1>1, <1>2, <2>1, <2>2 DEF Phase, Running
<1>4. \A x \in Jobs : SameSuccess(x) /\ (x # j => Phase(x)' = Phase(x))
  <2> TAKE x \in Jobs
  <2>1. x # j => ((x \in Tokens)' <=> x \in Tokens)
    BY <1>1, TokensMove
  <2>2. x # j => (Running(x)' <=> Running(x))
    BY <1>1, <2>1 DEF Running, IsCollection
  <2> QED
    BY <1>1, <2>2 DEF Phase, SameSuccess
<1>5. ListsKept
  BY <1>1 DEF ListsKept
<1>6. Promise!Move({j}, {"idle", "queued"}, "running")
  BY <1>3, <1>4, <1>5, RefineMove
<1>7. ASSUME NEW c \in DOMAIN coll, NEW n \in DOMAIN coll[c].elements, coll[c].elements[n] = j
      PROVE  /\ c \in Jobs /\ Phase(c) = "running"
             /\ c \in program.sequences => \A m \in 1..(n - 1) :
                  /\ coll[c].elements[m] \in Jobs /\ Phase(coll[c].elements[m]) = "over"
                  /\ status[coll[c].elements[m]] = "Success"
  <2>1. /\ c \in Jobs /\ j \in ToSet(coll[c].elements) /\ j \in Kids(c) /\ coll[c] \in CollSet
        /\ coll[c].elements \in Seq(Jobs)
    <3>1. c \in Jobs /\ coll[c] \in CollSet
      BY FamilyFacts DEF Inv
    <3>2. coll[c].elements \in Seq(Jobs) /\ ToSet(coll[c].elements) \subseteq Kids(c)
      BY ElementFacts DEF Inv, JobInv
    <3>3. j \in ToSet(coll[c].elements)
      BY <1>7 DEF ToSet
    <3> QED
      BY <3>1, <3>2, <3>3
  <2>2. coll[c].jobCounter = Cardinality(Remaining(c)) /\ j \in Remaining(c)
    BY <1>1, <1>2, <2>1, ElementCounts DEF Inv, Remaining, Live
  <2>3. coll[c].jobCounter > 0
    BY <2>2, RemainingFacts DEF Inv, JobInv
  <2>4. Phase(c) = "running"
    <3>1. ~ Queued(c) /\ ended[c] = 0
      BY <2>3, CountingFacts DEF Inv
    <3> QED
      BY <2>3, <3>1 DEF Phase, Running, IsCollection
  <2>5. ASSUME c \in program.sequences, NEW m \in 1..(n - 1)
        PROVE  /\ coll[c].elements[m] \in Jobs /\ Phase(coll[c].elements[m]) = "over"
               /\ status[coll[c].elements[m]] = "Success"
    <3>l. PICK l : l = Len(coll[c].elements)
      OBVIOUS
    <3>1. l \in Nat /\ DOMAIN coll[c].elements = 1..l
      BY <3>l, <2>1, LenProperties
    <3>2. coll[c].completed \in Nat /\ n \in Nat /\ m \in Nat /\ m < n /\ m \in 1..l
      BY <1>7, <3>1, <2>1 DEF CollSet
    <3>3. OrderOK(c) /\ IsSequence(c)
      BY <2>5 DEF SeqInv, OrderInv, IsSequence
    <3>4. ~ (n > coll[c].completed)
      BY <1>2, <1>7, <2>3, <3>3 DEF OrderOK
    <3>5. m < coll[c].completed
      BY <3>2, <3>4
    <3>6. Done(coll[c].elements[m])
      BY <2>3, <3>1, <3>2, <3>3, <3>5 DEF OrderOK
    <3>7. coll[c].elements[m] \in Jobs
      BY <2>1, <3>1, <3>2, <3>l, ElementOfSeq
    <3> QED
      BY <3>6, <3>7 DEF Done, Phase
  <2> QED
    BY <2>1, <2>4, <2>5
<1>8. \A x \in Jobs : Phases[x] = Phase(x) /\ Phases'[x] = Phase(x)'
  BY PhasesAre, PhasesNext
<1> QED
  BY <1>1, <1>3, <1>6, <1>7, <1>8 DEF Promise!Begin

(* setRunning() decides nothing.                                           *)
LEMMA RefineSetRunning ==
  ASSUME Inv, Inv', NEW w \in Workers, NEW t, NEW j, SetRunningStep(w, t, j)
  PROVE  UNCHANGED Promise!vars
<1>1. /\ UNCHANGED <<program, assignments, ended, coll>> /\ Goes(w, t)
      /\ TokenOf(MainOf(t)) = TokenOf(Main[w])
      /\ \A x \in Jobs : SameSuccess(x)
  BY DEF SetRunningStep, TokenOf, Own, Reporting, SameSuccess
<1>2. \A x \in Jobs : (x \in Tokens)' <=> x \in Tokens
  BY <1>1, TokensMove
<1>3. \A x \in Jobs : Phase(x)' = Phase(x)
  BY <1>1, <1>2 DEF Phase, Running, IsCollection, Queued
<1> QED
  BY <1>1, <1>3, RefineStill DEF ListsKept

(* What is appended to is the beginning of the result.                     *)
LEMMA AppendedIsPrefix ==
  ASSUME NEW S, NEW s \in Seq(S), NEW g \in Seq(S), NEW t, t = s \/ t = s \o g
  PROVE  Promise!IsPrefix(s, t)
<1>1. Len(s) \in Nat /\ Len(g) \in Nat
  BY LenProperties
<1>2. /\ t \in Seq(S) /\ Len(s) <= Len(t)
      /\ \A i \in 1..Len(s) : t[i] = s[i]
  <2>1. CASE t = s
    BY <2>1, <1>1
  <2>2. CASE t = s \o g
    BY <2>2, <1>1, ConcatProperties
  <2> QED
    BY <2>1, <2>2
<1>3. Len(t) \in Nat
  BY <1>2, LenProperties
<1>4. SubSeq(s, 1, Len(s)) = SubSeq(t, 1, Len(s))
  BY <1>1, <1>2, <1>3
<1> QED
  BY <1>2, <1>4 DEF Promise!IsPrefix

(* run() decides on the status, and may add elements to the collection.    *)
LEMMA RefineRun ==
  ASSUME Inv, Inv', NEW w \in Workers, NEW t, NEW j, RunStep(w, t, j)
  PROVE  j \in Jobs /\ (Promise!Decide(j) \/ Promise!DecideAndGrow(j))
<1>1. /\ UNCHANGED <<program, assignments, ended>> /\ Goes(w, t)
      /\ TokenOf(MainOf(t)) = TokenOf(Main[w]) /\ Main[w].at \in Own /\ j = Main[w].of
      /\ \A x \in Jobs : x # j => SameSuccess(x)
      /\ DOMAIN coll' = DOMAIN coll
      /\ \A d \in DOMAIN coll : coll'[d].jobCounter = coll[d].jobCounter
      /\ \A d \in DOMAIN coll : d # j => coll'[d].elements = coll[d].elements
  BY DEF RunStep, TokenOf, Own, Reporting, SameSuccess
<1>2. j \in Jobs /\ ended[j] = 0 /\ ~ Queued(j) /\ j \in Tokens
  BY <1>1, OwnFacts DEF Inv
<1>3. Phase(j) = "running"
  BY <1>2 DEF Phase, Running
<1>4. \A x \in Jobs : (x \in Tokens)' <=> x \in Tokens
  BY <1>1, TokensMove
<1>5. \A x \in Jobs : Phase(x)' = Phase(x)
  BY <1>1, <1>4 DEF Phase, Running, IsCollection, Queued
<1>6. CASE j \notin DOMAIN coll
  <2>1. ListsKept
    BY <1>1, <1>6 DEF ListsKept
  <2> QED
    BY <1>1, <1>2, <1>3, <1>5, <2>1, RefineDecide
<1>7. CASE j \in DOMAIN coll
  <2>1. Phases' = Phases /\ Phases[j] = "running"
    BY <1>2, <1>3, <1>5, PhasesAre, PhasesNext
  <2>2. Promise!IsPrefix(coll[j].elements, coll'[j].elements)
    <3>1. coll[j].elements \in Seq(Jobs)
      BY <1>7, ElementFacts DEF Inv, JobInv
    <3>2. j \in DOMAIN program.generates => program.generates[j] \in Seq(Jobs)
      BY ProgramsAssumption DEF Inv, Typed
    <3>g. PICK g \in Seq(Jobs) :
            coll'[j].elements = coll[j].elements \/ coll'[j].elements = coll[j].elements \o g
      BY <1>7, <3>1, <3>2 DEF RunStep
    <3> QED
      BY <3>1, <3>g, AppendedIsPrefix
  <2>3. LET ls == [c \in DOMAIN coll |-> coll[c].elements]
            l2 == [c \in DOMAIN coll' |-> coll'[c].elements]
        IN  /\ j \in DOMAIN ls /\ DOMAIN l2 = DOMAIN ls
            /\ Promise!IsPrefix(ls[j], l2[j])
            /\ \A d \in DOMAIN ls \ {j} : l2[d] = ls[d]
    BY <1>1, <1>7, <2>2
  <2>4. {x \in Jobs : status[x] = "Success"}' \in
          {{x \in Jobs : status[x] = "Success"} \cup {j},
           {x \in Jobs : status[x] = "Success"} \ {j}}
    BY <1>1, <1>2 DEF SameSuccess
  <2>5. Promise!DecideAndGrow(j)
    BY <1>1, <2>1, <2>3, <2>4 DEF Promise!DecideAndGrow
  <2> QED
    BY <1>2, <2>5
<1> QED
  BY <1>6, <1>7

(* A job that ends has no element in the queue or under way.               *)
LEMMA RefineEnd ==
  ASSUME Inv, Inv', NEW w \in Workers, NEW t, NEW j, CallEndStep(w, t, j)
  PROVE  j \in Jobs /\ Promise!End(j)
<1>1. /\ UNCHANGED <<program, assignments, status, coll>> /\ Goes(w, t)
      /\ Main[w].at \in Own /\ j = Main[w].of /\ TokenOf(Main[w]) = {j}
      /\ TokenOf(MainOf(t)) \subseteq {j}
      /\ ended'[j] = 1 /\ \A x \in Jobs \ {j} : ended'[x] = ended[x]
  BY DEF CallEndStep, TokenOf, Own, Reporting
<1>2. /\ j \in Jobs /\ ended[j] = 0 /\ ~ Queued(j) /\ j \in Tokens
      /\ IsCollection(j) => Remaining(j) = {}
  BY <1>1, OwnFacts DEF Inv
<1>3. Phase(j) = "running" /\ Phase(j)' = "over"
  BY <1>1, <1>2 DEF Phase, Running
<1>4. \A x \in Jobs : SameSuccess(x) /\ (x # j => Phase(x)' = Phase(x))
  <2> TAKE x \in Jobs
  <2>1. x # j => ((x \in Tokens)' <=> x \in Tokens)
    BY <1>1, TokensMove
  <2> QED
    BY <1>1, <2>1 DEF Phase, Running, IsCollection, Queued, SameSuccess
<1>5. ListsKept
  BY <1>1 DEF ListsKept
<1>6. Promise!Move({j}, {"running"}, "over")
  BY <1>3, <1>4, <1>5, RefineMove
<1>7. ASSUME j \in DOMAIN coll, NEW e \in ToSet(coll[j].elements)
      PROVE  e \in Jobs /\ Phase(e) \notin {"queued", "running"}
  <2>1. e \in Jobs
    BY <1>7, ElementFacts DEF Inv, JobInv
  <2>2. ~ Live(e)
    BY <1>2, <1>7 DEF Remaining, IsCollection
  <2> QED
    BY <2>1, <2>2 DEF Phase, Running, Live
<1>8. \A x \in Jobs : Phases[x] = Phase(x) /\ Phases'[x] = Phase(x)'
  BY PhasesAre, PhasesNext
<1>9. ASSUME j \in DOMAIN coll, NEW e \in Promise!ToSet([c \in DOMAIN coll |-> coll[c].elements][j])
      PROVE  Phases[e] \notin {"queued", "running"}
  <2>1. e \in ToSet(coll[j].elements)
    BY <1>9 DEF Promise!ToSet, ToSet
  <2> QED
    BY <1>7, <1>8, <1>9, <2>1
<1> QED
  BY <1>2, <1>3, <1>6, <1>8, <1>9 DEF Promise!End

(* A collection that prepares its elements is running, and goes on so.     *)
LEMMA RefinePrepare ==
  ASSUME Inv, Inv', NEW w \in Workers, NEW t, NEW c, PrepareStep(w, t, c)
  PROVE  UNCHANGED Promise!vars
<1>1. /\ UNCHANGED <<program, assignments, status, ended>> /\ Goes(w, t)
      /\ TokenOf(MainOf(t)) = TokenOf(Main[w]) /\ Itself(w, c, {"finished", "enqueue"})
      /\ DOMAIN coll' = DOMAIN coll
      /\ \A d \in DOMAIN coll : d # c => coll'[d].jobCounter = coll[d].jobCounter
      /\ \A d \in DOMAIN coll : coll'[d].elements = coll[d].elements
  BY DEF PrepareStep, TokenOf, Own, Reporting, Itself
<1>2. c \in Jobs /\ c \in Tokens
  BY <1>1, ItselfFacts DEF Inv
<1>3. \A x \in Jobs : (x \in Tokens)' <=> x \in Tokens
  BY <1>1, TokensMove
<1>4. \A x \in Jobs : SameSuccess(x) /\ Phase(x)' = Phase(x)
  <2> TAKE x \in Jobs
  <2>1. Running(x)' <=> Running(x)
    BY <1>1, <1>2, <1>3 DEF Running, IsCollection
  <2> QED
    BY <1>1, <2>1 DEF Phase, Queued, SameSuccess
<1> QED
  BY <1>1, <1>4, RefineStill DEF ListsKept

(* The elements of a collection are queued while it is running.            *)
LEMMA RefineEnqueue ==
  ASSUME Inv, Inv', NEW w \in Workers, NEW t, NEW c, EnqueueStep(w, t, c)
  PROVE  Promise!Queue
<1>K. PICK K : K = ToSet(coll[c].elements)
  OBVIOUS
<1>1. /\ UNCHANGED <<program, ended>> /\ Goes(w, t)
      /\ TokenOf(MainOf(t)) = TokenOf(Main[w]) /\ Itself(w, c, {"finished", "enqueue"})
      /\ DOMAIN coll' = DOMAIN coll /\ c \in DOMAIN coll
      /\ \A d \in DOMAIN coll : coll'[d].jobCounter = coll[d].jobCounter
      /\ \A d \in DOMAIN coll : coll'[d].elements = coll[d].elements
      /\ Unopened(c) /\ K \subseteq Kids(c)
      /\ \A x : Queued(x)' <=> Queued(x) \/ x \in K
      /\ status' = [j \in Jobs |-> IF j \in K THEN "Queued" ELSE status[j]]
  BY <1>K DEF EnqueueStep, TokenOf, Own, Reporting, Itself
<1>2. ended[c] = 0
  BY <1>1, ItselfFacts DEF Inv
<1>3. \A x \in K : x \in Jobs /\ status[x] = "New"
  BY <1>1, FamilyFacts DEF Unopened, Inv
<1>4. \A x \in K : Phase(x) = "idle" /\ ended[x] = 0
  <2> TAKE x \in K
  <2>1. x \in Jobs /\ ~ Live(x)
    BY <1>3, NewIsNotLive DEF Inv, JobInv
  <2>2. ended[x] = 0
    BY <1>3, <2>1 DEF Inv, JobInv, QueueInv, Fresh
  <2> QED
    BY <2>1, <2>2 DEF Phase, Running, Live
<1>5. \A x \in Jobs : (x \in Tokens)' <=> x \in Tokens
  BY <1>1, TokensMove
<1>6. \A x \in Jobs : /\ SameSuccess(x)
                      /\ x \in K => Phase(x)' = "queued"
                      /\ x \notin K => Phase(x)' = Phase(x)
  <2> TAKE x \in Jobs
  <2>1. Running(x)' <=> Running(x)
    BY <1>1, <1>5 DEF Running, IsCollection
  <2>2. SameSuccess(x)
    BY <1>1, <1>3 DEF SameSuccess
  <2> QED
    BY <1>1, <1>4, <2>1, <2>2 DEF Phase
<1>7. \A d \in DOMAIN coll : \A x \in K : x \in ToSet(coll[d].elements) => d = c
  <2> SUFFICES ASSUME NEW d \in DOMAIN coll, NEW x \in K, x \in ToSet(coll[d].elements)
               PROVE  d = c
    OBVIOUS
  <2>1. x \in Kids(d) /\ x \in Kids(c)
    BY <1>1, ElementFacts DEF Inv, JobInv
  <2> QED
    BY <1>1, <2>1, FamilyFacts DEF Inv
<1>8. Phases[c] # "over"
  BY <1>1, <1>2, FamilyFacts, PhasesAre DEF Phase, Inv
<1>9. \A x \in K : x \in {j \in Jobs : \A d \in DOMAIN [e \in DOMAIN coll |-> coll[e].elements] :
                Phases[d] = "over" =>
                  j \notin Promise!ToSet([e \in DOMAIN coll |-> coll[e].elements][d])}
  BY <1>3, <1>7, <1>8 DEF Promise!ToSet, ToSet
<1> DEFINE J == {j \in Jobs : \A d \in DOMAIN [e \in DOMAIN coll |-> coll[e].elements] :
              Phases[d] = "over" =>
                j \notin Promise!ToSet([e \in DOMAIN coll |-> coll[e].elements][d])}
<1>10. Promise!Move(J, {"idle"}, "queued")
  <2>1. \A x \in K : x \in J
    BY <1>9
  <2>2. ListsKept
    BY <1>1 DEF ListsKept
  <2> HIDE DEF J
  <2> QED
    BY <1>4, <1>6, <2>1, <2>2, RefineMove
<1> QED
  BY <1>10 DEF Promise!Queue

(* A user queues what is in no collection, or nothing.                     *)
LEMMA RefineUser ==
  ASSUME Inv, Inv', NEW K, UserQueues(K)
  PROVE  Promise!Queue
<1>1. /\ UNCHANGED <<program, ended, stack>> /\ K \subseteq Jobs
      /\ \A e \in K : status[e] = "New" /\ ~ IsElement(e)
      /\ DOMAIN coll' = DOMAIN coll
      /\ \A d \in DOMAIN coll : coll'[d].jobCounter = coll[d].jobCounter
      /\ \A d \in DOMAIN coll : coll'[d].elements = coll[d].elements
      /\ \A x : Queued(x)' <=> Queued(x) \/ x \in K
      /\ status' = [j \in Jobs |-> IF j \in K THEN "Queued" ELSE status[j]]
  BY DEF UserQueues
<1>2. \A x \in K : Phase(x) = "idle" /\ ended[x] = 0
  <2> TAKE x \in K
  <2>1. x \in Jobs /\ ~ Live(x)
    BY <1>1, NewIsNotLive DEF Inv, JobInv
  <2>2. ended[x] = 0
    BY <1>1, <2>1 DEF Inv, JobInv, QueueInv, Fresh
  <2> QED
    BY <2>1, <2>2 DEF Phase, Running, Live
<1>3. Main' = Main
  BY <1>1 DEF Main
<1>4. Tokens' = Tokens
  BY <1>3 DEF Tokens, Bears
<1>5. \A x \in Jobs : /\ SameSuccess(x)
                      /\ x \in K => Phase(x)' = "queued"
                      /\ x \notin K => Phase(x)' = Phase(x)
  <2> TAKE x \in Jobs
  <2>1. Running(x)' <=> Running(x)
    BY <1>1, <1>4 DEF Running, IsCollection
  <2>2. SameSuccess(x)
    BY <1>1 DEF SameSuccess
  <2> QED
    BY <1>1, <1>2, <2>1, <2>2 DEF Phase
<1>6. \A d \in DOMAIN coll : \A x \in K : x \notin ToSet(coll[d].elements)
  BY <1>1, ElementFacts DEF Inv, JobInv, IsElement
<1> DEFINE J == {j \in Jobs : \A d \in DOMAIN [e \in DOMAIN coll |-> coll[e].elements] :
              Phases[d] = "over" =>
                j \notin Promise!ToSet([e \in DOMAIN coll |-> coll[e].elements][d])}
<1>7. \A x \in K : x \in J
  BY <1>1, <1>6 DEF Promise!ToSet, ToSet
<1>8. Promise!Move(J, {"idle"}, "queued")
  <2>1. ListsKept
    BY <1>1 DEF ListsKept
  <2> HIDE DEF J
  <2> QED
    BY <1>2, <1>5, <1>7, <2>1, RefineMove
<1> QED
  BY <1>8 DEF Promise!Queue

(* A collection that counts what has reported to it is running until it    *)
(* ends, and decides on its status.                                        *)
LEMMA RefineCount ==
  ASSUME Inv, Inv', NEW w \in Workers, NEW t, NEW c, CountStep(w, t, c)
  PROVE  c \in Jobs /\ Promise!Decide(c)
<1>e. PICK e : e = Main[w].by
  OBVIOUS
<1>1. /\ UNCHANGED <<program, assignments, ended>> /\ Goes(w, t)
      /\ Main[w].at \in Reporting /\ c = Main[w].of
      /\ e # c \/ Main[w].at \in {"process", "restore"}
      /\ TokenOf(Main[w]) = {e} /\ TokenOf(MainOf(t)) \subseteq {c}
      /\ c \in DOMAIN coll /\ DOMAIN coll' = DOMAIN coll
      /\ \A d \in DOMAIN coll : d # c => coll'[d].jobCounter = coll[d].jobCounter
      /\ \A d \in DOMAIN coll : coll'[d].elements = coll[d].elements
      /\ coll'[c].jobCounter = coll[c].jobCounter - 1
      /\ coll[c].jobCounter = 1 => TokenOf(MainOf(t)) = {c}
      /\ \A x \in Jobs : x # c => SameSuccess(x)
  BY <1>e DEF CountStep, TokenOf, Own, Reporting, SameSuccess
<1>2. /\ c \in Jobs /\ e \in Jobs /\ coll[c].jobCounter \in Nat \ {0} /\ ~ Queued(c)
      /\ ended[c] = 0
      /\ e # c => Ended(e)
  <2>1. /\ c \in Jobs /\ e \in Jobs /\ coll[c].jobCounter \in Nat \ {0} /\ ~ Queued(c)
        /\ ended[c] = 0
        /\ e # c => Ended(e)
    BY <1>e, <1>1, ReporterFacts DEF Inv
  <2> QED
    BY <2>1
<1>3. Running(c) /\ Running(c)'
  <2>n. PICK n : n = coll[c].jobCounter
    OBVIOUS
  <2>1. n \in Nat \ {0} /\ coll'[c].jobCounter = n - 1
    BY <2>n, <1>1, <1>2
  <2>2. n > 0 /\ (n # 1 => n - 1 > 0)
    BY <2>1
  <2>3. Running(c)
    BY <1>1, <2>n, <2>2 DEF Running, IsCollection
  <2>4. CASE n = 1
    <3>1. c \in TokenOf(MainOf(t))
      BY <1>1, <2>n, <2>4
    <3>2. (c \in Tokens)'
      BY <1>1, <1>2, <3>1, TokensMove
    <3> QED
      BY <2>3, <3>2 DEF Running
  <2>5. CASE n # 1
    BY <1>1, <2>1, <2>2, <2>3, <2>5 DEF Running, IsCollection
  <2> QED
    BY <2>4, <2>5
<1>4. Phase(c) = "running" /\ Phase(c)' = "running"
  <2>1. ~ Queued(c)' /\ ended'[c] = 0
    BY <1>1, <1>2 DEF Queued
  <2> QED
    BY <1>2, <1>3, <2>1 DEF Phase
<1>5. \A x \in Jobs : Phase(x)' = Phase(x)
  <2> TAKE x \in Jobs
  <2>1. CASE x = c
    BY <1>4, <2>1
  <2>2. CASE x # c /\ x = e
    BY <1>1, <1>2, <2>2 DEF Phase, Ended
  <2>3. CASE x # c /\ x # e
    <3>1. (x \in Tokens)' <=> x \in Tokens
      BY <1>1, <2>3, TokensMove
    <3>2. Running(x)' <=> Running(x)
      BY <1>1, <2>3, <3>1 DEF Running, IsCollection
    <3> QED
      BY <1>1, <3>2 DEF Phase, Queued
  <2> QED
    BY <2>1, <2>2, <2>3
<1>6. ListsKept
  BY <1>1 DEF ListsKept
<1>7. Phase(c) # "over"
  BY <1>4
<1> QED
  BY <1>1, <1>2, <1>5, <1>6, <1>7, RefineDecide

(* A sequence that takes the status of an element is running.              *)
LEMMA RefineProcessAndStop ==
  ASSUME Inv, Inv', NEW w \in Workers, NEW t, NEW c, ProcessAndStopStep(w, t, c)
  PROVE  c \in Jobs /\ Promise!Decide(c)
<1>1. /\ UNCHANGED <<program, assignments, ended, coll>> /\ Goes(w, t)
      /\ TokenOf(MainOf(t)) = TokenOf(Main[w]) /\ Main[w].at \in Reporting /\ c = Main[w].of
      /\ \A x \in Jobs : x # c => SameSuccess(x)
  BY DEF ProcessAndStopStep, TokenOf, Own, Reporting, SameSuccess
<1>2. c \in Jobs /\ ended[c] = 0
  BY <1>1, HeldFacts
<1>3. \A x \in Jobs : (x \in Tokens)' <=> x \in Tokens
  BY <1>1, TokensMove
<1>4. \A x \in Jobs : Phase(x)' = Phase(x)
  BY <1>1, <1>3 DEF Phase, Running, IsCollection, Queued
<1>5. Phase(c) # "over"
  BY <1>2 DEF Phase
<1>6. ListsKept
  BY <1>1 DEF ListsKept
<1> QED
  BY <1>1, <1>2, <1>4, <1>5, <1>6, RefineDecide

(* A collection that is about to restore its status still counts what has  *)
(* reported to it.                                                         *)
LEMMA RestoringCounts ==
  Inv => \A w \in Workers : Main[w].at = "restore" => coll[Main[w].of].jobCounter > 0
BY ReportingFacts DEF Inv, Reporting

(* The same in the next state.                                             *)
LEMMA RestoringCountsNext ==
  Inv' => (\A w \in Workers : Main[w].at = "restore" => coll[Main[w].of].jobCounter > 0)'
BY RestoringCounts, PTL

(* stop() takes an element out of the queue.                               *)
LEMMA RefineStopElement ==
  ASSUME Inv, Inv', NEW w \in Workers, NEW t, NEW c, NEW e, NEW n,
         StopElementStep(w, t, c, e, n)
  PROVE  Promise!Dequeue
<1>1. /\ UNCHANGED <<program, ended>> /\ Goes(w, t)
      /\ MainOf(t) = Main[w] /\ Main[w].at = "restore" /\ c = Main[w].of
      /\ DOMAIN coll' = DOMAIN coll /\ c \in DOMAIN coll
      /\ \A d \in DOMAIN coll : coll'[d].elements = coll[d].elements
      /\ \A d \in DOMAIN coll : d # c => coll'[d].jobCounter = coll[d].jobCounter
      /\ \A x : Queued(x)' <=> Queued(x) /\ x # e
      /\ status' = IF Queued(e) THEN [status EXCEPT ![e] = "New"] ELSE status
  BY DEF StopElementStep
<1>2. coll[c].jobCounter > 0 /\ coll'[c].jobCounter > 0
  <2>1. Main'[w] = Main[w]
    <3>1. Main' = [Main EXCEPT ![w] = MainOf(t)]
      BY <1>1, StackMoves DEF Inv
    <3> QED
      BY <1>1, <3>1 DEF Main
  <2>2. coll[c].jobCounter > 0
    BY <1>1, RestoringCounts
  <2>3. coll'[c].jobCounter > 0
    BY <1>1, <2>1, RestoringCountsNext
  <2> QED
    BY <2>2, <2>3
<1>3. \A x \in Jobs : Running(x)' <=> Running(x)
  <2> TAKE x \in Jobs
  <2>1. (x \in Tokens)' <=> x \in Tokens
    BY <1>1, TokensMove
  <2> QED
    BY <1>1, <1>2, <2>1 DEF Running, IsCollection
<1>4. e \in Jobs /\ Queued(e) => status[e] = "Queued" /\ ended[e] = 0 /\ ~ Running(e)
  <2> SUFFICES ASSUME e \in Jobs, Queued(e)
               PROVE  status[e] = "Queued" /\ ended[e] = 0 /\ ~ Running(e)
    OBVIOUS
  <2>1. status[e] = "Queued" /\ Fresh(e) /\ e \notin Tokens
    BY DEF Inv, JobInv, QueueInv
  <2> QED
    BY <2>1 DEF Fresh, Running
<1>5. \A x \in Jobs : /\ SameSuccess(x)
                      /\ \/ Phase(x)' = Phase(x)
                         \/ x \in Jobs /\ Phase(x) \in {"queued"} /\ Phase(x)' = "idle"
  <2> TAKE x \in Jobs
  <2>1. status \in [Jobs -> Statuses]
    BY DEF Inv, Typed
  <2>2. CASE x = e /\ Queued(e)
    <3>1. status[x] = "Queued" /\ status'[x] = "New" /\ ended[x] = 0 /\ ~ Running(x) /\ ~ Queued(x)'
      BY <1>1, <1>4, <2>1, <2>2
    <3>2. ~ Running(x)'
      BY <1>3, <3>1
    <3> QED
      BY <1>1, <2>2, <3>1, <3>2 DEF Phase, SameSuccess
  <2>3. CASE ~ (x = e /\ Queued(e))
    <3>1. status'[x] = status[x] /\ (Queued(x)' <=> Queued(x))
      BY <1>1, <2>1, <2>3
    <3> QED
      BY <1>1, <1>3, <3>1 DEF Phase, SameSuccess
  <2> QED
    BY <2>2, <2>3
<1>6. ListsKept
  BY <1>1 DEF ListsKept
<1>7. Promise!Move(Jobs, {"queued"}, "idle")
  BY <1>5, <1>6, RefineMove
<1> QED
  BY <1>7 DEF Promise!Dequeue

(* stop() forgets the queue.                                               *)
LEMMA RefineStopDone ==
  ASSUME Inv, Inv', NEW w \in Workers, NEW t, NEW c, StopDoneStep(w, t, c)
  PROVE  UNCHANGED Promise!vars
<1>1. /\ UNCHANGED <<program, assignments, status, ended>> /\ Goes(w, t)
      /\ TokenOf(MainOf(t)) = TokenOf(Main[w])
      /\ DOMAIN coll' = DOMAIN coll
      /\ \A d \in DOMAIN coll : coll'[d].jobCounter = coll[d].jobCounter
      /\ \A d \in DOMAIN coll : coll'[d].elements = coll[d].elements
  BY DEF StopDoneStep
<1>2. \A x \in Jobs : (x \in Tokens)' <=> x \in Tokens
  BY <1>1, TokensMove
<1>3. \A x \in Jobs : SameSuccess(x) /\ Phase(x)' = Phase(x)
  BY <1>1, <1>2 DEF Phase, Running, IsCollection, Queued, SameSuccess
<1> QED
  BY <1>1, <1>3, RefineStill DEF ListsKept

(* Every step of a thread is one of JobTree, or of none.                   *)
LEMMA RefineWorker ==
  ASSUME Inv, Inv', SeqInv, NEW w \in Workers, WorkerStep(w) \/ CallStep(w)
  PROVE  [Promise!Next]_Promise!vars
<1>1. CASE Take(w)
  <2>1. PICK t, j : TakeStep(w, t, j)
    BY <1>1, TakeIs
  <2>2. j \in Jobs /\ Promise!Begin(j)
    BY <2>1, RefineTake
  <2> QED
    BY <2>2 DEF Promise!Next
<1>2. CASE \/ Apply(w) \/ Store(w) \/ Report(w)
           \/ Execute(w) \/ End(w) \/ Clear(w) \/ ElementStarted(w) \/ StartedUnlock(w)
           \/ ClearSelf(w)
  <2>1. PICK t : StillStep(w, t)
    BY <1>2, ApplyIs, StoreIs, ReportIs, ExecuteIs, EndIs, ClearIs, ElementStartedIs,
       StartedUnlockIs, ClearSelfIs
  <2> QED
    BY <2>1, RefineNothing
<1>3. CASE Stop(w) \/ StopDequeue(w) \/ StopElements(w)
  <2>1. PICK t : StopStep(w, t)
    BY <1>3, StopIs
  <2> QED
    BY <2>1, RefineNothing
<1>4. CASE SetRunning(w)
  <2>1. PICK t, j : SetRunningStep(w, t, j)
    BY <1>4, SetRunningIs
  <2> QED
    BY <2>1, RefineSetRunning
<1>5. CASE Run(w)
  <2>1. PICK t, j : RunStep(w, t, j)
    BY <1>5, RunIs
  <2>2. j \in Jobs /\ (Promise!Decide(j) \/ Promise!DecideAndGrow(j))
    BY <2>1, RefineRun
  <2> QED
    BY <2>2 DEF Promise!Next
<1>6. CASE CallEnd(w)
  <2>1. PICK t, j : CallEndStep(w, t, j)
    BY <1>6, CallEndIs
  <2>2. j \in Jobs /\ Promise!End(j)
    BY <2>1, RefineEnd
  <2> QED
    BY <2>2 DEF Promise!Next
<1>7. CASE PrepareElements(w)
  <2>1. PICK t, c : PrepareStep(w, t, c)
    BY <1>7, PrepareIs
  <2> QED
    BY <2>1, RefinePrepare
<1>8. CASE EnqueueElements(w)
  <2>1. PICK t, c : EnqueueStep(w, t, c)
    BY <1>8, EnqueueIs
  <2>2. Promise!Queue
    BY <2>1, RefineEnqueue
  <2> QED
    BY <2>2 DEF Promise!Next
<1>9. CASE ProcessAndCount(w) \/ Restore(w)
  <2>1. PICK t, c : CountStep(w, t, c)
    BY <1>9, ProcessAndCountIs, RestoreIs
  <2>2. c \in Jobs /\ Promise!Decide(c)
    BY <2>1, RefineCount
  <2> QED
    BY <2>2 DEF Promise!Next
<1>10. CASE ProcessAndStop(w)
  <2>1. PICK t, c : ProcessAndStopStep(w, t, c)
    BY <1>10, ProcessAndStopIs
  <2>2. c \in Jobs /\ Promise!Decide(c)
    BY <2>1, RefineProcessAndStop
  <2> QED
    BY <2>2 DEF Promise!Next
<1>11. CASE StopElement(w)
  <2>1. PICK t, c, e, n : StopElementStep(w, t, c, e, n)
    BY <1>11, StopElementIs
  <2>2. Promise!Dequeue
    BY <2>1, RefineStopElement
  <2> QED
    BY <2>2 DEF Promise!Next
<1>12. CASE StopDone(w)
  <2>1. PICK t, c : StopDoneStep(w, t, c)
    BY <1>12, StopDoneIs
  <2> QED
    BY <2>1, RefineStopDone
<1>13. ~ (\/ Dequeue(w) \/ DequeueFound(w) \/ Abort(w) \/ AbortElements(w) \/ AbortElement(w)
          \/ AbortAll(w) \/ AbortThread(w) \/ AbortedThread(w))
  BY NoThreadTakesBack
<1> QED
  BY <1>1, <1>2, <1>3, <1>4, <1>5, <1>6, <1>7, <1>8, <1>9, <1>10, <1>11, <1>12, <1>13
     DEF WorkerStep, CallStep

(* Every step is.                                                          *)
LEMMA RefineStep ==
  ASSUME Inv, Inv', SeqInv, [Next]_vars, [Undisturbed]_vars
  PROVE  [Promise!Next]_Promise!vars
<1>1. ASSUME NEW K, UserQueues(K) PROVE [Promise!Next]_Promise!vars
  BY <1>1, RefineUser DEF Promise!Next
<1>2. CASE UNCHANGED vars
  <2>1. UserQueues({})
    BY <1>2, UnchangedIs
  <2> QED
    BY <1>1, <2>1
<1>3. ASSUME NEW a \in Actors, Step(a), Undisturbed PROVE [Promise!Next]_Promise!vars
  <2>1. CASE a \in Workers
    <3>1. a \notin Users
      BY <2>1, ActorsAssumption
    <3> QED
      BY <1>3, <2>1, <3>1, RefineWorker DEF Step
  <2>2. CASE a \in Users
    <3>1. a \notin Workers /\ ~ CallStep(a)
      BY <2>2, ActorsAssumption, UsersCallNothing
    <3>2. PICK K : UserQueues(K)
      BY <1>3, <2>2, <3>1, UserIs DEF Step
    <3> QED
      BY <1>1, <3>2
  <2> QED
    BY <2>1, <2>2 DEF Actors
<1> QED
  BY <1>2, <1>3 DEF Next

(* Collections and sequences are what JobTree says of them.                *)
THEOREM CollectionsImplementJobTree == Spec /\ [][Undisturbed]_vars => ImplementsJobTree
<1>1. Inv /\ Inv' /\ SeqInv /\ [Next]_vars /\ [Undisturbed]_vars => [Promise!Next]_Promise!vars
  BY RefineStep
<1> QED
  BY <1>1, RefineStart, CollectionsInvariant, SequencesKeepOrder, PTL
     DEF Spec, ImplementsJobTree, Promise!Spec

===============================================================================
