------------------------ MODULE CollectionsOrderProofs ------------------------
(***************************************************************************)
(* The order in a sequence, the dependencies, and the mutexes of           *)
(* Collections, for any threads and jobs, and users that let run what they *)
(* have enqueued.                                                          *)
(*                                                                         *)
(* A sequence unblocks its elements one after the other, and one thread at *)
(* a time reports to it (SeqInv).  Every action is a step of one of a few  *)
(* kinds, from StillStep to StopDoneStep, and each kind keeps SeqInv.  It  *)
(* follows that what depends on a job waits for it, and that no threads    *)
(* wait for mutexes in a circle.                                           *)
(***************************************************************************)
EXTENDS CollectionsProofs

-------------------------------------------------------------------------------
(* The order in a sequence *)

(* An element that has not begun is in the queue, blocked, or out of it;   *)
(* one that is done has succeeded, and has ended.                          *)
Waits(x) == status[x] = "New" \/ (Queued(x) /\ Blocks(x))
Done(x) == status[x] = "Success" /\ ended[x] > 0

(* completed is the number of the elements that a sequence has unblocked:  *)
(* those before the last of them are done, those behind it wait.           *)
OrderOK(c) == IsSequence(c) /\ coll[c].jobCounter > 0 =>
  \A i \in DOMAIN coll[c].elements :
    /\ i > coll[c].completed => Waits(coll[c].elements[i])
    /\ i < coll[c].completed => Done(coll[c].elements[i])
OrderInv == \A c \in DOMAIN coll : OrderOK(c)

(* What reports to a sequence is that element, or first the sequence; one  *)
(* that has failed has its status kept while the sequence is stopped.      *)
Current(c) == coll[c].elements[coll[c].completed]
ReportOK(f) ==
  /\ f.at \in Reporting /\ IsSequence(f.of) =>
       /\ f.by = f.of /\ f.at # "finished" => coll[f.of].completed = 0
       /\ f.by # f.of => /\ coll[f.of].completed \in DOMAIN coll[f.of].elements
                         /\ f.by = Current(f.of)
       /\ f.at = "enqueue" => ToSet(coll[f.of].elements) \subseteq blocked
  /\ f.at = "restore" => IsSequence(f.of) /\ status[f.of] = f.kept /\ f.kept # "Success"
ReportInv == \A w \in Workers : ReportOK(Main[w])

(* stop() takes the elements out of the queue from the first one on.       *)
StopOK(s) == s # <<>> /\ MainOf(s).at = "restore" =>
  LET es == coll[MainOf(s).of].elements IN
  /\ s[1].at \in {"stop", "stopDequeue", "stopElements"} => s[1].k = 1
  /\ s[1].at = "stopElement" => \A i \in DOMAIN es : i < s[1].k => ~ Queued(es[i])
  /\ s[1].at = "restore" => \A e \in ToSet(es) : ~ Queued(e)
StopInv == \A w \in Workers : StopOK(stack[w])

(* A collection knows its queue until it is over, or its elements have     *)
(* been taken out of the queue.                                            *)
Finished(x) == ended[x] > 0 \/ \E w \in Workers : Main[w].at = "callEnd" /\ Main[w].of = x
Stopped(c) ==
  \E w \in Workers : Main[w].at = "restore" /\ Main[w].of = c /\ stack[w][1].at = "restore"
ApiOK(c) == status[c] = "New" \/ coll[c].api \/ Finished(c) \/ Stopped(c)
ApiInv == \A c \in DOMAIN coll : ApiOK(c)

(* A job has not been taken while it depends on another, and a dependency  *)
(* is resolved by what has succeeded and is over.                          *)
Settled(x) == status[x] = "Success" /\ Finished(x)
DepInv ==
  /\ \A d \in dependencies : Queued(d[1]) \/ status[d[1]] = "New"
  /\ \A d \in program.dependsOn \ program.removed : d \in dependencies \/ Settled(d[2])

SeqInv == OrderInv /\ ReportInv /\ StopInv /\ ApiInv /\ DepInv

-------------------------------------------------------------------------------
(* Lemmas about sequences *)

(* Only one thread at a time reports to a sequence.                        *)
LEMMA SoleReporter ==
  ASSUME Inv, ReportInv, NEW v \in Workers, NEW w \in Workers,
         Main[v].at \in Reporting, Main[w].at \in Reporting, Main[v].of = Main[w].of,
         IsSequence(Main[w].of)
  PROVE  v = w
<1> SUFFICES ASSUME v # w PROVE FALSE
  OBVIOUS
<1>c. PICK c : c = Main[w].of
  OBVIOUS
<1>1. MainOK(Main[v]) /\ MainOK(Main[w]) /\ ReportOK(Main[v]) /\ ReportOK(Main[w])
  BY DEF Inv, JobInv, MainInvs, ReportInv
<1>2. ASSUME NEW x \in Workers, NEW y \in Workers, x # y, Main[x].of = c, Main[y].of = c,
             Main[y].at \in Reporting
      PROVE  ~ Itself(x, c, {"finished", "enqueue"})
  BY <1>2, ItselfFacts DEF Inv
<1>3. ~ Itself(v, c, {"finished", "enqueue"}) /\ ~ Itself(w, c, {"finished", "enqueue"})
  BY <1>c, <1>2
<1>4. /\ Main[v].by # c \/ Main[v].at \in {"process", "restore"}
      /\ Main[w].by # c \/ Main[w].at \in {"process", "restore"}
  BY <1>c, <1>3 DEF Itself, Reporting
<1>5. Bears(v, Main[v].by) /\ Bears(w, Main[w].by) /\ Main[v].by \in Jobs /\ Main[w].by \in Jobs
  BY <1>1, BearsIs DEF MainOK
<1>6. Main[v].by # Main[w].by
  BY <1>5 DEF Inv, JobInv, OneToken
<1>7. coll[c].elements \in Seq(Jobs)
  BY <1>c, <1>1, ElementFacts DEF Inv, JobInv, MainOK, IsCollection
<1>8. 0 \notin DOMAIN coll[c].elements
  BY <1>7, LenProperties
<1> QED
  BY <1>c, <1>1, <1>4, <1>6, <1>8 DEF ReportOK

(* The elements of a job, if it has any.                                   *)
Below(j) == IF IsCollection(j) THEN Kids(j) ELSE {}

(* A step of a thread with the job or the collection of its main call: it  *)
(* may put the elements of the collection into the queue or take them out. *)
LocalStep(w, t, j) ==
  /\ Goes(w, t) /\ Main[w].at \in Own \cup Reporting /\ j = Main[w].of
  /\ program' = program /\ DOMAIN coll' = DOMAIN coll
  /\ \A x \in Jobs \ {j} : ended'[x] = ended[x]
  /\ \A x \in Jobs \ {j} :
       \/ status'[x] = status[x] /\ (Queued(x)' <=> Queued(x))
       \/ x \in Below(j) /\ status[x] \in {"New", "Queued"} /\ (status'[x] = "New" \/ Queued(x)')
  /\ ~ Queued(j)'
  /\ \A c \in DOMAIN coll \ {j} :
       /\ coll'[c].elements = coll[c].elements /\ coll'[c].jobCounter = coll[c].jobCounter
       /\ coll'[c].completed = coll[c].completed
       /\ \/ coll'[c].api \/ status'[c] = "New"
          \/ coll'[c].api = coll[c].api /\ status'[c] = status[c]
  /\ blocked \ Below(j) \subseteq blocked'
  /\ dependencies' \subseteq dependencies
  /\ \A d \in dependencies \ dependencies' : Settled(d[2])'
  /\ Main[w].at = "callEnd" => ended'[j] > 0 /\ status'[j] = status[j]

(* The job of a main call neither waits nor is done.                       *)
LEMMA HeldFacts ==
  ASSUME Inv, NEW w \in Workers, Main[w].at \in Own \cup Reporting, NEW j, j = Main[w].of
  PROVE  /\ j \in Jobs /\ status[j] \notin {"New"} /\ ~ Queued(j) /\ ended[j] = 0
         /\ ~ Waits(j) /\ ~ Done(j)
<1>1. MainOK(Main[w])
  BY DEF Inv, JobInv, MainInvs
<1>2. j \in Jobs /\ status[j] # "New" /\ ~ Queued(j) /\ ended[j] = 0
  <2>1. CASE Main[w].at \in Own
    BY <2>1, OwnFacts DEF Inv
  <2>2. CASE Main[w].at \in Reporting
    <3>1. j \in Jobs /\ IsCollection(j)
      BY <1>1, <2>2, FamilyFacts DEF MainOK, IsCollection, Inv
    <3>2. CASE Itself(w, j, {"finished", "enqueue"})
      BY <3>1, <3>2, ItselfFacts, PlacedFacts DEF Inv
    <3>3. CASE ~ Itself(w, j, {"finished", "enqueue"})
      <4>1. Main[w].by # Main[w].of \/ Main[w].at \in {"process", "restore"}
        BY <2>2, <3>3 DEF Itself, Reporting
      <4> QED
        BY <2>2, <4>1, ReporterFacts, PlacedFacts DEF Inv
    <3> QED
      BY <3>2, <3>3
  <2> QED
    BY <2>1, <2>2
<1> QED
  BY <1>2 DEF Waits, Done

(* Of the elements of another collection than the one of the step.         *)
LEMMA OthersWait ==
  ASSUME Inv, NEW w, NEW t, NEW j, LocalStep(w, t, j), w \in Workers,
         NEW c \in DOMAIN coll \ {j}, NEW x \in ToSet(coll[c].elements)
  PROVE  /\ Waits(x) => Waits(x)'
         /\ Done(x) => Done(x)'
         /\ ~ Queued(x) => ~ Queued(x)'
<1>1. j \in Jobs /\ ~ Waits(j) /\ ~ Done(j) /\ ~ Queued(j)'
  BY HeldFacts DEF LocalStep
<1>2. x \in Jobs /\ x \notin Below(j)
  <2>1. x \in Jobs /\ x \in Kids(c)
    BY ElementFacts DEF Inv, JobInv
  <2>2. IsCollection(j) => Kids(j) \cap Kids(c) = {}
    BY FamilyFacts DEF Inv, IsCollection
  <2> QED
    BY <2>1, <2>2 DEF Below
<1>3. CASE x = j
  BY <1>1, <1>3
<1>4. CASE x # j
  <2>1. status'[x] = status[x] /\ (Queued(x)' <=> Queued(x)) /\ ended'[x] = ended[x]
    BY <1>2, <1>4 DEF LocalStep
  <2>2. x \in blocked => x \in blocked'
    BY <1>2 DEF LocalStep
  <2> QED
    BY <2>1, <2>2 DEF Waits, Done, Blocks
<1> QED
  BY <1>3, <1>4

(* What is over stays over.                                                *)
LEMMA LocalFinished ==
  ASSUME Inv, NEW w, NEW t, NEW j, LocalStep(w, t, j), w \in Workers, NEW x \in Jobs, Finished(x)
  PROVE  /\ Finished(x)' 
         /\ status[x] \notin {"New", "Queued"} => status'[x] = status[x]
<1>1. /\ Main' = [Main EXCEPT ![w] = MainOf(t)]
  BY StackMoves DEF LocalStep, Inv
<1>2. CASE x = j
  <2>1. Main[w].at = "callEnd"
    <3>1. ended[x] = 0
      BY <1>2, HeldFacts DEF LocalStep
    <3>2. PICK v \in Workers : Main[v].at = "callEnd" /\ Main[v].of = x
      BY <3>1 DEF Finished, Inv, Typed
    <3>3. v = w
      BY <1>2, <3>2, OwnFacts DEF LocalStep, Inv, Own
    <3> QED
      BY <3>2, <3>3
  <2> QED
    BY <1>2, <2>1 DEF LocalStep, Finished
<1>3. CASE x # j
  <2>1. ended'[x] = ended[x]
    BY <1>3 DEF LocalStep
  <2>2. \A v \in Workers : Main[v].at = "callEnd" /\ Main[v].of = x => Main'[v] = Main[v]
    BY <1>1, <1>3 DEF LocalStep, Main
  <2> QED
    BY <1>3, <2>1, <2>2 DEF LocalStep, Finished
<1> QED
  BY <1>2, <1>3

(* Such a step keeps the order in the other sequences, and all that is     *)
(* said of the other threads.                                              *)
LEMMA LocalKeeps ==
  ASSUME Inv, SeqInv, NEW w \in Workers, NEW t, NEW j, LocalStep(w, t, j),
         j \in DOMAIN coll => OrderOK(j)' /\ ApiOK(j)',
         ReportOK(MainOf(t))', StopOK(t)'
  PROVE  SeqInv'
<1>1. /\ Main' = [Main EXCEPT ![w] = MainOf(t)] /\ stack'[w] = t
      /\ \A v \in Workers : v # w => stack'[v] = stack[v]
  BY StackMoves DEF LocalStep, Inv
<1>2. /\ \A v \in Workers : v # w => Main'[v] = Main[v]
      /\ Main'[w] = MainOf(t)
  BY <1>1 DEF Main
<1>3. /\ program' = program /\ DOMAIN coll' = DOMAIN coll
      /\ \A c : IsSequence(c)' <=> IsSequence(c)
  BY DEF LocalStep, IsSequence
<1>4. \A c \in DOMAIN coll \ {j} :
        /\ coll'[c].elements = coll[c].elements /\ coll'[c].jobCounter = coll[c].jobCounter
        /\ coll'[c].completed = coll[c].completed
  BY DEF LocalStep
<1>5. \A c \in DOMAIN coll : DOMAIN coll[c].elements = 1..Len(coll[c].elements)
                             /\ \A i \in DOMAIN coll[c].elements :
                                  coll[c].elements[i] \in ToSet(coll[c].elements)
  BY ElementFacts, LenProperties DEF Inv, JobInv, ToSet
<1>6. OrderInv'
  <2> SUFFICES ASSUME NEW c \in DOMAIN coll, c # j PROVE OrderOK(c)'
    BY <1>3 DEF OrderInv
  <2>1. OrderOK(c)
    BY DEF SeqInv, OrderInv
  <2>2. \A x \in ToSet(coll[c].elements) : (Waits(x) => Waits(x)') /\ (Done(x) => Done(x)')
    BY OthersWait
  <2> QED
    BY <1>3, <1>4, <1>5, <2>1, <2>2 DEF OrderOK
<1>7. ReportInv'
  <2> SUFFICES ASSUME NEW v \in Workers, v # w PROVE ReportOK(Main[v])'
    BY <1>2 DEF ReportInv
  <2>f. PICK f : f = Main[v]
    OBVIOUS
  <2>1. Main'[v] = f /\ ReportOK(f) /\ MainOK(f)
    BY <1>2, <2>f DEF SeqInv, ReportInv, Inv, JobInv, MainInvs
  <2>2. CASE f.at \in Reporting /\ IsSequence(f.of)
    <3>c. PICK c : c = f.of
      OBVIOUS
    <3>1. c \in DOMAIN coll /\ c \in Jobs
      BY <2>1, <2>2, <3>c, FamilyFacts DEF MainOK, IsCollection, Inv
    <3>2. c # j
      <4>1. CASE Main[w].at \in Own
        BY <2>f, <2>2, <3>c, <4>1, OwnFacts DEF LocalStep, Inv
      <4>2. CASE Main[w].at \in Reporting
        BY <2>f, <2>2, <3>c, <4>2, SoleReporter DEF LocalStep, SeqInv
      <4> QED
        BY <4>1, <4>2 DEF LocalStep
    <3>3. /\ coll'[c].elements = coll[c].elements /\ coll'[c].completed = coll[c].completed
          /\ Current(c)' = Current(c)
      BY <1>4, <3>1, <3>2 DEF Current
    <3>4. f.at = "restore" => status'[c] = status[c]
      <4> SUFFICES ASSUME f.at = "restore" PROVE status'[c] = status[c]
        OBVIOUS
      <4>1. status[c] \in Final
        BY <2>1, <3>c DEF ReportOK, MainOK
      <4> QED
        BY <3>1, <3>2, <4>1 DEF LocalStep, Final
    <3>5. f.at = "enqueue" => ToSet(coll[c].elements) \subseteq blocked'
      <4>1. ToSet(coll[c].elements) \cap Below(j) = {}
        <5>1. ToSet(coll[c].elements) \subseteq Kids(c)
          BY <3>1, ElementFacts DEF Inv, JobInv
        <5>2. IsCollection(j) => Kids(j) \cap Kids(c) = {}
          BY <3>1, <3>2, FamilyFacts DEF Inv, IsCollection
        <5> QED
          BY <5>1, <5>2 DEF Below
      <4>2. blocked \ Below(j) \subseteq blocked'
        BY DEF LocalStep
      <4> QED
        BY <2>1, <2>2, <3>c, <4>1, <4>2 DEF ReportOK
    <3>6. ReportOK(f)'
      BY <1>3, <2>1, <2>2, <3>c, <3>3, <3>4, <3>5 DEF ReportOK
    <3> QED
      BY <2>1, <3>6 DEF ReportOK
  <2>3. CASE ~ (f.at \in Reporting /\ IsSequence(f.of))
    <3>1. f.at # "restore"
      BY <2>1, <2>3 DEF ReportOK, Reporting
    <3>2. ReportOK(f)'
      BY <1>3, <2>3, <3>1 DEF ReportOK
    <3> QED
      BY <2>1, <3>2 DEF ReportOK
  <2> QED
    BY <2>2, <2>3
<1>8. StopInv'
  <2> SUFFICES ASSUME NEW v \in Workers, v # w PROVE StopOK(stack[v])'
    BY <1>1 DEF StopInv
  <2>s. PICK s : s = stack[v]
    OBVIOUS
  <2>1. stack'[v] = s /\ StopOK(s) /\ Main[v] = MainOf(s)
    BY <1>1, <2>s DEF SeqInv, StopInv, Main
  <2>2. CASE s # <<>> /\ MainOf(s).at = "restore"
    <3>c. PICK c : c = MainOf(s).of
      OBVIOUS
    <3>1. c \in DOMAIN coll /\ IsSequence(c)
      BY <2>1, <2>2, <3>c DEF SeqInv, ReportInv, ReportOK, Inv, JobInv, MainInvs, MainOK,
                             Reporting, IsCollection
    <3>2. c # j
      <4>1. CASE Main[w].at \in Own
        BY <2>1, <2>2, <3>c, <4>1, OwnFacts DEF LocalStep, Inv, Reporting
      <4>2. CASE Main[w].at \in Reporting
        BY <2>1, <2>2, <3>1, <3>c, <4>2, SoleReporter DEF LocalStep, SeqInv, Reporting
      <4> QED
        BY <4>1, <4>2 DEF LocalStep
    <3>3. coll'[c].elements = coll[c].elements
      BY <1>4, <3>1, <3>2
    <3>4. \A x \in ToSet(coll[c].elements) : ~ Queued(x) => ~ Queued(x)'
      BY <3>1, <3>2, OthersWait
    <3>5. StopOK(s)'
      BY <1>5, <2>1, <2>2, <3>c, <3>1, <3>3, <3>4 DEF StopOK
    <3> QED
      BY <2>1, <3>5 DEF StopOK
  <2>3. CASE ~ (s # <<>> /\ MainOf(s).at = "restore")
    BY <2>1, <2>3 DEF StopOK
  <2> QED
    BY <2>2, <2>3
<1>9. ApiInv'
  <2> SUFFICES ASSUME NEW c \in DOMAIN coll, c # j PROVE ApiOK(c)'
    BY <1>3 DEF ApiInv
  <2>1. ApiOK(c) /\ c \in Jobs
    BY FamilyFacts DEF SeqInv, ApiInv, Inv
  <2>2. CASE Finished(c)
    BY <2>1, <2>2, LocalFinished DEF ApiOK
  <2>3. CASE Stopped(c)
    <3>1. PICK v \in Workers :
            Main[v].at = "restore" /\ Main[v].of = c /\ stack[v][1].at = "restore"
      BY <2>3 DEF Stopped
    <3>2. v # w
      BY <3>1 DEF LocalStep
    <3>3. Stopped(c)'
      BY <1>1, <1>2, <3>1, <3>2 DEF Stopped
    <3> QED
      BY <3>3 DEF ApiOK
  <2>4. CASE status[c] = "New" \/ coll[c].api
    BY <2>1, <2>4 DEF LocalStep, ApiOK
  <2> QED
    BY <2>1, <2>2, <2>3, <2>4 DEF ApiOK
<1>10. DepInv'
  <2>0. dependencies \subseteq Jobs \X Jobs /\ program.dependsOn \subseteq Jobs \X Jobs
    BY ProgramsAssumption DEF Inv, Typed
  <2>1. ASSUME NEW d \in dependencies' PROVE Queued(d[1])' \/ status'[d[1]] = "New"
    <3>1. d \in dependencies /\ d[1] \in Jobs
      BY <2>0, <2>1 DEF LocalStep
    <3>2. Queued(d[1]) \/ status[d[1]] = "New"
      BY <3>1 DEF SeqInv, DepInv
    <3>3. d[1] # j
      BY <3>2, HeldFacts DEF LocalStep
    <3> QED
      BY <3>1, <3>2, <3>3 DEF LocalStep
  <2>2. ASSUME NEW d \in program.dependsOn \ program.removed
        PROVE  d \in dependencies' \/ Settled(d[2])'
    <3>1. d \in dependencies \/ Settled(d[2])
      BY DEF SeqInv, DepInv
    <3>2. d[2] \in Jobs
      BY <2>0, <2>2
    <3>3. CASE Settled(d[2])
      <4>1. Finished(d[2]) /\ status[d[2]] = "Success"
        BY <3>3 DEF Settled
      <4> QED
        BY <3>2, <4>1, LocalFinished DEF Settled
    <3> QED
      BY <3>1, <3>3 DEF LocalStep
  <2> QED
    BY <1>3, <2>1, <2>2 DEF DepInv
<1> QED
  BY <1>6, <1>7, <1>8, <1>9, <1>10 DEF SeqInv

(* What the order of a sequence is about.                                  *)
Ordering == {"elements", "jobCounter", "completed", "api"}

(* A step of a thread that concerns no order.                              *)
StillStep(w, t) ==
  /\ Goes(w, t) /\ CollectionsKept(Ordering)
  /\ UNCHANGED <<program, assignments, status, ended, blocked, dependencies>>
  /\ Main[w].at \notin {"callEnd", "restore"} /\ TokenOf(MainOf(t)) = TokenOf(Main[w])
  /\ MainOf(t).at \in Reporting => MainOf(t).at = "finished" /\ MainOf(t).by = MainOf(t).of

(* The same, or stop() goes on.                                            *)
StopStep(w, t) ==
  /\ Goes(w, t) /\ coll' = coll
  /\ UNCHANGED <<program, assignments, status, ended, blocked, dependencies>>
  /\ stack[w] # <<>> /\ stack[w][1].at \in StopPlaces /\ t # <<>>
  /\ Main[w].at = "restore" /\ MainOf(t) = Main[w]
  /\ t[1].at \in {"stop", "stopDequeue", "stopElements", "stopElement", "restore"}
  /\ t[1].at = "restore" => ~ coll[Main[w].of].api
  /\ t[1].at # "restore" => t[1].k = 1

(* A step that is about no order keeps it.                                 *)
LEMMA NothingMoves ==
  ASSUME Inv, SeqInv, NEW w \in Workers, NEW t, StillStep(w, t) \/ StopStep(w, t), StopOK(t)
  PROVE  SeqInv'
<1>1. /\ Main' = [Main EXCEPT ![w] = MainOf(t)] /\ stack'[w] = t
      /\ \A v \in Workers : v # w => stack'[v] = stack[v]
  BY StackMoves DEF StillStep, StopStep, Inv
<1>2. /\ \A v \in Workers : v # w => Main'[v] = Main[v]
      /\ Main'[w] = MainOf(t)
  BY <1>1 DEF Main
<1>3. UNCHANGED <<program, assignments, status, ended, blocked, dependencies>>
  BY DEF StillStep, StopStep
<1>4. /\ DOMAIN coll' = DOMAIN coll
      /\ \A c \in DOMAIN coll :
           /\ coll'[c].elements = coll[c].elements /\ coll'[c].jobCounter = coll[c].jobCounter
           /\ coll'[c].completed = coll[c].completed /\ coll'[c].api = coll[c].api
  BY DEF StillStep, StopStep, CollectionsKept, Ordering
<1>5. \A x : /\ Waits(x)' <=> Waits(x)
             /\ Done(x)' <=> Done(x)
             /\ Queued(x)' <=> Queued(x)
             /\ IsSequence(x)' <=> IsSequence(x)
  BY <1>3 DEF Waits, Done, Queued, Blocks, IsSequence
<1>6. OrderInv'
  BY <1>4, <1>5 DEF SeqInv, OrderInv, OrderOK
<1>7. \A f : MainOK(f) /\ ReportOK(f) => ReportOK(f)'
  <2> SUFFICES ASSUME NEW f, MainOK(f), ReportOK(f) PROVE ReportOK(f)'
    OBVIOUS
  <2>1. f.at \in Reporting => /\ f.of \in DOMAIN coll /\ coll'[f.of].elements = coll[f.of].elements
                              /\ coll'[f.of].completed = coll[f.of].completed
    BY <1>4 DEF MainOK, IsCollection
  <2> QED
    BY <1>3, <1>5, <2>1 DEF ReportOK, Current
<1>8. ReportInv'
  <2> SUFFICES ASSUME NEW v \in Workers PROVE ReportOK(Main[v])'
    BY DEF ReportInv
  <2>f. PICK f : f = IF v = w THEN MainOf(t) ELSE Main[v]
    OBVIOUS
  <2>1. Main'[v] = f
    BY <1>2, <2>f
  <2>2. ReportOK(f)'
    <3>1. CASE f = Main[v]
      BY <1>7, <3>1 DEF SeqInv, ReportInv, Inv, JobInv, MainInvs
    <3>2. CASE v = w /\ StillStep(w, t)
      <4>1. f.at \in Reporting => f.at = "finished" /\ f.by = f.of
        BY <2>f, <3>2 DEF StillStep
      <4> QED
        BY <4>1 DEF ReportOK, Reporting
    <3> QED
      BY <2>f, <3>1, <3>2 DEF StopStep
  <2> QED
    BY <2>1, <2>2 DEF ReportOK
<1>9. StopInv'
  <2>1. \A s : ReportOK(MainOf(s)) /\ MainOK(MainOf(s)) /\ StopOK(s) => StopOK(s)'
    <3> SUFFICES ASSUME NEW s, ReportOK(MainOf(s)), MainOK(MainOf(s)), StopOK(s) PROVE StopOK(s)'
      OBVIOUS
    <3>1. MainOf(s).at = "restore" => coll'[MainOf(s).of].elements = coll[MainOf(s).of].elements
      BY <1>4 DEF MainOK, IsCollection, Reporting
    <3> QED
      BY <1>5, <3>1 DEF StopOK
  <2>2. \A v \in Workers : Main[v] = MainOf(stack[v])
    BY DEF Main
  <2>3. ASSUME NEW v \in Workers, v # w PROVE StopOK(stack[v])'
    <3>1. ReportOK(Main[v]) /\ MainOK(Main[v]) /\ StopOK(stack[v])
      BY DEF SeqInv, ReportInv, StopInv, Inv, JobInv, MainInvs
    <3>2. StopOK(stack[v])'
      <4>s. PICK s : s = stack[v]
        OBVIOUS
      <4>1. StopOK(s)' /\ stack'[v] = s
        BY <1>1, <2>1, <2>2, <2>3, <3>1, <4>s
      <4> QED
        BY <4>1 DEF StopOK
    <3> QED
      BY <3>2
  <2>4. StopOK(t)'
    <3>1. CASE StillStep(w, t)
      BY <3>1 DEF StillStep, StopOK, Reporting
    <3>2. CASE StopStep(w, t)
      <4>1. ReportOK(Main[w]) /\ MainOK(Main[w])
        BY DEF SeqInv, ReportInv, Inv, JobInv, MainInvs
      <4> QED
        BY <2>1, <3>2, <4>1 DEF StopStep
    <3> QED
      BY <3>1, <3>2
  <2>5. StopOK(stack[w])'
    BY <1>1, <2>4 DEF StopOK
  <2> QED
    BY <2>3, <2>5 DEF StopInv
<1>10. \A x : Finished(x) => Finished(x)'
  <2>1. \A v \in Workers : Main[v].at = "callEnd" => Main'[v] = Main[v]
    BY <1>2 DEF StillStep, StopStep
  <2> QED
    BY <1>3, <2>1 DEF Finished
<1>11. \A x : Stopped(x) => Stopped(x)'
  <2> SUFFICES ASSUME NEW x, Stopped(x) PROVE Stopped(x)'
    OBVIOUS
  <2>1. PICK v \in Workers : Main[v].at = "restore" /\ Main[v].of = x /\ stack[v][1].at = "restore"
    BY DEF Stopped
  <2>2. v # w
    BY <2>1 DEF StillStep, StopStep, StopPlaces
  <2> QED
    BY <1>1, <1>2, <2>1, <2>2 DEF Stopped
<1>12. ApiInv'
  BY <1>3, <1>4, <1>10, <1>11 DEF SeqInv, ApiInv, ApiOK
<1>13. DepInv'
  BY <1>3, <1>5, <1>10 DEF SeqInv, DepInv, Settled
<1> QED
  BY <1>6, <1>8, <1>9, <1>12, <1>13 DEF SeqInv

(* stop() goes on, or returns as the collection knows no queue: it is      *)
(* being stopped, so that it always does.                                  *)
LEMMA StopStepOK ==
  ASSUME Inv, SeqInv, NEW w \in Workers, NEW t, StopStep(w, t)
  PROVE  StopOK(t)
<1>c. PICK c : c = Main[w].of
  OBVIOUS
<1>1. /\ Main[w].at = "restore" /\ MainOf(t) = Main[w] /\ stack[w] # <<>>
      /\ stack[w][1].at \in StopPlaces
  BY DEF StopStep
<1>2. c \in DOMAIN coll /\ IsSequence(c) /\ Main[w].at \in Reporting
  BY <1>1, <1>c DEF SeqInv, ReportInv, ReportOK, Inv, JobInv, MainInvs, MainOK, Reporting,
                    IsCollection
<1>3. /\ c \in Jobs /\ ended[c] = 0 /\ status[c] # "New"
  BY <1>c, <1>2, HeldFacts DEF Inv
<1>4. ~ Finished(c)
  <2>1. \A v \in Workers : Main[v].at \in Own => Main[v].of # c
    BY <1>c, <1>1, <1>2, ReporterFacts DEF Inv
  <2> QED
    BY <1>3, <2>1 DEF Finished, Own
<1>5. ~ Stopped(c)
  <2> SUFFICES ASSUME NEW v \in Workers, Main[v].at = "restore", Main[v].of = c,
                      stack[v][1].at = "restore"
               PROVE  FALSE
    BY DEF Stopped
  <2>1. v # w
    BY <1>1 DEF StopPlaces
  <2> QED
    BY <1>c, <1>2, <2>1, SoleReporter DEF SeqInv, Reporting
<1>6. coll[c].api
  BY <1>2, <1>3, <1>4, <1>5 DEF SeqInv, ApiInv, ApiOK
<1>7. t[1].at # "restore" /\ t[1].k = 1
  BY <1>c, <1>6 DEF StopStep
<1>8. coll[c].elements \in Seq(Jobs) /\ DOMAIN coll[c].elements = 1..Len(coll[c].elements)
  BY <1>2, ElementFacts, LenProperties DEF Inv, JobInv
<1> QED
  BY <1>1, <1>c, <1>7, <1>8 DEF StopOK

(* Which queue a collection is in is all that changes.                     *)
LEMMA QueueKnown ==
  ASSUME Typed, NEW js
  PROVE  /\ DOMAIN KnowQueue(js, coll) = DOMAIN coll
         /\ DOMAIN ForgetQueue(js, coll) = DOMAIN coll
         /\ \A d \in DOMAIN coll : \A k \in {KnowQueue(js, coll), ForgetQueue(js, coll)} :
              /\ k[d].elements = coll[d].elements /\ k[d].jobCounter = coll[d].jobCounter
              /\ k[d].completed = coll[d].completed
              /\ d \notin js => k[d].api = coll[d].api
              /\ d \in js => (k[d].api <=> k = KnowQueue(js, coll))
<1>1. coll \in [DOMAIN program.elements -> CollSet]
  BY DEF Typed
<1>2. DOMAIN KnowQueue(js, coll) = DOMAIN coll /\ DOMAIN ForgetQueue(js, coll) = DOMAIN coll
  BY DEF KnowQueue, ForgetQueue
<1>3. ASSUME NEW d \in DOMAIN coll
      PROVE  LET k == KnowQueue(js, coll)
                 g == ForgetQueue(js, coll)
             IN  /\ k[d].elements = coll[d].elements /\ k[d].jobCounter = coll[d].jobCounter
                 /\ k[d].completed = coll[d].completed
                 /\ g[d].elements = coll[d].elements /\ g[d].jobCounter = coll[d].jobCounter
                 /\ g[d].completed = coll[d].completed
                 /\ d \notin js => k[d].api = coll[d].api /\ g[d].api = coll[d].api
                 /\ d \in js => k[d].api = TRUE /\ g[d].api = FALSE
  <2>r. PICK r : r = coll[d]
    OBVIOUS
  <2>1. r \in CollSet /\ r.api \in BOOLEAN
    BY <1>1, <2>r DEF CollSet
  <2>2. KnowQueue(js, coll)[d] = [r EXCEPT !.api = r.api \/ d \in js]
    BY <2>r DEF KnowQueue
  <2>3. ForgetQueue(js, coll)[d] = [r EXCEPT !.api = r.api /\ d \notin js]
    BY <2>r DEF ForgetQueue
  <2>4. \A b \in BOOLEAN : LET q == [r EXCEPT !.api = b] IN
          /\ q.elements = r.elements /\ q.jobCounter = r.jobCounter /\ q.completed = r.completed
          /\ q.api = b
    BY <2>1 DEF CollSet
  <2>b. PICK b \in BOOLEAN : b <=> (r.api \/ d \in js)
    OBVIOUS
  <2>g. PICK g \in BOOLEAN : g <=> (r.api /\ d \notin js)
    OBVIOUS
  <2>5. b = (r.api \/ d \in js) /\ g = (r.api /\ d \notin js)
    BY <2>1, <2>b, <2>g
  <2>6. /\ KnowQueue(js, coll)[d] = [r EXCEPT !.api = b]
        /\ ForgetQueue(js, coll)[d] = [r EXCEPT !.api = g]
    BY <2>2, <2>3, <2>5
  <2>7. /\ d \notin js => b = r.api /\ g = r.api
        /\ d \in js => b = TRUE /\ g = FALSE
    BY <2>1, <2>b, <2>g
  <2> QED
    BY <2>r, <2>4, <2>6, <2>7
<1>4. ASSUME NEW d \in DOMAIN coll, d \in js, KnowQueue(js, coll) = ForgetQueue(js, coll)
      PROVE  FALSE
  BY <1>3, <1>4
<1> QED
  BY <1>2, <1>3, <1>4

(* A thread takes a job out of the queue.                                  *)
TakeStep(w, t, j) ==
  /\ Goes(w, t) /\ Main[w].at = "take" /\ MainOf(t).at = "store" /\ MainOf(t).of = j
  /\ j \in Jobs /\ Queued(j) /\ CanRun(j)
  /\ \A x : Queued(x)' <=> Queued(x) /\ x # j
  /\ UNCHANGED <<program, status, ended, coll, blocked, dependencies>>

(* Taking a job keeps the order: the job was not blocked.                  *)
LEMMA TakeOrdered ==
  ASSUME Inv, SeqInv, NEW w \in Workers, NEW t, NEW j, TakeStep(w, t, j)
  PROVE  SeqInv'
<1>1. /\ Main' = [Main EXCEPT ![w] = MainOf(t)] /\ stack'[w] = t
      /\ \A v \in Workers : v # w => stack'[v] = stack[v]
  BY StackMoves DEF TakeStep, Inv
<1>2. /\ \A v \in Workers : v # w => Main'[v] = Main[v]
      /\ Main'[w] = MainOf(t)
  BY <1>1 DEF Main
<1>3. UNCHANGED <<program, status, ended, coll, blocked, dependencies>>
  BY DEF TakeStep
<1>4. ~ Waits(j) /\ \A d \in dependencies : d[1] # j
  BY DEF TakeStep, CanRun, Waits, HasUnresolvedDependencies, Inv, JobInv, QueueInv
<1>5. \A x : /\ Waits(x) => Waits(x)'
             /\ Done(x)' <=> Done(x)
             /\ ~ Queued(x) => ~ Queued(x)'
  BY <1>3, <1>4 DEF TakeStep, Waits, Done, Blocks
<1>6. OrderInv'
  BY <1>3, <1>5 DEF SeqInv, OrderInv, OrderOK, IsSequence
<1>7. ReportInv'
  <2> SUFFICES ASSUME NEW v \in Workers PROVE ReportOK(Main[v])'
    BY DEF ReportInv
  <2>f. PICK f : f = Main'[v]
    OBVIOUS
  <2>1. ReportOK(f)'
    BY <1>2, <1>3, <2>f DEF SeqInv, ReportInv, ReportOK, TakeStep, Reporting, IsSequence, Current
  <2> QED
    BY <2>f, <2>1 DEF ReportOK
<1>8. StopInv'
  <2> SUFFICES ASSUME NEW v \in Workers PROVE StopOK(stack[v])'
    BY DEF StopInv
  <2>s. PICK s : s = stack'[v]
    OBVIOUS
  <2>1. StopOK(s) \/ (s = t /\ MainOf(s).at # "restore")
    BY <1>1, <2>s DEF SeqInv, StopInv, TakeStep
  <2>2. StopOK(s)'
    BY <1>3, <1>5, <2>1 DEF StopOK
  <2> QED
    BY <2>s, <2>2 DEF StopOK
<1>9. \A x : Finished(x) => Finished(x)'
  BY <1>2, <1>3 DEF Finished, TakeStep
<1>10. \A x : Stopped(x) => Stopped(x)'
  BY <1>1, <1>2 DEF Stopped, TakeStep
<1>11. ApiInv'
  BY <1>3, <1>9, <1>10 DEF SeqInv, ApiInv, ApiOK
<1>12. DepInv'
  BY <1>3, <1>4, <1>9 DEF SeqInv, DepInv, Settled, TakeStep
<1> QED
  BY <1>6, <1>7, <1>8, <1>11, <1>12 DEF SeqInv

(* A user puts jobs into the queue that are new, and of no collection, or  *)
(* (when K is empty) does what is not about jobs.                          *)
UserQueues(K) ==
  /\ K \subseteq Jobs /\ \A e \in K : status[e] = "New" /\ ~ IsElement(e)
  /\ \A x : Queued(x)' <=> Queued(x) \/ x \in K
  /\ status' = [j \in Jobs |-> IF j \in K THEN "Queued" ELSE status[j]]
  /\ DOMAIN coll' = DOMAIN coll
  /\ \A c \in DOMAIN coll :
       /\ coll'[c].elements = coll[c].elements /\ coll'[c].jobCounter = coll[c].jobCounter
       /\ coll'[c].completed = coll[c].completed
       /\ c \in K => coll'[c].api
       /\ c \notin K => coll'[c].api = coll[c].api
  /\ UNCHANGED <<program, stack, ended, blocked>>
  /\ dependencies' \subseteq dependencies
  /\ dependencies \subseteq dependencies' \cup program.removed

(* What a user does keeps the order: what is enqueued is no element yet.   *)
LEMMA UserOrdered ==
  ASSUME Inv, SeqInv, NEW K, UserQueues(K)
  PROVE  SeqInv'
<1>1. Main' = Main
  BY DEF Main, UserQueues
<1>2. UNCHANGED <<program, stack, ended, blocked>> /\ DOMAIN coll' = DOMAIN coll
  BY DEF UserQueues
<1>3. \A c \in DOMAIN coll :
       /\ coll'[c].elements = coll[c].elements /\ coll'[c].jobCounter = coll[c].jobCounter
       /\ coll'[c].completed = coll[c].completed
  BY DEF UserQueues
<1>4. \A c \in DOMAIN coll : \A x \in ToSet(coll[c].elements) :
        x \in Jobs /\ x \notin K /\ status'[x] = status[x] /\ (Queued(x)' <=> Queued(x))
  <2> SUFFICES ASSUME NEW c \in DOMAIN coll, NEW x \in ToSet(coll[c].elements)
               PROVE  /\ x \in Jobs /\ x \notin K /\ status'[x] = status[x]
                      /\ Queued(x)' <=> Queued(x)
    OBVIOUS
  <2>1. x \in Jobs /\ x \in Kids(c)
    BY ElementFacts DEF Inv, JobInv
  <2>2. x \notin K
    BY <2>1 DEF UserQueues, IsElement
  <2> QED
    BY <2>1, <2>2 DEF UserQueues
<1>5. \A c \in DOMAIN coll : \A x \in ToSet(coll[c].elements) :
        /\ Waits(x)' <=> Waits(x)
        /\ Done(x)' <=> Done(x)
  BY <1>2, <1>4 DEF Waits, Done, Blocks
<1>6. \A c \in DOMAIN coll : \A i \in DOMAIN coll[c].elements :
        coll[c].elements[i] \in ToSet(coll[c].elements)
  BY DEF ToSet
<1>7. OrderInv'
  BY <1>2, <1>3, <1>5, <1>6 DEF SeqInv, OrderInv, OrderOK, IsSequence
<1>8. \A x \in Jobs : status[x] # "New" => status'[x] = status[x]
  BY DEF UserQueues
<1>9. ReportInv'
  <2> SUFFICES ASSUME NEW v \in Workers PROVE ReportOK(Main[v])'
    BY DEF ReportInv
  <2>f. PICK f : f = Main[v]
    OBVIOUS
  <2>1. MainOK(f) /\ ReportOK(f)
    BY <2>f DEF SeqInv, ReportInv, Inv, JobInv, MainInvs
  <2>2. f.at \in Reporting => f.of \in DOMAIN coll /\ f.of \in Jobs
    BY <2>1, FamilyFacts DEF MainOK, IsCollection, Inv
  <2>3. f.at = "restore" => status'[f.of] = status[f.of]
    BY <1>8, <2>1, <2>2 DEF MainOK, ReportOK, Final, Reporting
  <2>4. ReportOK(f)'
    BY <1>2, <1>3, <2>1, <2>2, <2>3 DEF ReportOK, IsSequence, Current
  <2> QED
    BY <1>1, <2>f, <2>4 DEF ReportOK
<1>10. StopInv'
  <2> SUFFICES ASSUME NEW v \in Workers PROVE StopOK(stack[v])'
    BY DEF StopInv
  <2>s. PICK s : s = stack[v]
    OBVIOUS
  <2>1. StopOK(s) /\ MainOK(MainOf(s))
    BY <2>s DEF SeqInv, StopInv, Inv, JobInv, MainInvs, Main
  <2>2. MainOf(s).at = "restore" => MainOf(s).of \in DOMAIN coll
    BY <2>1 DEF MainOK, Reporting, IsCollection
  <2>3. StopOK(s)'
    BY <1>3, <1>4, <1>6, <2>1, <2>2 DEF StopOK
  <2> QED
    BY <1>2, <2>s, <2>3 DEF StopOK
<1>11. \A x : (Finished(x)' <=> Finished(x)) /\ (Stopped(x)' <=> Stopped(x))
  BY <1>1, <1>2 DEF Finished, Stopped
<1>12. ApiInv'
  <2> SUFFICES ASSUME NEW c \in DOMAIN coll PROVE ApiOK(c)'
    BY <1>2 DEF ApiInv
  <2>1. ApiOK(c) /\ c \in Jobs
    BY FamilyFacts DEF SeqInv, ApiInv, Inv
  <2> QED
    BY <1>11, <2>1 DEF ApiOK, UserQueues
<1>13. DepInv'
  <2>0. dependencies \subseteq Jobs \X Jobs /\ program.dependsOn \subseteq Jobs \X Jobs
    BY ProgramsAssumption DEF Inv, Typed
  <2>1. ASSUME NEW d \in dependencies' PROVE Queued(d[1])' \/ status'[d[1]] = "New"
    <3>1. d \in dependencies /\ d[1] \in Jobs
      BY <2>0, <2>1 DEF UserQueues
    <3>2. Queued(d[1]) \/ status[d[1]] = "New"
      BY <3>1 DEF SeqInv, DepInv
    <3> QED
      BY <3>1, <3>2 DEF UserQueues
  <2>2. ASSUME NEW d \in program.dependsOn \ program.removed
        PROVE  d \in dependencies' \/ Settled(d[2])'
    <3>1. d \in dependencies \/ Settled(d[2])
      BY DEF SeqInv, DepInv
    <3>2. d[2] \in Jobs
      BY <2>0, <2>2
    <3>3. CASE Settled(d[2])
      BY <1>8, <1>11, <3>2, <3>3 DEF Settled
    <3> QED
      BY <2>2, <3>1, <3>3 DEF UserQueues
  <2> QED
    BY <1>2, <2>1, <2>2 DEF DepInv
<1> QED
  BY <1>7, <1>9, <1>10, <1>12, <1>13 DEF SeqInv

(* At first nothing is counted, queued or reported.                        *)
LEMMA InitOrdered == Init => SeqInv
<1> SUFFICES ASSUME Init PROVE SeqInv
  OBVIOUS
<1>1. Inv /\ program \in Programs
  BY InitInv DEF Init
<1>2. \A w \in Workers : stack[w] = <<>> /\ Main[w] = None
  BY EmptyStack DEF Init, Actors, Main
<1>3. /\ DOMAIN coll = DOMAIN program.elements
      /\ \A c \in DOMAIN coll : c \in Jobs /\ coll[c].jobCounter = 0 /\ status[c] = "New"
  <2>1. DOMAIN program.elements \subseteq Jobs
    BY <1>1, ProgramsAssumption
  <2> QED
    BY <2>1 DEF Init, NewCollection
<1>4. OrderInv /\ ApiInv
  BY <1>3 DEF OrderInv, OrderOK, ApiInv, ApiOK
<1>5. ReportInv /\ StopInv
  BY <1>2, EmptyStack DEF ReportInv, ReportOK, StopInv, StopOK, None, Frame, Reporting
<1>6. DepInv
  <2>1. program.dependsOn \subseteq Jobs \X Jobs
    BY <1>1, ProgramsAssumption
  <2> QED
    BY <2>1 DEF Init, DepInv
<1> QED
  BY <1>4, <1>5, <1>6 DEF SeqInv

-------------------------------------------------------------------------------
(* What each action does *)

(* The places of the main call that no order depends on.                   *)
LEMMA StillIs ==
  ASSUME Typed, NEW w, NEW t, Goes(w, t), coll' = coll \/ CollectionsKept(Ordering),
         UNCHANGED <<program, assignments, status, ended, blocked, dependencies>>,
         Main[w].at \notin {"callEnd", "restore"},
         \/ MainOf(t) = Main[w]
         \/ TokenOf(MainOf(t)) = TokenOf(Main[w]) /\ MainOf(t).at \notin Reporting
         \/ /\ TokenOf(MainOf(t)) = TokenOf(Main[w])
            /\ MainOf(t).at = "finished" /\ MainOf(t).by = MainOf(t).of,
         Main[w].at \notin Reporting
  PROVE  StillStep(w, t)
<1>1. CollectionsKept(Ordering)
  BY DEF CollectionsKept, Typed
<1> QED
  BY <1>1 DEF StillStep

(* applyForWork() is about no order.                                       *)
LEMMA ApplyIs ==
  ASSUME Inv, NEW w \in Workers, Apply(w)
  PROVE  \E t : StillStep(w, t)
<1> DEFINE t == <<Frame("take", NoJob, NoJob)>>
<1>1. t \in Seq(FrameSet) /\ t # <<>> /\ Len(t) = 1 /\ t[1].at = "take"
  BY DEF FrameSet, Places, Statuses, Frame
<1>2. Alone(t) /\ t[Len(t)] = t[1]
  BY <1>1 DEF Alone
<1>3. Goes(w, t) /\ MainOf(t).at = "take" /\ ClearingOf(t) = {}
  BY <1>1, <1>2, AloneStack DEF Goes, Apply
<1>4. stack[w] = <<>> /\ MainOf(stack[w]) = None /\ ClearingOf(stack[w]) = {}
  BY EmptyStack DEF Apply
<1>5. Main[w].at = "none"
  BY <1>4 DEF Main, None, Frame
<1>6. /\ coll' = coll
      /\ UNCHANGED <<program, assignments, status, ended, blocked, dependencies>>
  BY DEF Apply, weaverVars, jobVars, clientVars, policyVars
<1>7. /\ TokenOf(MainOf(t)) = TokenOf(Main[w]) /\ MainOf(t).at \notin Reporting
      /\ Main[w].at \notin Reporting \cup {"callEnd"}
  BY <1>3, <1>5 DEF TokenOf, Own, Reporting
<1> HIDE DEF t
<1>8. StillStep(w, t)
  BY <1>3, <1>6, <1>7, StillIs DEF Inv, Reporting
<1> QED
  BY <1>8

(* A thread that keeps the job it was given is about no order.             *)
LEMMA StoreIs ==
  ASSUME Inv, NEW w \in Workers, Store(w)
  PROVE  \E t : StillStep(w, t)
<1> DEFINE f == [Top(w) EXCEPT !.at = "execute"]
           t == <<f>> \o Tail(stack[w])
<1>1. stack[w] # <<>> /\ Top(w).at = "store" /\ Goto(w, "execute")
      /\ held' = [held EXCEPT ![w] = Top(w).of]
      /\ UNCHANGED <<clientVars, owner, assignments, active, working, jobVars, coll, policyVars>>
  BY DEF Store, At, Is
<1>2. /\ stack[w] \in Seq(FrameSet) /\ Top(w) = stack[w][1] /\ Top(w) \in FrameSet
      /\ Alone(stack[w]) /\ Main[w] = Top(w) /\ ClearingOf(stack[w]) = {}
  BY <1>1, TopShape DEF Inv, AlonePlaces
<1>3. f \in FrameSet /\ f.at = "execute" /\ f.of = Top(w).of
      /\ stack' = [stack EXCEPT ![w] = t]
  BY <1>1, GotoIs DEF Inv, Places
<1> HIDE DEF f
<1>4. /\ t \in Seq(FrameSet) /\ Shaped(t) /\ MainOf(t) = f /\ ClearingOf(t) = {}
      /\ t # <<>> /\ t[1] = f /\ Len(t) = 1
  BY <1>2, <1>3, AloneMoves DEF AlonePlaces
<1> HIDE DEF t
<1>5. Goes(w, t)
  BY <1>3, <1>4 DEF Goes
<1>6. UNCHANGED <<program, assignments, status, ended, coll, blocked, dependencies>>
  BY <1>1 DEF jobVars, clientVars, policyVars
<1>7. /\ TokenOf(MainOf(t)) = TokenOf(Main[w]) /\ MainOf(t).at \notin Reporting
      /\ Main[w].at \notin Reporting \cup {"callEnd"}
  BY <1>1, <1>2, <1>3, <1>4 DEF TokenOf, Own, Reporting
<1>8. StillStep(w, t)
  BY <1>5, <1>6, <1>7, StillIs DEF Inv, Reporting
<1> QED
  BY <1>8

(* A thread that lets its job go is about no order.                        *)
LEMMA ClearIs ==
  ASSUME Inv, NEW w \in Workers, Clear(w)
  PROVE  \E t : StillStep(w, t)
<1> DEFINE f == [Top(w) EXCEPT !.at = "report"]
           t == <<f>> \o Tail(stack[w])
<1>1. stack[w] # <<>> /\ Top(w).at = "clear" /\ Goto(w, "report")
      /\ held' = [held EXCEPT ![w] = NoJob]
      /\ UNCHANGED <<clientVars, owner, assignments, active, working, jobVars, coll, policyVars>>
  BY DEF Clear, At, Is
<1>2. /\ stack[w] \in Seq(FrameSet) /\ Top(w) = stack[w][1] /\ Top(w) \in FrameSet
      /\ Alone(stack[w]) /\ Main[w] = Top(w) /\ ClearingOf(stack[w]) = {}
  BY <1>1, TopShape DEF Inv, AlonePlaces
<1>3. f \in FrameSet /\ f.at = "report" /\ stack' = [stack EXCEPT ![w] = t]
  BY <1>1, GotoIs DEF Inv, Places
<1> HIDE DEF f
<1>4. /\ t \in Seq(FrameSet) /\ Shaped(t) /\ MainOf(t) = f /\ ClearingOf(t) = {}
      /\ t # <<>> /\ t[1] = f /\ Len(t) = 1
  BY <1>2, <1>3, AloneMoves DEF AlonePlaces
<1> HIDE DEF t
<1>5. Goes(w, t)
  BY <1>3, <1>4 DEF Goes
<1>6. UNCHANGED <<program, assignments, status, ended, coll, blocked, dependencies>>
  BY <1>1 DEF jobVars, clientVars, policyVars
<1>7. /\ TokenOf(MainOf(t)) = TokenOf(Main[w]) /\ MainOf(t).at \notin Reporting
      /\ Main[w].at \notin Reporting \cup {"callEnd"}
  BY <1>1, <1>2, <1>3, <1>4 DEF TokenOf, Own, Reporting
<1>8. StillStep(w, t)
  BY <1>5, <1>6, <1>7, StillIs DEF Inv, Reporting
<1> QED
  BY <1>8

(* Reporting to the weaver is about no order.                              *)
LEMMA ReportIs ==
  ASSUME Inv, NEW w \in Workers, Report(w)
  PROVE  \E t : StillStep(w, t)
<1> DEFINE t == Tail(stack[w])
<1>1. stack[w] # <<>> /\ Top(w).at = "report" /\ Return(w) /\ active' = active - 1
      /\ UNCHANGED <<clientVars, owner, assignments, working, held, jobVars, coll, policyVars>>
      /\ owner["weaver"] = Nobody
  BY DEF Report, At, Is, Needs
<1>2. /\ stack[w] \in Seq(FrameSet) /\ Top(w) = stack[w][1] /\ Top(w) \in FrameSet
      /\ Alone(stack[w]) /\ Main[w] = Top(w) /\ ClearingOf(stack[w]) = {}
  BY <1>1, TopShape DEF Inv, AlonePlaces
<1>3. t = <<>> /\ t \in Seq(FrameSet) /\ stack' = [stack EXCEPT ![w] = t]
  BY <1>1, <1>2, AloneReturns DEF Return
<1> HIDE DEF t
<1>4. MainOf(t) = None /\ ClearingOf(t) = {} /\ Shaped(t) /\ Goes(w, t)
  BY <1>3, EmptyStack DEF Goes
<1>6. UNCHANGED <<program, assignments, status, ended, coll, blocked, dependencies>>
  BY <1>1 DEF jobVars, clientVars, policyVars
<1>7. /\ TokenOf(MainOf(t)) = TokenOf(Main[w]) /\ MainOf(t).at \notin Reporting
      /\ Main[w].at \notin Reporting \cup {"callEnd"}
  BY <1>1, <1>2, <1>4 DEF TokenOf, Own, Reporting, None, Frame
<1>8. StillStep(w, t)
  BY <1>4, <1>6, <1>7, StillIs DEF Inv, Reporting
<1> QED
  BY <1>8

(* The end of elementStarted() is about no order.                          *)
LEMMA StartedUnlockIs ==
  ASSUME Inv, NEW w \in Workers, StartedUnlock(w)
  PROVE  \E t : StillStep(w, t)
<1> DEFINE s == stack[w]
           t == Tail(stack[w])
<1>1. s # <<>> /\ Top(w).at = "startedUnlock" /\ Return(w)
      /\ owner' = [owner EXCEPT ![Top(w).of] = Nobody]
      /\ UNCHANGED <<clientVars, weaverVars, jobVars, coll, policyVars>>
  BY DEF StartedUnlock, At, Is, Release
<1>2. /\ s \in Seq(FrameSet) /\ Top(w) = s[1] /\ Top(w) \in FrameSet
      /\ Beginning(s) /\ Main[w] = s[Len(s)] /\ ClearingOf(s) = {}
  BY <1>1, TopShape DEF Inv
<1>3. Len(s) = 2 /\ s[2].at = "setRunning" /\ s[Len(s)] = s[2]
  BY <1>1, <1>2 DEF Beginning
<1>6. /\ t \in Seq(FrameSet) /\ Shaped(t) /\ MainOf(t) = MainOf(s) /\ t # <<>>
      /\ ClearingOf(t) = ClearingOf(s)
      /\ Len(t) = 1 /\ t[1] = s[2]
  BY <1>2, <1>3, BeginningReturns
<1>7. stack' = [stack EXCEPT ![w] = t]
  BY <1>1 DEF Return
<1>8. MainOf(s) = Main[w]
  BY DEF Main
<1> HIDE DEF s, t
<1>10. Goes(w, t)
  BY <1>6, <1>7 DEF Goes
<1>11. UNCHANGED <<program, assignments, status, ended, coll, blocked, dependencies>>
  BY <1>1 DEF weaverVars, jobVars, clientVars, policyVars
<1>12. Main[w].at = "setRunning"
  BY <1>2, <1>3
<1>13. StillStep(w, t)
  BY <1>6, <1>8, <1>10, <1>11, <1>12, StillIs DEF Inv, Reporting
<1> QED
  BY <1>13

(* execute() up to begin() is about no order.                              *)
LEMMA ExecuteIs ==
  ASSUME Inv, NEW w \in Workers, Execute(w)
  PROVE  \E t : StillStep(w, t)
<1>j. PICK j : j = Top(w).of
  OBVIOUS
<1>b. PICK calls \in BOOLEAN : calls <=> IsCollection(j) \/ HasParent(j)
  OBVIOUS
<1>c. PICK c : c = IF IsCollection(j) THEN j ELSE ParentOf(j)
  OBVIOUS
<1>f. PICK f : f = [Top(w) EXCEPT !.at = "setRunning"]
  OBVIOUS
<1>g. PICK g : g = Frame("started", c, j)
  OBVIOUS
<1>t. PICK t : t = IF calls THEN <<g, f>> \o Tail(stack[w]) ELSE <<f>> \o Tail(stack[w])
  OBVIOUS
<1>1. /\ stack[w] # <<>> /\ Top(w).at = "execute"
      /\ IsCollection(j) =>
           /\ coll' = [coll EXCEPT ![j].self = TRUE, ![j].selfIsExecuting = TRUE]
           /\ begun' = begun
      /\ ~ IsCollection(j) =>
           /\ coll' = coll
           /\ begun' = [begun EXCEPT ![j] = @ + IF HasParent(j) THEN 2 ELSE 1]
      /\ calls => Call(w, g, "setRunning")
      /\ ~ calls => Goto(w, "setRunning")
      /\ UNCHANGED <<clientVars, owner, weaverVars, status, shouldAbort, ended, policyVars>>
  BY <1>j, <1>b, <1>c, <1>g DEF Execute, At, Is
<1>2. /\ stack[w] \in Seq(FrameSet) /\ Top(w) = stack[w][1] /\ Top(w) \in FrameSet
      /\ Alone(stack[w]) /\ Main[w] = Top(w) /\ ClearingOf(stack[w]) = {}
  BY <1>1, TopShape DEF Inv, AlonePlaces
<1>3. /\ j \in Jobs /\ Main[w].at \in Own /\ j = Main[w].of
      /\ status[j] = "Queued" /\ Fresh(j) /\ j \notin Clearing /\ ended[j] = 0
      /\ IsCollection(j) => j \in DOMAIN coll /\ coll[j].jobCounter = 0
  BY <1>j, <1>1, <1>2, OwnFacts, SMTT(30) DEF Inv, MainOK, Own
<1>4. calls => c \in Jobs
  BY <1>b, <1>c, <1>3, ParentFacts, FamilyFacts DEF Inv, JobInv
<1>5. f \in FrameSet /\ f.at = "setRunning" /\ f.of = j
  BY <1>j, <1>f, <1>2 DEF FrameSet, Places
<1>6. calls => g \in FrameSet /\ g.at = "started" /\ g.of = c
               /\ stack' = [stack EXCEPT ![w] = <<g, f>> \o Tail(stack[w])]
  <2> SUFFICES ASSUME calls PROVE g \in FrameSet /\ g.at = "started" /\ g.of = c
               /\ stack' = [stack EXCEPT ![w] = <<g, f>> \o Tail(stack[w])]
    OBVIOUS
  <2>1. Call(w, Frame("started", c, j), "setRunning")
    BY <1>g, <1>1
  <2>2. "started" \in Places /\ "setRunning" \in Places /\ Typed
    BY DEF Places, Inv
  <2>3. /\ Frame("started", c, j) \in FrameSet
        /\ stack' = [stack EXCEPT ![w] =
                       <<Frame("started", c, j), [Top(w) EXCEPT !.at = "setRunning"]>>
                         \o Tail(stack[w])]
    BY <1>1, <1>3, <1>4, <2>1, <2>2, CallIs
  <2> QED
    BY <1>f, <1>g, <2>3 DEF Frame
<1>7. ~ calls => stack' = [stack EXCEPT ![w] = <<f>> \o Tail(stack[w])]
  BY <1>f, <1>1, GotoIs DEF Inv, Places
<1>8. /\ t \in Seq(FrameSet) /\ Shaped(t) /\ MainOf(t) = f /\ ClearingOf(t) = {}
      /\ t # <<>> /\ t[Len(t)] = f /\ t[1].at \in {"started", "setRunning"}
      /\ calls => Len(t) = 2 /\ t[1] = g /\ t[2] = f
      /\ ~ calls => Len(t) = 1 /\ t[1] = f
  <2>1. CASE calls
    <3>1. t = <<g, f>> \o Tail(stack[w])
      BY <1>t, <2>1
    <3>2. /\ t \in Seq(FrameSet) /\ Beginning(t) /\ MainOf(t) = f /\ ClearingOf(t) = {}
          /\ Len(t) = 2 /\ t[1] = g /\ t[2] = f
      BY <1>2, <1>5, <1>6, <2>1, <3>1, AloneBegins
    <3> QED
      BY <1>6, <2>1, <3>2, BeginningStack
  <2>2. CASE ~ calls
    BY <1>t, <1>2, <1>5, <2>2, AloneMoves DEF AlonePlaces
  <2> QED
    BY <2>1, <2>2
<1>9. stack' = [stack EXCEPT ![w] = t]
  BY <1>t, <1>6, <1>7
<1>10. Goes(w, t)
  BY <1>8, <1>9 DEF Goes
<1>11. UNCHANGED <<program, assignments, status, ended, blocked, dependencies>>
  BY <1>1 DEF weaverVars, clientVars, policyVars
<1>12. CollectionsKept(Ordering)
  <2>1. coll \in [DOMAIN program.elements -> CollSet]
    BY DEF Inv, Typed
  <2>2. CASE ~ IsCollection(j)
    BY <1>1, <2>1, <2>2 DEF CollectionsKept
  <2>3. CASE IsCollection(j)
    <3>r. PICK r : r = [coll[j] EXCEPT !.self = TRUE, !.selfIsExecuting = TRUE]
      OBVIOUS
    <3>1. j \in DOMAIN coll /\ coll[j] \in CollSet
      BY <2>1, <2>3 DEF IsCollection
    <3>2. /\ r \in CollSet /\ r.elements = coll[j].elements /\ r.api = coll[j].api
          /\ r.jobCounter = coll[j].jobCounter /\ r.completed = coll[j].completed
      BY <3>r, <3>1 DEF CollSet
    <3>3. coll' = [coll EXCEPT ![j] = r]
      BY <1>1, <2>3, <3>r
    <3>4. \A x \in Ordering : r[x] = coll[j][x]
      BY <3>2 DEF Ordering
    <3> QED
      BY <2>1, <3>1, <3>2, <3>3, <3>4 DEF CollectionsKept
  <2> QED
    BY <2>2, <2>3
<1>13. /\ TokenOf(MainOf(t)) = TokenOf(Main[w]) /\ MainOf(t).at \notin Reporting
       /\ Main[w].at \notin Reporting \cup {"callEnd"}
  BY <1>j, <1>1, <1>2, <1>5, <1>8 DEF TokenOf, Own, Reporting
<1>14. StillStep(w, t)
  BY <1>10, <1>11, <1>12, <1>13, StillIs DEF Inv, Reporting
<1> QED
  BY <1>14

(* Calling end() is about no order; what it does is a step of its own.     *)
LEMMA EndIs ==
  ASSUME Inv, NEW w \in Workers, End(w)
  PROVE  \E t : StillStep(w, t)
<1>j. PICK j : j = Top(w).of
  OBVIOUS
<1>f. PICK f : f = Frame(IF IsCollection(j) THEN "finished" ELSE "callEnd", j, j)
  OBVIOUS
<1>g. PICK g : g = [Top(w) EXCEPT !.at = "clear"]
  OBVIOUS
<1>t. PICK t : t = <<f, g>> \o Tail(stack[w])
  OBVIOUS
<1>1. /\ stack[w] # <<>> /\ Top(w).at = "end"
      /\ Call(w, Frame(IF IsCollection(j) THEN "finished" ELSE "callEnd", j, j), "clear")
      /\ UNCHANGED <<clientVars, owner, weaverVars, jobVars, coll, policyVars>>
  BY <1>j DEF End, At, Is
<1>2. j \in Jobs
  <2>1. Main[w] = Top(w)
    BY <1>1, TopShape DEF Inv, AlonePlaces
  <2> QED
    BY <1>j, <1>1, <2>1, OwnFacts DEF Inv, Own
<1>3. /\ f \in FrameSet /\ f.at = IF IsCollection(j) THEN "finished" ELSE "callEnd"
      /\ f.of = j /\ f.by = j
      /\ g \in FrameSet /\ g.at = "clear" /\ stack' = [stack EXCEPT ![w] = t]
  <2>1. (IF IsCollection(j) THEN "finished" ELSE "callEnd") \in Places /\ "clear" \in Places
    BY DEF Places
  <2> PICK p : p = IF IsCollection(j) THEN "finished" ELSE "callEnd"
    OBVIOUS
  <2>2. /\ Frame(p, j, j) \in FrameSet
        /\ [Top(w) EXCEPT !.at = "clear"] \in FrameSet
        /\ [Top(w) EXCEPT !.at = "clear"].at = "clear"
        /\ stack' = [stack EXCEPT ![w] =
                       <<Frame(p, j, j), [Top(w) EXCEPT !.at = "clear"]>> \o Tail(stack[w])]
    BY <1>1, <1>2, <2>1, CallIs DEF Inv
  <2> QED
    BY <1>f, <1>g, <1>t, <2>2 DEF Frame
<1>4. /\ Main[w] = Top(w) /\ Main[w].at \in Own /\ Main[w].of \in Jobs
      /\ Goes(w, t) /\ Taken(stack[w]) /\ Taken(t) /\ Locks(w, t)
      /\ Clearing' = Clearing /\ Main' = [Main EXCEPT ![w] = f]
      /\ t[Len(t)].at \in {"clear", "finished", "callEnd"}
  <2>1. Top(w).at \in Own \ {"callEnd"}
    BY <1>1 DEF Own
  <2>2. \E h \in FrameSet : /\ h.at = "clear" /\ f.at \in {"finished", "callEnd"}
                            /\ t = <<f, h>> \o Tail(stack[w])
    BY <1>t, <1>3
  <2>3. /\ Main[w] = Top(w) /\ Main[w].at \in Own /\ Main[w].of \in Jobs
        /\ Goes(w, t) /\ Taken(stack[w]) /\ Taken(t)
        /\ owner' = owner => Locks(w, t)
        /\ Clearing' = Clearing /\ Main' = [Main EXCEPT ![w] = f]
        /\ \/ Len(t) = 1 /\ t[Len(t)] = f
           \/ t[Len(t)].at = "clear"
    BY <1>1, <1>3, <2>1, <2>2, AloneStep
  <2> QED
    BY <1>1, <1>3, <2>3
<1>5. /\ j \in Jobs /\ j = Main[w].of /\ Main[w].at = "end" /\ MainOK(Main[w])
      /\ j \notin Clearing /\ ended[j] = 0 /\ status[j] # "New"
      /\ IsCollection(j) => j \in DOMAIN coll /\ coll[j].jobCounter = 0
  BY <1>j, <1>1, <1>4, OwnFacts DEF Inv
<1>6. UNCHANGED <<program, script, active, working, held, shouldAbort, assignments, status,
                  begun, ended, coll, blocked, dependencies, customers>>
  BY <1>1 DEF clientVars, weaverVars, policyVars, jobVars
<1>7. MainOf(t) = f
  <2>1. Main'[w] = f
    BY <1>4 DEF Main
  <2> QED
    BY <1>4, <2>1, StackMoves DEF Inv, Main
<1>8. TokenOf(f) = {j} /\ TokenOf(Main[w]) = {j}
  BY <1>3, <1>5 DEF TokenOf, Own, Reporting
<1>9. StillStep(w, t)
  <2>1. \/ TokenOf(MainOf(t)) = TokenOf(Main[w]) /\ MainOf(t).at \notin Reporting
        \/ /\ TokenOf(MainOf(t)) = TokenOf(Main[w])
           /\ MainOf(t).at = "finished" /\ MainOf(t).by = MainOf(t).of
    BY <1>3, <1>7, <1>8 DEF Reporting
  <2>2. Main[w].at \notin Reporting \cup {"callEnd"}
    BY <1>5 DEF Reporting
  <2> QED
    BY <1>4, <1>6, <2>1, <2>2, StillIs DEF Inv, Reporting
<1> QED
  BY <1>9

(* elementStarted() is about no order.                                     *)
LEMMA ElementStartedIs ==
  ASSUME Inv, NEW w \in Workers, ElementStarted(w)
  PROVE  \E t : StillStep(w, t)
<1>s. PICK s : s = stack[w]
  OBVIOUS
<1>c. PICK c : c = Top(w).of
  OBVIOUS
<1>j. PICK j : j = Main[w].of
  OBVIOUS
<1>n. PICK calls \in BOOLEAN : calls <=> coll[c].jobsStarted = 0 /\ HasParent(c)
  OBVIOUS
<1>f. PICK f : f = [Top(w) EXCEPT !.at = "startedUnlock"]
  OBVIOUS
<1>g. PICK g : g = Frame("started", ParentOf(c), c)
  OBVIOUS
<1>t. PICK t : t = IF calls THEN <<g, f>> \o Tail(s) ELSE Tail(s)
  OBVIOUS
<1>1. /\ stack[w] # <<>> /\ Top(w).at = "started" /\ owner[c] = Nobody
      /\ coll' = [coll EXCEPT ![c].jobsStarted = @ + 1]
      /\ calls => Hold(w, c) /\ Call(w, g, "startedUnlock")
      /\ ~ calls => Return(w) /\ owner' = owner
      /\ begun' = IF coll[c].jobsStarted = 0
                    THEN [begun EXCEPT ![c] = @ + IF HasParent(c) THEN 2 ELSE 1] ELSE begun
      /\ UNCHANGED <<clientVars, weaverVars, status, shouldAbort, ended, policyVars>>
  BY <1>c, <1>n, <1>g DEF ElementStarted, At, Is, Needs
<1>2. /\ s \in Seq(FrameSet) /\ Top(w) = s[1] /\ Beginning(s) /\ ClearingOf(s) = {} /\ s # <<>>
      /\ Main[w] = s[Len(s)] /\ Main[w].at = "setRunning" /\ Main[w] \in FrameSet
      /\ j \in Jobs /\ c \in DOMAIN coll /\ c \in Jobs /\ s[1].at = "started" /\ s[1].of = c
      /\ \/ /\ Len(s) = 2 /\ s[2].at = "setRunning"
            /\ c = j /\ IsCollection(j) /\ coll[c].jobsStarted = 0
            /\ LockedOf(s) = {}
         \/ /\ c = ParentOf(j) /\ HasParent(j) /\ c # j
            /\ coll[c].jobsStarted > 0 /\ coll[c].jobCounter > 0 /\ ~ Unopened(c)
            /\ \/ Len(s) = 2 /\ ~ IsCollection(j) /\ LockedOf(s) = {}
               \/ /\ Len(s) = 3 /\ IsCollection(j) /\ coll[j].jobsStarted > 0
                  /\ s[2].at = "startedUnlock" /\ s[2].of = j
                  /\ LockedOf(s) = {j}
  BY <1>s, <1>c, <1>j, <1>1, StartedFacts
<1>3. Main[w] = MainOf(s)
  BY <1>s DEF Main
<1>4. calls => /\ f \in FrameSet /\ f.at = "startedUnlock" /\ f.of = c
               /\ g \in FrameSet /\ g.at = "started" /\ g.of = ParentOf(c)
               /\ stack' = [stack EXCEPT ![w] = t]
  <2> SUFFICES ASSUME calls
               PROVE  /\ f \in FrameSet /\ f.at = "startedUnlock" /\ f.of = c
                      /\ g \in FrameSet /\ g.at = "started" /\ g.of = ParentOf(c)
                      /\ stack' = [stack EXCEPT ![w] = t]
    OBVIOUS
  <2>1. ParentOf(c) \in Jobs
    <3>1. HasParent(c)
      BY <1>n
    <3>2. ParentOf(c) \in DOMAIN coll
      BY <3>1, ParentFacts DEF Inv, JobInv
    <3> QED
      BY <3>2, FamilyFacts DEF Inv
  <2>2. "started" \in Places /\ "startedUnlock" \in Places /\ Typed
    BY DEF Places, Inv
  <2>3. Call(w, Frame("started", ParentOf(c), c), "startedUnlock")
    BY <1>g, <1>1
  <2>d. PICK d : d = ParentOf(c)
    OBVIOUS
  <2>5. c \in Jobs /\ d \in Jobs /\ Call(w, Frame("started", d, c), "startedUnlock")
        /\ g = Frame("started", d, c)
    BY <1>g, <1>2, <2>d, <2>1, <2>3
  <2>4. /\ f \in FrameSet /\ f.at = "startedUnlock" /\ f.of = Top(w).of
        /\ g \in FrameSet
        /\ stack' = [stack EXCEPT ![w] = <<g, f>> \o Tail(stack[w])]
    BY <1>f, <1>1, <2>2, <2>5, CallIs
  <2> QED
    BY <1>t, <1>s, <1>c, <1>g, <2>4 DEF Frame
<1>5. stack' = [stack EXCEPT ![w] = t]
  BY <1>s, <1>t, <1>1, <1>4 DEF Return
<1>6. /\ t \in Seq(FrameSet) /\ Shaped(t) /\ MainOf(t) = MainOf(s)
      /\ ClearingOf(t) = ClearingOf(s) /\ t # <<>>
      /\ calls => Len(t) = 3 /\ t[1] = g /\ t[2] = f /\ t[3] = s[2] /\ Len(s) = 2
      /\ ~ calls => Len(t) = Len(s) - 1 /\ t[1] = s[2]
      /\ t[Len(t)] = s[Len(s)]
  <2>1. CASE calls
    <3>1. Len(s) = 2 /\ s[2].at = "setRunning"
      BY <1>n, <1>2, <2>1
    <3>2. t = <<g, f>> \o Tail(s)
      BY <1>t, <2>1
    <3>3. /\ t \in Seq(FrameSet) /\ Beginning(t) /\ MainOf(t) = MainOf(s)
          /\ ClearingOf(t) = ClearingOf(s)
          /\ Len(t) = 3 /\ t[1] = g /\ t[2] = f /\ t[3] = s[2]
      BY <1>2, <1>4, <2>1, <3>1, <3>2, BeginningCalls, SMTT(30)
    <3> QED
      BY <2>1, <3>1, <3>3, BeginningStack
  <2>2. CASE ~ calls
    <3>1. t = Tail(s)
      BY <1>t, <2>2
    <3>2. /\ t \in Seq(FrameSet) /\ Shaped(t) /\ MainOf(t) = MainOf(s)
          /\ ClearingOf(t) = ClearingOf(s) /\ t # <<>>
          /\ Len(t) = Len(s) - 1 /\ t[1] = s[2] /\ t[Len(t)] = s[Len(s)]
      BY <1>2, <3>1, BeginningReturns
    <3> QED
      BY <2>2, <3>2
  <2> QED
    BY <2>1, <2>2
<1>7. Goes(w, t)
  BY <1>5, <1>6 DEF Goes
<1>8. UNCHANGED <<program, assignments, status, ended, blocked, dependencies>>
  BY <1>1 DEF weaverVars, clientVars, policyVars
<1>9. CollectionsKept(Ordering)
  <2>1. coll \in [DOMAIN program.elements -> CollSet] /\ coll[c] \in CollSet
    BY <1>2 DEF Inv, Typed
  <2>n. PICK n : n = coll[c].jobsStarted + 1
    OBVIOUS
  <2>m. n \in Nat
    BY <2>n, <2>1 DEF CollSet
  <2>r. PICK r : r = [coll[c] EXCEPT !.jobsStarted = n]
    OBVIOUS
  <2>2. /\ r \in CollSet /\ r.elements = coll[c].elements /\ r.api = coll[c].api
        /\ r.jobCounter = coll[c].jobCounter /\ r.completed = coll[c].completed
    BY <2>r, <2>m, <2>1 DEF CollSet
  <2>3. coll' = [coll EXCEPT ![c] = r]
    BY <1>1, <2>n, <2>r
  <2>4. \A x \in Ordering : r[x] = coll[c][x]
    BY <2>2 DEF Ordering
  <2> QED
    BY <1>2, <2>1, <2>2, <2>3, <2>4 DEF CollectionsKept
<1>10. StillStep(w, t)
  <2>1. MainOf(t) = Main[w] /\ Main[w].at \notin Reporting \cup {"callEnd"}
    BY <1>2, <1>3, <1>6 DEF Reporting
  <2> QED
    BY <1>7, <1>8, <1>9, <2>1, StillIs DEF Inv, Reporting
<1> QED
  BY <1>10

(* A collection that lets go of itself is about no order.                  *)
LEMMA ClearSelfIs ==
  ASSUME Inv, NEW w \in Workers, ClearSelf(w)
  PROVE  \E t : StillStep(w, t)
<1>c. PICK c : c = Top(w).of
  OBVIOUS
<1>s. PICK s : s = stack[w]
  OBVIOUS
<1>t. PICK t : t = Tail(s)
  OBVIOUS
<1>f. PICK f : f = MainOf(t)
  OBVIOUS
<1>1. /\ stack[w] # <<>> /\ Top(w).at = "clearSelf"
      /\ coll' = [coll EXCEPT ![c].self = FALSE]
      /\ stack' = [stack EXCEPT ![w] = t]
      /\ UNCHANGED <<clientVars, owner, weaverVars, jobVars, policyVars>>
  BY <1>c, <1>s, <1>t DEF ClearSelf, At, Is, Return, Inv, Typed
<1>2. /\ s \in Seq(FrameSet) /\ s # <<>> /\ Top(w) = s[1] /\ Ending(s) /\ Main[w] = Top(w)
  BY <1>s, <1>1, TopShape DEF Inv
<1>3. /\ t \in Seq(FrameSet) /\ t # <<>> /\ Shaped(t)
      /\ f.at \in {"clear", "clearSelf"}
      /\ t[1].at \in {"clear", "clearSelf"} /\ t[Len(t)].at = "clear"
      /\ ClearingOf(t) \subseteq ClearingOf(s)
      /\ ClearingOf(s) \subseteq ClearingOf(t) \cup {c}
      /\ c \in ClearingOf(s)
  BY <1>c, <1>t, <1>f, <1>1, <1>2, EndingPop
<1>4. /\ Goes(w, t) /\ Taken(s) /\ Taken(t) /\ LockedOf(t) = {} /\ LockedOf(s) = {}
  BY <1>1, <1>2, <1>3 DEF Goes, Taken, LockedOf
<1>5. Locks(w, t)
  BY <1>s, <1>1, <1>4, LocksIs DEF Inv
<1>6. /\ Main' = [Main EXCEPT ![w] = f]
      /\ Clearing' \subseteq Clearing /\ Clearing \subseteq Clearing' \cup {c} /\ c \in Clearing
  <2>1. /\ Main' = [Main EXCEPT ![w] = f]
        /\ ClearingOf(t) \subseteq Clearing' /\ Clearing' \subseteq Clearing \cup ClearingOf(t)
        /\ Clearing \subseteq Clearing' \cup (ClearingOf(s) \ ClearingOf(t))
    BY <1>f, <1>s, <1>4, StackMoves DEF Inv
  <2>2. ClearingOf(s) \subseteq Clearing
    BY <1>s DEF Clearing
  <2> QED
    BY <1>3, <2>1, <2>2
<1>7. Over(c) /\ c \in DOMAIN coll
  BY <1>6 DEF Inv, JobInv, ClearInv, Over, IsCollection
<1>8. UNCHANGED <<program, assignments, status, ended, blocked, dependencies>>
  BY <1>1 DEF weaverVars, clientVars, jobVars, policyVars
<1>9. CollectionsKept(Ordering)
  <2>1. coll \in [DOMAIN program.elements -> CollSet] /\ coll[c] \in CollSet
    BY <1>7 DEF Inv, Typed
  <2>r. PICK r : r = [coll[c] EXCEPT !.self = FALSE]
    OBVIOUS
  <2>2. /\ r \in CollSet /\ r.elements = coll[c].elements /\ r.api = coll[c].api
        /\ r.jobCounter = coll[c].jobCounter /\ r.completed = coll[c].completed
    BY <2>r, <2>1 DEF CollSet
  <2>3. coll' = [coll EXCEPT ![c] = r]
    BY <1>1, <2>r
  <2>4. \A x \in Ordering : r[x] = coll[c][x]
    BY <2>2 DEF Ordering
  <2> QED
    BY <1>7, <2>1, <2>2, <2>3, <2>4 DEF CollectionsKept
<1>10. StillStep(w, t)
  <2>1. /\ TokenOf(MainOf(t)) = TokenOf(Main[w]) /\ MainOf(t).at \notin Reporting
        /\ Main[w].at \notin Reporting \cup {"callEnd"}
    BY <1>f, <1>1, <1>2, <1>3 DEF TokenOf, Own, Reporting
  <2> QED
    BY <1>4, <1>8, <1>9, <2>1, StillIs DEF Inv, Reporting
<1> QED
  BY <1>10

(* stop() finds out whether there is something to dequeue.                 *)
LEMMA StopIs ==
  ASSUME Inv, SeqInv, NEW w \in Workers, Stop(w) \/ StopDequeue(w) \/ StopElements(w)
  PROVE  \E t : StopStep(w, t)
<1> DEFINE s == stack[w]
           c == Top(w).of
           f == [Top(w) EXCEPT !.at = IF Top(w).at = "stop" THEN "stopDequeue" ELSE
                               IF Top(w).at = "stopDequeue" THEN "stopElements" ELSE "stopElement"]
           moved == <<f>> \o Tail(s)
           returned == Tail(s)
<1>1. /\ s # <<>> /\ Top(w).at \in {"stop", "stopDequeue", "stopElements"}
      /\ Top(w).at = "stop" => Stop(w)
      /\ Top(w).at = "stopDequeue" => StopDequeue(w)
      /\ Top(w).at = "stopElements" => StopElements(w)
      /\ Top(w).at \in {"stop", "stopElements"} => owner[c] = Nobody
      /\ UNCHANGED <<clientVars, weaverVars, jobVars, coll, policyVars>>
  BY DEF Stop, StopDequeue, StopElements, At, Is, Needs
<1>2. /\ s \in Seq(FrameSet) /\ Top(w) = s[1] /\ Top(w) \in FrameSet
      /\ Ending(s) /\ s[1].at \in StopPlaces
  BY <1>1, TopShape DEF Inv, StopPlaces
<1>3. c \in Jobs /\ ~ Queued(c)
  BY <1>1, <1>2, StopFacts
<1>4. f \in FrameSet /\ f.at \in StopPlaces /\ f.of = c
      /\ (Top(w).at = "stopElements" => f.at = "stopElement")
      /\ (Top(w).at # "stopElements" => f.at \in {"stopDequeue", "stopElements"})
  BY <1>1, <1>2 DEF FrameSet, Places, StopPlaces
<1>5. \/ stack' = [stack EXCEPT ![w] = moved]
      \/ stack' = [stack EXCEPT ![w] = returned] /\ ~ coll[c].api
  BY <1>1, <1>3 DEF Stop, StopDequeue, StopElements, Goto, Become, Return, Hold, Inv, Typed
<1>6. f.k = Top(w).k
  BY <1>2 DEF FrameSet
<1> HIDE DEF f, c
<1>7. /\ moved \in Seq(FrameSet) /\ Ending(moved) /\ MainOf(moved) = MainOf(s)
      /\ ClearingOf(moved) = ClearingOf(s) /\ moved[1] = f
  BY <1>2, <1>4, StopMoves DEF c
<1>8. /\ returned \in Seq(FrameSet) /\ Ending(returned) /\ MainOf(returned) = MainOf(s)
      /\ ClearingOf(returned) = ClearingOf(s) /\ returned[1] = s[2] /\ s[2].at = "restore"
  BY <1>2, StopReturns, EndingStack
<1>9. MainOf(s) = Main[w]
  BY DEF Main
<1>10. Main[w].at = "restore" /\ Main[w].of = c /\ s # <<>>
  BY <1>1, <1>2, StopFacts DEF c, StopPlaces
<1>11. Top(w).k = 1
  BY <1>1, <1>2, <1>9, <1>10 DEF SeqInv, StopInv, StopOK
<1>12. /\ coll' = coll
       /\ UNCHANGED <<program, assignments, status, ended, blocked, dependencies>>
  BY <1>1 DEF weaverVars, clientVars, jobVars, policyVars
<1>13. CASE stack' = [stack EXCEPT ![w] = moved]
  <2>1. Goes(w, moved) /\ moved # <<>>
    BY <1>7, <1>13, EndingStack DEF Goes
  <2>2. moved[1].at \in StopPlaces /\ moved[1].k = 1
    BY <1>4, <1>6, <1>7, <1>11
  <2> HIDE DEF moved
  <2>3. StopStep(w, moved)
    BY <1>2, <1>7, <1>9, <1>10, <1>12, <2>1, <2>2 DEF StopStep, StopPlaces
  <2> QED
    BY <2>3
<1>14. CASE stack' = [stack EXCEPT ![w] = returned] /\ ~ coll[c].api
  <2>1. Goes(w, returned) /\ returned # <<>>
    BY <1>8, <1>14, EndingStack DEF Goes
  <2> HIDE DEF returned
  <2>2. StopStep(w, returned)
    BY <1>2, <1>8, <1>9, <1>10, <1>12, <1>14, <2>1 DEF StopStep
  <2> QED
    BY <2>2
<1> QED
  BY <1>5, <1>13, <1>14

(* The job that a thread takes was queued, and nothing kept it from being  *)
(* executed.                                                               *)
LEMMA TakeIs ==
  ASSUME Inv, NEW w \in Workers, Take(w)
  PROVE  \E t, j : TakeStep(w, t, j)
<1> DEFINE i == FirstRunnable
           j == assignments[i]
           f == Frame("store", j, j)
           t == <<f>> \o Tail(stack[w])
<1>1. /\ stack[w] # <<>> /\ Top(w).at = "take"
      /\ assignments' = RemoveAt(assignments, i)
      /\ customers' = customers \cup ({j} \cap program.restricted)
      /\ Become(w, f) /\ active' = active + 1 /\ owner' = [owner EXCEPT !["weaver"] = Nobody]
      /\ UNCHANGED <<clientVars, working, held, jobVars, coll, blocked, dependencies>>
  BY DEF Take, At, Is, Release
<1>2. /\ stack[w] \in Seq(FrameSet) /\ Top(w) = stack[w][1] /\ Top(w) \in FrameSet
      /\ Alone(stack[w]) /\ Main[w] = Top(w) /\ ClearingOf(stack[w]) = {}
  BY <1>1, TopShape DEF Inv, AlonePlaces
<1>3. /\ j \in Jobs /\ Queued(j) /\ CanRun(j)
      /\ assignments' \in Seq(Jobs) /\ Distinct(assignments')
      /\ \A x : Queued(x)' <=> Queued(x) /\ x # j
  <2>1. Runnable # {}
    BY <1>1, <1>2 DEF Inv, TakeInv
  <2> HIDE DEF f, t
  <2>2. /\ j \in Jobs /\ Queued(j) /\ CanRun(j)
        /\ RemoveAt(assignments, i) \in Seq(Jobs) /\ Distinct(RemoveAt(assignments, i))
        /\ \A x : x \in ToSet(RemoveAt(assignments, i)) <=> Queued(x) /\ x # j
    BY <2>1, TakenJob DEF Inv, JobInv
  <2> HIDE DEF i, j
  <2> QED
    BY <1>1, <2>2 DEF Queued
<1> HIDE DEF i, j
<1>4. f \in FrameSet /\ f.at = "store" /\ f.of = j /\ stack' = [stack EXCEPT ![w] = t]
  BY <1>1, <1>3 DEF FrameSet, Places, Statuses, Frame, Become, Inv, Typed
<1> HIDE DEF f
<1>5. /\ t \in Seq(FrameSet) /\ Shaped(t) /\ MainOf(t) = f /\ ClearingOf(t) = {}
      /\ t # <<>> /\ t[1] = f /\ Len(t) = 1
  BY <1>2, <1>4, AloneMoves DEF AlonePlaces
<1> HIDE DEF t
<1>6. Goes(w, t)
  BY <1>4, <1>5 DEF Goes
<1>7. UNCHANGED <<program, status, ended, coll, blocked, dependencies>>
  BY <1>1 DEF clientVars, jobVars
<1>8. TakeStep(w, t, j)
  BY <1>1, <1>2, <1>3, <1>4, <1>5, <1>6, <1>7 DEF TakeStep
<1> QED
  BY <1>8

(* A collection that is in progress knows its queue.                       *)
LEMMA HeldApi ==
  ASSUME Inv, SeqInv, NEW w \in Workers, Main[w].at \in Own \cup Reporting,
         Main[w].at # "callEnd", Main[w].at = "restore" => stack[w][1].at # "restore",
         NEW j \in DOMAIN coll, j = Main[w].of
  PROVE  coll[j].api
<1>1. j \in Jobs /\ ended[j] = 0 /\ status[j] # "New"
  BY HeldFacts
<1>2. ~ Finished(j)
  <2> SUFFICES ASSUME NEW v \in Workers, Main[v].at = "callEnd", Main[v].of = j PROVE FALSE
    BY <1>1 DEF Finished
  <2>1. v # w /\ Main[v].at \in Own
    BY DEF Own
  <2> QED
    BY <2>1, OwnFacts DEF Inv
<1>3. ~ Stopped(j)
  <2> SUFFICES ASSUME NEW v \in Workers, Main[v].at = "restore", Main[v].of = j,
                      stack[v][1].at = "restore"
               PROVE  FALSE
    BY DEF Stopped
  <2>1. v # w /\ Main[v].at \in Reporting /\ IsSequence(j)
    BY DEF Reporting, SeqInv, ReportInv, ReportOK
  <2>2. CASE Main[w].at \in Own
    BY <2>1, <2>2, OwnFacts DEF Inv
  <2>3. CASE Main[w].at \in Reporting
    BY <2>1, <2>3, SoleReporter DEF SeqInv
  <2> QED
    BY <2>2, <2>3
<1> QED
  BY <1>1, <1>2, <1>3 DEF SeqInv, ApiInv, ApiOK

(* A thread sets the status of a job it has begun.                         *)
SetRunningStep(w, t, j) ==
  /\ Goes(w, t) /\ Main[w].at = "setRunning" /\ j = Main[w].of
  /\ MainOf(t).at = "run" /\ MainOf(t).of = j
  /\ UNCHANGED <<program, assignments, ended, coll, blocked, dependencies>>
  /\ status[j] = "Queued" /\ status'[j] = "Running"
  /\ \A x \in Jobs \ {j} : status'[x] = status[x]

(* setStatus(Status_Running) is such a step.                               *)
LEMMA SetRunningIs ==
  ASSUME Inv, NEW w \in Workers, SetRunning(w)
  PROVE  \E t, j : SetRunningStep(w, t, j)
<1>j. PICK j : j = Top(w).of
  OBVIOUS
<1>f. PICK f : f = [Top(w) EXCEPT !.at = "run"]
  OBVIOUS
<1>t. PICK t : t = <<f>> \o Tail(stack[w])
  OBVIOUS
<1>1. /\ stack[w] # <<>> /\ Top(w).at = "setRunning" /\ Goto(w, "run")
      /\ status' = [status EXCEPT ![j] = "Running"]
      /\ UNCHANGED <<clientVars, owner, weaverVars, shouldAbort, begun, ended, coll, policyVars>>
  BY <1>j DEF SetRunning, At, Is
<1>2. f \in FrameSet /\ f.at = "run" /\ f.of = j /\ stack' = [stack EXCEPT ![w] = t]
  BY <1>j, <1>f, <1>t, <1>1, GotoIs DEF Inv, Places
<1>3. /\ Main[w] = Top(w) /\ Main[w].at \in Own /\ Main[w].of \in Jobs
      /\ Goes(w, t) /\ Taken(stack[w]) /\ Taken(t) /\ Locks(w, t)
      /\ Clearing' = Clearing /\ Main' = [Main EXCEPT ![w] = f]
      /\ t[Len(t)].at \in {"clear", "run"} /\ Len(stack[w]) = 1
  <2>1. Top(w).at \in Own \ {"callEnd"} /\ f.at \in Own \ {"callEnd"}
    BY <1>1, <1>2 DEF Own
  <2>2. /\ Main[w] = Top(w) /\ Main[w].at \in Own /\ Main[w].of \in Jobs
        /\ Goes(w, t) /\ Taken(stack[w]) /\ Taken(t)
        /\ owner' = owner => Locks(w, t)
        /\ Clearing' = Clearing /\ Main' = [Main EXCEPT ![w] = f]
        /\ \/ Len(t) = 1 /\ t[Len(t)] = f
           \/ t[Len(t)].at = "clear"
        /\ Len(stack[w]) = 1
    BY <1>t, <1>1, <1>2, <2>1, AloneStep, ZenonT(60)
  <2> QED
    BY <1>1, <1>2, <2>2
<1>4. /\ j \in Jobs /\ j = Main[w].of /\ Main[w].at = "setRunning" /\ MainOK(Main[w])
      /\ j \notin Clearing /\ ended[j] = 0
      /\ IsCollection(j) => j \in DOMAIN coll /\ coll[j].jobCounter = 0
  BY <1>j, <1>1, <1>3, OwnFacts DEF Inv
<1>6. /\ UNCHANGED <<program, script, active, working, held, shouldAbort, assignments,
                     begun, ended, coll, blocked, dependencies, customers>>
      /\ status' \in [Jobs -> Statuses] /\ status'[j] = "Running"
      /\ \A x \in Jobs \ {j} : status'[x] = status[x]
  <2>1. status \in [Jobs -> Statuses] /\ "Running" \in Statuses
    BY DEF Inv, Typed, Statuses
  <2> QED
    BY <1>1, <1>4, <2>1 DEF clientVars, weaverVars, policyVars
<1>7. MainOf(t) = f
  <2>1. Main'[w] = f
    BY <1>3 DEF Main
  <2> QED
    BY <1>3, <2>1, StackMoves DEF Inv, Main
<1>8. status[j] = "Queued"
  BY <1>4 DEF MainOK
<1>9. SetRunningStep(w, t, j)
  BY <1>2, <1>3, <1>4, <1>6, <1>7, <1>8 DEF SetRunningStep
<1> QED
  BY <1>9

(* What has not reported has no elements in the queue.                     *)
LEMMA OwnOrdered ==
  ASSUME Inv, SeqInv, NEW w \in Workers, NEW t, NEW j, LocalStep(w, t, j),
         Main[w].at \in Own, DOMAIN coll' = DOMAIN coll,
         j \in DOMAIN coll => coll'[j].jobCounter = 0 /\ coll'[j].api = coll[j].api,
         ReportOK(MainOf(t))', MainOf(t).at # "restore"
  PROVE  SeqInv'
<1>1. StopOK(t)'
  BY DEF StopOK
<1>2. j \in DOMAIN coll => OrderOK(j)' /\ ApiOK(j)'
  <2> SUFFICES ASSUME j \in DOMAIN coll PROVE OrderOK(j)' /\ ApiOK(j)'
    OBVIOUS
  <2>1. OrderOK(j)'
    BY DEF OrderOK
  <2>2. CASE Main[w].at = "callEnd"
    BY <2>1, <2>2 DEF LocalStep, ApiOK, Finished
  <2>3. CASE Main[w].at # "callEnd"
    <3>1. coll[j].api
      BY <2>3, HeldApi DEF LocalStep, Own
    <3> QED
      BY <2>1, <3>1 DEF ApiOK
  <2> QED
    BY <2>2, <2>3
<1> QED
  BY <1>1, <1>2, LocalKeeps

(* It keeps the order: the job neither waits nor is done.                  *)
LEMMA SetRunningOrdered ==
  ASSUME Inv, SeqInv, NEW w \in Workers, NEW t, NEW j, SetRunningStep(w, t, j)
  PROVE  SeqInv'
<1>1. Main[w].at \in Own /\ j = Main[w].of /\ MainOf(t).at = "run"
  BY DEF Own, SetRunningStep
<1>2. /\ j \in Jobs /\ ~ Queued(j)
      /\ IsCollection(j) => coll[j].jobCounter = 0
  BY <1>1, OwnFacts DEF Inv
<1>3. \A x : Queued(x)' <=> Queued(x)
  BY DEF SetRunningStep, Queued
<1>4. LocalStep(w, t, j)
  <2>1. DOMAIN coll \subseteq Jobs
    BY FamilyFacts DEF Inv
  <2>2. Main[w].at \in Own \cup Reporting /\ Main[w].at # "callEnd"
    BY <1>1 DEF SetRunningStep
  <2> QED
    BY <1>1, <1>2, <1>3, <2>1, <2>2 DEF SetRunningStep, LocalStep
<1>5. ReportOK(MainOf(t))'
  BY <1>1 DEF ReportOK, Reporting
<1>6. j \in DOMAIN coll => coll'[j].jobCounter = 0 /\ coll'[j].api = coll[j].api
  BY <1>2 DEF SetRunningStep, IsCollection
<1> QED
  BY <1>1, <1>4, <1>5, <1>6, OwnOrdered DEF LocalStep

(* A job has run, and a collection may have more elements.                 *)
RunStep(w, t, j) ==
  /\ Goes(w, t) /\ Main[w].at = "run" /\ j = Main[w].of
  /\ MainOf(t).at = "end" /\ MainOf(t).of = j
  /\ UNCHANGED <<program, assignments, ended, blocked, dependencies>>
  /\ status'[j] \in Final /\ \A x \in Jobs \ {j} : status'[x] = status[x]
  /\ DOMAIN coll' = DOMAIN coll
  /\ \A d \in DOMAIN coll \ {j} : coll'[d] = coll[d]
  /\ j \in DOMAIN coll =>
       /\ coll'[j].api = coll[j].api /\ coll'[j].jobCounter = coll[j].jobCounter
       /\ \/ coll'[j].elements = coll[j].elements
          \/ /\ j \in DOMAIN program.generates
             /\ coll'[j].elements = coll[j].elements \o program.generates[j]

(* run() decides a job, and may grow a collection that has not begun to    *)
(* count.                                                                  *)
LEMMA RunIs ==
  ASSUME Inv, NEW w \in Workers, Run(w)
  PROVE  \E t, j : RunStep(w, t, j)
<1>j. PICK j : j = Top(w).of
  OBVIOUS
<1>f. PICK f : f = [Top(w) EXCEPT !.at = "end"]
  OBVIOUS
<1>t. PICK t : t = <<f>> \o Tail(stack[w])
  OBVIOUS
<1>o. PICK o : o = IF j \in DOMAIN program.outcome THEN program.outcome[j] ELSE "Success"
  OBVIOUS
<1>1. /\ stack[w] # <<>> /\ Top(w).at = "run" /\ Goto(w, "end")
      /\ status' = [status EXCEPT ![j] = o]
      /\ coll' = IF j \in DOMAIN program.generates
                   THEN [coll EXCEPT ![j].elements = @ \o program.generates[j]] ELSE coll
      /\ UNCHANGED <<program, script, owner, weaverVars, shouldAbort, begun, ended, policyVars>>
  BY <1>j, <1>o DEF Run, At, Is
<1>2. f \in FrameSet /\ f.at = "end" /\ f.of = j /\ stack' = [stack EXCEPT ![w] = t]
  BY <1>j, <1>f, <1>t, <1>1, GotoIs DEF Inv, Places
<1>3. /\ Main[w] = Top(w) /\ Main[w].at \in Own /\ Main[w].of \in Jobs
      /\ Goes(w, t) /\ Taken(stack[w]) /\ Taken(t) /\ Locks(w, t)
      /\ Clearing' = Clearing /\ Main' = [Main EXCEPT ![w] = f]
      /\ t[Len(t)].at \in {"clear", "end"}
  <2>1. Top(w).at \in Own \ {"callEnd"} /\ f.at \in Own \ {"callEnd"}
    BY <1>1, <1>2 DEF Own
  <2>2. /\ Main[w] = Top(w) /\ Main[w].at \in Own /\ Main[w].of \in Jobs
        /\ Goes(w, t) /\ Taken(stack[w]) /\ Taken(t)
        /\ owner' = owner => Locks(w, t)
        /\ Clearing' = Clearing /\ Main' = [Main EXCEPT ![w] = f]
        /\ \/ Len(t) = 1 /\ t[Len(t)] = f
           \/ t[Len(t)].at = "clear"
    BY <1>t, <1>1, <1>2, <2>1, AloneStep, ZenonT(60)
  <2> QED
    BY <1>1, <1>2, <2>2
<1>4. /\ j \in Jobs /\ j = Main[w].of /\ Main[w].at = "run" /\ MainOK(Main[w])
      /\ j \notin Clearing /\ ended[j] = 0 /\ status[j] = "Running"
      /\ IsCollection(j) => /\ j \in DOMAIN coll /\ coll[j].jobCounter = 0 /\ Executing(j)
                            /\ coll[j].elements = program.elements[j]
  <2>1. /\ j \in Jobs /\ j = Main[w].of /\ Main[w].at = "run" /\ MainOK(Main[w])
        /\ j \notin Clearing /\ ended[j] = 0
        /\ IsCollection(j) => j \in DOMAIN coll /\ coll[j].jobCounter = 0
    BY <1>j, <1>1, <1>3, OwnFacts DEF Inv
  <2> QED
    BY <2>1 DEF MainOK
<1>5. o \in Final
  BY <1>o, ProgramsAssumption DEF Inv, Typed, Final
<1>6. /\ UNCHANGED <<program, script, active, working, held, shouldAbort, assignments,
                     begun, ended, blocked, dependencies, customers>>
      /\ status' \in [Jobs -> Statuses] /\ status'[j] = o
      /\ \A x \in Jobs \ {j} : status'[x] = status[x]
  <2>1. status \in [Jobs -> Statuses] /\ o \in Statuses
    BY <1>5 DEF Inv, Typed, Statuses
  <2> QED
    BY <1>1, <1>4, <2>1 DEF weaverVars, policyVars
<1>7. MainOf(t) = f
  <2>1. Main'[w] = f
    BY <1>3 DEF Main
  <2> QED
    BY <1>3, <2>1, StackMoves DEF Inv, Main
<1>8. /\ DOMAIN coll' = DOMAIN coll
      /\ \A d \in DOMAIN coll \ {j} : coll'[d] = coll[d]
      /\ j \in DOMAIN coll =>
           /\ coll'[j].api = coll[j].api /\ coll'[j].jobCounter = coll[j].jobCounter
           /\ \/ coll'[j].elements = coll[j].elements
              \/ /\ j \in DOMAIN program.generates
                 /\ coll'[j].elements = coll[j].elements \o program.generates[j]
  <2>1. coll \in [DOMAIN program.elements -> CollSet]
    BY DEF Inv, Typed
  <2>2. CASE j \notin DOMAIN program.generates
    BY <1>1, <2>2
  <2>3. CASE j \in DOMAIN program.generates
    <3>1. j \in DOMAIN coll
      BY <2>3, ProgramsAssumption DEF Inv, Typed
    <3>e. PICK e : e = coll[j].elements \o program.generates[j]
      OBVIOUS
    <3>r. PICK r : r = [coll[j] EXCEPT !.elements = e]
      OBVIOUS
    <3>2. r.elements = e /\ r.api = coll[j].api /\ r.jobCounter = coll[j].jobCounter
      BY <2>1, <3>1, <3>r DEF CollSet
    <3>3. coll' = [coll EXCEPT ![j] = r]
      BY <1>1, <2>3, <3>e, <3>r
    <3> QED
      BY <2>1, <2>3, <3>e, <3>1, <3>2, <3>3
  <2> QED
    BY <2>2, <2>3
<1>9. RunStep(w, t, j)
  BY <1>2, <1>3, <1>4, <1>5, <1>6, <1>7, <1>8 DEF RunStep
<1> QED
  BY <1>9

(* It keeps the order: the job neither waits nor is done.                  *)
LEMMA RunOrdered ==
  ASSUME Inv, SeqInv, NEW w \in Workers, NEW t, NEW j, RunStep(w, t, j)
  PROVE  SeqInv'
<1>1. Main[w].at \in Own /\ j = Main[w].of /\ MainOf(t).at = "end"
  BY DEF Own, RunStep
<1>2. /\ j \in Jobs /\ ~ Queued(j)
      /\ IsCollection(j) => coll[j].jobCounter = 0
  BY <1>1, OwnFacts DEF Inv
<1>3. \A x : Queued(x)' <=> Queued(x)
  BY DEF RunStep, Queued
<1>4. LocalStep(w, t, j)
  <2>1. DOMAIN coll \subseteq Jobs
    BY FamilyFacts DEF Inv
  <2>2. Main[w].at \in Own \cup Reporting /\ Main[w].at # "callEnd"
    BY <1>1 DEF RunStep
  <2> QED
    BY <1>1, <1>2, <1>3, <2>1, <2>2 DEF RunStep, LocalStep
<1>5. ReportOK(MainOf(t))'
  BY <1>1 DEF ReportOK, Reporting
<1>6. j \in DOMAIN coll => coll'[j].jobCounter = 0 /\ coll'[j].api = coll[j].api
  BY <1>2 DEF RunStep, IsCollection
<1> QED
  BY <1>1, <1>4, <1>5, <1>6, OwnOrdered DEF LocalStep

(* A job ends: what depends on it may run, and its collection is told.     *)
CallEndStep(w, t, j) ==
  /\ Goes(w, t) /\ Main[w].at = "callEnd" /\ j = Main[w].of
  /\ UNCHANGED <<program, assignments, status, coll, blocked>>
  /\ ended'[j] = 1 /\ \A x \in Jobs \ {j} : ended'[x] = ended[x]
  /\ dependencies' = ResolveDependencies(dependencies, j, status[j] = "Success")
  /\ HasParent(j) => /\ MainOf(t).at = "finished" /\ MainOf(t).of = ParentOf(j)
                     /\ MainOf(t).by = j
  /\ ~ HasParent(j) => MainOf(t).at \in {"clear", "clearSelf"}

(* The innermost end() of a job ends it.                                   *)
LEMMA CallEndIs ==
  ASSUME Inv, NEW w \in Workers, CallEnd(w)
  PROVE  \E t, j : CallEndStep(w, t, j)
<1>j. PICK j : j = Top(w).of
  OBVIOUS
<1>p. PICK parent : parent = ParentOf(j)
  OBVIOUS
<1>t. PICK t : t = IF HasParent(j) THEN <<Frame("finished", parent, j)>> \o Tail(stack[w])
                                   ELSE Tail(stack[w])
  OBVIOUS
<1>f. PICK f : f = IF HasParent(j) THEN Frame("finished", parent, j) ELSE MainOf(t)
  OBVIOUS
<1>1. /\ stack[w] # <<>> /\ Top(w).at = "callEnd"
      /\ ended' = [ended EXCEPT ![j] = @ + 1]
      /\ dependencies' = ResolveDependencies(dependencies, j, status[j] = "Success")
      /\ stack' = [stack EXCEPT ![w] = t]
      /\ UNCHANGED <<clientVars, owner, weaverVars, status, shouldAbort, begun, coll, blocked>>
  BY <1>j, <1>p, <1>t DEF CallEnd, At, Is, FreePolicies, Become, Return, Inv, Typed
<1>2. HasParent(j) => /\ parent \in DOMAIN coll /\ parent \in Jobs /\ parent # j
                      /\ j \in ToSet(coll[parent].elements) /\ j \in Jobs
  BY <1>p, ParentFacts, FamilyFacts DEF Inv, JobInv
<1>3. HasParent(j) => f \in FrameSet /\ f.at = "finished" /\ f.of = parent /\ f.by = j
  BY <1>f, <1>2 DEF FrameSet, Frame, Places, Statuses
<1>4. /\ Main[w] = Top(w) /\ MainOK(Main[w]) /\ Goes(w, t)
      /\ Taken(stack[w]) /\ Taken(t) /\ t[Len(t)].at = "clear"
      /\ Clearing' = Clearing /\ Main' = [Main EXCEPT ![w] = f]
      /\ LockedOf(stack[w]) = {}
      /\ LockedOf(t) = LockOf(f)
      /\ ~ HasParent(j) => f.at \in {"clear", "clearSelf"}
  <2>c. PICK C : C = {}
    OBVIOUS
  <2>1. Top(w).at \in EndPlaces
    BY <1>1 DEF EndPlaces
  <2>2. EndsWith(stack[w], f, C, t)
    BY <1>f, <1>t, <1>3, <2>c DEF EndsWith, EndPlaces
  <2>3. Continues(w, f, C, t)
    <3>1. stack[w] # <<>> /\ stack' = [stack EXCEPT ![w] = t]
      BY <1>1
    <3> QED
      BY <2>1, <2>2, <3>1, EndStep
  <2> QED
    BY <1>f, <1>t, <1>1, <2>3, <2>c DEF LockOf, Continues
<1>7. /\ Main[w].at = "callEnd" /\ Main[w].of = j
      /\ j \in Jobs /\ status[j] \in Final /\ Closed(j) /\ ended[j] = 0
      /\ IsCollection(j) => j \in DOMAIN coll /\ coll[j].jobCounter = 0
      /\ \A v \in Workers : v # w /\ Main[v].at \in Own \cup Reporting => Main[v].of # j
  <2>1. Main[w].at = "callEnd" /\ Main[w].of = j
    BY <1>j, <1>1, <1>4
  <2>2. Main[w].at \in Own
    BY <2>1 DEF Own
  <2>3. /\ j \in Jobs /\ ended[j] = 0
        /\ IsCollection(j) => j \in DOMAIN coll /\ coll[j].jobCounter = 0
        /\ \A v \in Workers : v # w /\ Main[v].at \in Own \cup Reporting => Main[v].of # j
    BY <2>1, <2>2, OwnFacts DEF Inv
  <2> QED
    BY <1>4, <2>1, <2>3 DEF MainOK
<1>8. /\ UNCHANGED <<program, assignments, status, blocked, coll>>
      /\ ended' \in [Jobs -> Nat] /\ ended'[j] = 1 /\ \A x \in Jobs \ {j} : ended'[x] = ended[x]
  <2>1. ended \in [Jobs -> Nat]
    BY DEF Inv, Typed
  <2> QED
    BY <1>1, <1>7, <2>1 DEF clientVars, weaverVars
<1>9. MainOf(t) = f
  <2>1. Main'[w] = f
    BY <1>4 DEF Main
  <2> QED
    BY <1>4, <2>1, StackMoves DEF Inv, Main
<1>10. CallEndStep(w, t, j)
  BY <1>p, <1>1, <1>3, <1>4, <1>7, <1>8, <1>9 DEF CallEndStep
<1> QED
  BY <1>10

(* An element that has ended is the one that its sequence waits for.       *)
LEMMA EndedIsCurrent ==
  ASSUME Inv, SeqInv, NEW w \in Workers, Main[w].at = "callEnd",
         NEW j, j = Main[w].of, HasParent(j), IsSequence(ParentOf(j))
  PROVE  LET c == ParentOf(j)
         IN  coll[c].completed \in DOMAIN coll[c].elements /\ j = Current(c)
<1>c. PICK c : c = ParentOf(j)
  OBVIOUS
<1>1. c \in DOMAIN coll /\ j \in ToSet(coll[c].elements) /\ j \in Kids(c)
  BY <1>c, ParentFacts DEF Inv, JobInv
<1>2. Main[w].at \in Own
  BY DEF Own
<1>3. j \in Tokens /\ status[j] # "New" /\ ~ Waits(j) /\ ~ Done(j)
  BY <1>2, OwnFacts, HeldFacts DEF Inv
<1>4. coll[c].jobCounter > 0
  <2>1. coll[c].jobCounter = Cardinality(Remaining(c)) /\ j \in Remaining(c)
    BY <1>1, <1>3, ElementCounts DEF Inv, Remaining, Live
  <2> QED
    BY <1>1, <2>1, RemainingFacts DEF Inv, JobInv
<1>5. PICK i \in DOMAIN coll[c].elements : coll[c].elements[i] = j
  BY <1>1 DEF ToSet
<1>6. ~ (i > coll[c].completed) /\ ~ (i < coll[c].completed)
  BY <1>c, <1>1, <1>3, <1>4, <1>5 DEF SeqInv, OrderInv, OrderOK
<1>7. i \in Int /\ coll[c].completed \in Int
  <2>1. coll[c] \in CollSet /\ coll[c].elements \in Seq(Jobs)
    BY <1>1, ElementFacts DEF Inv, JobInv, Typed
  <2> QED
    BY <1>5, <2>1, LenProperties DEF CollSet
<1>8. i = coll[c].completed
  BY <1>6, <1>7
<1> QED
  BY <1>c, <1>5, <1>8 DEF Current

(* It keeps the order: what has ended is what a sequence has unblocked     *)
(* last.                                                                   *)
LEMMA CallEndOrdered ==
  ASSUME Inv, SeqInv, NEW w \in Workers, NEW t, NEW j, CallEndStep(w, t, j)
  PROVE  SeqInv'
<1>1. Main[w].at \in Own /\ Main[w].at = "callEnd" /\ j = Main[w].of
  BY DEF Own, CallEndStep
<1>2. /\ j \in Jobs /\ ~ Queued(j)
      /\ IsCollection(j) => coll[j].jobCounter = 0
  BY <1>1, OwnFacts DEF Inv
<1>3. \A x : Queued(x)' <=> Queued(x)
  BY DEF CallEndStep, Queued
<1>4. /\ dependencies' \subseteq dependencies
      /\ \A d \in dependencies \ dependencies' : Settled(d[2])'
  BY DEF CallEndStep, ResolveDependencies, Settled, Finished
<1>5. LocalStep(w, t, j)
  BY <1>1, <1>2, <1>3, <1>4 DEF CallEndStep, LocalStep
<1>6. ReportOK(MainOf(t))'
  <2>1. CASE HasParent(j)
    <3>c. PICK c : c = ParentOf(j)
      OBVIOUS
    <3>1. c # j
      BY <2>1, <3>c, ParentFacts DEF Inv, JobInv
    <3>2. IsSequence(c) => coll[c].completed \in DOMAIN coll[c].elements /\ j = Current(c)
      BY <1>1, <2>1, <3>c, EndedIsCurrent
    <3>3. MainOf(t).at = "finished" /\ MainOf(t).of = c /\ MainOf(t).by = j
          /\ coll' = coll /\ program' = program
      BY <2>1, <3>c DEF CallEndStep
    <3> QED
      BY <3>1, <3>2, <3>3 DEF ReportOK, IsSequence, Current
  <2>2. CASE ~ HasParent(j)
    BY <2>2 DEF CallEndStep, ReportOK, Reporting
  <2> QED
    BY <2>1, <2>2
<1>7. j \in DOMAIN coll => coll'[j].jobCounter = 0 /\ coll'[j].api = coll[j].api
  BY <1>2 DEF CallEndStep, IsCollection
<1>8. MainOf(t).at # "restore"
  BY DEF CallEndStep
<1> QED
  BY <1>1, <1>5, <1>6, <1>7, <1>8, OwnOrdered DEF LocalStep

(* A collection counts its elements, which are new; a sequence blocks      *)
(* them.                                                                   *)
PrepareStep(w, t, c) ==
  /\ Goes(w, t) /\ Main[w].at = "finished" /\ Main[w].of = c /\ Main[w].by = c
  /\ MainOf(t).at = "enqueue" /\ MainOf(t).of = c /\ MainOf(t).by = c
  /\ UNCHANGED <<program, assignments, status, ended, dependencies>>
  /\ c \in DOMAIN coll /\ DOMAIN coll' = DOMAIN coll
  /\ \A d \in DOMAIN coll : d # c => coll'[d] = coll[d]
  /\ coll'[c].elements = coll[c].elements /\ coll'[c].api = coll[c].api
  /\ coll'[c].completed = 0
  /\ blocked \subseteq blocked'
  /\ IsSequence(c) => ToSet(coll[c].elements) \subseteq blocked'

(* A collection that is finished itself prepares its elements.             *)
LEMMA PrepareIs ==
  ASSUME Inv, NEW w \in Workers, PrepareElements(w)
  PROVE  \E t, c : PrepareStep(w, t, c)
<1>c. PICK c : c = Top(w).of
  OBVIOUS
<1>f. PICK f : f = [Top(w) EXCEPT !.at = "enqueue"]
  OBVIOUS
<1>t. PICK t : t = <<f>> \o Tail(stack[w])
  OBVIOUS
<1>r. PICK r : r = [coll[c] EXCEPT !.selfIsExecuting = FALSE, !.completed = 0,
                                   !.jobCounter = InitialCount(c)]
  OBVIOUS
<1>1. /\ stack[w] # <<>> /\ Top(w).at = "finished"
      /\ coll[c].selfIsExecuting /\ owner[c] = Nobody
      /\ Hold(w, c) /\ Goto(w, "enqueue")
      /\ coll' = [coll EXCEPT ![c] = r]
      /\ blocked' = IF IsSequence(c) THEN blocked \cup ToSet(coll[c].elements) ELSE blocked
      /\ UNCHANGED <<clientVars, weaverVars, jobVars, dependencies, customers>>
  BY <1>c, <1>r DEF PrepareElements, At, Is, Needs, QueuesElements
<1>2. Main[w] = Top(w) /\ MainOK(Main[w])
  <2>1. Top(w).at \in EndPlaces
    BY <1>1 DEF EndPlaces
  <2> QED
    BY <1>1, <2>1, TopShape DEF Inv, JobInv, MainInvs
<1>3. Itself(w, c, {"finished"})
  <2>1. Main[w].at = "finished" /\ Main[w].of = c
    BY <1>c, <1>1, <1>2
  <2>2. ASSUME Main[w].by # Main[w].of PROVE FALSE
    <3>1. c \in DOMAIN coll /\ coll[c].jobCounter > 0
      BY <2>1, <2>2, ReportingFacts DEF Inv, Reporting
    <3> QED
      BY <1>1, <3>1 DEF Inv, JobInv, CollInv, CollOK
  <2> QED
    BY <2>1, <2>2 DEF Itself
<1>4. /\ c \in DOMAIN coll /\ c \in Jobs /\ coll[c] \in CollSet /\ Unopened(c)
  <2>1. Itself(w, c, {"finished", "enqueue"})
    BY <1>3 DEF Itself
  <2> QED
    BY <2>1, ItselfFacts DEF Inv
<1>5. /\ coll[c].elements \in Seq(Jobs) /\ ToSet(coll[c].elements) \subseteq Kids(c)
      /\ ToSet(coll[c].elements) \subseteq Jobs /\ Len(coll[c].elements) \in Nat
  BY <1>4, ElementFacts, LenProperties DEF Inv, JobInv
<1>6. f \in FrameSet /\ f.at = "enqueue" /\ f.of = c /\ f.by = c
      /\ stack' = [stack EXCEPT ![w] = t]
  <2>1. Top(w).by = c
    BY <1>2, <1>3 DEF Itself
  <2> QED
    BY <1>c, <1>f, <1>t, <1>1, <2>1, GotoIs DEF Inv, Places
<1>7. Main[w] = Top(w) /\ Goes(w, t) /\ Taken(stack[w]) /\ Taken(t) /\ t[Len(t)].at = "clear"
      /\ Clearing' = Clearing /\ Main' = [Main EXCEPT ![w] = f]
      /\ LockedOf(stack[w]) = {} /\ LockedOf(t) = {c}
  <2>c. PICK C : C = {}
    OBVIOUS
  <2>1. Top(w).at \in EndPlaces
    BY <1>1 DEF EndPlaces
  <2>2. EndsWith(stack[w], f, C, t)
    BY <1>t, <1>6, <2>c DEF EndsWith, EndPlaces
  <2>3. Continues(w, f, C, t)
    BY <1>1, <1>6, <2>1, <2>2, EndStep
  <2> QED
    BY <1>1, <1>6, <2>3, <2>c DEF LockOf, Continues
<1>9. /\ r \in CollSet /\ r.elements = coll[c].elements /\ r.api = coll[c].api
      /\ r.completed = 0
  <2>i. PICK i : i = InitialCount(c)
    OBVIOUS
  <2>1. i \in Int /\ i = Len(coll[c].elements) + 1
    BY <1>5, <2>i DEF InitialCount
  <2>2. r = [coll[c] EXCEPT !.selfIsExecuting = FALSE, !.completed = 0, !.jobCounter = i]
    BY <1>r, <2>i
  <2> QED
    BY <1>4, <2>1, <2>2 DEF CollSet
<1>10. /\ DOMAIN coll' = DOMAIN coll /\ coll' \in [DOMAIN program.elements -> CollSet]
       /\ coll'[c] = r /\ \A d \in DOMAIN coll : d # c => coll'[d] = coll[d]
  <2>1. coll \in [DOMAIN program.elements -> CollSet]
    BY DEF Inv, Typed
  <2> QED
    BY <1>1, <1>4, <1>9, <2>1
<1>11. MainOf(t) = f
  <2>1. Main'[w] = f
    BY <1>7 DEF Main
  <2> QED
    BY <1>7, <2>1, StackMoves DEF Inv, Main
<1>12. UNCHANGED <<program, assignments, status, ended, dependencies>>
  BY <1>1 DEF clientVars, weaverVars, jobVars
<1>13. Main[w].at = "finished" /\ Main[w].of = c /\ Main[w].by = c
  BY <1>3 DEF Itself
<1>14. PrepareStep(w, t, c)
  BY <1>1, <1>4, <1>6, <1>7, <1>9, <1>10, <1>11, <1>12, <1>13 DEF PrepareStep
<1> QED
  BY <1>14

(* It keeps the order: the elements are new, and wait.                     *)
LEMMA PrepareOrdered ==
  ASSUME Inv, SeqInv, NEW w \in Workers, NEW t, NEW c, PrepareStep(w, t, c)
  PROVE  SeqInv'
<1>1. Main[w].at \in Reporting /\ Main[w].at # "callEnd" /\ Main[w].at # "restore" /\ c = Main[w].of
  BY DEF Reporting, PrepareStep
<1>2. c \in Jobs /\ ~ Queued(c) /\ DOMAIN coll \subseteq Jobs
  BY <1>1, HeldFacts, FamilyFacts DEF Inv
<1>3. \A x : Queued(x)' <=> Queued(x)
  BY DEF PrepareStep, Queued
<1>4. LocalStep(w, t, c)
  BY <1>1, <1>2, <1>3 DEF PrepareStep, LocalStep
<1>5. Unopened(c) /\ ToSet(coll[c].elements) \subseteq Kids(c)
  <2>1. Itself(w, c, {"finished", "enqueue"})
    BY DEF Itself, PrepareStep
  <2> QED
    BY <2>1, ItselfFacts, ElementFacts DEF Inv, JobInv, PrepareStep
<1>6. OrderOK(c)'
  <2>1. \A x \in ToSet(coll[c].elements) : Waits(x)'
    BY <1>5 DEF Unopened, Waits, PrepareStep
  <2>2. coll[c].elements \in Seq(Jobs)
    BY ElementFacts DEF Inv, JobInv, PrepareStep
  <2>3. \A i \in DOMAIN coll[c].elements :
          ~ (i < 0) /\ coll[c].elements[i] \in ToSet(coll[c].elements)
    BY <2>2, LenProperties DEF ToSet
  <2> QED
    BY <2>1, <2>3 DEF OrderOK, PrepareStep
<1>7. ApiOK(c)'
  <2>1. coll[c].api
    BY <1>1, HeldApi DEF PrepareStep
  <2> QED
    BY <2>1 DEF ApiOK, PrepareStep
<1>8. ReportOK(MainOf(t))'
  BY DEF ReportOK, IsSequence, PrepareStep
<1>9. StopOK(t)'
  BY DEF StopOK, PrepareStep
<1> QED
  BY <1>4, <1>6, <1>7, <1>8, <1>9, LocalKeeps

(* The elements of a collection, which are new, are put into the queue.    *)
EnqueueStep(w, t, c) ==
  /\ Goes(w, t) /\ Main[w].at = "enqueue" /\ Main[w].of = c /\ Main[w].by = c
  /\ MainOf(t).at = "process" /\ MainOf(t).of = c /\ MainOf(t).by = c
  /\ UNCHANGED <<program, ended, blocked, dependencies>>
  /\ c \in DOMAIN coll /\ DOMAIN coll' = DOMAIN coll
  /\ \A d \in DOMAIN coll :
       /\ coll'[d].elements = coll[d].elements /\ coll'[d].jobCounter = coll[d].jobCounter
       /\ coll'[d].completed = coll[d].completed
       /\ d \in ToSet(coll[c].elements) => coll'[d].api
       /\ d \notin ToSet(coll[c].elements) => coll'[d].api = coll[d].api
  /\ Unopened(c) /\ ToSet(coll[c].elements) \subseteq Kids(c) \ {c}
  /\ \A x : Queued(x)' <=> Queued(x) \/ x \in ToSet(coll[c].elements)
  /\ status' = [j \in Jobs |-> IF j \in ToSet(coll[c].elements) THEN "Queued" ELSE status[j]]

(* enqueueElements() puts all of the elements into the queue.              *)
LEMMA EnqueueIs ==
  ASSUME Inv, NEW w \in Workers, EnqueueElements(w)
  PROVE  \E t, c : EnqueueStep(w, t, c)
<1>c. PICK c : c = Top(w).of
  OBVIOUS
<1>js. PICK js : js = coll[c].elements
  OBVIOUS
<1>f. PICK f : f = [Top(w) EXCEPT !.at = "process"]
  OBVIOUS
<1>t. PICK t : t = <<f>> \o Tail(stack[w])
  OBVIOUS
<1>1. /\ stack[w] # <<>> /\ Top(w).at = "enqueue"
      /\ owner["weaver"] = Nobody
      /\ EnqueueAll(js) /\ coll' = KnowQueue(ToSet(js), coll)
      /\ Goto(w, "process")
      /\ UNCHANGED <<clientVars, owner, active, working, held, shouldAbort, begun, ended,
                     policyVars>>
  BY <1>c, <1>js DEF EnqueueElements, At, Is, Needs
<1>2. Main[w] = Top(w) /\ MainOK(Main[w])
  <2>1. Top(w).at \in EndPlaces
    BY <1>1 DEF EndPlaces
  <2> QED
    BY <1>1, <2>1, TopShape DEF Inv, JobInv, MainInvs
<1>3. Itself(w, c, {"enqueue"})
  <2>1. Main[w].at = "enqueue" /\ Main[w].of = c /\ Main[w].by = c
    BY <1>c, <1>1, <1>2 DEF MainOK
  <2> QED
    BY <2>1 DEF Itself
<1>4. /\ c \in DOMAIN coll /\ c \in Jobs /\ coll[c] \in CollSet /\ Unopened(c)
  <2>1. Itself(w, c, {"finished", "enqueue"})
    BY <1>3 DEF Itself
  <2> QED
    BY <2>1, ItselfFacts DEF Inv
<1>5. /\ js \in Seq(Jobs) /\ ToSet(js) \subseteq Kids(c) /\ IsInjective(js)
      /\ ToSet(js) \subseteq Jobs /\ Len(js) \in Nat
  BY <1>js, <1>4, ElementFacts, LenProperties DEF Inv, JobInv
<1>6. f \in FrameSet /\ f.at = "process" /\ f.of = c /\ f.by = c
      /\ stack' = [stack EXCEPT ![w] = t]
  <2>1. Top(w).by = c
    BY <1>2, <1>3 DEF Itself
  <2> QED
    BY <1>c, <1>f, <1>t, <1>1, <2>1, GotoIs DEF Inv, Places
<1>7. Main[w] = Top(w) /\ Goes(w, t) /\ Taken(stack[w]) /\ Taken(t) /\ t[Len(t)].at = "clear"
      /\ Clearing' = Clearing /\ Main' = [Main EXCEPT ![w] = f]
      /\ LockedOf(stack[w]) = {c} /\ LockedOf(t) = {c}
  <2>c. PICK C : C = {}
    OBVIOUS
  <2>1. Top(w).at \in EndPlaces
    BY <1>1 DEF EndPlaces
  <2>2. EndsWith(stack[w], f, C, t)
    BY <1>t, <1>6, <2>c DEF EndsWith, EndPlaces
  <2>3. Continues(w, f, C, t)
    BY <1>1, <1>6, <2>1, <2>2, EndStep
  <2> QED
    BY <1>c, <1>1, <1>6, <2>3, <2>c DEF LockOf, Continues
<1>9. /\ assignments' \in Seq(Jobs) /\ Distinct(assignments')
      /\ ToSet(assignments') = ToSet(assignments) \cup ToSet(js)
      /\ status' = [j \in Jobs |-> IF j \in ToSet(js) THEN "Queued" ELSE status[j]]
  <2>1. ToSet(assignments) \cap ToSet(js) = {}
    <3>1. \A e \in ToSet(js) : e \in Jobs /\ status[e] = "New"
      BY <1>4, <1>5 DEF Unopened
    <3> QED
      BY <3>1 DEF Inv, JobInv, QueueInv, Queued
  <2>2. Distinct(js)
    BY <1>5 DEF Distinct, IsInjective
  <2>3. assignments \in Seq(Jobs) /\ Distinct(assignments) /\ program \in Programs
    BY DEF Inv, Typed, JobInv, QueueInv
  <2> QED
    BY <1>1, <1>5, <2>1, <2>2, <2>3, InsertAllFacts DEF EnqueueAll
<1>10. /\ DOMAIN coll' = DOMAIN coll
       /\ \A d \in DOMAIN coll :
            /\ coll'[d].elements = coll[d].elements /\ coll'[d].jobCounter = coll[d].jobCounter
            /\ coll'[d].completed = coll[d].completed
            /\ d \in ToSet(js) => coll'[d].api
            /\ d \notin ToSet(js) => coll'[d].api = coll[d].api
  <2>k. PICK K : K = ToSet(js)
    OBVIOUS
  <2>1. coll' = KnowQueue(K, coll)
    BY <1>1, <2>k
  <2>2. /\ DOMAIN KnowQueue(K, coll) = DOMAIN coll
        /\ \A d \in DOMAIN coll :
             /\ KnowQueue(K, coll)[d].elements = coll[d].elements
             /\ KnowQueue(K, coll)[d].jobCounter = coll[d].jobCounter
             /\ KnowQueue(K, coll)[d].completed = coll[d].completed
             /\ d \notin K => KnowQueue(K, coll)[d].api = coll[d].api
             /\ d \in K => KnowQueue(K, coll)[d].api
    BY QueueKnown DEF Inv
  <2> QED
    BY <2>k, <2>1, <2>2
<1>11. MainOf(t) = f
  <2>1. Main'[w] = f
    BY <1>7 DEF Main
  <2> QED
    BY <1>7, <2>1, StackMoves DEF Inv, Main
<1>12. UNCHANGED <<program, ended, blocked, dependencies>>
  BY <1>1 DEF clientVars, policyVars
<1>13. Main[w].at = "enqueue" /\ Main[w].of = c /\ Main[w].by = c
  BY <1>3 DEF Itself
<1>14. ToSet(coll[c].elements) \subseteq Kids(c) \ {c}
  BY <1>js, <1>4, <1>5, FamilyFacts DEF Inv
<1>15. \A x : Queued(x)' <=> Queued(x) \/ x \in ToSet(coll[c].elements)
  BY <1>js, <1>9 DEF Queued
<1>16. EnqueueStep(w, t, c)
  BY <1>js, <1>4, <1>6, <1>7, <1>9, <1>10, <1>11, <1>12, <1>13, <1>14, <1>15 DEF EnqueueStep
<1> QED
  BY <1>16

(* It keeps the order: those of a sequence are blocked.                    *)
LEMMA EnqueueOrdered ==
  ASSUME Inv, SeqInv, NEW w \in Workers, NEW t, NEW c, EnqueueStep(w, t, c)
  PROVE  SeqInv'
<1>1. Main[w].at \in Reporting /\ Main[w].at # "callEnd" /\ Main[w].at # "restore" /\ c = Main[w].of
  BY DEF Reporting, EnqueueStep
<1>2. c \in Jobs /\ ~ Queued(c) /\ DOMAIN coll \subseteq Jobs /\ IsCollection(c)
  BY <1>1, HeldFacts, FamilyFacts DEF Inv, EnqueueStep, IsCollection
<1>3. /\ ~ Queued(c)' /\ status'[c] = status[c]
      /\ \A x \in Jobs : x \notin ToSet(coll[c].elements) =>
           status'[x] = status[x] /\ (Queued(x)' <=> Queued(x))
      /\ \A x \in ToSet(coll[c].elements) : x \in Kids(c) /\ status[x] = "New" /\ Queued(x)'
  BY <1>2 DEF EnqueueStep, Unopened
<1>4. LocalStep(w, t, c)
  <2>1. \A x \in Jobs \ {c} :
          \/ status'[x] = status[x] /\ (Queued(x)' <=> Queued(x))
          \/ x \in Below(c) /\ status[x] \in {"New", "Queued"} /\ (status'[x] = "New" \/ Queued(x)')
    BY <1>2, <1>3 DEF Below
  <2>2. \A d \in DOMAIN coll \ {c} :
         /\ coll'[d].elements = coll[d].elements /\ coll'[d].jobCounter = coll[d].jobCounter
         /\ coll'[d].completed = coll[d].completed
         /\ \/ coll'[d].api
            \/ coll'[d].api = coll[d].api /\ status'[d] = status[d]
    BY <1>2, <1>3 DEF EnqueueStep
  <2> QED
    BY <1>1, <1>2, <1>3, <2>1, <2>2 DEF EnqueueStep, LocalStep
<1>5. coll[c].elements \in Seq(Jobs) /\ coll[c].elements = coll'[c].elements /\ c \in DOMAIN coll
  BY ElementFacts DEF Inv, JobInv, EnqueueStep
<1>6. IsSequence(c) => coll[c].completed = 0 /\ ToSet(coll[c].elements) \subseteq blocked
  <2>1. ReportOK(Main[w])
    BY DEF SeqInv, ReportInv
  <2> QED
    BY <1>1, <2>1 DEF ReportOK, EnqueueStep
<1>7. OrderOK(c)'
  <2> SUFFICES ASSUME IsSequence(c) PROVE OrderOK(c)'
    BY DEF OrderOK, IsSequence, EnqueueStep
  <2>1. \A x \in ToSet(coll[c].elements) : Waits(x)'
    BY <1>3, <1>6 DEF Waits, Blocks, EnqueueStep
  <2>3. \A i \in DOMAIN coll[c].elements :
          ~ (i < 0) /\ coll[c].elements[i] \in ToSet(coll[c].elements)
    BY <1>5, LenProperties DEF ToSet
  <2>4. coll'[c].completed = 0
    BY <1>5, <1>6 DEF EnqueueStep
  <2> QED
    BY <1>5, <2>1, <2>3, <2>4 DEF OrderOK
<1>8. ApiOK(c)'
  <2>1. coll[c].api
    BY <1>1, <1>5, HeldApi
  <2>2. c \notin ToSet(coll[c].elements)
    BY DEF EnqueueStep
  <2> QED
    BY <1>5, <2>1, <2>2 DEF ApiOK, EnqueueStep
<1>9. ReportOK(MainOf(t))'
  BY <1>5, <1>6 DEF ReportOK, IsSequence, EnqueueStep
<1>10. StopOK(t)'
  BY DEF StopOK, EnqueueStep
<1> QED
  BY <1>4, <1>7, <1>8, <1>9, <1>10, LocalKeeps

(* A collection counts what has reported to it, and ends with the last.    *)
CountStep(w, t, c) ==
  /\ Goes(w, t) /\ Main[w].at \in Reporting /\ c = Main[w].of
  /\ Main[w].by # Main[w].of \/ Main[w].at \in {"process", "restore"}
  /\ UNCHANGED <<program, assignments, ended>>
  /\ c \in DOMAIN coll /\ DOMAIN coll' = DOMAIN coll
  /\ \A d \in DOMAIN coll : d # c => coll'[d] = coll[d]
  /\ coll'[c].elements = coll[c].elements /\ coll'[c].completed = coll[c].completed + 1
  /\ coll'[c].jobCounter = coll[c].jobCounter - 1
  /\ blocked' = blocked \ Unblocked(c)
  /\ \A x \in Jobs : x # c => status'[x] = status[x]
  /\ coll[c].jobCounter = 1 =>
       /\ MainOf(t).at = "callEnd" /\ MainOf(t).of = c
       /\ dependencies' = ResolveDependencies(dependencies, c, status'[c] = "Success")
  /\ coll[c].jobCounter # 1 =>
       /\ MainOf(t).at \in {"clear", "clearSelf"}
       /\ dependencies' = dependencies /\ coll'[c].api = coll[c].api

(* What counts an element of a collection, or the collection itself.       *)
LEMMA CountIs ==
  ASSUME Inv, NEW w \in Workers, stack[w] # <<>>,
         Top(w).at \in {"finished", "process", "restore"},
         Top(w).at = "finished" => ~ QueuesElements(Top(w).of),
         Top(w).at # "process" => owner[Top(w).of] = Nobody,
         NEW current \in {"Running"} \cup Final, Count(w, Top(w).of, current),
         UNCHANGED <<clientVars, weaverVars, shouldAbort, begun, ended>>
  PROVE  \E t, c : CountStep(w, t, c)
<1>c. PICK c : c = Top(w).of
  OBVIOUS
<1>e. PICK e : e = Top(w).by
  OBVIOUS
<1>l. PICK last \in BOOLEAN : last <=> coll[c].jobCounter = 1
  OBVIOUS
<1>d. PICK done : done = [coll[c] EXCEPT !.selfIsExecuting = FALSE, !.completed = @ + 1,
                                         !.jobCounter = @ - 1]
  OBVIOUS
<1>r. PICK r : r = IF last THEN [done EXCEPT !.api = FALSE] ELSE done
  OBVIOUS
<1>g. PICK g : g = [Top(w) EXCEPT !.at = "clearSelf"]
  OBVIOUS
<1>t. PICK t : t = IF last THEN <<Frame("callEnd", c, c), g>> \o Tail(stack[w]) ELSE Tail(stack[w])
  OBVIOUS
<1>f. PICK f : f = IF last THEN Frame("callEnd", c, c) ELSE MainOf(t)
  OBVIOUS
<1>C. PICK C : C = IF last THEN {c} ELSE {}
  OBVIOUS
<1>0. Main[w] = Top(w) /\ MainOK(Main[w]) /\ Top(w) \in FrameSet /\ Top(w).at \in EndPlaces
  <2>1. Top(w).at \in EndPlaces
    BY DEF EndPlaces
  <2> QED
    BY <2>1, TopShape DEF Inv, JobInv, MainInvs
<1>1. Main[w].at \in Reporting /\ (Main[w].by # Main[w].of \/ Main[w].at \in {"process", "restore"})
  <2>1. Main[w].at \in Reporting
    BY <1>0 DEF Reporting
  <2>2. ASSUME Main[w].by = Main[w].of, Main[w].at = "finished" PROVE FALSE
    <3>1. Executing(c) /\ c \in DOMAIN coll
      BY <1>c, <1>0, <2>1, <2>2 DEF MainOK, IsCollection
    <3>2. shouldAbort[c] = FALSE
      BY <3>1, FamilyFacts DEF Inv, Typed
    <3> QED
      BY <1>c, <1>0, <2>2, <3>1, <3>2 DEF QueuesElements, Executing
  <2> QED
    BY <1>0, <2>1, <2>2
<1>2. /\ c \in DOMAIN coll /\ c \in Jobs /\ coll[c] \in CollSet /\ e \in Jobs
      /\ coll[c].jobCounter \in Nat \ {0}
  BY <1>c, <1>e, <1>0, <1>1, ReporterFacts DEF Inv
<1>3. /\ done \in CollSet /\ done.elements = coll[c].elements /\ done.self = coll[c].self
      /\ done.jobsStarted = coll[c].jobsStarted /\ ~ done.selfIsExecuting
      /\ done.jobCounter = coll[c].jobCounter - 1 /\ done.completed = coll[c].completed + 1
      /\ done.api = coll[c].api
  <2>n. PICK n : n = coll[c].completed + 1
    OBVIOUS
  <2>m. PICK m : m = coll[c].jobCounter - 1
    OBVIOUS
  <2>1. n \in Nat /\ m \in Int
    BY <1>2, <2>n, <2>m DEF CollSet
  <2>2. done = [coll[c] EXCEPT !.selfIsExecuting = FALSE, !.completed = n, !.jobCounter = m]
    BY <1>d, <2>n, <2>m
  <2> QED
    BY <1>2, <2>n, <2>m, <2>1, <2>2 DEF CollSet
<1>4. /\ r \in CollSet /\ r.elements = coll[c].elements
      /\ r.jobCounter = coll[c].jobCounter - 1 /\ r.completed = coll[c].completed + 1
      /\ ~ last => r.api = coll[c].api
  <2>1. r = (IF last THEN [done EXCEPT !.api = FALSE] ELSE done)
    BY <1>r
  <2>d. PICK x : x = done
    OBVIOUS
  <2>2. [x EXCEPT !.api = FALSE] \in CollSet
        /\ [x EXCEPT !.api = FALSE].elements = x.elements
        /\ [x EXCEPT !.api = FALSE].completed = x.completed
        /\ [x EXCEPT !.api = FALSE].jobCounter = x.jobCounter
    BY <1>3, <2>d DEF CollSet
  <2> QED
    BY <1>3, <2>1, <2>2, <2>d
<1>5. LastToReport(done.jobCounter) <=> last
  BY <1>l, <1>2, <1>3 DEF LastToReport
<1>6. /\ blocked' = blocked \ Unblocked(c) /\ Release(c)
      /\ coll' = [coll EXCEPT ![c] = r]
      /\ stack' = [stack EXCEPT ![w] = t]
      /\ last => FinalCleanup(c, current)
      /\ ~ last => status' = [status EXCEPT ![c] = current]
                   /\ UNCHANGED <<dependencies, customers>>
  <2>1. /\ blocked' = blocked \ Unblocked(c) /\ Release(c)
        /\ IF last
             THEN /\ FinalCleanup(c, current)
                  /\ coll' = [coll EXCEPT ![c] = [done EXCEPT !.api = FALSE]]
                  /\ stack' = [stack EXCEPT ![w] = <<Frame("callEnd", c, c),
                                 [Head(@) EXCEPT !.at = "clearSelf"]>> \o Tail(@)]
             ELSE /\ status' = [status EXCEPT ![c] = current]
                  /\ coll' = [coll EXCEPT ![c] = done]
                  /\ Return(w)
                  /\ UNCHANGED <<dependencies, customers>>
    BY <1>c, <1>d, <1>5 DEF Count
  <2>2. last => stack' = [stack EXCEPT ![w] = t]
    BY <1>t, <1>g, <2>1 DEF Top, Inv, Typed
  <2> QED
    BY <1>r, <1>t, <2>1, <2>2 DEF Return
<1>7. last => /\ f \in FrameSet /\ f.at = "callEnd" /\ f.of = c
              /\ g \in FrameSet /\ g.at = "clearSelf" /\ g.of = c
  BY <1>c, <1>f, <1>g, <1>0, <1>2 DEF FrameSet, Frame, Places, Statuses
<1>8. /\ Goes(w, t) /\ Taken(stack[w]) /\ Taken(t) /\ t[Len(t)].at = "clear"
      /\ Clearing' = Clearing \cup C /\ Main' = [Main EXCEPT ![w] = f]
      /\ LockedOf(stack[w]) = LockOf(Top(w)) /\ LockedOf(t) = LockOf(f)
      /\ ~ last => f.at \in {"clear", "clearSelf"}
  <2>1. EndsWith(stack[w], f, C, t)
    BY <1>f, <1>t, <1>C, <1>7 DEF EndsWith
  <2>2. Continues(w, f, C, t)
    BY <1>0, <1>6, <2>1, EndStep
  <2> QED
    BY <1>f, <1>t, <2>2 DEF Continues
<1>13. /\ DOMAIN coll' = DOMAIN coll /\ coll' \in [DOMAIN program.elements -> CollSet]
       /\ coll'[c] = r /\ \A d \in DOMAIN coll : d # c => coll'[d] = coll[d]
  <2>1. coll \in [DOMAIN program.elements -> CollSet]
    BY DEF Inv, Typed
  <2> QED
    BY <1>2, <1>4, <1>6, <2>1
<1>9. MainOf(t) = f
  <2>1. Main'[w] = f
    BY <1>8 DEF Main
  <2> QED
    BY <1>8, <2>1, StackMoves DEF Inv, Main
<1>10. UNCHANGED <<program, assignments, ended>>
  BY DEF clientVars, weaverVars
<1>11. /\ \A x \in Jobs : x # c => status'[x] = status[x]
       /\ last => dependencies' = ResolveDependencies(dependencies, c, status'[c] = "Success")
       /\ ~ last => dependencies' = dependencies
  <2>1. status \in [Jobs -> Statuses]
    BY DEF Inv, Typed
  <2>2. CASE last
    BY <1>2, <1>6, <2>1, <2>2 DEF FinalCleanup, FreePolicies
  <2>3. CASE ~ last
    BY <1>2, <1>6, <2>1, <2>3
  <2> QED
    BY <2>2, <2>3
<1>12. c = Main[w].of
  BY <1>c, <1>0
<1>14. CountStep(w, t, c)
  BY <1>l, <1>1, <1>2, <1>4, <1>6, <1>7, <1>8, <1>9, <1>10, <1>11, <1>12, <1>13 DEF CountStep
<1> QED
  BY <1>14

(* elementFinished() counts an element that does not stop its sequence.    *)
LEMMA ProcessAndCountIs ==
  ASSUME Inv, NEW w \in Workers, ProcessAndCount(w)
  PROVE  /\ Main[w].at # "restore" /\ ~ StopsSequence(Main[w].of, Main[w].by)
         /\ \E t, c : CountStep(w, t, c)
<1>1. Processing(w)
  BY DEF ProcessAndCount
<1>2. PICK current : current = UpdatedStatus(Top(w).by)
  OBVIOUS
<1>3. current \in {"Running"} \cup Final
  BY <1>1, <1>2, ProcessingFacts DEF UpdatedStatus
<1>4. /\ Count(w, Top(w).of, current)
      /\ UNCHANGED <<clientVars, weaverVars, shouldAbort, begun, ended>>
  BY <1>2 DEF ProcessAndCount
<1>5. /\ stack[w] # <<>> /\ Top(w).at \in {"finished", "process"}
      /\ Top(w).at = "finished" => ~ QueuesElements(Top(w).of)
      /\ Top(w).at # "process" => owner[Top(w).of] = Nobody
      /\ Main[w] = Top(w)
  BY <1>1, ProcessingFacts
<1>6. \E t, c : CountStep(w, t, c)
  BY <1>3, <1>4, <1>5, CountIs
<1> QED
  BY <1>5, <1>6 DEF ProcessAndCount

(* elementFinished() counts an element after it has stopped the sequence.  *)
LEMMA RestoreIs ==
  ASSUME Inv, NEW w \in Workers, Restore(w)
  PROVE  /\ Main[w].at = "restore" /\ stack[w] # <<>> /\ stack[w][1].at = "restore"
         /\ \E t, c : CountStep(w, t, c)
<1>1. /\ stack[w] # <<>> /\ Top(w).at = "restore" /\ owner[Top(w).of] = Nobody
      /\ Count(w, Top(w).of, Top(w).kept)
      /\ UNCHANGED <<clientVars, weaverVars, shouldAbort, begun, ended>>
  BY DEF Restore, At, Is, Needs
<1>2. Top(w).kept \in Final /\ Main[w] = Top(w) /\ Top(w) = stack[w][1]
  <2>1. Top(w).at \in EndPlaces
    BY <1>1 DEF EndPlaces
  <2>2. Main[w] = Top(w) /\ MainOK(Main[w]) /\ Top(w) = stack[w][1]
    BY <1>1, <2>1, TopShape DEF Inv, JobInv, MainInvs
  <2> QED
    BY <1>1, <2>2 DEF MainOK
<1>3. PICK current : current = Top(w).kept
  OBVIOUS
<1>4. \E t, c : CountStep(w, t, c)
  BY <1>1, <1>2, <1>3, CountIs
<1> QED
  BY <1>1, <1>2, <1>4

(* When a sequence has been stopped nothing but what stopped it is left.   *)
LEMMA RestoreIsLast ==
  ASSUME Inv, SeqInv, NEW w \in Workers, Main[w].at = "restore", stack[w] # <<>>,
         stack[w][1].at = "restore", NEW c, c = Main[w].of
  PROVE  coll[c].jobCounter = 1
<1>e. PICK e : e = Main[w].by
  OBVIOUS
<1>1. /\ c \in DOMAIN coll /\ coll[c].jobCounter = Cardinality(Remaining(c))
      /\ coll[c].jobCounter \in Nat \ {0} /\ e \in Remaining(c) /\ c \in Jobs
      /\ \A v \in Workers : Main[v].at \in Own => Main[v].of # c
  BY <1>e, ReporterFacts DEF Inv, Reporting
<1>2. /\ IsSequence(c) /\ MainOK(Main[w]) /\ ReportOK(Main[w])
      /\ e = c => coll[c].completed = 0
      /\ e # c => e = Current(c)
  <2>1. MainOK(Main[w]) /\ ReportOK(Main[w])
    BY DEF SeqInv, ReportInv, Inv, JobInv, MainInvs
  <2> QED
    BY <1>e, <2>1 DEF ReportOK, Reporting
<1>3. \A x \in ToSet(coll[c].elements) : ~ Queued(x)
  <2>1. StopOK(stack[w]) /\ MainOf(stack[w]) = Main[w]
    BY DEF SeqInv, StopInv, Main
  <2> QED
    BY <2>1 DEF StopOK
<1>4. /\ coll[c].elements \in Seq(Jobs) /\ coll[c].completed \in Nat
      /\ DOMAIN coll[c].elements = 1..Len(coll[c].elements)
  BY <1>1, ElementFacts, LenProperties DEF Inv, JobInv, Typed, CollSet
<1>5. ASSUME NEW v \in Workers, Main[v].at \in Reporting, Main[v].of = c PROVE v = w
  BY <1>2, <1>5, SoleReporter DEF SeqInv, Reporting
<1>6. ASSUME NEW x \in ToSet(coll[c].elements), Live(x) PROVE x = e
  <2>1. PICK i \in DOMAIN coll[c].elements : coll[c].elements[i] = x
    BY DEF ToSet
  <2>2. x \in Jobs
    BY <1>1, <1>6, ElementFacts DEF Inv, JobInv
  <2>3. ~ Queued(x) /\ status[x] # "New"
    BY <1>3, <1>6, <2>2, NewIsNotLive DEF Inv, JobInv
  <2>4. ASSUME ended[x] > 0 PROVE x = e
    <3>0. ended[x] # 0
      BY <2>4
    <3>1. x \in Tokens
      <4>1. IsCollection(x) => ~ (coll[x].jobCounter > 0)
        BY <3>0 DEF Inv, JobInv, CollInv, CollOK, IsCollection
      <4> QED
        BY <1>6, <2>3, <4>1 DEF Live
    <3>2. PICK v \in Workers : Bears(v, x)
      BY <3>1 DEF Tokens
    <3>3. MainOK(Main[v])
      BY DEF Inv, JobInv, MainInvs
    <3>4. Main[v].at \in Reporting /\ Main[v].by = x
      BY <3>0, <3>2, <3>3, BearsIs DEF MainOK
    <3>5. Main[v].by # Main[v].of
      BY <3>0, <3>3, <3>4 DEF MainOK
    <3>6. Main[v].of = c
      <4>1. Main[v].of \in DOMAIN coll /\ x \in ToSet(coll[Main[v].of].elements)
        BY <3>3, <3>4, <3>5 DEF MainOK, IsCollection
      <4>p. PICK p : p = Main[v].of
        OBVIOUS
      <4>2. x \in Kids(p) /\ x \in Kids(c) /\ p \in DOMAIN coll
        BY <1>1, <1>6, <4>1, <4>p, ElementFacts DEF Inv, JobInv
      <4>3. p # c => Kids(c) \cap Kids(p) = {}
        BY <1>1, <4>2, FamilyFacts DEF Inv
      <4> QED
        BY <4>p, <4>2, <4>3
    <3> QED
      BY <1>e, <1>5, <3>4, <3>6
  <2>5. i <= coll[c].completed
    <3>1. OrderOK(c)
      BY <1>1 DEF SeqInv, OrderInv
    <3>2. ~ Waits(x)
      BY <2>3 DEF Waits
    <3> QED
      BY <1>1, <1>2, <1>4, <2>1, <3>1, <3>2 DEF OrderOK
  <2>6. CASE i = coll[c].completed
    <3>1. e # c
      BY <1>2, <1>4, <2>6
    <3> QED
      BY <1>2, <2>1, <2>6, <3>1 DEF Current
  <2>7. CASE i < coll[c].completed
    <3>1. Done(x)
      BY <1>1, <1>2, <1>4, <2>1, <2>7 DEF SeqInv, OrderInv, OrderOK
    <3> QED
      BY <2>4, <3>1 DEF Done
  <2> QED
    BY <1>4, <2>5, <2>6, <2>7
<1>7. ASSUME NEW v \in Workers, Itself(v, c, {"finished", "process", "restore"}) PROVE e = c
  <2>1. v = w
    BY <1>5, <1>7 DEF Itself, Reporting
  <2> QED
    BY <1>e, <1>7, <2>1 DEF Itself
<1>8. Remaining(c) = {e}
  BY <1>1, <1>6, <1>7 DEF Remaining
<1> QED
  BY <1>1, <1>8, FS_Singleton

(* Counting keeps the order: the element that was current is done, and the *)
(* next one is unblocked.                                                  *)
LEMMA CountOrdered ==
  ASSUME Inv, SeqInv, NEW w \in Workers, NEW t, NEW c, CountStep(w, t, c),
         Main[w].at # "restore" => ~ StopsSequence(Main[w].of, Main[w].by),
         Main[w].at = "restore" => stack[w] # <<>> /\ stack[w][1].at = "restore"
  PROVE  SeqInv'
<1>e. PICK e : e = Main[w].by
  OBVIOUS
<1>1. Main[w].at \in Reporting /\ Main[w].at # "callEnd" /\ c = Main[w].of
  BY DEF Reporting, CountStep
<1>2. /\ c \in Jobs /\ ~ Queued(c) /\ DOMAIN coll \subseteq Jobs /\ c \in DOMAIN coll
      /\ IsCollection(c)
  BY <1>1, HeldFacts, FamilyFacts DEF Inv, CountStep, IsCollection
<1>3. \A x : Queued(x)' <=> Queued(x)
  BY DEF CountStep, Queued
<1>4. coll[c].jobCounter = 1 => Finished(c)'
  <2> SUFFICES ASSUME coll[c].jobCounter = 1 PROVE Finished(c)'
    OBVIOUS
  <2>1. Main'[w] = MainOf(t)
    BY StackMoves DEF CountStep, Inv, Main
  <2> QED
    BY <2>1 DEF Finished, CountStep
<1>5. /\ coll[c].elements \in Seq(Jobs) /\ coll[c].completed \in Nat
      /\ DOMAIN coll[c].elements = 1..Len(coll[c].elements)
      /\ ToSet(coll[c].elements) \subseteq Kids(c) /\ IsInjective(coll[c].elements)
  BY <1>2, ElementFacts, LenProperties DEF Inv, JobInv, Typed, CollSet
<1>6. Unblocked(c) \subseteq Kids(c)
  BY <1>5 DEF Unblocked, ToSet
<1>7. LocalStep(w, t, c)
  <2>1. dependencies' \subseteq dependencies
        /\ \A d \in dependencies \ dependencies' : Settled(d[2])'
    <3>1. CASE coll[c].jobCounter = 1
      BY <1>4, <3>1 DEF CountStep, ResolveDependencies, Settled
    <3>2. CASE coll[c].jobCounter # 1
      BY <3>2 DEF CountStep
    <3> QED
      BY <3>1, <3>2
  <2> QED
    BY <1>1, <1>2, <1>3, <1>6, <2>1 DEF CountStep, LocalStep, Below
<1>8. OrderOK(c)'
  <2> SUFFICES ASSUME IsSequence(c), coll'[c].jobCounter > 0,
                      NEW i \in DOMAIN coll[c].elements
               PROVE  /\ i > coll[c].completed + 1 => Waits(coll[c].elements[i])'
                      /\ i < coll[c].completed + 1 => Done(coll[c].elements[i])'
    BY DEF OrderOK, IsSequence, CountStep
  <2>x. PICK x : x = coll[c].elements[i]
    OBVIOUS
  <2>n. PICK n : n = coll[c].completed
    OBVIOUS
  <2>1. coll[c].jobCounter # 1 /\ coll[c].jobCounter > 0 /\ Main[w].at # "restore"
    <3>1. coll[c].jobCounter \in Nat \ {0}
      BY <1>1, ReporterFacts DEF Inv, CountStep
    <3>2. coll[c].jobCounter # 1
      BY <3>1 DEF CountStep
    <3> QED
      BY <1>1, <3>1, <3>2, RestoreIsLast
  <2>2. /\ i > n => Waits(x)
        /\ i < n => Done(x)
    BY <1>2, <2>x, <2>n, <2>1 DEF SeqInv, OrderInv, OrderOK
  <2>3. x \in Jobs /\ x # c
    BY <1>2, <1>5, <2>x, ElementFacts DEF ToSet, Inv, JobInv
  <2>4. i = n => Done(x)
    <3> SUFFICES ASSUME i = n PROVE Done(x)
      OBVIOUS
    <3>1. ReportOK(Main[w])
      BY DEF SeqInv, ReportInv
    <3>2. e # c
      <4>1. ASSUME e = c PROVE n = 0
        BY <1>e, <1>1, <2>n, <3>1, <4>1 DEF ReportOK, CountStep
      <4> QED
        BY <1>5, <4>1
    <3>3. x = e
      BY <1>e, <1>1, <2>x, <2>n, <3>1, <3>2 DEF ReportOK, Current
    <3>4. status[e] = "Success"
      BY <1>e, <1>1, <2>1 DEF StopsSequence
    <3>5. Ended(e)
      BY <1>e, <1>1, <3>2, ReporterFacts DEF Inv, CountStep
    <3> QED
      BY <3>3, <3>4, <3>5 DEF Ended, Done
  <2>5. i > n + 1 => x \notin Unblocked(c)
    BY <1>5, <2>x, <2>n DEF Unblocked, IsInjective
  <2>6. /\ i > n + 1 => Waits(x)'
        /\ i < n + 1 => Done(x)'
    <3>1. status'[x] = status[x] /\ ended'[x] = ended[x] /\ (Queued(x)' <=> Queued(x))
      BY <1>3, <2>3 DEF CountStep
    <3>2. i > n + 1 => (Blocks(x) => Blocks(x)')
      BY <2>5 DEF Blocks, CountStep
    <3>3. /\ i > n + 1 => i > n
          /\ i < n + 1 => i < n \/ i = n
      BY <1>5, <2>n
    <3> QED
      BY <2>2, <2>4, <3>1, <3>2, <3>3 DEF Waits, Done
  <2>7. coll'[c].elements[i] = x
    BY <2>x DEF CountStep
  <2> QED
    BY <2>n, <2>6, <2>7 DEF Waits, Done
<1>9. ApiOK(c)'
  <2>1. CASE coll[c].jobCounter = 1
    BY <1>4, <2>1 DEF ApiOK
  <2>2. CASE coll[c].jobCounter # 1
    <3>1. coll[c].api
      BY <1>1, <1>2, <2>2, HeldApi, RestoreIsLast
    <3> QED
      BY <2>2, <3>1 DEF ApiOK, CountStep
  <2> QED
    BY <2>1, <2>2
<1>10. ReportOK(MainOf(t))' /\ StopOK(t)'
  BY DEF ReportOK, StopOK, Reporting, CountStep
<1> QED
  BY <1>7, <1>8, <1>9, <1>10, LocalKeeps

(* A sequence takes the status of an element that has failed, and stops.   *)
ProcessAndStopStep(w, t, c) ==
  /\ Goes(w, t) /\ Main[w].at \in {"finished", "process"} /\ c = Main[w].of
  /\ Main[w].by # c \/ Main[w].at = "process"
  /\ c \in DOMAIN coll /\ IsSequence(c)
  /\ UNCHANGED <<program, assignments, ended, coll, blocked, dependencies>>
  /\ status'[c] \in Final \ {"Success"} /\ \A x \in Jobs : x # c => status'[x] = status[x]
  /\ MainOf(t).at = "restore" /\ MainOf(t).of = c /\ MainOf(t).by = Main[w].by
  /\ MainOf(t).kept = status'[c]
  /\ t # <<>> /\ t[1].at = "stop" /\ t[1].k = 1

(* elementFinished() stops a sequence, one of whose elements has failed.   *)
LEMMA ProcessAndStopIs ==
  ASSUME Inv, NEW w \in Workers, ProcessAndStop(w)
  PROVE  \E t, c : ProcessAndStopStep(w, t, c)
<1>c. PICK c : c = Top(w).of
  OBVIOUS
<1>o. PICK o : o = UpdatedStatus(Top(w).by)
  OBVIOUS
<1>f. PICK f : f = [Top(w) EXCEPT !.at = "restore", !.kept = o]
  OBVIOUS
<1>g. PICK g : g = Frame("stop", c, c)
  OBVIOUS
<1>t. PICK t : t = <<g, f>> \o Tail(stack[w])
  OBVIOUS
<1>1. /\ Processing(w) /\ StopsSequence(c, Top(w).by)
      /\ status' = [status EXCEPT ![c] = o]
      /\ coll' = [coll EXCEPT ![c].selfIsExecuting = FALSE]
      /\ Release(c)
      /\ stack' = [stack EXCEPT ![w] = <<Frame("stop", c, c),
                     [Head(@) EXCEPT !.at = "restore", !.kept = o]>> \o Tail(@)]
      /\ UNCHANGED <<clientVars, weaverVars, shouldAbort, begun, ended, policyVars>>
  BY <1>c, <1>o DEF ProcessAndStop, GivesUpMutex
<1>2. /\ stack[w] # <<>> /\ Top(w).at \in {"finished", "process"}
      /\ Top(w).at # "process" => owner[c] = Nobody
      /\ Main[w] = Top(w) /\ c \in DOMAIN coll /\ Top(w).by \in Jobs
      /\ o \in Final /\ o # "Success" /\ IsSequence(c)
      /\ Main[w].by # Main[w].of \/ Main[w].at = "process"
  <2>1. Top(w).at \in {"finished", "process"} /\ status[Top(w).by] \in Final
        /\ (Top(w).at = "finished" => Top(w).by # Top(w).of)
        /\ Main[w] = Top(w)
    BY <1>1, ProcessingFacts
  <2>2. o \in Final /\ o # "Success" /\ IsSequence(c)
    BY <1>c, <1>o, <1>1, <2>1 DEF UpdatedStatus, StopsSequence
  <2> QED
    BY <1>c, <1>1, <2>1, <2>2, ProcessingFacts
<1>3. /\ c \in Jobs /\ coll[c] \in CollSet /\ ~ coll[c].selfIsExecuting
  <2>1. /\ Main[w].at \in Reporting
        /\ Main[w].by # Main[w].of \/ Main[w].at \in {"process", "restore"}
        /\ c = Main[w].of
    BY <1>c, <1>2 DEF Reporting
  <2> QED
    BY <2>1, ReporterFacts DEF Inv
<1>4. coll' = coll
  <2>1. [coll[c] EXCEPT !.selfIsExecuting = FALSE] = coll[c]
    BY <1>3 DEF CollSet
  <2>2. coll \in [DOMAIN program.elements -> CollSet]
    BY DEF Inv, Typed
  <2>r. PICK r : r = [coll[c] EXCEPT !.selfIsExecuting = FALSE]
    OBVIOUS
  <2>3. coll' = [coll EXCEPT ![c] = r] /\ r = coll[c]
    BY <1>1, <2>1, <2>r
  <2> QED
    BY <2>2, <2>3
<1>5. /\ f \in FrameSet /\ f.at = "restore" /\ f.of = c /\ f.by = Main[w].by /\ f.kept = o
      /\ g \in FrameSet /\ g.at = "stop" /\ g.of = f.of
      /\ stack' = [stack EXCEPT ![w] = t]
  <2>1. Top(w) \in FrameSet
    BY <1>2, TopShape DEF Inv
  <2>2. /\ f \in FrameSet /\ f.at = "restore" /\ f.of = c /\ f.by = Main[w].by /\ f.kept = o
    BY <1>c, <1>f, <1>2, <2>1 DEF FrameSet, Places, Statuses
  <2>3. g \in FrameSet /\ g.at = "stop" /\ g.of = c
    BY <1>g, <1>3 DEF FrameSet, Places, StopPlaces, Statuses, Frame
  <2>4. stack' = [stack EXCEPT ![w] = t]
    BY <1>t, <1>f, <1>g, <1>1 DEF Top, Inv, Typed
  <2> QED
    BY <2>2, <2>3, <2>4
<1>6. /\ Goes(w, t) /\ Taken(stack[w]) /\ Taken(t) /\ t[Len(t)].at = "clear"
      /\ Clearing' = Clearing /\ Main' = [Main EXCEPT ![w] = f]
      /\ LockedOf(stack[w]) = LockOf(Top(w)) /\ LockedOf(t) = {}
  <2>C. PICK C : C = {}
    OBVIOUS
  <2>1. Top(w).at \in EndPlaces
    BY <1>2 DEF EndPlaces
  <2>2. EndsWith(stack[w], f, C, t)
    BY <1>t, <1>5, <2>C DEF EndsWith
  <2>3. Continues(w, f, C, t)
    BY <1>2, <1>5, <2>1, <2>2, EndStep
  <2> QED
    BY <1>5, <2>3, <2>C DEF Continues, LockOf
<1>8. /\ UNCHANGED <<program, script, active, working, held, shouldAbort, assignments, begun,
                     ended, blocked, dependencies, customers>>
      /\ status' \in [Jobs -> Statuses] /\ status'[c] = o
      /\ \A x \in Jobs \ {c} : status'[x] = status[x]
  <2>1. status \in [Jobs -> Statuses]
    BY DEF Inv, Typed
  <2> QED
    BY <1>1, <1>2, <1>3, <2>1 DEF clientVars, weaverVars, policyVars, Statuses
<1>7. MainOf(t) = f
  <2>1. Main'[w] = f
    BY <1>6 DEF Main
  <2> QED
    BY <1>6, <2>1, StackMoves DEF Inv, Main
<1>9. t # <<>> /\ t[1].at = "stop" /\ t[1].k = 1
  <2>1. stack[w] \in Seq(FrameSet) /\ stack[w] # <<>>
    BY <1>2, TopShape DEF Inv
  <2>2. t # <<>> /\ t[1] = g
    BY <1>t, <1>5, <2>1, PushCall
  <2> QED
    BY <1>g, <2>2 DEF Frame
<1>10. ProcessAndStopStep(w, t, c)
  BY <1>c, <1>2, <1>4, <1>5, <1>6, <1>7, <1>8, <1>9 DEF ProcessAndStopStep
<1> QED
  BY <1>10

(* It keeps the order: the sequence goes on counting the same element.     *)
LEMMA ProcessAndStopOrdered ==
  ASSUME Inv, SeqInv, NEW w \in Workers, NEW t, NEW c, ProcessAndStopStep(w, t, c)
  PROVE  SeqInv'
<1>1. Main[w].at \in Reporting /\ Main[w].at # "callEnd" /\ Main[w].at # "restore" /\ c = Main[w].of
  BY DEF Reporting, ProcessAndStopStep
<1>2. c \in Jobs /\ ~ Queued(c) /\ DOMAIN coll \subseteq Jobs /\ c \in DOMAIN coll
  BY <1>1, HeldFacts, FamilyFacts DEF Inv, ProcessAndStopStep
<1>3. \A x : Queued(x)' <=> Queued(x)
  BY DEF ProcessAndStopStep, Queued
<1>4. LocalStep(w, t, c)
  BY <1>1, <1>2, <1>3 DEF ProcessAndStopStep, LocalStep
<1>5. coll[c].elements \in Seq(Jobs) /\ c \notin ToSet(coll[c].elements)
      /\ \A i \in DOMAIN coll[c].elements :
           coll[c].elements[i] \in ToSet(coll[c].elements) /\ coll[c].elements[i] \in Jobs
  BY <1>2, ElementFacts DEF Inv, JobInv, ToSet
<1>6. OrderOK(c)'
  <2>1. OrderOK(c)
    BY <1>2 DEF SeqInv, OrderInv
  <2>2. \A i \in DOMAIN coll[c].elements :
          /\ Waits(coll[c].elements[i]) => Waits(coll[c].elements[i])'
          /\ Done(coll[c].elements[i]) => Done(coll[c].elements[i])'
    BY <1>3, <1>5 DEF Waits, Done, Blocks, ProcessAndStopStep
  <2> QED
    BY <2>1, <2>2 DEF OrderOK, IsSequence, ProcessAndStopStep
<1>7. ApiOK(c)'
  <2>1. coll[c].api
    BY <1>1, <1>2, HeldApi
  <2> QED
    BY <2>1 DEF ApiOK, ProcessAndStopStep
<1>8. ReportOK(MainOf(t))'
  <2>1. ReportOK(Main[w])
    BY DEF SeqInv, ReportInv
  <2>f. PICK f : f = MainOf(t)
    OBVIOUS
  <2>2. ReportOK(f)'
    BY <1>1, <2>f, <2>1 DEF ReportOK, IsSequence, Current, ProcessAndStopStep
  <2> QED
    BY <2>f, <2>2 DEF ReportOK
<1>9. StopOK(t)'
  <2>1. coll[c].elements \in Seq(Jobs)
    BY <1>5
  <2> QED
    BY DEF StopOK, ProcessAndStopStep
<1> QED
  BY <1>4, <1>6, <1>7, <1>8, <1>9, LocalKeeps

(* A sequence that stops takes an element out of the queue.                *)
StopElementStep(w, t, c, e, n) ==
  /\ Goes(w, t) /\ Main[w].at = "restore" /\ c = Main[w].of /\ MainOf(t) = Main[w]
  /\ stack[w] # <<>> /\ stack[w][1].at = "stopElement" /\ n = stack[w][1].k /\ n \in Nat
  /\ c \in DOMAIN coll /\ n \in DOMAIN coll[c].elements /\ e = coll[c].elements[n]
  /\ t # <<>> /\ t[1].at = "stopElement" /\ t[1].k = n + 1
  /\ UNCHANGED <<program, ended, dependencies>>
  /\ blocked' \in {blocked, blocked \ {e}}
  /\ \A x : Queued(x)' <=> Queued(x) /\ x # e
  /\ status' = IF Queued(e) THEN [status EXCEPT ![e] = "New"] ELSE status
  /\ DOMAIN coll' = DOMAIN coll
  /\ \A d \in DOMAIN coll :
       /\ coll'[d].elements = coll[d].elements /\ coll'[d].completed = coll[d].completed
       /\ d # e => coll'[d].api = coll[d].api
       /\ Queued(e) => coll'[d].jobCounter =
                         IF d = c THEN coll[d].jobCounter - 1 ELSE coll[d].jobCounter
  /\ ~ Queued(e) => coll' = coll

(* stop() takes an element out of the queue, or finds it gone.             *)
LEMMA StopElementIs ==
  ASSUME Inv, NEW w \in Workers, StopElement(w)
  PROVE  \E t, c, e, n : StopElementStep(w, t, c, e, n)
<1>c. PICK c : c = Top(w).of
  OBVIOUS
<1>n. PICK n : n = Top(w).k
  OBVIOUS
<1>e. PICK e : e = coll[c].elements[n]
  OBVIOUS
<1>f. PICK f : f = [Top(w) EXCEPT !.k = @ + 1]
  OBVIOUS
<1>t. PICK t : t = <<f>> \o Tail(stack[w])
  OBVIOUS
<1>1. /\ stack[w] # <<>> /\ Top(w).at = "stopElement" /\ n <= Len(coll[c].elements)
      /\ owner["weaver"] = Nobody
      /\ assignments' = Without(e)
      /\ status' = IF Queued(e) THEN [status EXCEPT ![e] = "New"] ELSE status
      /\ coll' = IF Queued(e) THEN CountDequeued(c, ForgetQueue({e}, coll)) ELSE coll
      /\ blocked' \in {blocked, blocked \ {e}}
      /\ stack' = [stack EXCEPT ![w] = t]
      /\ UNCHANGED <<clientVars, owner, active, working, held, shouldAbort, begun, ended,
                     dependencies, customers>>
  <2>1. /\ stack[w] # <<>> /\ Top(w).at = "stopElement" /\ n <= Len(coll[c].elements)
        /\ \A m \in Needs(w) : owner[m] = Nobody
        /\ assignments' = Without(e)
        /\ status' = IF Queued(e) THEN [status EXCEPT ![e] = "New"] ELSE status
        /\ coll' = IF Queued(e) THEN CountDequeued(c, ForgetQueue({e}, coll)) ELSE coll
        /\ ElementDequeued(c, e)
        /\ Become(w, f)
        /\ UNCHANGED <<clientVars, owner, active, working, held, shouldAbort, begun, ended,
                       dependencies, customers>>
    BY <1>c, <1>n, <1>e, <1>f DEF StopElement, At, Is
  <2>2. "weaver" \in Needs(w)
    BY <1>c, <1>n, <2>1 DEF Needs
  <2>3. blocked' \in {blocked, blocked \ {e}}
    BY <2>1 DEF ElementDequeued
  <2>4. stack' = [stack EXCEPT ![w] = t]
    BY <1>t, <2>1 DEF Become, Inv, Typed
  <2> QED
    BY <2>1, <2>2, <2>3, <2>4
<1>2. /\ stack[w] \in Seq(FrameSet) /\ Top(w) = stack[w][1] /\ Top(w) \in FrameSet
      /\ Ending(stack[w]) /\ stack[w][1].at \in StopPlaces
      /\ c \in DOMAIN coll /\ c \in Jobs /\ Main[w].at = "restore" /\ Main[w].of = c
  BY <1>c, <1>1, TopShape, StopFacts DEF Inv, StopPlaces
<1>3. n \in Nat \ {0} /\ f \in FrameSet /\ f.at = "stopElement" /\ f.of = c
      /\ f.k = n + 1
  <2>1. n \in Nat \ {0}
    BY <1>2, <1>n DEF FrameSet
  <2>m. PICK m : m = n + 1
    OBVIOUS
  <2>2. m \in Nat \ {0}
    BY <2>1, <2>m
  <2>3. f = [Top(w) EXCEPT !.k = m]
    BY <1>f, <1>n, <2>m
  <2> QED
    BY <1>c, <2>m, <1>1, <1>2, <2>1, <2>2, <2>3 DEF FrameSet
<1>4. /\ t \in Seq(FrameSet) /\ Ending(t) /\ MainOf(t) = MainOf(stack[w])
      /\ ClearingOf(t) = ClearingOf(stack[w]) /\ t[1] = f
  BY <1>c, <1>t, <1>2, <1>3, StopMoves DEF StopPlaces
<1>8. e \in ToSet(coll[c].elements) /\ e \in Jobs
  <2>1. coll[c].elements \in Seq(Jobs) /\ ToSet(coll[c].elements) \subseteq Jobs
    BY <1>2, ElementFacts DEF Inv, JobInv
  <2>2. DOMAIN coll[c].elements = 1..Len(coll[c].elements) /\ Len(coll[c].elements) \in Nat
    BY <2>1, LenProperties
  <2> QED
    BY <1>e, <1>1, <1>3, <2>1, <2>2 DEF ToSet
<1>9. /\ assignments' \in Seq(Jobs) /\ Distinct(assignments')
      /\ ToSet(assignments') = ToSet(assignments) \ {e}
      /\ ~ Queued(e) => assignments' = assignments
  BY <1>1, WithoutFacts DEF Inv, Typed, JobInv, QueueInv
<1>5. Goes(w, t) /\ t # <<>>
  BY <1>1, <1>4, EndingStack DEF Goes
<1>10. /\ DOMAIN coll' = DOMAIN coll
       /\ \A d \in DOMAIN coll :
            /\ coll'[d].elements = coll[d].elements /\ coll'[d].completed = coll[d].completed
            /\ d # e => coll'[d].api = coll[d].api
            /\ Queued(e) => coll'[d].jobCounter =
                              IF d = c THEN coll[d].jobCounter - 1 ELSE coll[d].jobCounter
       /\ ~ Queued(e) => coll' = coll
  <2>2. CASE ~ Queued(e)
    BY <1>1, <2>2
  <2>3. CASE Queued(e)
    <3>x. PICK x : x = ForgetQueue({e}, coll)
      OBVIOUS
    <3>1. coll' = [x EXCEPT ![c].jobCounter = @ - 1]
      BY <1>1, <2>3, <3>x DEF CountDequeued
    <3>2. /\ DOMAIN x = DOMAIN coll
          /\ \A d \in DOMAIN coll :
               /\ x[d].elements = coll[d].elements /\ x[d].jobCounter = coll[d].jobCounter
               /\ x[d].completed = coll[d].completed
               /\ d \notin {e} => x[d].api = coll[d].api
      <4>k. PICK E : E = {e}
        OBVIOUS
      <4>1. /\ DOMAIN ForgetQueue(E, coll) = DOMAIN coll
            /\ \A d \in DOMAIN coll :
                 /\ ForgetQueue(E, coll)[d].elements = coll[d].elements
                 /\ ForgetQueue(E, coll)[d].jobCounter = coll[d].jobCounter
                 /\ ForgetQueue(E, coll)[d].completed = coll[d].completed
                 /\ d \notin E => ForgetQueue(E, coll)[d].api = coll[d].api
        BY QueueKnown DEF Inv
      <4>2. x = ForgetQueue(E, coll)
        BY <3>x, <4>k
      <4> QED
        BY <4>k, <4>1, <4>2
    <3>3. \E b \in BOOLEAN : x[c] = [coll[c] EXCEPT !.api = b]
      <4>1. x[c] = [coll[c] EXCEPT !.api = coll[c].api /\ c \notin {e}]
        BY <1>2, <3>x DEF ForgetQueue
      <4> QED
        BY <4>1
    <3>y. PICK y : y = x[c]
      OBVIOUS
    <3>4. y \in CollSet
      <4>1. coll[c] \in CollSet
        BY <1>2, FamilyFacts DEF Inv
      <4>r. PICK r : r = coll[c]
        OBVIOUS
      <4>2. \A b \in BOOLEAN : [r EXCEPT !.api = b] \in CollSet
        BY <4>1, <4>r DEF CollSet
      <4> QED
        BY <3>3, <3>y, <4>r, <4>2
    <3>m. PICK m : m = y.jobCounter - 1
      OBVIOUS
    <3>r. PICK r : r = [y EXCEPT !.jobCounter = m]
      OBVIOUS
    <3>5. coll' = [x EXCEPT ![c] = r]
      BY <3>1, <3>y, <3>m, <3>r
    <3>6. r.elements = y.elements /\ r.completed = y.completed /\ r.api = y.api /\ r.jobCounter = m
      BY <3>4, <3>r DEF CollSet
    <3>7. coll'[c] = r /\ \A d \in DOMAIN coll : d # c => coll'[d] = x[d]
      BY <1>2, <3>2, <3>5
    <3>8. DOMAIN coll' = DOMAIN coll
      BY <3>2, <3>5
    <3>9. m = coll[c].jobCounter - 1
      BY <1>2, <3>2, <3>y, <3>m
    <3> QED
      BY <1>2, <2>3, <3>2, <3>6, <3>7, <3>8, <3>9, <3>y
  <2> QED
    BY <2>2, <2>3
<1>11. UNCHANGED <<program, ended, dependencies>>
  BY <1>1 DEF clientVars
<1>12. n \in DOMAIN coll[c].elements
  <2>1. coll[c].elements \in Seq(Jobs)
    BY <1>2, ElementFacts DEF Inv, JobInv
  <2>2. DOMAIN coll[c].elements = 1..Len(coll[c].elements) /\ Len(coll[c].elements) \in Nat
    BY <2>1, LenProperties
  <2> QED
    BY <1>1, <1>3, <2>2
<1>13. \A x : Queued(x)' <=> Queued(x) /\ x # e
  BY <1>9 DEF Queued
<1>14. StopElementStep(w, t, c, e, n)
  <2>1. MainOf(t) = Main[w] /\ stack[w][1].at = "stopElement" /\ n = stack[w][1].k
        /\ t[1].at = "stopElement" /\ t[1].k = n + 1 /\ n \in Nat
    BY <1>n, <1>1, <1>2, <1>3, <1>4 DEF Main
  <2> QED
    BY <1>e, <1>1, <1>2, <1>5, <1>10, <1>11, <1>12, <1>13, <2>1 DEF StopElementStep
<1> QED
  BY <1>14

(* It keeps the order: the elements it has passed are not queued.          *)
LEMMA StopElementOrdered ==
  ASSUME Inv, SeqInv, NEW w \in Workers, NEW t, NEW c, NEW e, NEW n,
         StopElementStep(w, t, c, e, n)
  PROVE  SeqInv'
<1>1. Main[w].at \in Reporting /\ Main[w].at # "callEnd" /\ Main[w].at = "restore"
      /\ c = Main[w].of
  BY DEF Reporting, StopElementStep
<1>2. /\ c \in Jobs /\ ~ Queued(c) /\ DOMAIN coll \subseteq Jobs /\ c \in DOMAIN coll
      /\ IsCollection(c)
  BY <1>1, HeldFacts, FamilyFacts DEF Inv, StopElementStep, IsCollection
<1>3. /\ coll[c].elements \in Seq(Jobs) /\ c \notin ToSet(coll[c].elements)
      /\ \A i \in DOMAIN coll[c].elements :
           coll[c].elements[i] \in ToSet(coll[c].elements) /\ coll[c].elements[i] \in Jobs
      /\ e \in ToSet(coll[c].elements) /\ e \in Kids(c) /\ e \in Jobs /\ e # c
      /\ DOMAIN coll[c].elements = 1..Len(coll[c].elements)
      /\ IsInjective(coll[c].elements)
  <2>1. /\ coll[c].elements \in Seq(Jobs) /\ c \notin ToSet(coll[c].elements)
        /\ ToSet(coll[c].elements) \subseteq Kids(c) /\ ToSet(coll[c].elements) \subseteq Jobs
        /\ IsInjective(coll[c].elements)
        /\ DOMAIN coll[c].elements = 1..Len(coll[c].elements)
    BY <1>2, ElementFacts, LenProperties DEF Inv, JobInv
  <2>2. \A i \in DOMAIN coll[c].elements : coll[c].elements[i] \in ToSet(coll[c].elements)
    BY DEF ToSet
  <2>3. e \in ToSet(coll[c].elements)
    BY <2>2 DEF StopElementStep
  <2> QED
    BY <2>1, <2>2, <2>3
<1>4. /\ \A x \in Jobs : x # e => status'[x] = status[x] /\ (Queued(x)' <=> Queued(x))
      /\ Queued(e) => status[e] = "Queued" /\ status'[e] = "New"
      /\ ~ Queued(e) => status'[e] = status[e]
      /\ ~ Queued(e)'
  <2>1. status \in [Jobs -> Statuses]
    BY DEF Inv, Typed
  <2>2. Queued(e) => status[e] = "Queued"
    BY <1>3 DEF Inv, JobInv, QueueInv
  <2> QED
    BY <1>3, <2>1, <2>2 DEF StopElementStep
<1>5. LocalStep(w, t, c)
  <2>1. \A x \in Jobs \ {c} :
          \/ status'[x] = status[x] /\ (Queued(x)' <=> Queued(x))
          \/ x \in Below(c) /\ status[x] \in {"New", "Queued"} /\ (status'[x] = "New" \/ Queued(x)')
    BY <1>2, <1>3, <1>4 DEF Below
  <2>2. \A d \in DOMAIN coll \ {c} :
         /\ coll'[d].elements = coll[d].elements /\ coll'[d].jobCounter = coll[d].jobCounter
         /\ coll'[d].completed = coll[d].completed
         /\ \/ coll'[d].api \/ status'[d] = "New"
            \/ coll'[d].api = coll[d].api /\ status'[d] = status[d]
    BY <1>2, <1>4 DEF StopElementStep
  <2>3. blocked \ Below(c) \subseteq blocked' /\ ~ Queued(c)'
    BY <1>2, <1>3, <1>4 DEF StopElementStep, Below
  <2>4. \A x \in Jobs \ {c} : ended'[x] = ended[x]
    BY DEF StopElementStep
  <2> QED
    BY <1>1, <1>2, <2>1, <2>2, <2>3, <2>4 DEF StopElementStep, LocalStep
<1>6. ReportOK(Main[w]) /\ StopOK(stack[w]) /\ MainOf(stack[w]) = Main[w]
  BY DEF SeqInv, ReportInv, StopInv, Main
<1>7. /\ coll'[c].elements = coll[c].elements /\ coll'[c].completed = coll[c].completed
      /\ coll'[c].api = coll[c].api /\ status'[c] = status[c] /\ IsSequence(c)
      /\ coll'[c].jobCounter > 0 => coll[c].jobCounter > 0
  <2>1. coll[c].jobCounter \in Int
    BY <1>2 DEF Inv, Typed, CollSet
  <2>2. IsSequence(c)
    BY <1>1, <1>6 DEF ReportOK
  <2>3. /\ coll'[c].elements = coll[c].elements /\ coll'[c].completed = coll[c].completed
        /\ coll'[c].api = coll[c].api /\ status'[c] = status[c]
    BY <1>2, <1>3, <1>4 DEF StopElementStep
  <2>4. coll'[c].jobCounter \in {coll[c].jobCounter, coll[c].jobCounter - 1}
    BY <1>2 DEF StopElementStep
  <2> QED
    BY <2>1, <2>2, <2>3, <2>4
<1>8. OrderOK(c)'
  <2>1. coll'[c].jobCounter > 0 => \A i \in DOMAIN coll[c].elements :
          /\ i > coll[c].completed => Waits(coll[c].elements[i])
          /\ i < coll[c].completed => Done(coll[c].elements[i])
    BY <1>2, <1>7 DEF SeqInv, OrderInv, OrderOK
  <2>2. ASSUME NEW x \in Jobs PROVE (Waits(x) => Waits(x)') /\ (Done(x) => Done(x)')
    <3>1. CASE x = e
      BY <1>4, <3>1 DEF Waits, Done, StopElementStep
    <3>2. CASE x # e
      BY <1>4, <3>2 DEF Waits, Done, Blocks, StopElementStep
    <3> QED
      BY <3>1, <3>2
  <2>3. coll'[c].jobCounter > 0 =>
          \A i \in DOMAIN coll[c].elements : LET x == coll[c].elements[i] IN
            /\ i > coll[c].completed => Waits(x)'
            /\ i < coll[c].completed => Done(x)'
    <3> SUFFICES ASSUME coll'[c].jobCounter > 0, NEW i \in DOMAIN coll[c].elements,
                        NEW x, x = coll[c].elements[i]
                 PROVE  /\ i > coll[c].completed => Waits(x)'
                        /\ i < coll[c].completed => Done(x)'
      BY <1>7 DEF Waits, Done
    <3> QED
      BY <1>3, <2>1, <2>2
  <2> QED
    BY <1>7, <2>3 DEF OrderOK, Waits, Done
<1>9. ApiOK(c)'
  <2>1. coll[c].api
    <3>1. stack[w][1].at # "restore"
      BY DEF StopElementStep
    <3> QED
      BY <1>1, <1>2, <3>1, HeldApi
  <2> QED
    BY <1>7, <2>1 DEF ApiOK
<1>10. ReportOK(MainOf(t))'
  <2>f. PICK f : f = MainOf(t)
    OBVIOUS
  <2>1. f = Main[w]
    BY <2>f DEF StopElementStep
  <2>2. ReportOK(f)'
    BY <1>1, <1>6, <1>7, <2>1 DEF ReportOK, IsSequence, Current, StopElementStep
  <2> QED
    BY <2>f, <2>2 DEF ReportOK
<1>11. StopOK(t)'
  <2>1. ASSUME NEW i \in DOMAIN coll[c].elements, i < n + 1
        PROVE  ~ Queued(coll[c].elements[i])'
    <3>x. PICK x : x = coll[c].elements[i]
      OBVIOUS
    <3>1. i = n \/ i < n
      <4>0. Len(coll[c].elements) \in Nat
        BY <1>3, LenProperties
      <4>1. i \in Nat
        BY <1>3, <4>0
      <4>2. n \in Nat
        BY DEF StopElementStep
      <4> QED
        BY <2>1, <4>1, <4>2
    <3>2. i < n => ~ Queued(x)
      BY <1>1, <1>6, <3>x DEF StopOK, StopElementStep
    <3>3. i = n => x = e
      BY <3>x DEF StopElementStep
    <3>4. ~ Queued(x)'
      BY <3>1, <3>2, <3>3 DEF StopElementStep
    <3>5. coll'[c].elements[i] = x
      BY <3>x, <1>7
    <3> QED
      BY <3>4, <3>5 DEF Queued
  <2> QED
    BY <1>1, <1>7, <2>1 DEF StopOK, StopElementStep, Queued
<1> QED
  BY <1>5, <1>8, <1>9, <1>10, <1>11, LocalKeeps

(* All elements of the sequence are out of the queue, and it forgets that. *)
StopDoneStep(w, t, c) ==
  /\ Goes(w, t) /\ Main[w].at = "restore" /\ c = Main[w].of /\ MainOf(t) = Main[w]
  /\ stack[w] # <<>> /\ stack[w][1].at = "stopElement" /\ c \in DOMAIN coll
  /\ ~ (stack[w][1].k <= Len(coll[c].elements)) /\ stack[w][1].k \in Nat
  /\ t # <<>> /\ t[1].at = "restore"
  /\ UNCHANGED <<program, assignments, status, ended, blocked, dependencies>>
  /\ DOMAIN coll' = DOMAIN coll
  /\ \A d \in DOMAIN coll : d # c => coll'[d] = coll[d]
  /\ coll'[c].elements = coll[c].elements /\ coll'[c].completed = coll[c].completed
  /\ coll'[c].jobCounter = coll[c].jobCounter

(* stop() has passed all of the elements, and none of them is queued.      *)
LEMMA StopDoneIs ==
  ASSUME Inv, SeqInv, NEW w \in Workers, StopDone(w)
  PROVE  \E t, c : StopDoneStep(w, t, c)
<1>c. PICK c : c = Top(w).of
  OBVIOUS
<1>s. PICK s : s = stack[w]
  OBVIOUS
<1>t. PICK t : t = Tail(s)
  OBVIOUS
<1>1. /\ s # <<>> /\ Top(w).at = "stopElement"
      /\ Top(w).k > Len(coll[c].elements)
      /\ \/ FinalCleanup(c, status[c]) /\ coll' = [coll EXCEPT ![c].api = FALSE]
         \/ UNCHANGED <<status, dependencies, customers, coll>>
      /\ Release(c)
      /\ stack' = [stack EXCEPT ![w] = t]
      /\ UNCHANGED <<clientVars, weaverVars, shouldAbort, begun, ended, blocked>>
  BY <1>c, <1>s, <1>t DEF StopDone, At, Is, Return, Inv, Typed
<1>2. /\ s \in Seq(FrameSet) /\ Top(w) = s[1] /\ Ending(s) /\ s[1].at \in StopPlaces
      /\ c \in DOMAIN coll /\ c \in Jobs /\ Main[w].at = "restore" /\ Main[w].of = c
  BY <1>c, <1>s, <1>1, TopShape, StopFacts DEF Inv, StopPlaces
<1>3. /\ t \in Seq(FrameSet) /\ Ending(t) /\ MainOf(t) = MainOf(s)
      /\ ClearingOf(t) = ClearingOf(s) /\ t[1] = s[2] /\ s[2].at = "restore"
  BY <1>t, <1>2, StopReturns, EndingStack
<1>4. Goes(w, t) /\ t # <<>>
  BY <1>s, <1>1, <1>3, EndingStack DEF Goes
<1>5. Main[w] = MainOf(s) /\ MainOf(t) = Main[w] /\ Main[w].at \in Reporting
  BY <1>s, <1>2, <1>3 DEF Main, Reporting
<1>6. status[c] \in Final \ {"Success"}
  <2>1. ReportOK(Main[w]) /\ MainOK(Main[w])
    BY DEF SeqInv, ReportInv, Inv, JobInv, MainInvs
  <2> QED
    BY <1>2, <2>1 DEF ReportOK, MainOK
<1>7. /\ \A d \in DOMAIN coll : d # c => coll'[d] = coll[d]
      /\ DOMAIN coll' = DOMAIN coll
      /\ coll'[c].elements = coll[c].elements /\ coll'[c].completed = coll[c].completed
      /\ coll'[c].jobCounter = coll[c].jobCounter
  <2>2. CASE coll' = coll
    BY <2>2
  <2>3. CASE coll' = [coll EXCEPT ![c].api = FALSE]
    <3>x. PICK x : x = coll[c]
      OBVIOUS
    <3>r. PICK r : r = [x EXCEPT !.api = FALSE]
      OBVIOUS
    <3>0. x \in CollSet
      BY <1>2, <3>x, FamilyFacts DEF Inv
    <3>1. r.elements = x.elements /\ r.completed = x.completed /\ r.jobCounter = x.jobCounter
      BY <3>0, <3>r DEF CollSet
    <3>2. coll' = [coll EXCEPT ![c] = r]
      BY <2>3, <3>x, <3>r
    <3> QED
      BY <1>2, <3>1, <3>2, <3>x
  <2> QED
    BY <1>1, <2>2, <2>3
<1>8. UNCHANGED <<program, assignments, status, ended, blocked, dependencies>>
  <2>1. UNCHANGED <<program, assignments, ended, blocked>>
    BY <1>1 DEF clientVars, weaverVars
  <2>2. UNCHANGED <<status, dependencies>>
    <3>1. CASE FinalCleanup(c, status[c])
      <4>1. FinalStatus(c, status[c]) = status[c]
        BY <1>2, <1>6 DEF FinalStatus, Inv, Typed
      <4>2. status \in [Jobs -> Statuses]
        BY DEF Inv, Typed
      <4> QED
        BY <1>6, <3>1, <4>1, <4>2 DEF FinalCleanup, FreePolicies, ResolveDependencies
    <3> QED
      BY <1>1, <3>1
  <2> QED
    BY <2>1, <2>2
<1>9. Top(w).k \in Nat /\ Len(coll[c].elements) \in Nat
  <2>1. Top(w) \in FrameSet
    BY <1>s, <1>1, TopShape DEF Inv
  <2>2. coll[c].elements \in Seq(Jobs)
    BY <1>2, ElementFacts DEF Inv, JobInv
  <2> QED
    BY <2>1, <2>2, LenProperties DEF FrameSet
<1>10. StopDoneStep(w, t, c)
  BY <1>s, <1>1, <1>2, <1>3, <1>4, <1>5, <1>7, <1>8, <1>9 DEF StopDoneStep
<1> QED
  BY <1>10

(* It keeps the order, and leaves the sequence stopped.                    *)
LEMMA StopDoneOrdered ==
  ASSUME Inv, SeqInv, NEW w \in Workers, NEW t, NEW c, StopDoneStep(w, t, c)
  PROVE  SeqInv'
<1>1. Main[w].at \in Reporting /\ Main[w].at # "callEnd" /\ Main[w].at = "restore"
      /\ c = Main[w].of
  BY DEF Reporting, StopDoneStep
<1>2. /\ c \in Jobs /\ ~ Queued(c) /\ DOMAIN coll \subseteq Jobs /\ c \in DOMAIN coll
  BY <1>1, HeldFacts, FamilyFacts DEF Inv, StopDoneStep
<1>3. \A x : Queued(x)' <=> Queued(x)
  BY DEF StopDoneStep, Queued
<1>4. LocalStep(w, t, c)
  BY <1>1, <1>2, <1>3 DEF StopDoneStep, LocalStep
<1>5. ReportOK(Main[w]) /\ StopOK(stack[w]) /\ MainOf(stack[w]) = Main[w]
  BY DEF SeqInv, ReportInv, StopInv, Main
<1>6. OrderOK(c)'
  <2>1. OrderOK(c)
    BY <1>2 DEF SeqInv, OrderInv
  <2> QED
    BY <2>1 DEF OrderOK, IsSequence, Waits, Done, Queued, Blocks, StopDoneStep
<1>7. ApiOK(c)'
  <2>1. Main'[w] = MainOf(t) /\ stack'[w] = t
    BY StackMoves DEF StopDoneStep, Inv, Main
  <2> QED
    BY <1>1, <2>1 DEF ApiOK, Stopped, StopDoneStep
<1>8. ReportOK(MainOf(t))'
  <2>f. PICK f : f = MainOf(t)
    OBVIOUS
  <2>1. f = Main[w]
    BY <2>f DEF StopDoneStep
  <2>2. ReportOK(f)'
    BY <1>1, <1>5, <2>1 DEF ReportOK, IsSequence, Current, StopDoneStep
  <2> QED
    BY <2>f, <2>2 DEF ReportOK
<1>9. StopOK(t)'
  <2>1. /\ coll[c].elements \in Seq(Jobs) /\ Len(coll[c].elements) \in Nat
        /\ DOMAIN coll[c].elements = 1..Len(coll[c].elements)
    BY <1>2, ElementFacts, LenProperties DEF Inv, JobInv
  <2>2. \A e \in ToSet(coll[c].elements) : ~ Queued(e)
    <3>1. \A i \in DOMAIN coll[c].elements : i < stack[w][1].k
      BY <2>1 DEF StopDoneStep
    <3> QED
      BY <1>1, <1>5, <3>1 DEF StopOK, StopDoneStep, ToSet
  <2> QED
    BY <1>1, <1>3, <2>2 DEF StopOK, StopDoneStep
<1> QED
  BY <1>4, <1>6, <1>7, <1>8, <1>9, LocalKeeps

(* What is not about jobs leaves the queue and the collections as they are. *)
LEMMA NothingQueued ==
  ASSUME Typed, UNCHANGED <<program, stack, ended, blocked, assignments, status, coll>>,
         dependencies' \subseteq dependencies,
         dependencies \subseteq dependencies' \cup program.removed
  PROVE  UserQueues({})
<1>1. status' = [j \in Jobs |-> IF j \in {} THEN "Queued" ELSE status[j]]
  BY DEF Typed
<1>2. \A x : Queued(x)' <=> Queued(x) \/ x \in {}
  BY DEF Queued
<1> QED
  BY <1>1, <1>2 DEF UserQueues

(* A user that enqueues jobs.                                               *)
LEMMA UserEnqueueIs ==
  ASSUME Inv, NEW u \in Users, Enqueue(u), IsInjective(On(u)),
         \A j \in ToSet(On(u)) : status[j] = "New" /\ ~ IsElement(j)
  PROVE  UserQueues(ToSet(On(u)))
<1>js. PICK js : js = On(u)
  OBVIOUS
<1>k. PICK K : K = ToSet(js)
  OBVIOUS
<1>1. /\ stack[u] = <<>> /\ script[u] # <<>> /\ Head(script[u]).do = "enqueue"
      /\ owner["weaver"] = Nobody
      /\ EnqueueAll(js) /\ coll' = KnowQueue(K, coll)
      /\ script' = [script EXCEPT ![u] = Tail(@)]
      /\ UNCHANGED <<program, output, stack, owner, active, working, held, shouldAbort, begun,
                     ended, blocked, dependencies, customers>>
  BY <1>js, <1>k DEF Enqueue, Calls, Called, policyVars
<1>2. js \in Seq(Jobs)
  <2>1. script[u] \in Seq(ToSet(program.scripts[u])) /\ program \in Programs
    BY DEF Inv, Typed
  <2>2. Head(script[u]) \in ToSet(program.scripts[u])
    BY <1>1, <2>1, HeadTailProperties
  <2> QED
    BY <1>js, <1>1, <2>1, <2>2, ProgramsAssumption DEF On
<1>3. K \subseteq Jobs /\ Distinct(js) /\ \A e \in K : status[e] = "New" /\ ~ IsElement(e)
  <2>1. DOMAIN js = 1..Len(js)
    BY <1>2, LenProperties
  <2> QED
    BY <1>js, <1>k, <1>2, <2>1, ElementOfSeq DEF ToSet, Distinct, IsInjective
<1>4. /\ assignments' \in Seq(Jobs) /\ Distinct(assignments')
      /\ ToSet(assignments') = ToSet(assignments) \cup K
      /\ status' = [j \in Jobs |-> IF j \in K THEN "Queued" ELSE status[j]]
  <2>1. ToSet(assignments) \cap K = {}
    BY <1>3 DEF Inv, JobInv, QueueInv, Queued
  <2>2. assignments \in Seq(Jobs) /\ Distinct(assignments) /\ program \in Programs
    BY DEF Inv, Typed, JobInv, QueueInv
  <2> QED
    BY <1>k, <1>1, <1>2, <1>3, <2>1, <2>2, InsertAllFacts DEF EnqueueAll
<1>5. /\ DOMAIN coll' = DOMAIN coll
      /\ \A d \in DOMAIN coll :
           /\ coll'[d].elements = coll[d].elements /\ coll'[d].jobCounter = coll[d].jobCounter
           /\ coll'[d].completed = coll[d].completed
           /\ d \in K => coll'[d].api
           /\ d \notin K => coll'[d].api = coll[d].api
  <2>c. PICK cs : cs = KnowQueue(K, coll)
    OBVIOUS
  <2>1. /\ DOMAIN cs = DOMAIN coll
        /\ \A d \in DOMAIN coll :
             /\ cs[d].elements = coll[d].elements /\ cs[d].jobCounter = coll[d].jobCounter
             /\ cs[d].completed = coll[d].completed
             /\ d \in K => cs[d].api
             /\ d \notin K => cs[d].api = coll[d].api
    BY <2>c, QueueKnown DEF Inv
  <2>2. coll' = cs
    BY <1>1, <2>c
  <2> QED
    BY <2>1, <2>2
<1>6. \A x : Queued(x)' <=> Queued(x) \/ x \in K
  BY <1>4 DEF Queued
<1>7. UserQueues(K)
  BY <1>1, <1>3, <1>4, <1>5, <1>6 DEF UserQueues
<1> QED
  BY <1>js, <1>k, <1>7

(* A user disturbs no order.                                                *)
LEMMA UserIs ==
  ASSUME Inv, NEW u \in Users, UserStep(u), Undisturbed
  PROVE  \E K : UserQueues(K)
<1>1. ~ CallJob(u)
  BY DEF Undisturbed
<1>2. CASE Enqueue(u)
  <2>1. IsInjective(On(u)) /\ \A j \in ToSet(On(u)) : status[j] = "New" /\ ~ IsElement(j)
    BY <1>2 DEF Undisturbed
  <2>2. UserQueues(ToSet(On(u)))
    BY <1>2, <2>1, UserEnqueueIs
  <2> QED
    BY <2>2
<1>3. CASE DequeueAll(u)
  <2>1. assignments = <<>>
    BY <1>3 DEF Undisturbed
  <2>2. coll' = coll
    <3>1. coll \in [DOMAIN program.elements -> CollSet]
      BY DEF Inv, Typed
    <3>2. \A d \in DOMAIN coll : [coll[d] EXCEPT !.api = coll[d].api /\ d \notin {}] = coll[d]
      <4> TAKE d \in DOMAIN coll
      <4>x. PICK x : x = coll[d]
        OBVIOUS
      <4>1. x \in CollSet
        BY <3>1, <4>x
      <4>2. [x EXCEPT !.api = x.api /\ d \notin {}] = x
        <5>b. PICK b : b = x.api
          OBVIOUS
        <5>1. b \in BOOLEAN
          BY <4>1, <5>b DEF CollSet
        <5>2. (b /\ d \notin {}) = b
          BY <5>1
        <5>3. [x EXCEPT !.api = b] = x
          BY <4>1, <5>b DEF CollSet
        <5> QED
          BY <5>b, <5>2, <5>3
      <4> QED
        BY <4>x, <4>2
    <3>3. ToSet(assignments) = {}
      BY <2>1 DEF ToSet
    <3>4. coll' = [d \in DOMAIN coll |-> [coll[d] EXCEPT !.api = coll[d].api /\ d \notin {}]]
      BY <1>3, <3>3 DEF DequeueAll, ForgetQueue
    <3> QED
      BY <3>1, <3>2, <3>4
  <2>3. UNCHANGED <<program, stack, ended, blocked, assignments, status, coll, dependencies>>
    BY <1>3, <2>1, <2>2 DEF DequeueAll, Calls, Called, policyVars, jobVars
  <2>4. UserQueues({})
    BY <2>3, NothingQueued DEF Inv
  <2> QED
    BY <2>4
<1>4. CASE RemoveDependency(u)
  <2>1. /\ UNCHANGED <<program, stack, ended, blocked, assignments, status, coll>>
        /\ dependencies' = dependencies \ {<<On(u)[1], On(u)[2]>>}
        /\ script[u] # <<>> /\ Head(script[u]).do = "removeDependency"
    BY <1>4 DEF RemoveDependency, Calls, Called, weaverVars, jobVars
  <2>2. script[u] \in Seq(ToSet(program.scripts[u])) /\ program \in Programs
    BY DEF Inv, Typed
  <2>3. Head(script[u]) \in ToSet(program.scripts[u])
    BY <2>1, <2>2, HeadTailProperties
  <2>4. <<On(u)[1], On(u)[2]>> \in program.removed
    BY <2>1, <2>2, <2>3, ProgramsAssumption DEF On
  <2>5. UserQueues({})
    BY <2>1, <2>4, NothingQueued DEF Inv
  <2> QED
    BY <2>5
<1>5. CASE SuspendOrResume(u) \/ Finish(u) \/ AwaitStart(u) \/ Observe(u)
  <2>1. UNCHANGED <<program, stack, ended, blocked, assignments, status, coll, dependencies>>
    BY <1>5 DEF SuspendOrResume, Finish, AwaitStart, Observe, Calls, Called, policyVars,
                weaverVars, jobVars
  <2>2. UserQueues({})
    BY <2>1, NothingQueued DEF Inv
  <2> QED
    BY <2>2
<1> QED
  BY <1>1, <1>2, <1>3, <1>4, <1>5 DEF UserStep

(* What a thread can do outside the calls.                                  *)
LEMMA WorkerOrdered ==
  ASSUME Inv, SeqInv, NEW w \in Workers, WorkerStep(w)
  PROVE  SeqInv'
<1>1. CASE Take(w)
  <2>1. PICK t, j : TakeStep(w, t, j)
    BY <1>1, TakeIs
  <2> QED
    BY <2>1, TakeOrdered
<1>2. CASE Apply(w) \/ Store(w) \/ Report(w)
  <2>1. PICK t : StillStep(w, t)
    BY <1>2, ApplyIs, StoreIs, ReportIs
  <2>2. StopOK(t)
    BY <2>1 DEF StillStep, StopOK, Reporting
  <2> QED
    BY <2>1, <2>2, NothingMoves
<1> QED
  BY <1>1, <1>2 DEF WorkerStep

(* What a thread can do in the calls that change no order.                  *)
LEMMA StillOrdered ==
  ASSUME Inv, SeqInv, NEW w \in Workers,
         \/ Execute(w) \/ End(w) \/ Clear(w) \/ ElementStarted(w) \/ StartedUnlock(w)
         \/ ClearSelf(w) \/ Stop(w) \/ StopDequeue(w) \/ StopElements(w)
  PROVE  SeqInv'
<1>1. CASE Stop(w) \/ StopDequeue(w) \/ StopElements(w)
  <2>1. PICK t : StopStep(w, t)
    BY <1>1, StopIs
  <2>2. StopOK(t)
    BY <2>1, StopStepOK
  <2> QED
    BY <2>1, <2>2, NothingMoves
<1>2. CASE \/ Execute(w) \/ End(w) \/ Clear(w) \/ ElementStarted(w) \/ StartedUnlock(w)
           \/ ClearSelf(w)
  <2>1. PICK t : StillStep(w, t)
    BY <1>2, ExecuteIs, EndIs, ClearIs, ElementStartedIs, StartedUnlockIs, ClearSelfIs
  <2>2. StopOK(t)
    BY <2>1 DEF StillStep, StopOK, Reporting
  <2> QED
    BY <2>1, <2>2, NothingMoves
<1> QED
  BY <1>1, <1>2

(* What a thread can do in the calls that move a job or a sequence.         *)
LEMMA MovingOrdered ==
  ASSUME Inv, SeqInv, NEW w \in Workers,
         \/ SetRunning(w) \/ Run(w) \/ CallEnd(w) \/ PrepareElements(w) \/ EnqueueElements(w)
         \/ ProcessAndCount(w) \/ ProcessAndStop(w) \/ Restore(w) \/ StopElement(w)
         \/ StopDone(w)
  PROVE  SeqInv'
<1>1. CASE SetRunning(w)
  <2>1. PICK t, j : SetRunningStep(w, t, j)
    BY <1>1, SetRunningIs
  <2> QED
    BY <2>1, SetRunningOrdered
<1>2. CASE Run(w)
  <2>1. PICK t, j : RunStep(w, t, j)
    BY <1>2, RunIs
  <2> QED
    BY <2>1, RunOrdered
<1>3. CASE CallEnd(w)
  <2>1. PICK t, j : CallEndStep(w, t, j)
    BY <1>3, CallEndIs
  <2> QED
    BY <2>1, CallEndOrdered
<1>4. CASE PrepareElements(w)
  <2>1. PICK t, c : PrepareStep(w, t, c)
    BY <1>4, PrepareIs
  <2> QED
    BY <2>1, PrepareOrdered
<1>5. CASE EnqueueElements(w)
  <2>1. PICK t, c : EnqueueStep(w, t, c)
    BY <1>5, EnqueueIs
  <2> QED
    BY <2>1, EnqueueOrdered
<1>6. CASE ProcessAndStop(w)
  <2>1. PICK t, c : ProcessAndStopStep(w, t, c)
    BY <1>6, ProcessAndStopIs
  <2> QED
    BY <2>1, ProcessAndStopOrdered
<1>7. CASE StopElement(w)
  <2>1. PICK t, c, e, n : StopElementStep(w, t, c, e, n)
    BY <1>7, StopElementIs
  <2> QED
    BY <2>1, StopElementOrdered
<1>8. CASE StopDone(w)
  <2>1. PICK t, c : StopDoneStep(w, t, c)
    BY <1>8, StopDoneIs
  <2> QED
    BY <2>1, StopDoneOrdered
<1>9. CASE ProcessAndCount(w) \/ Restore(w)
  <2>1. /\ Main[w].at = "restore" => stack[w] # <<>> /\ stack[w][1].at = "restore"
        /\ Main[w].at # "restore" => ~ StopsSequence(Main[w].of, Main[w].by)
        /\ \E t, c : CountStep(w, t, c)
    BY <1>9, ProcessAndCountIs, RestoreIs
  <2>2. PICK t, c : CountStep(w, t, c)
    BY <2>1
  <2> QED
    BY <2>1, <2>2, CountOrdered
<1> QED
  BY <1>1, <1>2, <1>3, <1>4, <1>5, <1>6, <1>7, <1>8, <1>9

(* A call that a thread makes is none to take a job back or abort it.      *)
LEMMA NoThreadTakesBack ==
  ASSUME Inv, NEW w \in Workers
  PROVE  ~ (\/ Dequeue(w) \/ DequeueFound(w) \/ Abort(w) \/ AbortElements(w) \/ AbortElement(w)
            \/ AbortAll(w) \/ AbortThread(w) \/ AbortedThread(w))
<1>1. ASSUME stack[w] # <<>>
      PROVE  Top(w).at \notin {"dequeue", "dequeueFound", "abort", "abortElements",
                               "abortElement", "abortAll", "abortThread", "abortedThread"}
  <2>1. Top(w) \in FrameSet
    BY <1>1, TopShape DEF Inv
  <2> QED
    BY <2>1 DEF FrameSet, Places, StopPlaces
<1>2. ~ (\/ Dequeue(w) \/ DequeueFound(w) \/ Abort(w) \/ AbortElements(w) \/ AbortElement(w)
         \/ AbortAll(w) \/ AbortThread(w) \/ AbortedThread(w))
  BY <1>1 DEF Dequeue, DequeueFound, Abort, AbortElements, AbortElement, AbortAll, AbortThread,
              AbortedThread, At, Is
<1> QED
  BY <1>2

(* No user is in a call of a job.                                          *)
LEMMA UsersCallNothing ==
  ASSUME Inv, NEW u \in Users
  PROVE  ~ CallStep(u)
<1>1. stack[u] = <<>>
  BY DEF Inv, Typed
<1> QED
  BY <1>1 DEF CallStep, Execute, SetRunning, Run, End, CallEnd, Clear, ElementStarted,
     StartedUnlock, PrepareElements, EnqueueElements, ProcessAndCount, ProcessAndStop,
     Processing, Restore, ClearSelf, Stop, StopDequeue, Dequeue, DequeueFound, StopElements,
     StopElement, StopDone, Abort, AbortElements, AbortElement, AbortAll, AbortThread,
     AbortedThread, At, Is

(* Nothing at all is queued by nobody.                                     *)
LEMMA UnchangedIs ==
  ASSUME Inv, UNCHANGED vars
  PROVE  UserQueues({})
<1>1. UNCHANGED <<program, stack, ended, blocked, assignments, status, coll, dependencies>>
  BY DEF vars, clientVars, weaverVars, policyVars, jobVars
<1> QED
  BY <1>1, NothingQueued DEF Inv

(* Every step keeps the order.                                              *)
LEMMA NextOrdered ==
  ASSUME Inv, SeqInv, [Next]_vars, [Undisturbed]_vars
  PROVE  SeqInv'
<1>1. CASE UNCHANGED vars
  <2>1. UserQueues({})
    BY <1>1, UnchangedIs
  <2> QED
    BY <2>1, UserOrdered
<1>2. ASSUME NEW a \in Workers, CallStep(a) PROVE SeqInv'
  <2>1. ~ (\/ Dequeue(a) \/ DequeueFound(a) \/ Abort(a) \/ AbortElements(a) \/ AbortElement(a)
           \/ AbortAll(a) \/ AbortThread(a) \/ AbortedThread(a))
    BY NoThreadTakesBack
  <2> QED
    BY <1>2, <2>1, StillOrdered, MovingOrdered DEF CallStep
<1>3. ASSUME NEW a \in Actors, Step(a), Undisturbed PROVE SeqInv'
  <2>1. CASE a \in Workers
    <3>1. a \notin Users
      BY <2>1, ActorsAssumption
    <3> QED
      BY <1>2, <1>3, <2>1, <3>1, WorkerOrdered DEF Step
  <2>2. CASE a \in Users
    <3>1. a \notin Workers /\ ~ CallStep(a)
      BY <2>2, ActorsAssumption, UsersCallNothing
    <3>3. PICK K : UserQueues(K)
      BY <1>3, <2>2, <3>1, UserIs DEF Step
    <3> QED
      BY <3>3, UserOrdered
  <2> QED
    BY <2>1, <2>2 DEF Actors
<1> QED
  BY <1>1, <1>3 DEF Next

-------------------------------------------------------------------------------
(* The order, and what depends on other jobs *)

(* Once a sequence counts, its elements before the one it has unblocked    *)
(* last have succeeded, and those behind it have not begun; what reports   *)
(* to it is that one.                                                      *)
THEOREM SequencesKeepOrder == Spec /\ [][Undisturbed]_vars => []SeqInv
<1>1. Inv /\ SeqInv /\ [Next]_vars /\ [Undisturbed]_vars => SeqInv'
  BY NextOrdered
<1> QED
  BY <1>1, InitOrdered, CollectionsInvariant, PTL DEF Spec

(* A collection whose end() has been called, or is about to be, counts     *)
(* nothing any more.                                                       *)
LEMMA FinishedIsEmpty ==
  ASSUME Inv, NEW c \in DOMAIN coll, Finished(c)
  PROVE  \A e \in ToSet(coll[c].elements) : ~ Queued(e) /\ ~ InProgress(e)
<1>1. c \in Jobs
  BY FamilyFacts DEF Inv
<1>2. Remaining(c) = {}
  <2>1. CASE ended[c] > 0
    <3>1. ended[c] # 0
      BY <1>1, <2>1
    <3>2. ~ (coll[c].jobCounter > 0)
      BY <3>1 DEF Inv, JobInv, CollInv, CollOK
    <3>3. \A w \in Workers : ~ Itself(w, c, {"finished", "enqueue"})
      BY <3>1 DEF Inv, JobInv, MainInvs, MainOK, Itself, Reporting
    <3>4. coll[c].jobCounter = Cardinality(Remaining(c))
      BY <3>3 DEF Inv, JobInv, CountInv
    <3>5. Cardinality(Remaining(c)) \in Nat
      BY RemainingFacts DEF Inv, JobInv
    <3>6. Cardinality(Remaining(c)) = 0
      BY <3>2, <3>4, <3>5
    <3> QED
      BY <3>6, RemainingFacts DEF Inv, JobInv
  <2>2. CASE \E w \in Workers : Main[w].at = "callEnd" /\ Main[w].of = c
    BY <2>2, OwnFacts DEF Inv, Own, IsCollection
  <2> QED
    BY <2>1, <2>2 DEF Finished
<1>3. \A e : Queued(e) \/ InProgress(e) <=> Live(e)
  BY BusyIs DEF InProgress, Live, Inv
<1> QED
  BY <1>2, <1>3 DEF Remaining

(* A job that has begun is not in the queue any more, so that its          *)
(* dependencies are resolved.                                              *)
LEMMA DependentsHaveWaited == Inv /\ SeqInv => DependentsWait
<1> SUFFICES ASSUME Inv, SeqInv, NEW d \in program.dependsOn, begun[d[1]] > 0,
                    d \notin program.removed
             PROVE  /\ status[d[2]] = "Success"
                    /\ IsCollection(d[2]) =>
                         \A e \in ToSet(coll[d[2]].elements) : ~ Queued(e) /\ ~ InProgress(e)
  BY DEF DependentsWait
<1>1. d[1] \in Jobs /\ d[2] \in Jobs
  <2>1. program.dependsOn \subseteq Jobs \X Jobs
    BY ProgramsAssumption DEF Inv, Typed
  <2> QED
    BY <2>1
<1>2. d \notin dependencies
  <2>1. begun[d[1]] # 0
    BY <1>1
  <2>2. ~ Queued(d[1]) /\ status[d[1]] # "New"
    BY <1>1, <2>1 DEF Inv, JobInv, QueueInv, Fresh
  <2> QED
    BY <2>2 DEF SeqInv, DepInv
<1>3. Settled(d[2])
  BY <1>2 DEF SeqInv, DepInv
<1> QED
  BY <1>3, FinishedIsEmpty DEF Settled, IsCollection

(* What depends on a job begins after the job has succeeded and is over.   *)
THEOREM DependentsAlwaysWait == Spec /\ [][Undisturbed]_vars => []DependentsWait
BY CollectionsInvariant, SequencesKeepOrder, DependentsHaveWaited, PTL

-------------------------------------------------------------------------------
(* Who waits for whom *)

(* A thread in the middle of a count, of beginning a collection, of that   *)
(* inside another one, or of taking a job.                                 *)
AtCount(v) == stack[v] # <<>> /\ stack[v][1].at \in {"enqueue", "process", "stopElement"}
AtStart(v) == stack[v] # <<>> /\ stack[v][1].at = "startedUnlock"
AtParent(v) == stack[v] # <<>> /\ stack[v][1].at = "started" /\ stack[v][2].at = "startedUnlock"
AtTake(v) == stack[v] # <<>> /\ stack[v][1].at = "take"

(* A thread that begins the elements above it is about to set a job        *)
(* running.                                                                *)
LEMMA BeginsIs ==
  ASSUME Inv, NEW v \in Workers, stack[v] # <<>>, stack[v][1].at \in {"started", "startedUnlock"}
  PROVE  /\ Beginning(stack[v]) /\ Main[v] = stack[v][Len(stack[v])]
         /\ Main[v].at = "setRunning" /\ Begins(stack[v])
         /\ Len(stack[v]) = 2 \/ (Len(stack[v]) = 3 /\ AtParent(v))
<1>s. PICK s : s = stack[v]
  OBVIOUS
<1>1. s \in Seq(FrameSet) /\ Shaped(s) /\ s # <<>> /\ s[1].at \in {"started", "startedUnlock"}
      /\ Main[v] = MainOf(s)
  BY <1>s DEF Inv, Typed, Shapes, Actors, Main
<1>2. Beginning(s)
  BY <1>1 DEF Shaped, Alone, Ending, StopPlaces
<1>3. MainOf(s) = s[Len(s)] /\ s[Len(s)].at = "setRunning"
  BY <1>1, <1>2, BeginningStack DEF Beginning
<1>4. Begins(s)
  BY <1>s, <1>1, <1>3 DEF Inv, StartInv
<1>5. Len(s) = 2 \/ (Len(s) = 3 /\ s[2].at = "startedUnlock" /\ s[1].at = "started")
  BY <1>2 DEF Beginning
<1> QED
  BY <1>s, <1>1, <1>2, <1>3, <1>4, <1>5 DEF AtParent

(* A thread in the middle of a count reports to the collection it counts   *)
(* for.                                                                    *)
LEMMA CountsIs ==
  ASSUME Inv, NEW v \in Workers, AtCount(v)
  PROVE  /\ Main[v].at \in Reporting /\ Main[v].of = stack[v][1].of
         /\ stack[v][1].at = "stopElement" => Main[v].at = "restore"
         /\ stack[v][1].at # "stopElement" => Main[v] = stack[v][1]
<1>s. PICK s : s = stack[v]
  OBVIOUS
<1>1. /\ s \in Seq(FrameSet) /\ Shaped(s) /\ s # <<>> /\ Main[v] = MainOf(s)
      /\ s[1].at \in {"enqueue", "process", "stopElement"}
  BY <1>s DEF Inv, Typed, Shapes, Actors, Main, AtCount
<1>2. Ending(s)
  BY <1>1 DEF Shaped, Alone, Beginning
<1>3. /\ s[1].at \notin StopPlaces => MainOf(s) = s[1]
      /\ s[1].at \in StopPlaces => MainOf(s) = s[2] /\ s[2].at = "restore" /\ s[1].of = s[2].of
  BY <1>1, <1>2, EndingStack
<1> QED
  BY <1>s, <1>1, <1>3 DEF StopPlaces, Reporting

(* Who owns a mutex: a thread that takes a job, counts, or begins an       *)
(* element.                                                                *)
LEMMA OwnerIs ==
  ASSUME Inv, NEW m \in Mutexes, NEW v \in Workers, owner[m] = v
  PROVE  \/ m = "weaver" /\ AtTake(v)
         \/ /\ m \in Jobs /\ m = Main[v].of /\ Main[v].at \in Own \cup Reporting
            /\ \/ AtCount(v)
               \/ AtStart(v) /\ Main[v].at = "setRunning"
               \/ AtParent(v) /\ Main[v].at = "setRunning"
<1>1. CASE m = "weaver"
  BY <1>1 DEF Inv, LockInv, AtTake
<1>2. m \notin Workers
  BY ActorsAssumption DEF Inv, LockInv, Actors
<1>3. CASE m \in Jobs
  <2>s. PICK s : s = stack[v]
    OBVIOUS
  <2>1. m \in LockedOf(s)
    BY <1>3, <2>s DEF Inv, LockInv
  <2>2. s # <<>>
    BY <2>1 DEF LockedOf
  <2>3. CASE s[1].at \in {"enqueue", "process", "stopElement"}
    <3>1. m = s[1].of
      BY <2>1, <2>2, <2>3 DEF LockedOf
    <3>2. AtCount(v)
      BY <2>s, <2>2, <2>3 DEF AtCount
    <3>3. Main[v].at \in Reporting /\ Main[v].of = s[1].of
      BY <2>s, <3>2, CountsIs
    <3> QED
      BY <1>3, <3>1, <3>2, <3>3
  <2>4. CASE s[1].at = "startedUnlock"
    <3>1. m = s[1].of
      BY <2>1, <2>2, <2>4 DEF LockedOf
    <3>2. /\ Main[v] = s[Len(s)] /\ Main[v].at = "setRunning" /\ Begins(s)
          /\ Len(s) = 2 \/ AtParent(v)
      BY <2>s, <2>2, <2>4, BeginsIs
    <3>3. Len(s) = 2
      BY <2>s, <2>4, <3>2 DEF AtParent
    <3>4. m = Main[v].of
      BY <2>4, <3>1, <3>2, <3>3 DEF Begins
    <3> QED
      BY <1>3, <2>s, <2>2, <2>4, <3>2, <3>4 DEF AtStart, Own
  <2>5. CASE s[1].at = "started" /\ s[2].at = "startedUnlock"
    <3>1. m = s[2].of
      BY <2>1, <2>2, <2>5 DEF LockedOf
    <3>2. /\ Main[v] = s[Len(s)] /\ Main[v].at = "setRunning" /\ Begins(s)
          /\ Len(s) = 2 \/ Len(s) = 3
      BY <2>s, <2>2, <2>5, BeginsIs
    <3>3. Len(s) = 3
      BY <2>5, <3>2
    <3>4. m = Main[v].of
      BY <3>1, <3>2, <3>3 DEF Begins
    <3> QED
      BY <1>3, <2>s, <2>2, <2>5, <3>2, <3>4 DEF AtParent, Own
  <2> QED
    BY <2>1, <2>2, <2>3, <2>4, <2>5 DEF LockedOf
<1> QED
  BY <1>1, <1>2, <1>3 DEF Mutexes

(* Nobody owns the mutex of a job that has not begun, or is over.          *)
LEMMA IdleIsFree ==
  ASSUME Inv, NEW m \in Jobs, Queued(m) \/ status[m] = "New" \/ ended[m] > 0
  PROVE  owner[m] = Nobody
<1>1. m \in Mutexes /\ owner[m] \in Workers \cup {Nobody} /\ m # "weaver"
  BY ActorsAssumption DEF Inv, Typed, Mutexes
<1>2. ASSUME NEW v \in Workers, owner[m] = v PROVE FALSE
  <2>1. m = Main[v].of /\ Main[v].at \in Own \cup Reporting
    BY <1>1, <1>2, OwnerIs
  <2>2. status[m] \notin {"New"} /\ ~ Queued(m) /\ ended[m] = 0
    BY <2>1, HeldFacts
  <2> QED
    BY <2>2
<1> QED
  BY <1>1, <1>2

(* The thread that looks for a job needs only what is in the queue.        *)
LEMMA TakerNeeds ==
  ASSUME Inv, NEW a \in Workers, AtTake(a)
  PROVE  \A m \in Needs(a) : m \in Jobs /\ Queued(m)
<1>1. stack[a] # <<>> /\ Top(a).at = "take" /\ Runnable # {}
  BY TopShape DEF AtTake, Inv, TakeInv
<1>2. FirstRunnable \in DOMAIN assignments /\ DOMAIN assignments = 1..Len(assignments)
      /\ assignments \in Seq(Jobs) /\ Len(assignments) \in Nat
  BY <1>1, TakenJob, LenProperties DEF Inv, Typed, JobInv
<1>3. \A i \in 1..FirstRunnable : i \in DOMAIN assignments
  BY <1>2
<1>4. \A i \in DOMAIN assignments : assignments[i] \in Jobs /\ Queued(assignments[i])
  BY <1>2, ElementOfSeq DEF Queued, ToSet
<1>5. Needs(a) = {assignments[i] : i \in 1..FirstRunnable}
  BY <1>1 DEF Needs
<1> QED
  BY <1>3, <1>4, <1>5

(* The element that a sequence unblocks next has not begun.                *)
LEMMA UnblockedWaits ==
  ASSUME Inv, SeqInv, NEW c \in DOMAIN coll, coll[c].jobCounter > 0, NEW m \in Unblocked(c)
  PROVE  m \in Jobs /\ Waits(m)
<1>1. coll[c] \in CollSet /\ coll[c].elements \in Seq(Jobs)
  BY FamilyFacts, ElementFacts DEF Inv, JobInv
<1>n. PICK n : n = coll[c].completed
  OBVIOUS
<1>2. IsSequence(c) /\ n + 1 \in DOMAIN coll[c].elements /\ m = coll[c].elements[n + 1]
  BY <1>n DEF Unblocked
<1>3. n \in Nat /\ n + 1 > n
  BY <1>n, <1>1 DEF CollSet
<1>4. OrderOK(c)
  BY DEF SeqInv, OrderInv
<1>5. Waits(m)
  BY <1>n, <1>2, <1>3, <1>4 DEF OrderOK
<1>6. m \in Jobs
  BY <1>1, <1>2, LenProperties, ElementOfSeq
<1> QED
  BY <1>5, <1>6

(* A thread with the mutex of a collection that puts elements into the     *)
(* queue, unblocks one or takes one out needs, but for the weaver's, only  *)
(* mutexes that are free.                                                  *)
LEMMA CounterNeeds ==
  ASSUME Inv, SeqInv, NEW a \in Workers, AtCount(a), NEW m \in Needs(a)
  PROVE  m = "weaver" \/ (m \in Jobs /\ owner[m] = Nobody)
<1>c. PICK c : c = Top(a).of
  OBVIOUS
<1>1. /\ stack[a] # <<>> /\ Top(a) = stack[a][1] /\ Top(a) \in FrameSet
      /\ Top(a).at \in {"enqueue", "process", "stopElement"}
      /\ Main[a].at \in Reporting /\ Main[a].of = c
  BY <1>c, TopShape, CountsIs DEF AtCount, Inv
<1>2. c \in DOMAIN coll /\ c \in Jobs /\ MainOK(Main[a]) /\ ReportOK(Main[a])
  <2>1. MainOK(Main[a])
    BY DEF Inv, JobInv, MainInvs
  <2>2. c \in DOMAIN coll
    BY <1>1, <2>1 DEF MainOK, IsCollection
  <2> QED
    BY <2>1, <2>2, FamilyFacts DEF Inv, SeqInv, ReportInv
<1>3. CASE Top(a).at = "enqueue"
  <2>1. Needs(a) = {"weaver"} \cup ToSet(coll[c].elements)
    BY <1>c, <1>1, <1>3 DEF Needs
  <2>2. Unopened(c)
    BY <1>1, <1>2, <1>3, CountsIs DEF MainOK
  <2>3. \A e \in ToSet(coll[c].elements) : e \in Jobs /\ status[e] = "New"
    BY <1>2, <2>2, ElementFacts DEF Unopened, Inv, JobInv
  <2> QED
    BY <2>1, <2>3, IdleIsFree
<1>4. CASE Top(a).at = "process"
  <2>1. Needs(a) = Unblocked(c)
    BY <1>c, <1>1, <1>4 DEF Needs
  <2>2. Main[a].at = "process"
    BY <1>1, <1>4, CountsIs
  <2>3. coll[c].jobCounter > 0
    BY <1>1, <2>2, ReportingFacts DEF Inv
  <2>4. m \in Jobs /\ Waits(m)
    BY <1>2, <2>1, <2>3, UnblockedWaits
  <2> QED
    BY <2>4, IdleIsFree DEF Waits
<1>5. CASE Top(a).at = "stopElement"
  <2>k. PICK k : k = Top(a).k
    OBVIOUS
  <2>l. PICK l : l = Len(coll[c].elements)
    OBVIOUS
  <2>1. k \in Nat \ {0} /\ l \in Nat /\ coll[c].elements \in Seq(Jobs)
        /\ DOMAIN coll[c].elements = 1..l
    BY <2>k, <2>l, <1>1, <1>2, ElementFacts, LenProperties DEF FrameSet, Inv, JobInv
  <2>2. CASE ~ (k <= l)
    BY <1>c, <1>1, <1>5, <2>k, <2>l, <2>2 DEF Needs
  <2>3. CASE k <= l
    <3>e. PICK e : e = coll[c].elements[k]
      OBVIOUS
    <3>1. Needs(a) = {"weaver"} \cup IF Queued(e) \/ IsSequence(c) THEN {e} ELSE {}
      BY <1>c, <1>1, <1>5, <2>k, <2>l, <2>3, <3>e DEF Needs
    <3>2. k \in DOMAIN coll[c].elements
      BY <2>1, <2>3
    <3>3. e \in Jobs
      BY <2>1, <3>2, <3>e, ElementOfSeq
    <3>4. IsSequence(c) => Queued(e) \/ status[e] = "New" \/ ended[e] > 0
      <4> SUFFICES ASSUME IsSequence(c) PROVE Queued(e) \/ status[e] = "New" \/ ended[e] > 0
        OBVIOUS
      <4>n. PICK n : n = coll[c].completed
        OBVIOUS
      <4>1. n \in Nat
        BY <4>n, <1>2, FamilyFacts DEF Inv, CollSet
      <4>2. Main[a].at = "restore"
        BY <1>1, <1>5, CountsIs
      <4>3. coll[c].jobCounter > 0 /\ OrderOK(c)
        BY <1>1, <1>2, <4>2, ReportingFacts DEF Inv, SeqInv, OrderInv
      <4>4. CASE k > n
        BY <3>2, <3>e, <4>n, <4>3, <4>4 DEF OrderOK, Waits
      <4>5. CASE k < n
        BY <3>2, <3>e, <4>n, <4>3, <4>5 DEF OrderOK, Done
      <4>6. CASE k = n
        <5>1. Main[a].by # c
          BY <1>1, <1>2, <2>1, <4>n, <4>2, <4>6 DEF ReportOK
        <5>2. Main[a].by = e /\ Ended(Main[a].by)
          BY <1>1, <1>2, <3>e, <4>n, <4>6, <5>1 DEF ReportOK, MainOK, Current
        <5> QED
          BY <5>2 DEF Ended
      <4> QED
        BY <2>1, <4>1, <4>4, <4>5, <4>6
    <3> QED
      BY <3>1, <3>3, <3>4, IdleIsFree
  <2> QED
    BY <2>2, <2>3
<1> QED
  BY <1>1, <1>3, <1>4, <1>5

(* A thread that begins a collection inside another one has the inner one  *)
(* and needs the outer one, which no thread begins at the same time.       *)
LEMMA StarterNeeds ==
  ASSUME Inv, NEW a \in Workers, AtParent(a), NEW m \in Needs(a), NEW v \in Workers, owner[m] = v
  PROVE  AtCount(v)
<1>s. PICK s : s = stack[a]
  OBVIOUS
<1>1. s # <<>> /\ Top(a).at = "started" /\ s[2].at = "startedUnlock"
  BY <1>s, TopShape DEF AtParent, Inv
<1>2. /\ Top(a).of \in DOMAIN coll /\ Top(a).of \in Jobs /\ ~ Unopened(Top(a).of)
  <2>1. Len(s) = 3
    BY <1>s, <1>1, BeginsIs, TopShape DEF Inv, Beginning
  <2> QED
    BY <1>s, <1>1, <2>1, StartedFacts
<1>3. m = Top(a).of /\ m \in Mutexes /\ m # "weaver"
  <2>1. Needs(a) = {Top(a).of}
    BY <1>s, <1>1 DEF Needs
  <2> QED
    BY <1>2, <2>1, ActorsAssumption DEF Mutexes
<1>4. /\ m = Main[v].of
      /\ AtCount(v) \/ Main[v].at = "setRunning"
  BY <1>3, OwnerIs
<1>5. Main[v].at # "setRunning"
  BY <1>2, <1>3, <1>4 DEF Inv, JobInv, MainInvs, MainOK, Executing, IsCollection
<1> QED
  BY <1>4, <1>5

(* What a thread needs are mutexes.                                        *)
LEMMA NeedsAreMutexes ==
  ASSUME Inv, SeqInv, NEW a \in Workers
  PROVE  Needs(a) \subseteq Mutexes
<1> SUFFICES ASSUME NEW m \in Needs(a) PROVE m \in Mutexes
  OBVIOUS
<1>j. PICK j : j = Top(a).of
  OBVIOUS
<1>0. Jobs \subseteq Mutexes /\ Workers \subseteq Mutexes /\ "weaver" \in Mutexes
  BY DEF Mutexes
<1>1. stack[a] # <<>>
  BY DEF Needs
<1>2. /\ Top(a).at \in AlonePlaces \cup {"started", "startedUnlock", "clearSelf"}
                         \cup EndPlaces \cup StopPlaces
      /\ Top(a).at \in EndPlaces \cup {"clearSelf"} \cup AlonePlaces => Main[a] = Top(a)
      /\ Top(a) = stack[a][1]
  BY <1>1, TopShape DEF Inv
<1>3. DOMAIN coll \subseteq Jobs /\ DOMAIN program.generates \subseteq Jobs
  <2>1. DOMAIN coll \subseteq Jobs /\ DOMAIN coll = DOMAIN program.elements
    BY FamilyFacts DEF Inv, Typed
  <2>2. DOMAIN program.generates \subseteq DOMAIN program.elements
    BY ProgramsAssumption DEF Inv, Typed
  <2> QED
    BY <2>1, <2>2
<1>4. CASE Top(a).at = "take"
  <2>1. AtTake(a)
    BY <1>1, <1>2, <1>4 DEF AtTake
  <2> QED
    BY <1>0, <2>1, TakerNeeds
<1>5. CASE Top(a).at \in {"store", "clear", "execute", "run", "end", "setRunning", "report",
                          "stopDequeue", "startedUnlock"}
  BY <1>0, <1>1, <1>3, <1>5 DEF Needs
<1>6. CASE Top(a).at \in {"callEnd", "finished", "restore", "clearSelf", "stop", "stopElements"}
  <2>1. j \in Jobs
    <3>1. CASE Top(a).at \in {"callEnd", "finished", "restore"}
      BY <1>j, <1>2, <3>1, HeldFacts DEF EndPlaces, Own, Reporting
    <3>2. CASE Top(a).at = "clearSelf"
      <4>s. PICK s : s = stack[a]
        OBVIOUS
      <4>1. s \in Seq(FrameSet) /\ Len(s) \in Nat \ {0} /\ s[1].at = "clearSelf" /\ s[1].of = j
        BY <4>s, <1>j, <1>1, <1>2, <3>2, TopShape DEF Inv
      <4>2. j \in ClearingOf(s)
        BY <4>1, ClearingIs
      <4>3. j \in Clearing
        BY <4>s, <4>2 DEF Clearing
      <4> QED
        BY <1>3, <4>3 DEF Inv, JobInv, ClearInv, Over, IsCollection
    <3>3. CASE Top(a).at \in {"stop", "stopElements"}
      BY <1>j, <1>1, <3>3, StopFacts DEF StopPlaces
    <3> QED
      BY <1>6, <3>1, <3>2, <3>3
  <2>2. Top(a).at \in {"finished", "restore"} =>
          j \in DOMAIN coll /\ ToSet(coll[j].elements) \subseteq Jobs
    <3>1. Top(a).at \in {"finished", "restore"} => j \in DOMAIN coll
      BY <1>j, <1>2 DEF EndPlaces, Reporting, Inv, JobInv, MainInvs, MainOK, IsCollection
    <3> QED
      BY <3>1, ElementFacts DEF Inv, JobInv
  <2>3. Unblocked(j) \subseteq ToSet(coll[j].elements)
    BY DEF Unblocked, ToSet
  <2>4. m = j \/ (Top(a).at \in {"finished", "restore"} /\ m \in ToSet(coll[j].elements))
    <3>1. CASE Top(a).at \in {"callEnd", "clearSelf", "stop", "stopElements"}
      BY <1>j, <1>1, <3>1 DEF Needs
    <3>2. CASE Top(a).at = "finished"
      BY <1>j, <1>1, <2>3, <3>2 DEF Needs
    <3>3. CASE Top(a).at = "restore"
      BY <1>j, <1>1, <2>3, <3>3 DEF Needs
    <3> QED
      BY <1>6, <3>1, <3>2, <3>3
  <2> QED
    BY <1>0, <2>1, <2>2, <2>4
<1>7. CASE Top(a).at = "started"
  BY <1>0, <1>j, <1>1, <1>7, StartedFacts DEF Needs
<1>8. CASE Top(a).at \in {"enqueue", "process", "stopElement"}
  <2>1. AtCount(a)
    BY <1>1, <1>2, <1>8 DEF AtCount
  <2> QED
    BY <1>0, <2>1, CounterNeeds
<1> QED
  BY <1>2, <1>4, <1>5, <1>6, <1>7, <1>8 DEF AlonePlaces, EndPlaces, StopPlaces

(* Of threads that wait, one waits for none of the others: the one that    *)
(* has the weaver's mutex, or else one that counts, or else one that       *)
(* begins a collection inside another, or else any.                        *)
LEMMA NobodyWaitsInCircles == Inv /\ SeqInv => NoCircularWait
<1> SUFFICES ASSUME Inv, SeqInv, NEW S \in SUBSET {a \in Actors : Needs(a) # {}}, S # {}
             PROVE  \E a \in S : \A m \in Needs(a) : owner[m] \notin S
  BY DEF NoCircularWait
<1>1. S \subseteq Workers /\ Nobody \notin S
  <2>1. \A u \in Users : Needs(u) = {}
    BY DEF Inv, Typed, Needs
  <2>2. Nobody \notin Actors
    BY ActorsAssumption
  <2> QED
    BY <2>1, <2>2 DEF Actors
<1>2. \A a \in S : \A m \in Needs(a) : m \in Mutexes
  BY <1>1, NeedsAreMutexes
<1>3. CASE \E a \in S : AtTake(a)
  <2>1. PICK a \in S : AtTake(a)
    BY <1>3
  <2>2. \A m \in Needs(a) : owner[m] = Nobody
    BY <1>1, <2>1, TakerNeeds, IdleIsFree
  <2> QED
    BY <1>1, <2>1, <2>2
<1>4. ASSUME \A a \in S : ~ AtTake(a) PROVE owner["weaver"] \notin S
  BY <1>1, <1>4 DEF Inv, LockInv, AtTake
<1>5. CASE (\A a \in S : ~ AtTake(a)) /\ \E a \in S : AtCount(a)
  <2>1. PICK a \in S : AtCount(a)
    BY <1>5
  <2>2. \A m \in Needs(a) : m = "weaver" \/ owner[m] = Nobody
    BY <1>1, <2>1, CounterNeeds
  <2> QED
    BY <1>1, <1>4, <1>5, <2>1, <2>2
<1>6. CASE (\A a \in S : ~ AtTake(a) /\ ~ AtCount(a)) /\ \E a \in S : AtParent(a)
  <2>1. PICK a \in S : AtParent(a)
    BY <1>6
  <2>2. \A m \in Needs(a) : \A v \in Workers : owner[m] = v => AtCount(v)
    BY <1>1, <2>1, StarterNeeds
  <2> QED
    BY <1>1, <1>6, <2>1, <2>2
<1>7. CASE \A a \in S : ~ AtTake(a) /\ ~ AtCount(a) /\ ~ AtParent(a)
  <2>1. \A a \in S : ~ AtStart(a)
    <3> SUFFICES ASSUME NEW a \in S, AtStart(a) PROVE FALSE
      OBVIOUS
    <3>1. stack[a] # <<>> /\ Top(a).at = "startedUnlock"
      BY <1>1, TopShape DEF AtStart, Inv
    <3>2. Needs(a) = {}
      BY <3>1 DEF Needs
    <3> QED
      BY <3>2
  <2>2. \A a \in S : \A m \in Needs(a) : owner[m] \notin S
    BY <1>1, <1>2, <1>7, <2>1, OwnerIs
  <2> QED
    BY <2>2
<1> QED
  BY <1>3, <1>5, <1>6, <1>7

(* No set of threads exists of which each waits for another.               *)
THEOREM NoWaitIsCircular == Spec /\ [][Undisturbed]_vars => []NoCircularWait
BY CollectionsInvariant, SequencesKeepOrder, NobodyWaitsInCircles, PTL

===============================================================================
