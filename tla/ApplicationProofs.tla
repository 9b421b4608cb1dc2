--------------------------- MODULE ApplicationProofs ---------------------------
(***************************************************************************)
(* Proofs about Application, for any threads, users, jobs, ways to         *)
(* allocate jobs and clients: queues are quiet when they are Destructed,   *)
(* the global queue can be used for as long as the application is up, and  *)
(* every job is delivered, completed and deleted once.                     *)
(***************************************************************************)
EXTENDS Application, SequenceLemmas, FiniteSetTheorems

-------------------------------------------------------------------------------
(* The invariant *)

Working == {"WorkingHard", "Suspending", "Suspended", "ShuttingDown"}
Over == {"Destructed", "deleted"}
InShutDown == {"finish", "suspend", "setShuttingDown", "join"}

Typed ==
  /\ app \in {"before", "running", "quitting", "children", "gone"}
  /\ created \in BOOLEAN /\ guard \in BOOLEAN /\ factory \in BOOLEAN
  /\ state \in [Queues -> Working \cup Over \cup {"none"}]
  /\ DOMAIN running = Queues /\ \A q \in Queues : IsFiniteSet(running[q])
  /\ reporting \in [Queues -> Nat]
  /\ main \in [at : InShutDown \cup {"free", "delete"},
               on : Queues \cup {NoQueue}, deletes : BOOLEAN]
  /\ main.at # "free" => main.on \in Queues

(* What there is before the first call of instance(), and what there is    *)
(* until the guard goes.                                                   *)
GuardInv ==
  /\ created <=> state[Global] # "none"
  /\ ~ created => instance = NoQueue /\ ~ guard
  /\ guard => instance = Global
  /\ created /\ ~ guard => instance = NoQueue /\ ~ factory /\ app \in {"children", "gone"}
  /\ app = "gone" => ~ guard
  /\ app = "before" => ~ created

(* Main shuts the global queue down when it quits, and deletes it after    *)
(* that; it does both with the local one before it quits.                  *)
GlobalInv ==
  /\ main.at \in InShutDown /\ main.on = Global => app = "quitting" /\ ~ main.deletes
  /\ main.at = "delete" /\ main.on = Global => app = "children"
  /\ state[Global] = "deleted" => app \in {"children", "gone"}
  /\ app = "quitting" /\ created =>
       state[Global] = "Destructed" \/ (main.at \in InShutDown /\ main.on = Global)
  /\ app \in {"children", "gone"} => state[Global] \in Over \cup {"none"}

LocalInv ==
  /\ main.at # "free" /\ main.on = Local => app = "running"
  /\ app \in {"quitting", "children", "gone"} => state[Local] \in {"none", "deleted"}

(* A queue that is being shut down or deleted exists.                      *)
MainInv ==
  /\ main.at \in InShutDown => state[main.on] \in Working
  /\ main.at = "delete" => state[main.on] \in Working \cup {"Destructed"}

AppInv == Typed /\ QuietWhenDestructed /\ GuardInv /\ GlobalInv /\ LocalInv /\ MainInv

-------------------------------------------------------------------------------
(* The invariant is inductive *)

(* Nothing exists at first.                                                *)
LEMMA AppInvInit == Init => AppInv
<1> SUFFICES ASSUME Init PROVE AppInv
  OBVIOUS
<1> USE ApplicationAssumption DEF Init, Queues
<1>1. Typed
  BY FS_EmptySet DEF Typed, Free, Working, Over, InShutDown
<1>2. GuardInv /\ GlobalInv /\ LocalInv /\ MainInv /\ QuietWhenDestructed
  BY DEF GuardInv, GlobalInv, LocalInv, MainInv, QuietWhenDestructed, Free, InShutDown, Over
<1>3. QED
  BY <1>1, <1>2 DEF AppInv

(* A queue is quiet if it has neither running jobs nor threads to report.  *)
LEMMA Quiet ==
  ASSUME NEW q \in Queues, IsFiniteSet(running[q]), reporting[q] \in Nat
  PROVE  Active(q) = 0 <=> running[q] = {} /\ reporting[q] = 0
<1>1. Cardinality(running[q]) \in Nat /\ (Cardinality(running[q]) = 0 <=> running[q] = {})
  BY FS_CardinalityType, FS_EmptySet
<1>2. QED
  BY <1>1 DEF Active

(* Steps that neither touch the queues' states nor move Main.              *)
Aside == UNCHANGED <<app, created, instance, guard, factory, state, main>>

(* They keep the invariant if they leave the threads of a queue that is    *)
(* over alone.                                                             *)
LEMMA AsideKeeps ==
  ASSUME AppInv, Aside,
         DOMAIN running' = Queues, reporting' \in [Queues -> Nat],
         \A q \in Queues : IsFiniteSet(running'[q]),
         \A q \in Queues :
           state[q] \in Over => running'[q] = running[q] /\ reporting'[q] = reporting[q]
  PROVE  AppInv'
<1>1. Typed' /\ GuardInv' /\ GlobalInv' /\ LocalInv' /\ MainInv'
  BY DEF AppInv, Aside, Typed, GuardInv, GlobalInv, LocalInv, MainInv
<1>2. QuietWhenDestructed'
  BY DEF AppInv, Aside, QuietWhenDestructed, Active, Over
<1>3. QED
  BY <1>1, <1>2 DEF AppInv

(* Steps that move a queue from one state in which it works to another.    *)
LEMMA ReplaceKeeps ==
  ASSUME AppInv, NEW q \in Queues, NEW s \in Working, state[q] \in Working,
         state' = [state EXCEPT ![q] = s],
         UNCHANGED <<app, created, instance, guard, factory, running, reporting>>,
         \/ main' = main
         \/ \E place \in InShutDown : main' = [main EXCEPT !.at = place] /\ main.at \in InShutDown
  PROVE  AppInv'
<1> USE DEF AppInv
<1>1. /\ main' \in [at : InShutDown \cup {"free", "delete"},
                    on : Queues \cup {NoQueue}, deletes : BOOLEAN]
      /\ main'.on = main.on /\ main'.deletes = main.deletes
      /\ main'.at = main.at \/ (main'.at \in InShutDown /\ main.at \in InShutDown)
  <2>1. CASE main' = main
    BY <2>1 DEF Typed
  <2>2. CASE main' # main
    BY <2>2 DEF Typed
  <2>3. QED
    BY <2>1, <2>2
<1>2. Typed'
  <2>1. state' \in [Queues -> Working \cup Over \cup {"none"}]
    BY DEF Typed
  <2>2. main'.at # "free" => main'.on \in Queues
    BY <1>1 DEF Typed, InShutDown
  <2>3. QED
    BY <1>1, <2>1, <2>2 DEF Typed
<1>3. \A p \in Queues : state'[p] = IF p = q THEN s ELSE state[p]
  BY DEF Typed
<1>4. Global \in Queues /\ Local \in Queues /\ Global # Local
  BY ApplicationAssumption DEF Queues
<1>5. s # "none" /\ s \notin Over /\ state[q] # "none" /\ state[q] \notin Over
  BY DEF Working, Over
<1>6. GuardInv' /\ LocalInv' /\ MainInv'
  BY <1>1, <1>3, <1>4, <1>5 DEF GuardInv, LocalInv, MainInv, Over, InShutDown
<1>7. GlobalInv'
  BY <1>1, <1>3, <1>4, <1>5 DEF GlobalInv, Over, InShutDown
<1>8. QuietWhenDestructed'
  BY <1>3, <1>5 DEF QuietWhenDestructed, Active, Over
<1>9. QED
  BY <1>2, <1>6, <1>7, <1>8

(* The steps of the threads of a queue.                                    *)
LEMMA ThreadsKeep ==
  ASSUME AppInv, NEW q \in Queues, QueueThreads(q)
  PROVE  AppInv'
<1> USE DEF AppInv, Typed
<1>1. CASE HandOut(q)
  <2>1. Aside /\ reporting' = reporting /\ state[q] = "WorkingHard"
    BY <1>1 DEF HandOut, appVars, Aside
  <2>2. running' = [running EXCEPT ![q] = @ \cup {Head(waiting[q])}]
    BY <1>1 DEF HandOut
  <2>3. IsFiniteSet(running[q] \cup {Head(waiting[q])})
    BY FS_AddElement
  <2>4. QED
    BY <2>1, <2>2, <2>3, AsideKeeps DEF Over
<1>2. CASE \E j \in Jobs : Execute(q, j)
  <2> PICK j \in Jobs : Execute(q, j)
    BY <1>2
  <2>1. Aside /\ j \in running[q]
    BY DEF Execute, appVars, Aside
  <2>2. /\ running' = [running EXCEPT ![q] = @ \ {j}]
        /\ reporting' = [reporting EXCEPT ![q] = @ + 1]
    BY DEF Execute
  <2>3. IsFiniteSet(running[q] \ {j})
    BY FS_RemoveElement
  <2>4. state[q] \notin Over
    BY <2>1, Quiet DEF QuietWhenDestructed, Over
  <2>5. /\ DOMAIN running' = Queues /\ \A p \in Queues : IsFiniteSet(running'[p])
        /\ reporting' \in [Queues -> Nat]
        /\ \A p \in Queues : p # q => running'[p] = running[p] /\ reporting'[p] = reporting[p]
    BY <2>2, <2>3
  <2>6. QED
    BY <2>1, <2>4, <2>5, AsideKeeps
<1>3. CASE Report(q)
  <2>1. Aside /\ running' = running /\ reporting[q] > 0
    BY <1>3 DEF Report, appVars, Aside
  <2>2. reporting' = [reporting EXCEPT ![q] = @ - 1]
    BY <1>3 DEF Report, Reported
  <2>3. state[q] \notin Over
    BY <2>1, Quiet DEF QuietWhenDestructed, Over
  <2>4. QED
    BY <2>1, <2>2, <2>3, AsideKeeps
<1>4. CASE GetSuspended(q)
  <2>1. /\ state' = [state EXCEPT ![q] = "Suspended"] /\ state[q] = "Suspending"
        /\ UNCHANGED <<app, created, instance, guard, factory, main, running, reporting>>
    BY <1>4 DEF GetSuspended, Enter, appVars
  <2>2. QED
    BY <2>1, ReplaceKeeps DEF Working
<1>5. QED
  BY <1>1, <1>2, <1>3, <1>4 DEF QueueThreads

(* The calls of the users.                                                 *)
LEMMA UsersKeep ==
  ASSUME AppInv, UserStep
  PROVE  AppInv'
<1> USE DEF AppInv, Typed
<1>1. ASSUME NEW u \in Users, NEW q \in Queues, Suspend(u, q) \/ Resume(u, q)
      PROVE  AppInv'
  <2>1. UNCHANGED <<app, created, instance, guard, factory, main, running, reporting>>
    BY <1>1 DEF Suspend, Resume, appVars
  <2>2. /\ \/ state' = [state EXCEPT ![q] = AfterSuspend(state[q])]
           \/ state' = [state EXCEPT ![q] = AfterResume(state[q])]
        /\ state[q] \notin {"none", "deleted"}
    BY <1>1 DEF Suspend, Resume, Has, Exists, Enter
  <2>3. CASE state[q] = "Destructed"
    <3>1. state' = state
      BY <2>2, <2>3 DEF AfterSuspend, AfterResume
    <3>2. QED
      BY <2>1, <3>1, AsideKeeps DEF Aside
  <2>4. CASE state[q] # "Destructed"
    <3>1. state[q] \in Working
      BY <2>2, <2>4 DEF Over
    <3>2. AfterSuspend(state[q]) \in Working /\ AfterResume(state[q]) \in Working
      BY <3>1 DEF Working, AfterSuspend, AfterResume
    <3>3. QED
      BY <2>1, <2>2, <3>1, <3>2, ReplaceKeeps
  <2>5. QED
    BY <2>3, <2>4
<1> DEFINE Untouched == Aside /\ UNCHANGED <<running, reporting>>
<1>2. ASSUME NEW u \in Users, NEW q \in Queues, NEW j \in Jobs, Enqueue(u, q, j) PROVE Untouched
  BY <1>2 DEF Enqueue, EnqueueAll, Aside, appVars
<1>3. ASSUME NEW u \in Users, NEW q \in Queues, NewStream(u, q) \/ DequeueAll(u, q) \/ Finish(u, q)
      PROVE  Untouched
  BY <1>3 DEF NewStream, DequeueAll, Finish, Aside, appVars, queueVars
<1>4. ASSUME NEW u \in Users, NEW j \in Jobs, Add(u, j) PROVE Untouched
  BY <1>4 DEF Add, Aside, appVars, queueVars
<1>5. ASSUME NEW u \in Users, Flush(u) \/ CloseStream(u) PROVE Untouched
  BY <1>5 DEF Flush, CloseStream, EnqueueAll, Aside, appVars
<1>6. ASSUME NEW j \in Jobs, DropPointer(j) PROVE Untouched
  BY <1>6 DEF DropPointer, Aside, appVars, queueVars
<1>7. Untouched => AppInv'
  BY AsideKeeps
<1> HIDE DEF Untouched, AppInv
<1>8. QED
  BY <1>1, <1>2, <1>3, <1>4, <1>5, <1>6, <1>7 DEF UserStep

(* What Main does with queues and with the application object.             *)
LEMMA MainKeeps ==
  ASSUME AppInv, MainStep
  PROVE  AppInv'
<1> USE ApplicationAssumption DEF AppInv, Queues, appVars, queueVars
<1>1. CASE CreateApplication
  <2>1. Typed'
    BY <1>1 DEF CreateApplication, Typed, Working, Over, InShutDown, Free, At
  <2>2. GuardInv' /\ GlobalInv' /\ LocalInv' /\ MainInv'
    BY <1>1 DEF CreateApplication, Typed, GuardInv, GlobalInv, LocalInv, MainInv,
         Working, Over, InShutDown, Free, At
  <2>3. QuietWhenDestructed'
    BY <1>1 DEF CreateApplication, Typed, QuietWhenDestructed, Active, Over, Working
  <2>4. QED
    BY <2>1, <2>2, <2>3
<1>2. CASE SetGlobalQueueFactory
  <2>1. Typed'
    BY <1>2 DEF SetGlobalQueueFactory, Typed, May, Working, Over, InShutDown, Free, At
  <2>2. GuardInv' /\ GlobalInv' /\ LocalInv' /\ MainInv'
    BY <1>2 DEF SetGlobalQueueFactory, Typed, GuardInv, GlobalInv, LocalInv, MainInv,
         May, Working, Over, InShutDown, Free, At
  <2>3. QuietWhenDestructed'
    BY <1>2 DEF SetGlobalQueueFactory, Typed, QuietWhenDestructed, Active, May, Over,
         Working
  <2>4. QED
    BY <2>1, <2>2, <2>3
<1>3. CASE Instance
  <2>1. Typed'
    BY <1>3 DEF Instance, Typed, NewQueue, Enter, Working, Over, InShutDown, Free, At
  <2>2. GuardInv' /\ GlobalInv' /\ LocalInv' /\ MainInv'
    BY <1>3 DEF Instance, Typed, GuardInv, GlobalInv, LocalInv, MainInv, NewQueue,
         Enter, Working, Over, InShutDown, Free, At
  <2>3. QuietWhenDestructed'
    BY <1>3 DEF Instance, Typed, QuietWhenDestructed, Active, NewQueue, Enter, Over, Working
  <2>4. QED
    BY <2>1, <2>2, <2>3
<1>4. CASE NewLocal
  <2>1. Typed'
    BY <1>4 DEF NewLocal, Typed, NewQueue, Enter, Working, Over, InShutDown, Free, At
  <2>2. GuardInv' /\ GlobalInv' /\ LocalInv' /\ MainInv'
    BY <1>4 DEF NewLocal, Typed, GuardInv, GlobalInv, LocalInv, MainInv, NewQueue,
         Enter, Working, Over, InShutDown, Free, At
  <2>3. QuietWhenDestructed'
    BY <1>4 DEF NewLocal, Typed, QuietWhenDestructed, Active, NewQueue, Enter, Over, Working
  <2>4. QED
    BY <2>1, <2>2, <2>3
<1>5. CASE Quit
  <2>1. Typed'
    BY <1>5 DEF Quit, Typed, CallShutDown, Exists, Working, Over, InShutDown, Free, At
  <2>2. GuardInv' /\ GlobalInv' /\ LocalInv' /\ MainInv'
    BY <1>5 DEF Quit, Typed, GuardInv, GlobalInv, LocalInv, MainInv, CallShutDown,
         Exists, Working, Over, InShutDown, Free, At
  <2>3. QuietWhenDestructed'
    BY <1>5 DEF Quit, Typed, QuietWhenDestructed, Active, CallShutDown, Exists, Over,
         Working
  <2>4. QED
    BY <2>1, <2>2, <2>3
<1>6. CASE DeleteChildren
  <2>1. Typed'
    BY <1>6 DEF DeleteChildren, Typed, Working, Over, InShutDown, Free, At
  <2>2. GuardInv' /\ GlobalInv' /\ LocalInv' /\ MainInv'
    BY <1>6 DEF DeleteChildren, Typed, GuardInv, GlobalInv, LocalInv, MainInv, Working,
         Over, InShutDown, Free, At
  <2>3. QuietWhenDestructed'
    BY <1>6 DEF DeleteChildren, Typed, QuietWhenDestructed, Active, Over, Working
  <2>4. QED
    BY <2>1, <2>2, <2>3
<1>7. CASE DeleteGuard
  <2>1. Typed'
    BY <1>7 DEF DeleteGuard, Typed, ClearsInstance, Working, Over, InShutDown, Free, At
  <2>2. GuardInv' /\ GlobalInv' /\ LocalInv' /\ MainInv'
    BY <1>7 DEF DeleteGuard, Typed, GuardInv, GlobalInv, LocalInv, MainInv,
         ClearsInstance, Working, Over, InShutDown, Free, At
  <2>3. QuietWhenDestructed'
    BY <1>7 DEF DeleteGuard, Typed, QuietWhenDestructed, Active, ClearsInstance, Over,
         Working
  <2>4. QED
    BY <2>1, <2>2, <2>3
<1>8. CASE DeleteGlobal
  <2>1. Typed'
    BY <1>8 DEF DeleteGlobal, Typed, Exists, Working, Over, InShutDown, Free, At
  <2>2. GuardInv' /\ GlobalInv' /\ LocalInv' /\ MainInv'
    BY <1>8 DEF DeleteGlobal, Typed, GuardInv, GlobalInv, LocalInv, MainInv, Exists,
         Working, Over, InShutDown, Free, At
  <2>3. QuietWhenDestructed'
    BY <1>8 DEF DeleteGlobal, Typed, QuietWhenDestructed, Active, Exists, Over, Working
  <2>4. QED
    BY <2>1, <2>2, <2>3
<1>9. CASE Gone
  <2>1. Typed'
    BY <1>9 DEF Gone, Typed, Exists, Working, Over, InShutDown, Free, At
  <2>2. GuardInv' /\ GlobalInv' /\ LocalInv' /\ MainInv'
    BY <1>9 DEF Gone, Typed, GuardInv, GlobalInv, LocalInv, MainInv, Exists, Working,
         Over, InShutDown, Free, At
  <2>3. QuietWhenDestructed'
    BY <1>9 DEF Gone, Typed, QuietWhenDestructed, Active, Exists, Over, Working
  <2>4. QED
    BY <2>1, <2>2, <2>3
<1>10. CASE ShutDown
  <2>1. Typed'
    BY <1>10 DEF ShutDown, Typed, Has, Up, Exists, CallShutDown, Working, Over,
         InShutDown, Free, At
  <2>2. GuardInv' /\ GlobalInv' /\ LocalInv' /\ MainInv'
    BY <1>10 DEF ShutDown, Typed, GuardInv, GlobalInv, LocalInv, MainInv, Has, Up,
         Exists, CallShutDown, Working, Over, InShutDown, Free, At
  <2>3. QuietWhenDestructed'
    BY <1>10 DEF ShutDown, Typed, QuietWhenDestructed, Active, Has, Up, Exists,
         CallShutDown, Over, Working
  <2>4. QED
    BY <2>1, <2>2, <2>3
<1>11. CASE DeleteLocal
  <2>1. Typed'
    BY <1>11 DEF DeleteLocal, Typed, Has, Up, Exists, Working, Over, InShutDown, Free, At
  <2>2. GuardInv' /\ GlobalInv' /\ LocalInv' /\ MainInv'
    BY <1>11 DEF DeleteLocal, Typed, GuardInv, GlobalInv, LocalInv, MainInv, Has, Up,
         Exists, Working, Over, InShutDown, Free, At
  <2>3. QuietWhenDestructed'
    BY <1>11 DEF DeleteLocal, Typed, QuietWhenDestructed, Active, Has, Up, Exists, Over,
         Working
  <2>4. QED
    BY <2>1, <2>2, <2>3
<1>12. QED
  BY <1>1, <1>2, <1>3, <1>4, <1>5, <1>6, <1>7, <1>8, <1>9, <1>10, <1>11 DEF MainStep

(* The steps of shutDown() and of ~Queue().                                *)
LEMMA ShuttingDownKeeps ==
  ASSUME AppInv, ShuttingDownStep
  PROVE  AppInv'
<1> USE ApplicationAssumption DEF AppInv
<1>1. CASE SdFinish \/ SdSuspend \/ SdSet
  <2>1. /\ main.at \in InShutDown /\ main.on \in Queues /\ state[main.on] \in Working
        /\ UNCHANGED <<app, created, instance, guard, factory, running, reporting>>
        /\ \E place \in InShutDown : main' = [main EXCEPT !.at = place]
    BY <1>1 DEF SdFinish, SdSuspend, SdSet, Goto, InShutDown, Typed, MainInv, appVars,
         queueVars
  <2>2. \E s \in Working : state' = [state EXCEPT ![main.on] = s]
    <3>1. CASE SdFinish
      <4>1. state' = [state EXCEPT ![main.on] = state[main.on]]
        BY <3>1 DEF SdFinish, queueVars, Typed
      <4>2. QED
        BY <2>1, <4>1
    <3>2. CASE SdSuspend
      <4>1. AfterSuspend(state[main.on]) \in Working
        BY <2>1 DEF AfterSuspend, Working
      <4>2. QED
        BY <3>2, <4>1 DEF SdSuspend, Enter
    <3>3. CASE SdSet
      BY <3>3 DEF SdSet, Enter, Working
    <3>4. QED
      BY <1>1, <3>1, <3>2, <3>3
  <2>3. QED
    BY <2>1, <2>2, ReplaceKeeps
<1>2. CASE SdDestruct
  <2> DEFINE q == main.on
  <2>1. /\ q \in Queues /\ state' = [state EXCEPT ![q] = "Destructed"] /\ main.at = "join"
        /\ main' = IF main.deletes THEN At("delete", q, TRUE) ELSE Free
        /\ Active(q) = 0
        /\ UNCHANGED <<app, created, instance, guard, factory, running, reporting>>
    BY <1>2 DEF SdDestruct, Joined, Enter, Typed, appVars
  <2>2. Typed'
    BY <2>1 DEF Typed, At, Free, Over
  <2>3. GuardInv' /\ GlobalInv' /\ LocalInv' /\ MainInv'
    BY <2>1 DEF Typed, GuardInv, GlobalInv, LocalInv, MainInv, At, Free, Over,
         InShutDown, Working, Queues
  <2>4. QuietWhenDestructed'
    BY <2>1 DEF Typed, QuietWhenDestructed, Active
  <2>5. QED
    BY <2>2, <2>3, <2>4
<1>3. CASE Destruct
  <2> DEFINE q == main.on
  <2>1. /\ q \in Queues /\ main.at = "delete"
        /\ UNCHANGED <<app, created, instance, guard, factory, running, reporting>>
    BY <1>3 DEF Destruct, Typed, appVars
  <2>2. CASE state[q] = "Destructed"
    <3>1. main' = Free /\ state' = [state EXCEPT ![q] = "deleted"]
      BY <1>3, <2>2 DEF Destruct, NeedsShutDown, Enter
    <3>2. Typed'
      BY <2>1, <3>1 DEF Typed, Free, Over
    <3>3. GuardInv' /\ GlobalInv' /\ LocalInv' /\ MainInv'
      BY <2>1, <2>2, <3>1 DEF Typed, GuardInv, GlobalInv, LocalInv, MainInv, Free, Over,
           InShutDown, Working, Queues
    <3>4. QuietWhenDestructed'
      BY <2>1, <2>2, <3>1 DEF Typed, QuietWhenDestructed, Active
    <3>5. QED
      BY <3>2, <3>3, <3>4
  <2>3. CASE state[q] # "Destructed"
    <3>1. main' = At("finish", q, TRUE) /\ state' = state /\ state[q] \in Working
      BY <1>3, <2>1, <2>3 DEF Destruct, NeedsShutDown, CallShutDown, MainInv
    <3>2. Typed'
      BY <2>1, <3>1 DEF Typed, At, InShutDown
    <3>3. GuardInv' /\ GlobalInv' /\ LocalInv' /\ MainInv'
      BY <2>1, <2>3, <3>1 DEF Typed, GuardInv, GlobalInv, LocalInv, MainInv, At, Over,
           InShutDown, Working, Queues
    <3>4. QuietWhenDestructed'
      BY <2>1, <3>1 DEF QuietWhenDestructed, Active
    <3>5. QED
      BY <3>2, <3>3, <3>4
  <2>4. QED
    BY <2>2, <2>3
<1>4. QED
  BY <1>1, <1>2, <1>3 DEF ShuttingDownStep

(* Every step is one of those above.                                       *)
LEMMA AppInvStep == AppInv /\ [Next]_vars => AppInv'
<1> SUFFICES ASSUME AppInv, [Next]_vars PROVE AppInv'
  OBVIOUS
<1>1. CASE Next
  BY <1>1, MainKeeps, ShuttingDownKeeps, UsersKeep, ThreadsKeep DEF Next
<1>2. CASE UNCHANGED vars
  BY <1>2, AsideKeeps DEF vars, appVars, queueVars, Aside, AppInv, Typed
<1>3. QED
  BY <1>1, <1>2

-------------------------------------------------------------------------------
(* The theorems *)

(* Once a queue is Destructed no thread of it executes a job or has to     *)
(* report (weaver.cpp:90, the join in shutDown_p()).                       *)
THEOREM DestructedIsQuiet == Spec => []QuietWhenDestructed
<1>1. AppInv => QuietWhenDestructed
  BY DEF AppInv
<1>2. QED
  BY AppInvInit, AppInvStep, <1>1, PTL DEF Spec

(* While the application runs, instance() returns a queue that exists; the *)
(* global queue is Destructed before it is deleted; nothing is left after  *)
(* that (queue.cpp:107, the guard and the post routine).                   *)
THEOREM InstanceIsUsable == Spec => []InstanceUsable
<1>1. AppInv => InstanceUsable
  <2> SUFFICES ASSUME AppInv PROVE InstanceUsable
    OBVIOUS
  <2>1. created /\ Up => instance = Global /\ Exists(Global)
    BY DEF AppInv, Typed, GuardInv, GlobalInv, Up, Exists
  <2>2. app = "gone" => instance = NoQueue /\ (created => ~ factory)
    BY DEF AppInv, Typed, GuardInv
  <2>3. app \in {"children", "gone"} => state[Global] \in {"none", "Destructed", "deleted"}
    BY DEF AppInv, GlobalInv, Over
  <2>4. QED
    BY <2>1, <2>2, <2>3 DEF InstanceUsable
<1>2. QED
  BY AppInvInit, AppInvStep, <1>1, PTL DEF Spec

-------------------------------------------------------------------------------
(* Where jobs are: the second invariant *)

JobTyped ==
  /\ waiting \in [Queues -> Seq(Jobs)] /\ \A q \in Queues : running[q] \subseteq Jobs
  /\ stream \in [Users -> [on : Queues \cup {NoQueue}, jobs : Seq(Jobs)]]
  /\ homes \in [Jobs -> Queues \cup {NoQueue}]
  /\ enqueued \in [Jobs -> Nat] /\ executed \in [Jobs -> Nat] /\ deletions \in [Jobs -> Nat]
  /\ used \subseteq Jobs /\ pointers \subseteq used

Streamed(u) == ToSet(stream[u].jobs)
In(q) == ToSet(waiting[q]) \cup running[q]

(* A job is in one stream, once, and then in no queue ...                  *)
StreamedInv ==
  /\ \A u \in Users : Distinct(stream[u].jobs)
  /\ \A u \in Users : \A j \in Streamed(u) : j \in used /\ homes[j] = NoQueue
  /\ \A u, v \in Users : Streamed(u) \cap Streamed(v) # {} => u = v

(* ... or it has been enqueued, once, and is nowhere but in its queue.     *)
HomeInv ==
  /\ \A q \in Queues : Distinct(waiting[q]) /\ ToSet(waiting[q]) \cap running[q] = {}
  /\ \A q \in Queues : \A j \in In(q) : homes[j] = q
  /\ \A j \in Jobs : /\ homes[j] # NoQueue => j \in used
                     /\ enqueued[j] = IF homes[j] = NoQueue THEN 0 ELSE 1
  /\ \A j \in used : homes[j] = NoQueue => \E u \in Users : j \in Streamed(u)

(* A stream does not outlive its queue.                                    *)
StreamInv ==
  /\ main.at = "delete" => main.deletes
  /\ \A u \in Users : stream[u] # NoStream =>
       /\ Up /\ stream[u].on \in Queues /\ Exists(stream[u].on)
       /\ ~ (main.on = stream[u].on /\ main.deletes)

(* What finish() has waited for is over, unless the queue is, and a raw    *)
(* pointer stays until then.                                               *)
SettledInv ==
  /\ \A j \in settled :
       /\ j \in Jobs /\ homes[j] # NoQueue /\ j \notin running[homes[j]]
       /\ j \in ToSet(waiting[homes[j]]) => state[homes[j]] \in Over
  /\ \A j \in used \ pointers : KindOf[j] = "raw" => j \in settled

(* A job is executed when its thread drops it, not before ...              *)
ExecutedInv ==
  /\ \A j \in Jobs : homes[j] = NoQueue => executed[j] = 0
  /\ \A q \in Queues : \A j \in In(q) : executed[j] = 0

(* ... and what is enqueued in time is executed before shutDown() is past  *)
(* its finish().                                                           *)
PastFinish(q) ==
  state[q] \in Over \/ (main.on = q /\ main.at \in {"suspend", "setShuttingDown", "join"})

OnTimeInv ==
  \A j \in onTime \ withdrawn :
    /\ j \in Jobs /\ homes[j] # NoQueue
    /\ executed[j] = 1 \/ (j \in In(homes[j]) /\ ~ PastFinish(homes[j]))

JobInv ==
  /\ JobTyped /\ StreamedInv /\ HomeInv /\ StreamInv /\ SettledInv /\ ExecutedInv /\ OnTimeInv
  /\ DeletedExactlyOnce

-------------------------------------------------------------------------------
(* Lists of jobs *)

LEMMA OccursInSet ==
  ASSUME NEW s, NEW x
  PROVE  x \in ToSet(s) <=> Occurs(s, x)
BY DEF ToSet, Occurs

LEMMA EmptyList ==
  /\ <<>> \in Seq(Jobs) /\ ToSet(<<>>) = {} /\ Distinct(<<>>)
  /\ \A s \in Seq(Jobs) : ToSet(s) = {} => s = <<>>
  /\ \A s \in Seq(Jobs) : ToSet(s) \subseteq Jobs
<1>1. <<>> \in Seq(Jobs) /\ DOMAIN <<>> = {}
  OBVIOUS
<1>2. ASSUME NEW s \in Seq(Jobs) PROVE (ToSet(s) = {} => s = <<>>) /\ ToSet(s) \subseteq Jobs
  BY DEF ToSet
<1>3. QED
  BY <1>1, <1>2 DEF ToSet, Distinct

LEMMA SingleList ==
  ASSUME NEW j \in Jobs
  PROVE  <<j>> \in Seq(Jobs) /\ ToSet(<<j>>) = {j} /\ Distinct(<<j>>)
<1>1. <<j>> \in Seq(Jobs) /\ DOMAIN <<j>> = {1} /\ <<j>>[1] = j
  OBVIOUS
<1> DEFINE s == <<j>>
<1> HIDE DEF s
<1>2. s \in Seq(Jobs) /\ ToSet(s) = {j} /\ Distinct(s)
  BY <1>1 DEF s, ToSet, Distinct
<1>3. QED
  BY <1>2 DEF s

LEMMA AppendList ==
  ASSUME NEW s \in Seq(Jobs), NEW j \in Jobs, j \notin ToSet(s), Distinct(s)
  PROVE  /\ Append(s, j) \in Seq(Jobs) /\ ToSet(Append(s, j)) = ToSet(s) \cup {j}
         /\ Distinct(Append(s, j))
<1>1. \A x : x \in ToSet(Append(s, j)) <=> x = j \/ x \in ToSet(s)
  BY AppendOccurs, OccursInSet
<1>2. Distinct(Append(s, j)) /\ Append(s, j) \in Seq(Jobs)
  BY AppendOccurs, AppendProperties, OccursInSet
<1>3. QED
  BY <1>1, <1>2

LEMMA TailList ==
  ASSUME NEW s \in Seq(Jobs), s # <<>>, Distinct(s)
  PROVE  /\ Tail(s) \in Seq(Jobs) /\ ToSet(Tail(s)) = ToSet(s) \ {Head(s)}
         /\ Distinct(Tail(s)) /\ Head(s) \in ToSet(s) /\ Head(s) \in Jobs
<1>1. \A x : x \in ToSet(Tail(s)) <=> x \in ToSet(s) /\ x # Head(s)
  BY TailOccurs, OccursInSet
<1>2. Distinct(Tail(s)) /\ Tail(s) \in Seq(Jobs)
  BY TailOccurs
<1>3. Head(s) = s[1] /\ 1 \in DOMAIN s /\ Head(s) \in Jobs
  BY HeadTailProperties, EmptySeq, LenProperties
<1>4. Head(s) \in ToSet(s)
  BY <1>3 DEF ToSet
<1>5. QED
  BY <1>1, <1>2, <1>3, <1>4

LEMMA ConcatList ==
  ASSUME NEW s \in Seq(Jobs), NEW r \in Seq(Jobs)
  PROVE  /\ s \o r \in Seq(Jobs) /\ ToSet(s \o r) = ToSet(s) \cup ToSet(r)
         /\ Distinct(s) /\ Distinct(r) /\ ToSet(s) \cap ToSet(r) = {} => Distinct(s \o r)
<1> DEFINE c == s \o r
<1>1. /\ c \in Seq(Jobs) /\ Len(c) = Len(s) + Len(r)
      /\ \A i \in 1..Len(s) + Len(r) : c[i] = IF i <= Len(s) THEN s[i] ELSE r[i - Len(s)]
  BY ConcatProperties
<1>2. /\ Len(s) \in Nat /\ Len(r) \in Nat /\ DOMAIN s = 1..Len(s) /\ DOMAIN r = 1..Len(r)
  BY LenProperties
<1> HIDE DEF c
<1>3. DOMAIN c = 1..Len(s) + Len(r)
  BY <1>1, LenProperties
<1>4. \A i \in DOMAIN s : i \in DOMAIN c /\ c[i] = s[i]
  BY <1>1, <1>2, <1>3
<1>5. \A i \in DOMAIN r : i + Len(s) \in DOMAIN c /\ c[i + Len(s)] = r[i]
  <2> TAKE i \in DOMAIN r
  <2>1. i \in Nat /\ i >= 1 /\ i <= Len(r) /\ i + Len(s) - Len(s) = i /\ ~ i + Len(s) <= Len(s)
    BY <1>2
  <2>2. i + Len(s) \in 1..Len(s) + Len(r)
    BY <1>2, <2>1
  <2>3. QED
    BY <1>1, <1>3, <2>1, <2>2
<1>6. \A i \in DOMAIN c : \/ i \in DOMAIN s /\ c[i] = s[i]
                          \/ i - Len(s) \in DOMAIN r /\ c[i] = r[i - Len(s)]
  BY <1>1, <1>2, <1>3
<1>7. ToSet(c) = ToSet(s) \cup ToSet(r)
  BY <1>4, <1>5, <1>6 DEF ToSet
<1>8. ASSUME Distinct(s), Distinct(r), ToSet(s) \cap ToSet(r) = {} PROVE Distinct(c)
  <2>1. SUFFICES ASSUME NEW i \in DOMAIN c, NEW k \in DOMAIN c, c[i] = c[k] PROVE i = k
    BY DEF Distinct
  <2>2. i \in Nat /\ k \in Nat
    BY <1>2, <1>3
  <2>3. \A a \in DOMAIN s, b \in DOMAIN r : s[a] # r[b]
    BY <1>8 DEF ToSet
  <2>4. CASE i \in DOMAIN s /\ c[i] = s[i]
    BY <1>6, <1>8, <2>1, <2>3, <2>4 DEF Distinct
  <2>5. CASE i - Len(s) \in DOMAIN r /\ c[i] = r[i - Len(s)]
    <3>1. k - Len(s) \in DOMAIN r /\ c[k] = r[k - Len(s)]
      BY <1>6, <2>1, <2>3, <2>5
    <3>2. i - Len(s) = k - Len(s)
      BY <1>8, <2>1, <2>5, <3>1 DEF Distinct
    <3>3. QED
      BY <1>2, <2>2, <3>2
  <2>6. QED
    BY <1>6, <2>4, <2>5
<1>9. QED
  BY <1>1, <1>7, <1>8 DEF c

(* In a list without repetition a job counts once.                         *)
LEMMA CountInList ==
  ASSUME NEW s \in Seq(Jobs), Distinct(s), NEW j
  PROVE  Cardinality({n \in DOMAIN s : s[n] = j}) = IF j \in ToSet(s) THEN 1 ELSE 0
<1>1. CASE j \in ToSet(s)
  <2>1. PICK n \in DOMAIN s : s[n] = j
    BY <1>1 DEF ToSet
  <2>2. {m \in DOMAIN s : s[m] = j} = {n}
    BY <2>1 DEF Distinct
  <2>3. QED
    BY <1>1, <2>2, FS_Singleton
<1>2. CASE j \notin ToSet(s)
  <2>1. {m \in DOMAIN s : s[m] = j} = {}
    BY <1>2 DEF ToSet
  <2>2. QED
    BY <1>2, <2>1, FS_EmptySet
<1>3. QED
  BY <1>1, <1>2

-------------------------------------------------------------------------------
(* Steps that leave the jobs where they are *)

LEMMA JobInvInit == Init => JobInv
<1> SUFFICES ASSUME Init PROVE JobInv
  OBVIOUS
<1> USE DEF Init
<1>1. JobTyped
  BY EmptyList DEF JobTyped, NoStream
<1>2. /\ \A u \in Users : stream[u] = NoStream /\ Streamed(u) = {} /\ Distinct(stream[u].jobs)
      /\ \A q \in Queues : In(q) = {} /\ ToSet(waiting[q]) = {} /\ Distinct(waiting[q])
  BY EmptyList DEF NoStream, Streamed, In
<1>3. StreamedInv /\ HomeInv
  BY <1>2, EmptyList DEF StreamedInv, HomeInv
<1>4. StreamInv /\ SettledInv /\ ExecutedInv /\ OnTimeInv
  BY <1>2 DEF StreamInv, SettledInv, ExecutedInv, OnTimeInv, Free
<1>5. DeletedExactlyOnce
  BY DEF DeletedExactlyOnce
<1>6. QED
  BY <1>1, <1>3, <1>4, <1>5 DEF JobInv

(* What the jobs and the pointers to them are, and what has become of them.*)
Whereabouts == <<waiting, running, stream, pointers, used, homes, enqueued, executed>>
History == <<onTime, withdrawn, settled>>

LEMMA PlacesKept ==
  ASSUME JobInv, UNCHANGED Whereabouts, UNCHANGED deletions
  PROVE  JobTyped' /\ StreamedInv' /\ HomeInv' /\ ExecutedInv' /\ DeletedExactlyOnce'
<1> USE DEF JobInv, Whereabouts
<1>1. JobTyped'
  BY DEF JobTyped
<1>2. StreamedInv' /\ HomeInv' /\ ExecutedInv'
  BY DEF StreamedInv, HomeInv, ExecutedInv, Streamed, In
<1>3. DeletedExactlyOnce'
  BY DEF DeletedExactlyOnce, Held
<1>4. QED
  BY <1>1, <1>2, <1>3

LEMMA QueuesKept ==
  ASSUME JobInv, UNCHANGED Whereabouts, UNCHANGED History,
         \A q \in Queues : state[q] \in Over => state'[q] \in Over,
         \A q \in Queues : PastFinish(q)' => PastFinish(q) \/ In(q) = {}
  PROVE  SettledInv' /\ OnTimeInv'
<1> USE DEF JobInv, Whereabouts, History
<1>1. SettledInv'
  BY DEF SettledInv, JobTyped
<1>2. \A q \in Queues : In(q)' = In(q)
  BY DEF In
<1>3. OnTimeInv'
  <2> SUFFICES ASSUME NEW j \in onTime \ withdrawn
               PROVE  /\ j \in Jobs /\ homes[j] # NoQueue
                      /\ executed[j] = 1 \/ (j \in In(homes[j])' /\ ~ PastFinish(homes[j])')
    BY DEF OnTimeInv
  <2>1. /\ j \in Jobs /\ homes[j] \in Queues
        /\ executed[j] = 1 \/ (j \in In(homes[j]) /\ ~ PastFinish(homes[j]))
    BY DEF OnTimeInv, JobTyped
  <2> DEFINE q == homes[j]
  <2>2. homes[j] # NoQueue
    BY DEF OnTimeInv
  <2>3. QED
    BY <1>2, <2>1, <2>2
<1>4. QED
  BY <1>1, <1>3

(* Steps of Main other than those of shutDown() and ~Queue().              *)
LEMMA MainKeepsJobs ==
  ASSUME AppInv, JobInv, MainStep
  PROVE  JobInv'
<1> USE ApplicationAssumption DEF AppInv, JobInv
<1>1. UNCHANGED <<waiting, running, clientVars, historyVars>>
  BY DEF MainStep, CreateApplication, SetGlobalQueueFactory, Instance, NewLocal, Quit,
       DeleteChildren, DeleteGuard, DeleteGlobal, Gone, ShutDown, DeleteLocal, queueVars, NewQueue
<1>2. UNCHANGED Whereabouts /\ UNCHANGED History /\ UNCHANGED deletions
  BY <1>1 DEF clientVars, historyVars, Whereabouts, History
<1>3. \/ state' = state
      \/ \E q \in Queues : state[q] = "none" /\ state' = [state EXCEPT ![q] = "WorkingHard"]
  BY DEF MainStep, CreateApplication, SetGlobalQueueFactory, Instance, NewLocal, Quit,
       DeleteChildren, DeleteGuard, DeleteGlobal, Gone, ShutDown, DeleteLocal, queueVars, NewQueue,
       Enter, GuardInv, Queues
<1>4. \A q \in Queues : /\ state[q] \in Over => state'[q] \in Over
                        /\ state'[q] \in Over => state[q] \in Over
                        /\ Exists(q) => Exists(q)'
  BY <1>3 DEF Typed, Exists, Over
<1>5. \/ main' = main
      \/ /\ main.at = "free" /\ main'.at \in {"free", "finish", "delete"}
         /\ main'.at = "delete" => main'.deletes
         /\ main'.deletes => main'.on \in Queues /\ \A u \in Users : stream[u] # NoStream =>
              stream[u].on # main'.on
  BY DEF MainStep, CreateApplication, SetGlobalQueueFactory, Instance, NewLocal, Quit,
       DeleteChildren, DeleteGuard, DeleteGlobal, Gone, ShutDown, DeleteLocal, CallShutDown,
       Free, At, StreamInv, Up, Queues
<1>6. (\E u \in Users : stream[u] # NoStream) => app' \in {"running", "quitting"}
  BY DEF MainStep, CreateApplication, SetGlobalQueueFactory, Instance, NewLocal, Quit,
       DeleteChildren, DeleteGuard, DeleteGlobal, Gone, ShutDown, DeleteLocal, StreamInv,
       Up, appVars
<1>7. StreamInv'
  BY <1>2, <1>4, <1>5, <1>6 DEF StreamInv, Whereabouts, Up
<1>8. \A q \in Queues : PastFinish(q)' => PastFinish(q)
  BY <1>4, <1>5 DEF PastFinish
<1>9. QED
  BY <1>2, <1>4, <1>7, <1>8, PlacesKept, QueuesKept

LEMMA IdleIsEmpty ==
  ASSUME Typed, NEW q \in Queues, IsIdle(q)
  PROVE  In(q) = {} /\ running[q] = {}
<1>1. running[q] = {}
  BY Quiet DEF IsIdle, Typed
<1>2. ToSet(waiting[q]) = {}
  BY EmptyList DEF IsIdle
<1>3. QED
  BY <1>1, <1>2 DEF In

(* Nothing is deleted where nobody lets go of anything.                    *)
LEMMA NothingDeleted ==
  ASSUME JobTyped, Delete, UNCHANGED Whereabouts
  PROVE  UNCHANGED deletions
<1>1. \A j \in Jobs : Held(j)' <=> Held(j)
  BY DEF Held, Whereabouts
<1>2. deletions' = [j \in Jobs |-> deletions[j]]
  BY <1>1 DEF Delete, Whereabouts
<1>3. QED
  BY <1>2 DEF JobTyped

(* What nobody holds is never held again, whoever lets go of it last       *)
(* deletes it, and there is one who does.                                  *)
LEMMA DeletedByOne ==
  ASSUME JobInv, Delete, used \subseteq used', used' \subseteq Jobs,
         \A j \in Jobs : Held(j)' => Held(j) \/ j \notin used
  PROVE  /\ deletions' \in [Jobs -> Nat]
         /\ DeletedExactlyOnce'
<1>1. \A j \in Jobs : Deleters(j) = 1
  BY ApplicationAssumption
  DEF Kinds, Deleters, PointerDeletes, DecoratorDeletes, UserDeletes, WeaverDecoratorDeletes
<1>2. \A j \in Jobs :
        deletions'[j] = IF (Held(j) \/ j \notin used) /\ j \in used' /\ ~ Held(j)'
                        THEN deletions[j] + 1 ELSE deletions[j]
  BY <1>1 DEF Delete
<1>3. \A j \in Jobs : deletions[j] = IF j \in used /\ ~ Held(j) THEN 1 ELSE 0
  BY DEF JobInv, DeletedExactlyOnce
<1>4. \A j \in Jobs : deletions'[j] = IF j \in used' /\ ~ Held(j)' THEN 1 ELSE 0
  BY <1>2, <1>3
<1>5. DeletedExactlyOnce'
  BY <1>4 DEF DeletedExactlyOnce
<1>6. deletions' \in [Jobs -> Nat]
  <2>1. deletions' = [j \in Jobs |-> deletions'[j]]
    BY DEF Delete
  <2>2. QED
    BY <1>4, <2>1
<1>7. QED
  BY <1>5, <1>6

(* The steps of shutDown() that move Main on.                              *)
LEMMA ShuttingDownKeepsJobs ==
  ASSUME AppInv, JobInv, SdFinish \/ SdSuspend \/ SdSet \/ SdDestruct
  PROVE  JobInv'
<1> USE DEF AppInv, JobInv
<1> DEFINE q == main.on
<1>1. /\ UNCHANGED Whereabouts /\ UNCHANGED History /\ UNCHANGED deletions /\ app' = app
      /\ main.at \in InShutDown /\ q \in Queues /\ state[q] \in Working
  BY DEF SdFinish, SdSuspend, SdSet, SdDestruct, queueVars, appVars, clientVars, historyVars,
       Whereabouts, History, InShutDown, Typed, MainInv
<1>2. \E s \in Working \cup {"Destructed"} : state' = [state EXCEPT ![q] = s]
  <2>1. CASE SdFinish
    <3>1. state' = [state EXCEPT ![q] = state[q]]
      BY <2>1 DEF SdFinish, queueVars, Typed
    <3>2. QED
      BY <1>1, <3>1
  <2>2. CASE SdSuspend
    BY <1>1, <2>2 DEF SdSuspend, Enter, AfterSuspend, Working
  <2>3. CASE SdSet \/ SdDestruct
    BY <2>3 DEF SdSet, SdDestruct, Enter, Working
  <2>4. QED
    BY <2>1, <2>2, <2>3
<1>3. \A p \in Queues : /\ p # q => state'[p] = state[p]
                        /\ state[p] \in Over => state'[p] \in Over
                        /\ Exists(p) => Exists(p)'
  BY <1>1, <1>2 DEF Typed, Exists, Over, Working
<1>4. /\ main'.deletes = main.deletes \/ ~ main'.deletes
      /\ main'.on = main.on \/ main' = Free
      /\ main'.at = "delete" => main'.deletes
  <2>1. CASE SdFinish \/ SdSuspend \/ SdSet
    <3>1. main' = [main EXCEPT !.at = main'.at] /\ main'.at # "delete"
      BY <2>1 DEF SdFinish, SdSuspend, SdSet, Goto, Typed
    <3>2. QED
      BY <3>1 DEF Typed
  <2>2. CASE SdDestruct
    <3>1. main' = IF main.deletes THEN At("delete", main.on, TRUE) ELSE Free
      BY <2>2 DEF SdDestruct
    <3>2. QED
      BY <3>1 DEF Typed, At, Free
  <2>3. QED
    BY <2>1, <2>2
<1>5. StreamInv'
  BY <1>1, <1>3, <1>4 DEF StreamInv, Whereabouts, Up, Free
<1>6. ASSUME NEW p \in Queues, PastFinish(p)', ~ PastFinish(p) PROVE In(p) = {}
  <2>1. p = q
    BY <1>3, <1>4, <1>6 DEF PastFinish, Free
  <2>2. CASE SdFinish
    BY <2>1, <2>2, IdleIsEmpty DEF SdFinish, WaitsForFinish
  <2>3. CASE ~ SdFinish
    BY <1>6, <2>1, <2>3 DEF SdSuspend, SdSet, SdDestruct, PastFinish
  <2>4. QED
    BY <2>2, <2>3
<1>7. QED
  BY <1>1, <1>3, <1>5, <1>6, PlacesKept, QueuesKept

-------------------------------------------------------------------------------
(* Steps that move jobs *)

(* A queue is emptied.                                                     *)
LEMMA EmptiedKeepsPlaces ==
  ASSUME AppInv, JobInv, NEW q \in Queues, waiting' = [waiting EXCEPT ![q] = <<>>], Delete,
         UNCHANGED <<running, stream, pointers, used, homes, enqueued, executed>>
  PROVE  /\ JobTyped' /\ StreamedInv' /\ HomeInv' /\ ExecutedInv' /\ DeletedExactlyOnce'
         /\ \A p \in Queues : /\ ToSet(waiting'[p]) \subseteq ToSet(waiting[p])
                              /\ p # q => waiting'[p] = waiting[p]
<1> USE DEF JobInv
<1>1. /\ waiting' \in [Queues -> Seq(Jobs)]
      /\ \A p \in Queues : /\ p # q => waiting'[p] = waiting[p]
                           /\ p = q => ToSet(waiting'[p]) = {} /\ Distinct(waiting'[p])
  BY EmptyList DEF JobTyped
<1>2. \A p \in Queues : /\ ToSet(waiting'[p]) \subseteq ToSet(waiting[p])
                        /\ Distinct(waiting'[p])
  BY <1>1 DEF HomeInv
<1>3. StreamedInv'
  BY DEF StreamedInv, Streamed
<1>4. HomeInv'
  BY <1>2 DEF HomeInv, Streamed, In
<1>5. ExecutedInv'
  BY <1>2 DEF ExecutedInv, In
<1>6. deletions' \in [Jobs -> Nat] /\ DeletedExactlyOnce'
  <2>1. \A j \in Jobs : Held(j)' => Held(j)
    BY <1>2 DEF Held
  <2>2. QED
    BY <2>1, DeletedByOne DEF JobTyped
<1>7. JobTyped'
  BY <1>1, <1>6 DEF JobTyped
<1>8. QED
  BY <1>1, <1>2, <1>3, <1>4, <1>5, <1>6, <1>7

LEMMA DestructKeepsJobs ==
  ASSUME AppInv, JobInv, Destruct
  PROVE  JobInv'
<1> USE DEF AppInv, JobInv
<1> DEFINE q == main.on
<1>1. /\ q \in Queues /\ main.at = "delete" /\ main.deletes /\ Delete /\ app' = app
      /\ UNCHANGED <<running, stream, pointers, used, homes, enqueued, executed>>
      /\ UNCHANGED History
  BY DEF Destruct, Typed, StreamInv, appVars, clientVars, History
<1>2. CASE NeedsShutDown(q)
  <2>1. main' = At("finish", q, TRUE) /\ state' = state /\ waiting' = waiting
    BY <1>2 DEF Destruct, NeedsShutDown, CallShutDown
  <2>2. UNCHANGED Whereabouts
    BY <1>1, <2>1 DEF Whereabouts
  <2>3. UNCHANGED deletions
    BY <1>1, <2>2, NothingDeleted
  <2>4. StreamInv'
    BY <1>1, <2>1 DEF StreamInv, At, Up, Exists
  <2>5. \A p \in Queues : PastFinish(p)' => PastFinish(p)
    BY <2>1 DEF PastFinish, At
  <2>6. QED
    BY <1>1, <2>1, <2>2, <2>3, <2>4, <2>5, PlacesKept, QueuesKept
<1>3. CASE ~ NeedsShutDown(q)
  <2>1. /\ main' = Free /\ state' = [state EXCEPT ![q] = "deleted"] /\ state[q] = "Destructed"
        /\ waiting' = [waiting EXCEPT ![q] = <<>>]
    BY <1>3 DEF Destruct, NeedsShutDown, Enter
  <2>2. /\ JobTyped' /\ StreamedInv' /\ HomeInv' /\ ExecutedInv' /\ DeletedExactlyOnce'
        /\ \A p \in Queues : /\ ToSet(waiting'[p]) \subseteq ToSet(waiting[p])
                             /\ p # q => waiting'[p] = waiting[p]
    BY <1>1, <2>1, EmptiedKeepsPlaces
  <2>3. \A p \in Queues : /\ p # q => state'[p] = state[p]
                          /\ state[p] \in Over => state'[p] \in Over
    BY <2>1 DEF Typed, Over
  <2>4. StreamInv'
    BY <1>1, <2>1, <2>3 DEF StreamInv, Free, Up, Exists
  <2>5. SettledInv'
    BY <1>1, <2>2, <2>3, ZenonT(60) DEF SettledInv, JobTyped, History
  <2>6. OnTimeInv'
    <3> SUFFICES ASSUME NEW j \in onTime \ withdrawn
                 PROVE  /\ j \in Jobs /\ homes[j] # NoQueue
                        /\ executed[j] = 1 \/ (j \in In(homes[j])' /\ ~ PastFinish(homes[j])')
      BY <1>1 DEF OnTimeInv, History
    <3>1. /\ j \in Jobs /\ homes[j] # NoQueue /\ homes[j] \in Queues
          /\ executed[j] = 1 \/ (j \in In(homes[j]) /\ ~ PastFinish(homes[j]))
      BY DEF OnTimeInv, JobTyped
    <3>2. \A p \in Queues : PastFinish(p)' => PastFinish(p) \/ p = q
      BY <2>1, <2>3 DEF PastFinish, Free
    <3>3. PastFinish(q)
      BY <2>1 DEF PastFinish, Over
    <3>4. homes' = homes /\ \A p \in Queues : p # q => In(p)' = In(p)
      BY <1>1, <2>2 DEF In
    <3>5. CASE homes[j] = q
      BY <1>1, <3>1, <3>3, <3>5
    <3>6. CASE homes[j] # q
      <4>1. PICK p \in Queues : homes[j] = p /\ homes'[j] = p
        BY <3>1, <3>4
      <4>2. In(p)' = In(p) /\ (PastFinish(p)' => PastFinish(p))
        BY <3>2, <3>4, <3>6, <4>1
      <4>3. executed'[j] = executed[j]
        BY <1>1
      <4>4. CASE executed[j] = 1
        BY <3>1, <4>3, <4>4
      <4>5. CASE j \in In(p) /\ ~ PastFinish(p)
        BY <3>1, <4>1, <4>2, <4>5
      <4>6. QED
        BY <3>1, <4>1, <4>4, <4>5
    <3>7. QED
      BY <3>5, <3>6
  <2>7. QED
    BY <2>2, <2>4, <2>5, <2>6
<1>4. QED
  BY <1>2, <1>3

(* Steps that only change the state of a queue that works, or report.      *)
LEMMA StatesKeepJobs ==
  ASSUME AppInv, JobInv, NEW q \in Queues,
         \/ \E u \in Users : Suspend(u, q) \/ Resume(u, q)
         \/ GetSuspended(q) \/ Report(q)
  PROVE  JobInv'
<1> USE DEF AppInv, JobInv
<1>1. /\ UNCHANGED Whereabouts /\ UNCHANGED History /\ UNCHANGED deletions
      /\ app' = app /\ main' = main
  BY DEF Suspend, Resume, GetSuspended, Report, appVars, clientVars, historyVars,
       Whereabouts, History
<1>2. \/ state' = state
      \/ /\ state' = [state EXCEPT ![q] = AfterSuspend(state[q])] \/
            state' = [state EXCEPT ![q] = AfterResume(state[q])]
         /\ Exists(q)
      \/ state' = [state EXCEPT ![q] = "Suspended"] /\ state[q] = "Suspending"
  BY DEF Suspend, Resume, GetSuspended, Report, Enter, Has
<1>3. \A s \in Working : AfterSuspend(s) \in Working /\ AfterResume(s) \in Working
  BY DEF Working, AfterSuspend, AfterResume
<1>4. AfterSuspend("Destructed") = "Destructed" /\ AfterResume("Destructed") = "Destructed"
  BY DEF AfterSuspend, AfterResume
<1>5. \/ state' = state
      \/ state[q] \in Working /\ \E s \in Working : state' = [state EXCEPT ![q] = s]
  <2>1. CASE state[q] \in Working
    BY <1>2, <1>3, <2>1 DEF Working
  <2>2. CASE state[q] = "Destructed"
    BY <1>2, <1>4, <2>2 DEF Typed
  <2>3. state[q] \in Working \cup {"Destructed"} \/ state' = state
    BY <1>2 DEF Typed, Exists, Over
  <2>4. QED
    BY <2>1, <2>2, <2>3
<1>6. \A p \in Queues : /\ state[p] \in Over <=> state'[p] \in Over
                        /\ Exists(p) => Exists(p)'
  BY <1>5 DEF Typed, Over, Working, Exists
<1>7. StreamInv'
  BY <1>1, <1>6 DEF StreamInv, Whereabouts, Up
<1>8. \A p \in Queues : PastFinish(p)' => PastFinish(p)
  BY <1>1, <1>6 DEF PastFinish
<1>9. QED
  BY <1>1, <1>6, <1>7, <1>8, PlacesKept, QueuesKept

(* For steps that take a job nowhere but to its execution.                 *)
LEMMA OnTimeKept ==
  ASSUME JobInv, state' = state, main' = main,
         \A j \in onTime' \ withdrawn' :
           /\ j \in onTime \ withdrawn /\ homes'[j] = homes[j]
           /\ executed[j] = 1 => executed'[j] = 1
           /\ \A p \in Queues : homes[j] = p /\ j \in In(p) => j \in In(p)' \/ executed'[j] = 1
  PROVE  OnTimeInv'
<1> SUFFICES ASSUME NEW j \in onTime' \ withdrawn'
             PROVE  /\ j \in Jobs /\ homes'[j] # NoQueue
                    /\ executed'[j] = 1 \/ (j \in In(homes[j])' /\ ~ PastFinish(homes[j])')
  BY DEF OnTimeInv
<1>1. /\ j \in Jobs /\ homes[j] # NoQueue /\ homes[j] \in Queues
      /\ executed[j] = 1 \/ (j \in In(homes[j]) /\ ~ PastFinish(homes[j]))
  BY DEF JobInv, OnTimeInv, JobTyped
<1>2. PICK p \in Queues : homes[j] = p /\ homes'[j] = p
  BY <1>1
<1>3. PastFinish(p)' <=> PastFinish(p)
  BY DEF PastFinish
<1>4. CASE executed[j] = 1
  BY <1>1, <1>2, <1>4
<1>5. CASE j \in In(p) /\ ~ PastFinish(p)
  <2>1. j \in In(p)' \/ executed'[j] = 1
    BY <1>2, <1>5
  <2>2. QED
    BY <1>1, <1>2, <1>3, <1>5, <2>1
<1>6. QED
  BY <1>1, <1>2, <1>4, <1>5

(* The threads of a queue take its jobs and execute them.                  *)
LEMMA HandOutKeepsJobs ==
  ASSUME AppInv, JobInv, NEW q \in Queues, HandOut(q)
  PROVE  JobInv'
<1> USE DEF JobInv
<1> DEFINE h == Head(waiting[q])
<1>1. /\ state' = state /\ main' = main /\ app' = app /\ state[q] = "WorkingHard"
      /\ UNCHANGED <<stream, pointers, used, historyVars>> /\ UNCHANGED History
  BY DEF HandOut, appVars, clientVars, historyVars, History
<1>2. /\ Tail(waiting[q]) \in Seq(Jobs) /\ ToSet(Tail(waiting[q])) = ToSet(waiting[q]) \ {h}
      /\ Distinct(Tail(waiting[q])) /\ h \in ToSet(waiting[q]) /\ h \in Jobs
  BY TailList DEF HandOut, JobTyped, HomeInv
<1>3. /\ waiting' = [waiting EXCEPT ![q] = Tail(waiting[q])]
      /\ running' = [running EXCEPT ![q] = running[q] \cup {h}]
  BY DEF HandOut
<1> HIDE DEF h
<1>4. /\ waiting' \in [Queues -> Seq(Jobs)]
      /\ \A p \in Queues : p # q => waiting'[p] = waiting[p] /\ running'[p] = running[p]
      /\ ToSet(waiting'[q]) = ToSet(waiting[q]) \ {h} /\ Distinct(waiting'[q])
      /\ running'[q] = running[q] \cup {h}
  BY <1>2, <1>3 DEF JobTyped, AppInv, Typed
<1>5. \A p \in Queues : In(p)' = In(p)
  BY <1>2, <1>4 DEF In
<1>6. JobTyped'
  BY <1>1, <1>2, <1>4 DEF JobTyped, historyVars
<1>7. StreamedInv' /\ StreamInv'
  BY <1>1 DEF StreamedInv, StreamInv, Streamed, historyVars, Up, Exists
<1>8. HomeInv'
  <2>1. /\ \A p \in Queues : Distinct(waiting'[p]) /\ ToSet(waiting'[p]) \cap running'[p] = {}
        /\ \A p \in Queues : \A j \in In(p)' : homes'[j] = p
    BY <1>1, <1>2, <1>4, <1>5 DEF HomeInv, In, historyVars
  <2>2. QED
    BY <1>1, <2>1 DEF HomeInv, Streamed, historyVars
<1>9. SettledInv'
  <2>1. \A j \in settled : j # h
    BY <1>1, <1>2 DEF SettledInv, HomeInv, In, Over
  <2>2. \A j \in settled : homes[j] \in Queues
    BY DEF SettledInv, JobTyped
  <2>3. \A j \in settled : /\ j \notin running'[homes[j]]
                           /\ j \in ToSet(waiting'[homes[j]]) => j \in ToSet(waiting[homes[j]])
    BY <1>4, <2>1, <2>2 DEF SettledInv
  <2>4. QED
    BY <1>1, <2>3 DEF SettledInv, historyVars
<1>10. ExecutedInv'
  BY <1>1, <1>5 DEF ExecutedInv, historyVars, In
<1>11. OnTimeInv'
  BY <1>1, <1>5, OnTimeKept DEF historyVars
<1>12. DeletedExactlyOnce'
  <2>1. \A j \in Jobs : Held(j)' <=> Held(j)
    <3>1. \A p \in Queues : ToSet(waiting'[p]) \cup running'[p] = ToSet(waiting[p]) \cup running[p]
      BY <1>5 DEF In
    <3>2. QED
      BY <1>1, <3>1 DEF Held
  <2>2. QED
    BY <1>1, <2>1 DEF DeletedExactlyOnce, historyVars
<1>13. QED
  BY <1>6, <1>7, <1>8, <1>9, <1>10, <1>11, <1>12

LEMMA ExecuteKeepsJobs ==
  ASSUME AppInv, JobInv, NEW q \in Queues, NEW x \in Jobs, Execute(q, x)
  PROVE  JobInv'
<1> USE DEF JobInv
<1>1. /\ state' = state /\ main' = main /\ app' = app /\ x \in running[q] /\ Delete
      /\ UNCHANGED <<waiting, stream, pointers, used, homes, enqueued>> /\ UNCHANGED History
  BY DEF Execute, appVars, clientVars, History
<1>2. /\ executed' = [executed EXCEPT ![x] = executed[x] + 1]
      /\ running' = [running EXCEPT ![q] = running[q] \ {x}]
  BY DEF Execute
<1>3. /\ \A p \in Queues : p # q => running'[p] = running[p]
      /\ running'[q] = running[q] \ {x}
      /\ executed' \in [Jobs -> Nat]
      /\ \A j \in Jobs : j # x => executed'[j] = executed[j]
  BY <1>2 DEF JobTyped, AppInv, Typed
<1>4. executed[x] = 0 /\ executed'[x] = 1 /\ homes[x] = q /\ x \notin ToSet(waiting[q])
  BY <1>1, <1>2 DEF ExecutedInv, HomeInv, In, JobTyped
<1>5. homes[x] # NoQueue
  BY <1>4, ApplicationAssumption
<1>6. StreamedInv' /\ StreamInv'
  BY <1>1 DEF StreamedInv, StreamInv, Streamed, Up, Exists
<1>7. HomeInv'
  <2>1. /\ \A p \in Queues : Distinct(waiting'[p]) /\ ToSet(waiting'[p]) \cap running'[p] = {}
        /\ \A p \in Queues : \A j \in ToSet(waiting'[p]) \cup running'[p] : homes'[j] = p
    BY <1>1, <1>3 DEF HomeInv, In
  <2>2. QED
    BY <1>1, <2>1 DEF HomeInv, Streamed, In
<1>8. SettledInv'
  <2>1. \A j \in settled : homes[j] \in Queues
    BY DEF SettledInv, JobTyped
  <2>2. \A j \in settled : j \notin running'[homes[j]]
    BY <1>3, <2>1 DEF SettledInv
  <2>3. QED
    BY <1>1, <2>2 DEF SettledInv, History
<1>9. ExecutedInv'
  <2>1. \A j \in Jobs : homes'[j] = NoQueue => executed'[j] = 0
    BY <1>1, <1>3, <1>5 DEF ExecutedInv
  <2>2. \A p \in Queues : \A j \in ToSet(waiting'[p]) \cup running'[p] : j # x /\ j \in Jobs
    <3>1. \A p \in Queues : \A j \in ToSet(waiting'[p]) \cup running'[p] :
            j \in ToSet(waiting[p]) \cup running[p] /\ j \in Jobs
      BY <1>1, <1>3, EmptyList DEF JobTyped
    <3>2. \A p \in Queues : x \notin ToSet(waiting'[p]) \cup running'[p]
      BY <1>1, <1>3, <1>4 DEF HomeInv, In
    <3>3. QED
      BY <3>1, <3>2
  <2>3. \A p \in Queues : \A j \in ToSet(waiting'[p]) \cup running'[p] : executed'[j] = 0
    BY <1>1, <1>3, <2>2 DEF ExecutedInv, In
  <2>4. QED
    BY <2>1, <2>3 DEF ExecutedInv, In
<1>10. OnTimeInv'
  <2>1. \A j \in onTime' \ withdrawn' :
          /\ j \in onTime \ withdrawn /\ homes'[j] = homes[j]
          /\ executed[j] = 1 => executed'[j] = 1
    BY <1>1, <1>3, <1>4 DEF OnTimeInv, History
  <2>2. \A j \in onTime' \ withdrawn' : \A p \in Queues :
          homes[j] = p /\ j \in In(p) => j \in In(p)' \/ executed'[j] = 1
    BY <1>1, <1>3, <1>4 DEF In
  <2>3. QED
    BY <1>1, <2>1, <2>2, OnTimeKept
<1>11. deletions' \in [Jobs -> Nat] /\ DeletedExactlyOnce'
  <2>1. \A j \in Jobs : Held(j)' => Held(j)
    BY <1>1, <1>3 DEF Held
  <2>2. QED
    BY <1>1, <2>1, DeletedByOne DEF JobTyped
<1>12. JobTyped'
  BY <1>1, <1>3, <1>11 DEF JobTyped
<1>13. QED
  BY <1>6, <1>7, <1>8, <1>9, <1>10, <1>11, <1>12

(* Calls that take jobs from the queue, and pointers that are dropped.     *)
LEMMA DequeueKeepsJobs ==
  ASSUME AppInv, JobInv, NEW u \in Users, NEW q \in Queues, DequeueAll(u, q)
  PROVE  JobInv'
<1> USE DEF JobInv
<1>1. /\ state' = state /\ main' = main /\ app' = app /\ Delete
      /\ waiting' = [waiting EXCEPT ![q] = <<>>] /\ withdrawn' = withdrawn \cup ToSet(waiting[q])
      /\ UNCHANGED <<running, stream, pointers, used, homes, enqueued, executed, onTime, settled>>
  BY DEF DequeueAll, appVars, clientVars
<1>2. /\ JobTyped' /\ StreamedInv' /\ HomeInv' /\ ExecutedInv' /\ DeletedExactlyOnce'
      /\ \A p \in Queues : /\ ToSet(waiting'[p]) \subseteq ToSet(waiting[p])
                           /\ p # q => waiting'[p] = waiting[p]
  BY <1>1, EmptiedKeepsPlaces
<1>3. StreamInv'
  BY <1>1 DEF StreamInv, Up, Exists
<1>4. SettledInv'
  BY <1>1, <1>2 DEF SettledInv, JobTyped
<1>5. OnTimeInv'
  <2>1. \A j \in onTime' \ withdrawn' : \A p \in Queues :
          homes[j] = p /\ j \in In(p) => j \in In(p)'
    BY <1>1, <1>2 DEF In
  <2>2. QED
    BY <1>1, <2>1, OnTimeKept
<1>6. QED
  BY <1>2, <1>3, <1>4, <1>5

LEMMA DropKeepsJobs ==
  ASSUME AppInv, JobInv, NEW x \in Jobs, DropPointer(x)
  PROVE  JobInv'
<1> USE DEF JobInv
<1>1. /\ state' = state /\ main' = main /\ app' = app /\ Delete /\ pointers' = pointers \ {x}
      /\ x \in pointers /\ KindOf[x] = "raw" => x \in settled
      /\ UNCHANGED <<waiting, running, stream, used, homes, enqueued, executed>>
      /\ UNCHANGED History
  BY DEF DropPointer, appVars, queueVars, History
<1>2. StreamedInv' /\ HomeInv' /\ ExecutedInv' /\ StreamInv'
  BY <1>1 DEF StreamedInv, HomeInv, ExecutedInv, StreamInv, Streamed, In, Up, Exists
<1>3. SettledInv'
  BY <1>1 DEF SettledInv, History
<1>4. OnTimeInv'
  BY <1>1, OnTimeKept DEF History, In
<1>5. deletions' \in [Jobs -> Nat] /\ DeletedExactlyOnce'
  <2>1. \A j \in Jobs : Held(j)' => Held(j)
    BY <1>1 DEF Held
  <2>2. QED
    BY <1>1, <2>1, DeletedByOne DEF JobTyped
<1>6. JobTyped'
  BY <1>1, <1>5 DEF JobTyped
<1>7. QED
  BY <1>2, <1>3, <1>4, <1>5, <1>6

(* finish() has waited for the queue to be idle, or the queue is over.     *)
LEMMA FinishKeepsJobs ==
  ASSUME AppInv, JobInv, NEW u \in Users, NEW q \in Queues, Finish(u, q)
  PROVE  JobInv'
<1> USE DEF JobInv
<1>1. /\ state' = state /\ main' = main /\ app' = app
      /\ settled' = settled \cup {j \in Jobs : homes[j] = q}
      /\ UNCHANGED Whereabouts /\ UNCHANGED <<deletions, onTime, withdrawn>>
  BY DEF Finish, appVars, queueVars, clientVars, Whereabouts
<1>2. /\ JobTyped' /\ StreamedInv' /\ HomeInv' /\ ExecutedInv' /\ DeletedExactlyOnce'
  BY <1>1, PlacesKept
<1>3. StreamInv'
  BY <1>1 DEF StreamInv, Up, Exists, Whereabouts
<1>4. SettledInv'
  <2>1. running[q] = {} /\ (ToSet(waiting[q]) # {} => state[q] \in Over)
    <3>1. CASE IsIdle(q)
      BY <3>1, IdleIsEmpty DEF AppInv, In
    <3>2. CASE Ignores(state[q])
      BY <3>2, Quiet DEF AppInv, Typed, QuietWhenDestructed, Ignores, Over
    <3>3. QED
      BY <3>1, <3>2 DEF Finish, FinishReturns
  <2>2. q # NoQueue
    BY ApplicationAssumption
  <2>3. QED
    BY <1>1, <2>1, <2>2 DEF SettledInv, Whereabouts
<1>5. OnTimeInv'
  BY <1>1, OnTimeKept DEF Whereabouts, In
<1>6. QED
  BY <1>2, <1>3, <1>4, <1>5

(* Jobs that are in no queue are enqueued in one that exists, and taken    *)
(* out of the stream they were in.                                         *)
LEMMA EnqueueAllKeepsJobs ==
  ASSUME AppInv, JobInv, NEW q \in Queues, Exists(q), NEW js \in Seq(Jobs), Distinct(js),
         EnqueueAll(q, js), Delete, main' = main, app' = app,
         \A j \in ToSet(js) : homes[j] = NoQueue,
         stream' \in [Users -> [on : Queues \cup {NoQueue}, jobs : Seq(Jobs)]],
         \A u \in Users : /\ Distinct(stream'[u].jobs)
                          /\ ToSet(stream'[u].jobs) = ToSet(stream[u].jobs) \ ToSet(js)
                          /\ stream'[u] # NoStream =>
                               stream[u] # NoStream /\ stream'[u].on = stream[u].on,
         used' = used \cup ToSet(js), pointers \subseteq pointers', pointers' \subseteq used',
         pointers' \cap used \subseteq pointers,
         \A j \in used' \ used : KindOf[j] = "raw" => j \in pointers'
  PROVE  JobInv'
<1> USE DEF JobInv
<1> DEFINE ws == waiting[q] \o js
<1>1. q # NoQueue /\ ToSet(js) \subseteq Jobs
  BY ApplicationAssumption, EmptyList
<1>2. /\ ws \in Seq(Jobs) /\ ToSet(ws) = ToSet(waiting[q]) \cup ToSet(js) /\ Distinct(ws)
  <2>1. ToSet(waiting[q]) \cap ToSet(js) = {}
    BY <1>1 DEF HomeInv, In
  <2>2. QED
    BY <2>1, ConcatList DEF JobTyped, HomeInv
<1>3. waiting' = IF Forwards(state[q]) THEN [waiting EXCEPT ![q] = ws] ELSE waiting
  BY DEF EnqueueAll
<1> HIDE DEF ws
<1>4. /\ waiting' \in [Queues -> Seq(Jobs)]
      /\ \A p \in Queues : p # q => waiting'[p] = waiting[p]
      /\ Distinct(waiting'[q]) /\ ToSet(waiting[q]) \subseteq ToSet(waiting'[q])
      /\ ToSet(waiting'[q]) \subseteq ToSet(waiting[q]) \cup ToSet(js)
      /\ Forwards(state[q]) => ToSet(waiting'[q]) = ToSet(waiting[q]) \cup ToSet(js)
  BY <1>2, <1>3 DEF JobTyped, HomeInv
<1>5. /\ homes' \in [Jobs -> Queues \cup {NoQueue}]
      /\ \A j \in Jobs : homes'[j] = IF j \in ToSet(js) THEN q ELSE homes[j]
  BY DEF EnqueueAll, JobTyped
<1>6. /\ enqueued' \in [Jobs -> Nat]
      /\ \A j \in Jobs : enqueued'[j] = enqueued[j] + (IF j \in ToSet(js) THEN 1 ELSE 0)
  <2>1. enqueued' = [j \in Jobs |-> enqueued[j] + (IF j \in ToSet(js) THEN 1 ELSE 0)]
    BY CountInList DEF EnqueueAll
  <2>2. QED
    BY <2>1 DEF JobTyped
<1>7. /\ UNCHANGED <<state, running, executed, withdrawn, settled>>
      /\ onTime' = IF Forwards(state[q]) /\ main.on # q THEN onTime \cup ToSet(js) ELSE onTime
  BY DEF EnqueueAll
<1>8. StreamedInv'
  <2>1. /\ \A u \in Users : Distinct(stream'[u].jobs)
        /\ \A u \in Users : \A j \in ToSet(stream'[u].jobs) : j \in Jobs /\ j \notin ToSet(js)
    BY EmptyList
  <2>2. \A u \in Users : \A j \in ToSet(stream'[u].jobs) : j \in used' /\ homes'[j] = NoQueue
    BY <1>5, <2>1 DEF StreamedInv, Streamed
  <2>3. \A u, v \in Users : ToSet(stream'[u].jobs) \cap ToSet(stream'[v].jobs) # {} => u = v
    BY DEF StreamedInv, Streamed
  <2>4. QED
    BY <2>1, <2>2, <2>3 DEF StreamedInv, Streamed
<1>9. HomeInv'
  <2>1. \A p \in Queues : Distinct(waiting'[p]) /\ ToSet(waiting'[p]) \cap running'[p] = {}
    <3>1. ToSet(js) \cap running[q] = {}
      BY <1>1 DEF HomeInv, In
    <3>2. \A p \in Queues : Distinct(waiting[p]) /\ ToSet(waiting[p]) \cap running[p] = {}
      BY DEF HomeInv
    <3>3. Distinct(waiting'[q]) /\ ToSet(waiting'[q]) \cap running[q] = {}
      BY <1>4, <3>1, <3>2
    <3>4. QED
      BY <1>4, <1>7, <3>2, <3>3
  <2>2. \A p \in Queues : \A j \in ToSet(waiting'[p]) \cup running'[p] : homes'[j] = p
    <3> SUFFICES ASSUME NEW p \in Queues, NEW j \in ToSet(waiting'[p]) \cup running'[p]
                 PROVE  homes'[j] = p
      OBVIOUS
    <3>1. CASE j \in ToSet(waiting[p]) \cup running[p]
      <4>1. homes[j] = p /\ j \in Jobs
        BY <3>1, EmptyList DEF HomeInv, In, JobTyped
      <4>2. j \notin ToSet(js)
        BY <4>1, ApplicationAssumption
      <4>3. QED
        BY <1>5, <4>1, <4>2
    <3>2. CASE j \notin ToSet(waiting[p]) \cup running[p]
      BY <1>1, <1>4, <1>5, <1>7, <3>2
    <3>3. QED
      BY <3>1, <3>2
  <2>3. \A j \in Jobs : /\ homes'[j] # NoQueue => j \in used'
                        /\ enqueued'[j] = IF homes'[j] = NoQueue THEN 0 ELSE 1
    BY <1>1, <1>5, <1>6 DEF HomeInv
  <2>4. \A j \in used' : homes'[j] = NoQueue => \E u \in Users : j \in ToSet(stream'[u].jobs)
    BY <1>1, <1>5 DEF HomeInv, Streamed, JobTyped
  <2>5. QED
    BY <2>1, <2>2, <2>3, <2>4 DEF HomeInv, In, Streamed
<1>10. StreamInv'
  BY <1>7 DEF StreamInv, Up, Exists
<1>11. SettledInv'
  <2>1. \A j \in settled : j \in Jobs /\ j \notin ToSet(js) /\ homes'[j] = homes[j]
    BY <1>5 DEF SettledInv
  <2>2. \A j \in settled : homes[j] \in Queues /\
          (j \in ToSet(waiting'[homes[j]]) => j \in ToSet(waiting[homes[j]]))
    BY <1>4, <2>1, ZenonT(60) DEF SettledInv, JobTyped
  <2>3. \A j \in settled :
          /\ j \in Jobs /\ homes'[j] # NoQueue /\ j \notin running'[homes'[j]]
          /\ j \in ToSet(waiting'[homes'[j]]) => state'[homes'[j]] \in Over
    BY <1>7, <2>1, <2>2 DEF SettledInv
  <2>4. \A j \in used' \ pointers' : KindOf[j] = "raw" => j \in settled
    BY DEF SettledInv
  <2>5. QED
    BY <1>7, <2>3, <2>4 DEF SettledInv
<1>12. ExecutedInv'
  <2>1. \A j \in ToSet(js) : executed[j] = 0
    BY <1>1 DEF ExecutedInv
  <2>2. QED
    BY <1>1, <1>4, <1>5, <1>7, <2>1 DEF ExecutedInv, In
<1>13. OnTimeInv'
  <2> SUFFICES ASSUME NEW j \in onTime' \ withdrawn'
               PROVE  /\ j \in Jobs /\ homes'[j] # NoQueue
                      /\ executed'[j] = 1 \/ (j \in In(homes[j])' /\ ~ PastFinish(homes[j])')
    BY DEF OnTimeInv
  <2>1. \A p \in Queues : In(p) \subseteq In(p)' /\ (PastFinish(p)' <=> PastFinish(p))
    BY <1>4, <1>7 DEF In, PastFinish
  <2>2. CASE j \in ToSet(js)
    <3>1. homes'[j] = q /\ j \in Jobs
      BY <1>1, <1>5, <2>2
    <3>2. Forwards(state[q]) /\ main.on # q
      BY <1>1, <1>7, <2>2 DEF OnTimeInv
    <3>3. j \in In(q)'
      BY <1>4, <2>2, <3>2 DEF In
    <3>4. ~ PastFinish(q)
      BY <3>2 DEF PastFinish, Over, Forwards, Ignores, Exists
    <3>5. QED
      BY <1>1, <2>1, <3>1, <3>3, <3>4
  <2>3. CASE j \notin ToSet(js)
    <3>1. /\ j \in Jobs /\ homes[j] # NoQueue /\ homes[j] \in Queues
          /\ executed[j] = 1 \/ (j \in In(homes[j]) /\ ~ PastFinish(homes[j]))
      BY <1>7, <2>3 DEF OnTimeInv, JobTyped
    <3>2. PICK p \in Queues : homes[j] = p /\ homes'[j] = p
      BY <1>5, <2>3, <3>1
    <3>3. CASE executed[j] = 1
      BY <1>7, <3>1, <3>2, <3>3
    <3>4. CASE j \in In(p) /\ ~ PastFinish(p)
      BY <2>1, <3>1, <3>2, <3>4
    <3>5. QED
      BY <3>1, <3>2, <3>3, <3>4
  <2>4. QED
    BY <2>2, <2>3
<1>14. deletions' \in [Jobs -> Nat] /\ DeletedExactlyOnce'
  <2>1. ASSUME NEW j \in Jobs, Held(j)', j \in used PROVE Held(j)
    <3>1. CASE j \in pointers'
      BY <2>1, <3>1 DEF Held
    <3>2. CASE \E u \in Users : j \in ToSet(stream'[u].jobs)
      BY <3>2 DEF Held
    <3>3. CASE j \in ToSet(js)
      BY <2>1, <3>3 DEF HomeInv, Streamed, Held
    <3>4. CASE j \notin ToSet(js) /\ \E p \in Queues : j \in ToSet(waiting'[p]) \cup running'[p]
      BY <1>4, <1>7, <3>4 DEF Held
    <3>5. QED
      BY <2>1, <3>1, <3>2, <3>3, <3>4 DEF Held
  <2>2. used' \subseteq Jobs
    BY <1>1 DEF JobTyped
  <2>3. QED
    BY <2>1, <2>2, DeletedByOne
<1>15. JobTyped'
  BY <1>1, <1>4, <1>5, <1>6, <1>7, <1>14 DEF JobTyped
<1>16. QED
  BY <1>8, <1>9, <1>10, <1>11, <1>12, <1>13, <1>14, <1>15

(* enqueue(), and flush() and the end of a stream, which enqueue the jobs  *)
(* of the stream.                                                          *)
LEMMA EnqueueKeepsJobs ==
  ASSUME AppInv, JobInv, NEW u \in Users, NEW q \in Queues, NEW x \in Jobs, Enqueue(u, q, x)
  PROVE  JobInv'
<1> USE DEF JobInv
<1> DEFINE js == <<x>>
<1>1. js \in Seq(Jobs) /\ ToSet(js) = {x} /\ Distinct(js)
  BY SingleList
<1>2. /\ EnqueueAll(q, js) /\ Delete /\ Exists(q) /\ main' = main /\ app' = app
      /\ x \notin used /\ used' = used \cup {x} /\ pointers' = pointers \cup Kept({x})
      /\ stream' = stream
  BY DEF Enqueue, Has, appVars
<1> HIDE DEF js
<1>3. \A j \in ToSet(js) : homes[j] = NoQueue
  BY <1>1, <1>2 DEF HomeInv
<1>4. \A v \in Users : /\ Distinct(stream[v].jobs)
                       /\ ToSet(stream[v].jobs) = ToSet(stream[v].jobs) \ ToSet(js)
  BY <1>1, <1>2 DEF StreamedInv, Streamed
<1>5. /\ pointers \subseteq pointers' /\ pointers' \subseteq used'
      /\ pointers' \cap used \subseteq pointers
      /\ \A j \in used' \ used : KindOf[j] = "raw" => j \in pointers'
  BY <1>2 DEF Kept, JobTyped
<1>6. stream' \in [Users -> [on : Queues \cup {NoQueue}, jobs : Seq(Jobs)]]
  BY <1>2 DEF JobTyped
<1>7. \A v \in Users : /\ Distinct(stream'[v].jobs)
                       /\ ToSet(stream'[v].jobs) = ToSet(stream[v].jobs) \ ToSet(js)
                       /\ stream'[v] # NoStream =>
                            stream[v] # NoStream /\ stream'[v].on = stream[v].on
  BY <1>2, <1>4
<1>8. used' = used \cup ToSet(js)
  BY <1>1, <1>2
<1>9. QED
  BY <1>1, <1>2, <1>3, <1>5, <1>6, <1>7, <1>8, EnqueueAllKeepsJobs

LEMMA FlushKeepsJobs ==
  ASSUME AppInv, JobInv, NEW u \in Users, Flush(u) \/ CloseStream(u)
  PROVE  JobInv'
<1> USE DEF JobInv
<1> DEFINE q == stream[u].on
           js == stream[u].jobs
<1>1. /\ q \in Queues /\ Exists(q) /\ js \in Seq(Jobs) /\ Distinct(js)
  BY DEF Flush, CloseStream, StreamInv, StreamedInv, JobTyped
<1>2. /\ EnqueueAll(q, js) /\ Delete /\ main' = main /\ app' = app
      /\ used' = used /\ pointers' = pointers
  BY DEF Flush, CloseStream, FlushesJobs, appVars
<1>3. /\ stream' \in [Users -> [on : Queues \cup {NoQueue}, jobs : Seq(Jobs)]]
      /\ stream'[u].jobs = <<>> /\ \A v \in Users : v # u => stream'[v] = stream[v]
      /\ stream'[u] # NoStream => stream[u] # NoStream /\ stream'[u].on = stream[u].on
  <2>1. CASE Flush(u)
    <3>1. stream' = [stream EXCEPT ![u] = [stream[u] EXCEPT !.jobs = <<>>]] /\ stream[u] # NoStream
      BY <2>1 DEF Flush, Flushed
    <3>2. QED
      BY <3>1, EmptyList DEF JobTyped
  <2>2. CASE CloseStream(u)
    <3>1. stream' = [stream EXCEPT ![u] = NoStream]
      BY <2>2 DEF CloseStream
    <3>2. NoStream \in [on : Queues \cup {NoQueue}, jobs : Seq(Jobs)] /\ NoStream.jobs = <<>>
      BY EmptyList DEF NoStream
    <3>3. QED
      BY <3>1, <3>2 DEF JobTyped
  <2>3. QED
    BY <2>1, <2>2
<1>4. \A j \in ToSet(js) : homes[j] = NoQueue /\ j \in used
  BY DEF StreamedInv, Streamed
<1>5. \A v \in Users : /\ Distinct(stream'[v].jobs)
                       /\ ToSet(stream'[v].jobs) = ToSet(stream[v].jobs) \ ToSet(js)
                       /\ stream'[v] # NoStream =>
                            stream[v] # NoStream /\ stream'[v].on = stream[v].on
  <2> TAKE v \in Users
  <2>1. CASE v = u
    BY <1>3, <2>1, EmptyList
  <2>2. CASE v # u
    <3>1. Distinct(stream[v].jobs) /\ ToSet(stream[v].jobs) \cap ToSet(stream[u].jobs) = {}
      BY <2>2 DEF StreamedInv, Streamed
    <3>2. QED
      BY <1>3, <2>2, <3>1
  <2>3. QED
    BY <2>1, <2>2
<1> HIDE DEF q, js
<1>6. /\ used' = used \cup ToSet(js) /\ pointers \subseteq pointers' /\ pointers' \subseteq used'
      /\ pointers' \cap used \subseteq pointers
      /\ \A j \in used' \ used : KindOf[j] = "raw" => j \in pointers'
  BY <1>2, <1>4 DEF JobTyped
<1>7. QED
  BY <1>1, <1>2, <1>3, <1>4, <1>5, <1>6, EnqueueAllKeepsJobs

(* A stream is made, with no jobs, and gets one after the other.           *)
LEMMA StreamKeepsJobs ==
  ASSUME AppInv, JobInv, NEW u \in Users,
         \/ \E q \in Queues : NewStream(u, q)
         \/ \E x \in Jobs : Add(u, x)
  PROVE  JobInv'
<1> USE DEF JobInv
<1>1. /\ state' = state /\ main' = main /\ app' = app
      /\ UNCHANGED <<waiting, running, homes, enqueued, executed>>
      /\ UNCHANGED <<onTime, withdrawn, settled, deletions>>
  BY DEF NewStream, Add, appVars, queueVars, historyVars
<1>2. OnTimeInv' /\ ExecutedInv'
  <2>1. OnTimeInv'
    BY <1>1, OnTimeKept DEF In
  <2>2. QED
    BY <1>1, <2>1 DEF ExecutedInv, In
<1>3. ASSUME NEW q \in Queues, NewStream(u, q) PROVE JobInv'
  <2>1. /\ stream' = [stream EXCEPT ![u] = [on |-> q, jobs |-> <<>>]] /\ stream[u] = NoStream
        /\ used' = used /\ pointers' = pointers
        /\ Up /\ Exists(q) /\ ~ (main.on = q /\ main.deletes)
    BY <1>3 DEF NewStream, Has
  <2>2. /\ stream' \in [Users -> [on : Queues \cup {NoQueue}, jobs : Seq(Jobs)]]
        /\ stream'[u] = [on |-> q, jobs |-> <<>>] /\ stream'[u].on = q
        /\ \A v \in Users : /\ v # u => stream'[v] = stream[v]
                            /\ stream'[v].jobs = stream[v].jobs
    BY <2>1, EmptyList DEF JobTyped, NoStream
  <2>3. JobTyped' /\ StreamedInv' /\ HomeInv' /\ SettledInv'
    <3>1. JobTyped' /\ SettledInv'
      BY <1>1, <2>1, <2>2 DEF JobTyped, SettledInv
    <3>2. StreamedInv'
      BY <1>1, <2>1, <2>2, ZenonT(60) DEF StreamedInv, Streamed
    <3>3. HomeInv'
      BY <1>1, <2>1, <2>2 DEF HomeInv, Streamed, In
    <3>4. QED
      BY <3>1, <3>2, <3>3
  <2>4. StreamInv'
    <3>1. \A v \in Users : stream'[v] # NoStream =>
            /\ app \in {"running", "quitting"} /\ stream'[v].on \in Queues /\ Exists(stream'[v].on)
            /\ ~ (main.on = stream'[v].on /\ main.deletes)
      BY <2>1, <2>2 DEF StreamInv, Up
    <3>2. QED
      BY <1>1, <3>1 DEF StreamInv, Up, Exists
  <2>5. DeletedExactlyOnce'
    BY <1>1, <2>1, <2>2 DEF DeletedExactlyOnce, Held
  <2>6. QED
    BY <1>2, <2>3, <2>4, <2>5
<1>4. ASSUME NEW x \in Jobs, Add(u, x) PROVE JobInv'
  <2> DEFINE js == Append(stream[u].jobs, x)
  <2>1. /\ stream' = [stream EXCEPT ![u] = [stream[u] EXCEPT !.jobs = js]]
        /\ stream[u] # NoStream /\ x \notin used
        /\ used' = used \cup {x} /\ pointers' = pointers \cup Kept({x})
    BY <1>4 DEF Add
  <2>2. /\ x \notin ToSet(stream[u].jobs) /\ homes[x] = NoQueue
        /\ \A v \in Users : x \notin ToSet(stream[v].jobs)
    BY <2>1 DEF StreamedInv, HomeInv, Streamed
  <2>3. js \in Seq(Jobs) /\ ToSet(js) = ToSet(stream[u].jobs) \cup {x} /\ Distinct(js)
    BY <2>2, AppendList DEF JobTyped, StreamedInv
  <2> HIDE DEF js
  <2>4. /\ stream' \in [Users -> [on : Queues \cup {NoQueue}, jobs : Seq(Jobs)]]
        /\ stream'[u].jobs = js /\ stream'[u].on = stream[u].on
        /\ \A v \in Users : v # u => stream'[v] = stream[v]
    BY <2>1, <2>3 DEF JobTyped
  <2>5. /\ used' \subseteq Jobs /\ pointers' \subseteq used'
        /\ \A j \in used' \ pointers' : KindOf[j] = "raw" => j \in used \ pointers
    BY <2>1 DEF Kept, JobTyped
  <2>6. JobTyped'
    BY <1>1, <2>4, <2>5 DEF JobTyped
  <2>7. StreamedInv'
    <3>1. \A v \in Users :
            /\ Distinct(stream'[v].jobs)
            /\ ToSet(stream'[v].jobs) \subseteq ToSet(stream[v].jobs) \cup {x}
            /\ v # u => ToSet(stream'[v].jobs) = ToSet(stream[v].jobs)
      BY <2>3, <2>4 DEF StreamedInv
    <3>2. \A v \in Users : \A j \in ToSet(stream'[v].jobs) :
            j \in used \cup {x} /\ homes[j] = NoQueue
      BY <2>2, <3>1 DEF StreamedInv, Streamed
    <3>3. ASSUME NEW v \in Users, NEW w \in Users, NEW j,
                 j \in ToSet(stream'[v].jobs), j \in ToSet(stream'[w].jobs)
          PROVE  v = w
      <4>1. CASE j = x
        BY <2>2, <3>1, <3>3, <4>1
      <4>2. CASE j # x
        <5>1. j \in ToSet(stream[v].jobs) /\ j \in ToSet(stream[w].jobs)
          BY <3>1, <3>3, <4>2
        <5>2. QED
          BY <5>1 DEF StreamedInv, Streamed
      <4>3. QED
        BY <4>1, <4>2
    <3>4. QED
      BY <1>1, <2>1, <3>1, <3>2, <3>3 DEF StreamedInv, Streamed
  <2>8. HomeInv'
    <3>1. \A v \in Users : ToSet(stream[v].jobs) \subseteq ToSet(stream'[v].jobs)
      BY <2>3, <2>4
    <3>2. x \in ToSet(stream'[u].jobs)
      BY <2>3, <2>4
    <3>3. QED
      BY <1>1, <2>1, <3>1, <3>2 DEF HomeInv, Streamed, In
  <2>9. SettledInv'
    BY <1>1, <2>5 DEF SettledInv
  <2>10. StreamInv'
    <3>1. \A v \in Users : stream'[v] # NoStream =>
            stream[v] # NoStream /\ stream'[v].on = stream[v].on
      BY <2>1, <2>4
    <3>2. QED
      BY <1>1, <3>1 DEF StreamInv, Up, Exists
  <2>11. DeletedExactlyOnce'
    <3>1. \A v \in Users : v # u => stream'[v].jobs = stream[v].jobs
      BY <2>4
    <3>2. \A j \in Jobs : j # x => (Held(j)' <=> Held(j))
      BY <1>1, <2>1, <2>3, <2>4, <3>1 DEF Held, Kept
    <3>3. Held(x)'
      BY <2>3, <2>4 DEF Held
    <3>4. deletions[x] = 0
      BY <2>1 DEF DeletedExactlyOnce
    <3>5. QED
      BY <1>1, <2>1, <3>2, <3>3, <3>4 DEF DeletedExactlyOnce
  <2>12. QED
    BY <1>2, <2>6, <2>7, <2>8, <2>9, <2>10, <2>11
<1>5. QED
  BY <1>3, <1>4

LEMMA JobInvStep == AppInv /\ JobInv /\ [Next]_vars => JobInv'
<1> SUFFICES ASSUME AppInv, JobInv, [Next]_vars PROVE JobInv'
  OBVIOUS
<1>1. CASE UserStep
  <2>1. ASSUME NEW u \in Users, NEW q \in Queues,
               \/ \E j \in Jobs : Enqueue(u, q, j)
               \/ NewStream(u, q) \/ DequeueAll(u, q) \/ Finish(u, q)
               \/ Suspend(u, q) \/ Resume(u, q)
        PROVE  JobInv'
    BY <2>1, EnqueueKeepsJobs, StreamKeepsJobs, DequeueKeepsJobs, FinishKeepsJobs, StatesKeepJobs
  <2>2. ASSUME NEW u \in Users, (\E j \in Jobs : Add(u, j)) \/ Flush(u) \/ CloseStream(u)
        PROVE  JobInv'
    BY <2>2, StreamKeepsJobs, FlushKeepsJobs
  <2>3. QED
    BY <1>1, <2>1, <2>2, DropKeepsJobs DEF UserStep
<1>2. CASE \E q \in Queues : QueueThreads(q)
  BY <1>2, HandOutKeepsJobs, ExecuteKeepsJobs, StatesKeepJobs DEF QueueThreads
<1>3. CASE MainStep \/ ShuttingDownStep
  BY <1>3, MainKeepsJobs, ShuttingDownKeepsJobs, DestructKeepsJobs DEF ShuttingDownStep
<1>4. CASE UNCHANGED vars
  <2>1. /\ UNCHANGED Whereabouts /\ UNCHANGED History
        /\ UNCHANGED <<deletions, state, main, app>>
    BY <1>4 DEF vars, appVars, queueVars, clientVars, historyVars, Whereabouts, History
  <2>2. JobTyped' /\ StreamedInv' /\ HomeInv' /\ ExecutedInv' /\ DeletedExactlyOnce'
    BY <2>1, PlacesKept
  <2>3. SettledInv' /\ OnTimeInv'
    BY <2>1, QueuesKept DEF PastFinish
  <2>4. StreamInv'
    BY <2>1 DEF JobInv, StreamInv, Up, Exists, Whereabouts
  <2>5. QED
    BY <2>2, <2>3, <2>4 DEF JobInv
<1>5. QED
  BY <1>1, <1>2, <1>3, <1>4 DEF Next

LEMMA JobsInvariant == Spec => [](AppInv /\ JobInv)
BY AppInvInit, AppInvStep, JobInvInit, JobInvStep, PTL DEF Spec

(* What was enqueued before the shutDown() of its queue began, by hand or  *)
(* by a stream, and was not taken back, has been executed once when the    *)
(* queue is Destructed (queue.cpp:63).                                     *)
THEOREM ShutDownCompletes == Spec => []CompletedByShutDown
<1>1. JobInv => CompletedByShutDown
  <2> SUFFICES ASSUME JobInv, NEW j \in onTime \ withdrawn, homes[j] # NoQueue,
                      state[homes[j]] \in {"Destructed", "deleted"}
               PROVE  executed[j] = 1
    BY DEF CompletedByShutDown
  <2>1. PastFinish(homes[j])
    BY DEF PastFinish, Over
  <2>2. QED
    BY <2>1 DEF JobInv, OnTimeInv
<1>2. QED
  BY <1>1, JobsInvariant, PTL

(* A streamed job is in one stream or has been enqueued once, whoever      *)
(* flushes it and however the stream ends (queuestream.cpp:36).            *)
THEOREM StreamsDeliver == Spec => []StreamDelivers
<1>1. JobInv => StreamDelivers
  <2> SUFFICES ASSUME JobInv, NEW j \in used
               PROVE  Cardinality({u \in Users : j \in Streamed(u)}) + enqueued[j] = 1
    BY DEF StreamDelivers, Streamed
  <2> USE DEF JobInv
  <2>1. j \in Jobs
    BY DEF JobTyped
  <2>2. CASE homes[j] = NoQueue
    <3>1. PICK u \in Users : j \in Streamed(u)
      BY <2>2 DEF HomeInv
    <3>2. {v \in Users : j \in Streamed(v)} = {u}
      BY <3>1 DEF StreamedInv
    <3>3. Cardinality({v \in Users : j \in Streamed(v)}) = 1
      BY <3>2, FS_Singleton
    <3>4. enqueued[j] = 0
      BY <2>1, <2>2 DEF HomeInv
    <3>5. QED
      BY <3>3, <3>4
  <2>3. CASE homes[j] # NoQueue
    <3>1. {v \in Users : j \in Streamed(v)} = {}
      BY <2>3 DEF StreamedInv
    <3>2. Cardinality({v \in Users : j \in Streamed(v)}) = 0
      BY <3>1, FS_EmptySet
    <3>3. enqueued[j] = 1
      BY <2>1, <2>3 DEF HomeInv
    <3>4. QED
      BY <3>2, <3>3
  <2>4. QED
    BY <2>2, <2>3
<1>2. QED
  BY <1>1, JobsInvariant, PTL

(* Every job is deleted once, at the moment when the last of its users,    *)
(* streams, queues and threads lets go of it (managedjobpointer.h,         *)
(* iddecorator.cpp).                                                       *)
THEOREM JobsAreDeletedOnce == Spec => []DeletedExactlyOnce
<1>1. JobInv => DeletedExactlyOnce
  BY DEF JobInv
<1>2. QED
  BY <1>1, JobsInvariant, PTL

(* No thread executes, and no queue that works holds, a job on the stack   *)
(* of a user who is past finish() (managedjobpointer.h:29).                *)
THEOREM NoJobDangles == Spec => []NoDanglingJob
<1>1. JobInv => NoDanglingJob
  <2> SUFFICES ASSUME JobInv, NEW q \in Queues, NEW j \in Jobs \ pointers, KindOf[j] = "raw"
               PROVE  /\ j \notin running[q]
                      /\ state[q] \in {"WorkingHard", "Suspending", "Suspended"} =>
                           j \notin ToSet(waiting[q])
    BY DEF NoDanglingJob
  <2> USE DEF JobInv
  <2>1. CASE j \notin used
    BY <2>1, ApplicationAssumption DEF HomeInv, In
  <2>2. CASE j \in used
    <3>1. j \in settled
      BY <2>2 DEF SettledInv
    <3>2. CASE homes[j] = q
      BY <3>1, <3>2 DEF SettledInv, Over
    <3>3. CASE homes[j] # q
      BY <3>3 DEF HomeInv, In
    <3>4. QED
      BY <3>2, <3>3
  <2>3. QED
    BY <2>1, <2>2
<1>2. QED
  BY <1>1, JobsInvariant, PTL

===============================================================================
