---------------------------- MODULE PoliciesProofs ----------------------------
(***************************************************************************)
(* Proofs about Policies, for any queues, threads, users and jobs, any     *)
(* restrictions and assignments of policies, and any clients.              *)
(***************************************************************************)
EXTENDS Policies, SequenceLemmas

-------------------------------------------------------------------------------
(* The invariant *)

Asking == {"asking", "releasing"}
Executing == {"begin", "running", "ending", "handling", "freeing", "leaving"}
Finished == {"Success", "Failed"}
Places == {"asleep", "applying", "reporting", "candidate", "ready", "adding", "finishing"}
            \cup Asking \cup Executing

With == Seq(Policy) \cup {op.on : op \in Operations}
Call == [at : Places, job : Jobs \cup {NoJob}, cursor : Nat, k : Nat, n : Nat, with : With]

Typed ==
  /\ queue \in [Queues -> Seq(Jobs)]
  /\ lock \in [Queues -> Actors \cup {Nobody}] /\ mutex \in [Jobs -> Actors \cup {Nobody}]
  /\ call \in [Actors -> Call]
  /\ status \in [Jobs -> {"New", "Queued", "Running"} \cup Finished]
  /\ policies \in [Jobs -> Seq(Policy)]
  /\ handlers \in [Jobs -> Nat]
  /\ customers \in [Restrictions -> SUBSET Jobs]
  /\ \A d \in dependencies : d[1] \in Jobs /\ d[2] \in Jobs

(* What actors do where, and with which job.                               *)
InPlace(a) ==
  /\ a \in Threads =>
       call[a].at \notin {"ready", "adding", "finishing"} /\ call[a].with \in Seq(Policy)
  /\ a \in Users => call[a].at \notin {"asleep", "applying", "reporting", "candidate"} \cup Asking
  /\ IF call[a].at \in Asking \cup Executing THEN call[a].job \in Jobs ELSE call[a].job = NoJob
  /\ call[a].at \in {"candidate", "asking", "releasing"} => call[a].cursor >= 1
  /\ call[a].at \in {"asking", "releasing", "freeing"} => call[a].k >= 1
  /\ call[a].at = "finishing" => call[a].with[1] \in Queues
  /\ call[a].at = "adding" =>
       \E op \in Operations : op.do = "addDependency" /\ call[a].with = op.on

PlaceInv == \A a \in Actors : InPlace(a)

Scans(a) == call[a].at \in {"candidate", "asking", "releasing"}
Locks(a, j) ==
  \/ call[a].at \in Asking /\ call[a].job = j
  \/ call[a].at = "adding" /\ call[a].with[1] = j

(* Who owns the mutexes of the queues and of the jobs.                     *)
LockInv ==
  /\ \A q \in Queues : \A a \in Actors : lock[q] = a <=> a \in Threads /\ QueueOf[a] = q /\ Scans(a)
  /\ \A j \in Jobs : \A a \in Actors : mutex[j] = a <=> Locks(a, j)

(* A job is in a queue, or executed by one actor, or neither.              *)
OneExecutes ==
  \A a, b \in Actors :
    call[a].at \in Executing /\ call[b].at \in Asking \cup Executing /\ call[a].job = call[b].job =>
      a = b

AskedIsQueued ==
  \A t \in Actors : call[t].at \in Asking =>
    call[t].cursor <= Len(queue[QueueOf[t]]) /\ Candidate(t) = call[t].job

QueuedInv ==
  \A q \in Queues : Distinct(queue[q]) /\
    \A j \in Jobs : Occurs(queue[q], j) => Home[j] = q /\ status[j] = "Queued" /\ ~ InFlight(j)

Ended == {"ending", "handling", "freeing", "leaving"}
StatusInv ==
  \A a \in Actors :
    /\ call[a].at = "begin" => status[call[a].job] \in {"New", "Queued"}
    /\ call[a].at = "running" => status[call[a].job] = "Running"
    /\ call[a].at \in Ended => status[call[a].job] \in Finished

ExecInv == OneExecutes /\ AskedIsQueued /\ QueuedInv /\ StatusInv

(* What is deleted is out of everybody's reach.                            *)
DeletedInv ==
  /\ \A q \in Queues : \A j \in deleted : ~ Occurs(queue[q], j)
  /\ \A a \in Actors : call[a].at \in Executing => call[a].job \notin deleted
  /\ \A a \in Actors : call[a].at = "adding" =>
       call[a].with[1] \notin deleted /\ call[a].with[2] \notin deleted

(* The policies that have agreed are the first of the list while the job's *)
(* mutex is held, and stay in the list until they are freed.               *)
Agreed(a) ==
  LET ps == policies[call[a].job] IN
  /\ call[a].at = "asking" =>
       /\ Len(call[a].with) = call[a].k - 1 /\ call[a].k - 1 <= Len(ps)
       /\ \A i \in DOMAIN call[a].with : call[a].with[i] = ps[i]
  /\ call[a].at = "releasing" => Distinct(call[a].with)
  /\ call[a].at \in Executing \ {"leaving"} =>
       \A p \in Policy : Occurs(call[a].with, p) => Occurs(ps, p)
  /\ call[a].at = "freeing" => call[a].k <= Len(ps) + 1

AgreedInv ==
  /\ \A j \in Jobs : Distinct(policies[j])
  /\ \A a \in Actors : Agreed(a)

SlotInv == \A r \in Restrictions, j \in Jobs :
  j \in customers[r] <=> \E t \in Threads : Has(t, r) /\ call[t].job = j

(* Entries with a dependee that has succeeded will be resolved when it     *)
(* frees its policies, or they came too late.                              *)
Resolves(a, j) ==
  /\ call[a].job = j
  /\ \/ call[a].at \in {"ending", "handling"}
     \/ call[a].at = "freeing" /\ DependencyPolicy \in Ahead(policies[j], call[a].k)

DependencyInv ==
  \A d \in dependencies :
    /\ Occurs(policies[d[1]], DependencyPolicy) /\ Occurs(policies[d[2]], DependencyPolicy)
    /\ status[d[2]] = "Success" =>
         d[2] \notin deleted /\ (<<d[1], d[2]>> \in late \/ \E a \in Actors : Resolves(a, d[2]))

(* Once the dependency policy has agreed to a job, it gets no dependency   *)
(* until its mutex is given back.                                          *)
AskedInv ==
  \A t \in Threads : call[t].at = "asking" /\ Occurs(call[t].with, DependencyPolicy) =>
    ~ HasUnresolvedDependencies(dependencies, call[t].job)

(* A job that has succeeded and called its handlers.                       *)
Done(j) ==
  /\ status[j] = "Success"
  /\ \A a \in Actors : call[a].job = j => call[a].at \in {"freeing", "leaving"}

(* What was declared at first is in the map until it is fulfilled.         *)
DeclaredInv ==
  \A d \in DependsOn \ removed :
    (\E e \in dependencies : e[1] = d[1] /\ e[2] = d[2]) \/ Done(d[2])

PolicyInv ==
  /\ Typed /\ PlaceInv /\ LockInv /\ ExecInv /\ DeletedInv /\ AgreedInv
  /\ SlotInv /\ DependencyInv /\ AskedInv /\ DeclaredInv

-------------------------------------------------------------------------------
(* Type correctness *)

LEMMA ActorsDiffer ==
  /\ \A t \in Threads : t \in Actors /\ t \notin Users
  /\ \A u \in Users : u \in Actors /\ u \notin Threads
BY SharingAssumption DEF Actors

(* A step of one actor leaves what the others do alone.                    *)
Moves(a, at, j, cursor, k, with) ==
  /\ call' \in [Actors -> Call]
  /\ call'[a].at = at /\ call'[a].job = j /\ call'[a].cursor = cursor
  /\ call'[a].k = k /\ call'[a].with = with
  /\ \A b \in Actors : b # a => call'[b] = call[b]

LEMMA Becomes ==
  ASSUME Typed, NEW a \in Actors, NEW c \in Call, Become(a, c)
  PROVE  Moves(a, c.at, c.job, c.cursor, c.k, c.with)
BY DEF Typed, Become, Moves

LEMMA Goes ==
  ASSUME Typed, NEW a \in Actors, NEW p \in Places, Goto(a, p)
  PROVE  Moves(a, p, call[a].job, call[a].cursor, 1, call[a].with)
<1> DEFINE c == [call[a] EXCEPT !.at = p, !.k = 1]
<1>1. /\ c \in Call /\ c.at = p /\ c.k = 1 /\ c.job = call[a].job
      /\ c.cursor = call[a].cursor /\ c.with = call[a].with
  BY DEF Typed, Call
<1>2. Become(a, c)
  BY DEF Goto
<1> HIDE DEF c
<1>3. QED
  BY <1>1, <1>2, Becomes

LEMMA AtCall ==
  ASSUME NEW p \in Places
  PROVE  /\ At(p) \in Call /\ At(p).at = p /\ At(p).job = NoJob
         /\ At(p).cursor = 0 /\ At(p).k = 1 /\ At(p).with = <<>>
<1>1. <<>> \in With
  BY DEF With
<1>2. QED
  BY <1>1 DEF At, Call

LEMMA ComesTo ==
  ASSUME Typed, NEW a \in Actors, NEW p \in Places, Become(a, At(p))
  PROVE  Moves(a, p, NoJob, 0, 1, <<>>)
BY AtCall, Becomes

(* Those who slept are woken, the others go on with what they did.         *)
Woken ==
  /\ call' \in [Actors -> Call]
  /\ \A a \in Actors : \/ call'[a] = call[a]
                       \/ /\ a \in Threads /\ call[a].at = "asleep"
                          /\ call'[a].at = "applying" /\ call'[a].job = NoJob
                          /\ call'[a].with = <<>>

LEMMA Wakes ==
  ASSUME Typed, NEW q, call' = WokenIn(q)
  PROVE  Woken
<1>1. At("applying") \in Call /\ At("applying").at = "applying" /\ At("applying").job = NoJob
      /\ At("applying").with = <<>>
  BY AtCall DEF Places
<1>2. QED
  BY <1>1 DEF Typed, WokenIn, Woken

LEMMA CallUpdate ==
  ASSUME NEW c \in Call, NEW w \in With
  PROVE  LET d == [c EXCEPT !.k = c.k + 1, !.with = w]
         IN  /\ d \in Call /\ d.at = c.at /\ d.job = c.job /\ d.cursor = c.cursor
             /\ d.k = c.k + 1 /\ d.with = w
<1> DEFINE d == [c EXCEPT !.k = c.k + 1, !.with = w]
<1>1. c.k + 1 \in Nat
  BY DEF Call
<1>2. d \in Call
  BY <1>1 DEF Call
<1>3. /\ d.at = c.at /\ d.job = c.job /\ d.cursor = c.cursor
      /\ d.k = c.k + 1 /\ d.with = w
  BY DEF Call
<1>4. QED
  BY <1>2, <1>3

(* Where the steps of a scan take a thread.                                *)
LEMMA ScanMoves ==
  ASSUME Typed, PlaceInv, NEW t \in Threads
  PROVE  /\ Apply(t) => Moves(t, "candidate", NoJob, 1, 1, <<>>)
         /\ LockCandidate(t) =>
              /\ Candidate(t) \in Jobs
              /\ Moves(t, "asking", Candidate(t), call[t].cursor, 1, <<>>)
         /\ Sleep(t) => Moves(t, "asleep", NoJob, 0, 1, <<>>)
         /\ Ask(t) =>
              /\ policies[call[t].job][call[t].k] \in Policy
              /\ IF Allows(policies[call[t].job][call[t].k], call[t].job)
                   THEN Moves(t, "asking", call[t].job, call[t].cursor, call[t].k + 1,
                              Append(call[t].with, policies[call[t].job][call[t].k]))
                   ELSE Moves(t, "releasing", call[t].job, call[t].cursor, 1, call[t].with)
         /\ HandOut(t) => Moves(t, "begin", call[t].job, call[t].cursor, 1, call[t].with)
         /\ GiveBack(t) =>
              IF call[t].k <= Len(call[t].with)
                THEN Moves(t, "releasing", call[t].job, call[t].cursor, call[t].k + 1, call[t].with)
                ELSE Moves(t, "candidate", NoJob, call[t].cursor + 1, 1, <<>>)
<1>0. t \in Actors /\ call[t] \in Call /\ <<>> \in With /\ call[t].with \in Seq(Policy)
  BY ActorsDiffer DEF Typed, With, PlaceInv, InPlace
<1>1. ASSUME Apply(t) PROVE Moves(t, "candidate", NoJob, 1, 1, <<>>)
  <2> DEFINE c == [At("candidate") EXCEPT !.cursor = 1]
  <2>1. /\ c \in Call /\ c.at = "candidate" /\ c.job = NoJob /\ c.cursor = 1
        /\ c.k = 1 /\ c.with = <<>>
    BY AtCall DEF Places, Call
  <2>2. Become(t, c)
    BY <1>1 DEF Apply
  <2> HIDE DEF c
  <2>3. QED
    BY <1>0, <2>1, <2>2, Becomes
<1>2. ASSUME LockCandidate(t)
      PROVE  /\ Candidate(t) \in Jobs
             /\ Moves(t, "asking", Candidate(t), call[t].cursor, 1, <<>>)
  <2> DEFINE c == [call[t] EXCEPT !.at = "asking", !.job = Candidate(t), !.k = 1, !.with = <<>>]
  <2>1. Candidate(t) \in Jobs
    BY <1>0, <1>2, SharingAssumption
    DEF LockCandidate, Candidate, Typed, PlaceInv, InPlace, Is, Call
  <2>2. /\ c \in Call /\ c.at = "asking" /\ c.job = Candidate(t) /\ c.cursor = call[t].cursor
        /\ c.k = 1 /\ c.with = <<>>
    BY <1>0, <2>1 DEF Places, Call, Asking
  <2>3. Become(t, c)
    BY <1>2 DEF LockCandidate
  <2> HIDE DEF c
  <2>4. QED
    BY <1>0, <2>1, <2>2, <2>3, Becomes
<1>3. ASSUME Sleep(t) PROVE Moves(t, "asleep", NoJob, 0, 1, <<>>)
  BY <1>0, <1>3, ComesTo DEF Sleep, Places
<1> DEFINE p == policies[call[t].job][call[t].k]
<1>4. ASSUME Ask(t)
      PROVE  /\ p \in Policy
             /\ IF Allows(p, call[t].job)
                  THEN Moves(t, "asking", call[t].job, call[t].cursor, call[t].k + 1,
                             Append(call[t].with, p))
                  ELSE Moves(t, "releasing", call[t].job, call[t].cursor, 1, call[t].with)
  <2>1. p \in Policy
    <3>1. call[t].job \in Jobs /\ call[t].k \in 1..Len(policies[call[t].job])
      BY <1>0, <1>4 DEF Ask, Is, PlaceInv, InPlace, Asking, Call, Typed
    <3>2. policies[call[t].job] \in Seq(Policy)
      BY <3>1 DEF Typed
    <3>3. QED
      BY <3>1, <3>2
  <2> HIDE DEF p
  <2>2. CASE Allows(p, call[t].job)
    <3> DEFINE w == Append(call[t].with, p)
               c == [call[t] EXCEPT !.k = @ + 1, !.with = w]
    <3>1. w \in With
      BY <1>0, <2>1 DEF With
    <3>2. call[t].at = "asking"
      BY <1>4 DEF Ask, Is
    <3>3. Become(t, c)
      BY <1>4, <2>2 DEF Ask, p
    <3> HIDE DEF w
    <3>4. /\ c \in Call /\ c.at = "asking" /\ c.job = call[t].job /\ c.cursor = call[t].cursor
          /\ c.k = call[t].k + 1 /\ c.with = w
      BY <1>0, <3>1, <3>2, CallUpdate
    <3> HIDE DEF c
    <3>5. Moves(t, "asking", call[t].job, call[t].cursor, call[t].k + 1, w)
      BY <1>0, <3>3, <3>4, Becomes
    <3>6. QED
      BY <2>1, <2>2, <3>5 DEF w
  <2>3. CASE ~ Allows(p, call[t].job)
    <3>1. Goto(t, "releasing")
      BY <1>4, <2>3 DEF Ask, p
    <3>2. QED
      BY <1>0, <2>1, <2>3, <3>1, Goes DEF Places, Asking
  <2>4. QED
    BY <2>2, <2>3
<1> HIDE DEF p
<1>5. ASSUME HandOut(t) PROVE Moves(t, "begin", call[t].job, call[t].cursor, 1, call[t].with)
  BY <1>0, <1>5, Goes DEF HandOut, Places, Executing
<1>6. ASSUME GiveBack(t)
      PROVE  IF call[t].k <= Len(call[t].with)
               THEN Moves(t, "releasing", call[t].job, call[t].cursor, call[t].k + 1, call[t].with)
               ELSE Moves(t, "candidate", NoJob, call[t].cursor + 1, 1, <<>>)
  <2>1. CASE call[t].k <= Len(call[t].with)
    <3> DEFINE c == [call[t] EXCEPT !.k = @ + 1]
    <3>1. /\ c \in Call /\ c.at = "releasing" /\ c.job = call[t].job /\ c.cursor = call[t].cursor
          /\ c.k = call[t].k + 1 /\ c.with = call[t].with
      BY <1>0, <1>6 DEF Call, GiveBack, Is
    <3>2. Become(t, c)
      BY <1>6, <2>1 DEF GiveBack
    <3> HIDE DEF c
    <3>3. QED
      BY <1>0, <2>1, <3>1, <3>2, Becomes
  <2>2. CASE ~ call[t].k <= Len(call[t].with)
    <3> DEFINE c == [At("candidate") EXCEPT !.cursor = call[t].cursor + 1]
    <3>1. /\ c \in Call /\ c.at = "candidate" /\ c.job = NoJob
          /\ c.cursor = call[t].cursor + 1 /\ c.k = 1 /\ c.with = <<>>
      BY <1>0, AtCall DEF Places, Call
    <3>2. Become(t, c)
      BY <1>6, <2>2 DEF GiveBack
    <3> HIDE DEF c
    <3>3. QED
      BY <1>0, <2>2, <3>1, <3>2, Becomes
  <2>3. QED
    BY <2>1, <2>2
<1>7. QED
  BY <1>1, <1>2, <1>3, <1>4, <1>5, <1>6 DEF p

(* Where the steps of an execution take an actor.                          *)
LEMMA ExecuteMoves ==
  ASSUME Typed, PlaceInv, NEW a \in Actors
  PROVE  /\ Begin(a) => Moves(a, "running", call[a].job, call[a].cursor, 1, call[a].with)
         /\ Run(a) => Moves(a, "ending", call[a].job, call[a].cursor, 1, call[a].with)
         /\ CopyHandlers(a) =>
              Moves(a, "handling", call[a].job, call[a].cursor, 1, call[a].with)
         /\ Handle(a) =>
              \/ Moves(a, "handling", call[a].job, call[a].cursor, call[a].k + 1, call[a].with)
              \/ Moves(a, "freeing", call[a].job, call[a].cursor, 1, call[a].with)
         /\ Free(a) =>
              Moves(a, "freeing", call[a].job, call[a].cursor, call[a].k + 1, call[a].with)
         /\ Freed(a) => Moves(a, "leaving", call[a].job, call[a].cursor, 1, call[a].with)
         /\ Leave(a) => Moves(a, IF a \in Threads THEN "reporting" ELSE "ready", NoJob, 0, 1, <<>>)
<1>0. call[a] \in Call
  BY DEF Typed
<1>1. Begin(a) => Moves(a, "running", call[a].job, call[a].cursor, 1, call[a].with)
  BY Goes DEF Begin, Places, Executing
<1>2. Run(a) => Moves(a, "ending", call[a].job, call[a].cursor, 1, call[a].with)
  BY Goes DEF Run, After, Places, Executing
<1>3. ASSUME CopyHandlers(a)
      PROVE  Moves(a, "handling", call[a].job, call[a].cursor, 1, call[a].with)
  <2> DEFINE h == handlers[call[a].job]
             c == [call[a] EXCEPT !.at = "handling", !.k = 1, !.n = h]
  <2>1. Become(a, c)
    BY <1>3 DEF CopyHandlers
  <2>2. /\ c.at = "handling" /\ c.k = 1 /\ c.job = call[a].job
        /\ c.cursor = call[a].cursor /\ c.with = call[a].with
    BY <1>0 DEF Call
  <2>3. c \in Call
    <3>1. h \in Nat
      BY <1>3 DEF CopyHandlers, Typed, PlaceInv, InPlace, Is, Executing
    <3> HIDE DEF h
    <3>2. QED
      BY <1>0, <3>1 DEF Call, Places, Executing
  <2> HIDE DEF c
  <2>4. QED
    BY <2>1, <2>2, <2>3, Becomes
<1> DEFINE d == [call[a] EXCEPT !.k = @ + 1]
<1>4. /\ d \in Call /\ d.at = call[a].at /\ d.job = call[a].job /\ d.cursor = call[a].cursor
      /\ d.k = call[a].k + 1 /\ d.with = call[a].with
  BY <1>0 DEF Call
<1>5. Handle(a) => (Become(a, d) /\ call[a].at = "handling") \/ Goto(a, "freeing")
  BY DEF Handle, After, Is
<1>6. Free(a) => Become(a, d) /\ call[a].at = "freeing"
  BY DEF Free, Is
<1> HIDE DEF d
<1>7. Handle(a) =>
        \/ Moves(a, "handling", call[a].job, call[a].cursor, call[a].k + 1, call[a].with)
        \/ Moves(a, "freeing", call[a].job, call[a].cursor, 1, call[a].with)
  BY <1>4, <1>5, Becomes, Goes DEF Places, Executing
<1>8. Free(a) => Moves(a, "freeing", call[a].job, call[a].cursor, call[a].k + 1, call[a].with)
  BY <1>4, <1>6, Becomes
<1>9. Freed(a) => Moves(a, "leaving", call[a].job, call[a].cursor, 1, call[a].with)
  BY Goes DEF Freed, After, Places, Executing
<1>10. Leave(a) => Moves(a, IF a \in Threads THEN "reporting" ELSE "ready", NoJob, 0, 1, <<>>)
  BY ComesTo DEF Leave, Places
<1>11. QED
  BY <1>1, <1>2, <1>3, <1>7, <1>8, <1>9, <1>10

(* Where the calls take a user, and those it wakes.                        *)
LEMMA CallMoves ==
  ASSUME Typed, PlaceInv, NEW u \in Users
  PROVE  /\ \A op \in Operations :
              /\ Enqueue(u, op) => Woken
              /\ BlockingExecute(u, op) =>
                   op.on[1] \in Jobs /\ Moves(u, "begin", op.on[1], 0, 1, <<>>)
              /\ AddDependency(u, op) => op.on[1] \in Jobs /\ op.on[2] \in Jobs /\
                   \E c, k \in Nat : Moves(u, "adding", NoJob, c, k, op.on)
              /\ Finish(u, op) => op.on[1] \in Queues /\
                   \E c, k \in Nat : Moves(u, "finishing", NoJob, c, k, op.on)
         /\ InsertDependency(u) => Moves(u, "ready", NoJob, 0, 1, <<>>)
         /\ FinishReturn(u) => Moves(u, "ready", NoJob, 0, 1, <<>>)
         /\ FinishTimeout(u) => Woken
<1>0. u \in Actors
  BY ActorsDiffer
<1>1. ASSUME NEW op \in Operations, MayCall(u, op, "addDependency") \/ MayCall(u, op, "finish"),
             NEW p \in {"adding", "finishing"}, Become(u, [At(p) EXCEPT !.with = op.on])
      PROVE  \E c, k \in Nat : Moves(u, p, NoJob, c, k, op.on)
  <2> DEFINE w == op.on
             c == [At(p) EXCEPT !.with = w]
  <2>1. w \in With
    BY DEF With
  <2> HIDE DEF w
  <2>2. /\ c \in Call /\ c.at = p /\ c.job = NoJob /\ c.cursor = 0 /\ c.k = 1 /\ c.with = w
    BY <2>1, AtCall DEF Call, Places
  <2>3. Become(u, c)
    BY <1>1 DEF w
  <2> HIDE DEF c
  <2>4. Moves(u, p, NoJob, 0, 1, w)
    BY <1>0, <2>2, <2>3, Becomes
  <2>5. QED
    BY <2>4 DEF w
<1>2. ASSUME NEW op \in Operations
      PROVE  /\ Enqueue(u, op) => Woken
             /\ BlockingExecute(u, op) =>
                  op.on[1] \in Jobs /\ Moves(u, "begin", op.on[1], 0, 1, <<>>)
             /\ AddDependency(u, op) => op.on[1] \in Jobs /\ op.on[2] \in Jobs /\
                  \E c, k \in Nat : Moves(u, "adding", NoJob, c, k, op.on)
             /\ Finish(u, op) => op.on[1] \in Queues /\
                  \E c, k \in Nat : Moves(u, "finishing", NoJob, c, k, op.on)
  <2>1. Enqueue(u, op) => Woken
    BY Wakes DEF Enqueue
  <2>2. ASSUME BlockingExecute(u, op)
        PROVE  op.on[1] \in Jobs /\ Moves(u, "begin", op.on[1], 0, 1, <<>>)
    <3> DEFINE j == op.on[1]
               c == [At("begin") EXCEPT !.job = j]
    <3>1. j \in Jobs
      BY <2>2, OperationsAssumption DEF BlockingExecute, MayCall
    <3> HIDE DEF j
    <3>2. /\ c \in Call /\ c.at = "begin" /\ c.job = j /\ c.cursor = 0 /\ c.k = 1 /\ c.with = <<>>
      BY <3>1, AtCall DEF Call, Places, Executing
    <3>3. Become(u, c)
      BY <2>2 DEF BlockingExecute, j
    <3> HIDE DEF c
    <3>4. Moves(u, "begin", j, 0, 1, <<>>)
      BY <1>0, <3>2, <3>3, Becomes
    <3>5. QED
      BY <3>1, <3>4 DEF j
  <2>3. ASSUME AddDependency(u, op)
        PROVE  op.on[1] \in Jobs /\ op.on[2] \in Jobs /\
               \E c, k \in Nat : Moves(u, "adding", NoJob, c, k, op.on)
    <3>1. MayCall(u, op, "addDependency") /\ Become(u, [At("adding") EXCEPT !.with = op.on])
      BY <2>3 DEF AddDependency
    <3>2. op.on[1] \in Jobs /\ op.on[2] \in Jobs
      BY <3>1, OperationsAssumption DEF MayCall
    <3>3. QED
      BY <1>1, <3>1, <3>2
  <2>4. ASSUME Finish(u, op)
        PROVE  op.on[1] \in Queues /\ \E c, k \in Nat : Moves(u, "finishing", NoJob, c, k, op.on)
    <3>1. MayCall(u, op, "finish") /\ Become(u, [At("finishing") EXCEPT !.with = op.on])
      BY <2>4 DEF Finish
    <3>2. op.on[1] \in Queues
      BY <3>1, OperationsAssumption DEF MayCall
    <3>3. QED
      BY <1>1, <3>1, <3>2
  <2>5. QED
    BY <2>1, <2>2, <2>3, <2>4
<1>3. InsertDependency(u) => Moves(u, "ready", NoJob, 0, 1, <<>>)
  BY <1>0, ComesTo DEF InsertDependency, Places
<1>4. FinishReturn(u) => Moves(u, "ready", NoJob, 0, 1, <<>>)
  BY <1>0, ComesTo DEF FinishReturn, Places
<1>5. FinishTimeout(u) => Woken
  BY Wakes DEF FinishTimeout, FinishWakes
<1>6. QED
  BY <1>2, <1>3, <1>4, <1>5

(* Types do not depend on the order of things, except that what a thread   *)
(* scans is in its queue.                                                  *)
LEMMA PlaceMoves ==
  ASSUME PlaceInv, NEW a \in Actors, InPlace(a)', \A b \in Actors : b # a => call'[b] = call[b]
  PROVE  PlaceInv'
<1>1. \A b \in Actors : b # a => InPlace(b)'
  BY DEF PlaceInv, InPlace
<1>2. QED
  BY <1>1 DEF PlaceInv, InPlace

LEMMA PlaceFrame ==
  ASSUME PlaceInv, UNCHANGED call \/ Woken
  PROVE  PlaceInv'
<1>1. \A a \in Actors : call'[a] = call[a] => InPlace(a)'
  BY DEF PlaceInv, InPlace
<1>2. ASSUME Woken, NEW a \in Actors, call'[a] # call[a] PROVE InPlace(a)'
  <2>1. a \notin Users /\ call'[a].at = "applying" /\ call'[a].job = NoJob
        /\ call'[a].with = <<>>
    BY <1>2, ActorsDiffer DEF Woken
  <2>2. QED
    BY <2>1 DEF InPlace, Asking, Executing
<1>3. QED
  BY <1>1, <1>2 DEF PlaceInv, InPlace

LEMMA TypedScan ==
  ASSUME Typed, PlaceInv, ExecInv, NEW t \in Threads,
         Apply(t) \/ LockCandidate(t) \/ Sleep(t) \/ Ask(t) \/ HandOut(t) \/ GiveBack(t)
  PROVE  Typed' /\ PlaceInv'
<1>0. /\ t \in Actors /\ t \notin Users /\ <<>> \in Seq(Policy) /\ QueueOf[t] \in Queues
      /\ call[t].with \in Seq(Policy) /\ call[t].cursor \in Nat /\ call[t].k \in Nat
  BY ActorsDiffer, SharingAssumption DEF PlaceInv, InPlace, Typed, Call
<1>j. call[t].at \in Asking => call[t].job \in Jobs /\ call[t].cursor >= 1 /\ call[t].k >= 1
  BY <1>0 DEF PlaceInv, InPlace, Asking
<1>k. call[t].cursor + 1 >= 1 /\ call[t].k + 1 >= 1
  BY <1>0
<1> USE DEF Asking, Executing
<1>1. CASE Apply(t)
  <2>1. Moves(t, "candidate", NoJob, 1, 1, <<>>)
    BY <1>1, ScanMoves
  <2>2. PlaceInv'
    <3>1. InPlace(t)'
      BY <1>0, <2>1 DEF InPlace, Moves
    <3>2. QED
      BY <1>0, <2>1, <3>1, PlaceMoves DEF Moves
  <2>3. Typed'
    BY <1>0, <1>1, <2>1 DEF Apply, Typed, Moves, Hold, jobVars, policyVars
  <2>4. QED
    BY <2>2, <2>3
<1>2. CASE LockCandidate(t)
  <2>1. Candidate(t) \in Jobs /\ Moves(t, "asking", Candidate(t), call[t].cursor, 1, <<>>)
    BY <1>2, ScanMoves
  <2>2. call[t].cursor >= 1
    BY <1>0, <1>2 DEF LockCandidate, Is, PlaceInv, InPlace
  <2>3. PlaceInv'
    <3>1. InPlace(t)'
      BY <1>0, <2>1, <2>2 DEF InPlace, Moves
    <3>2. QED
      BY <1>0, <2>1, <3>1, PlaceMoves DEF Moves
  <2>4. Typed'
    BY <1>0, <1>2, <2>1 DEF LockCandidate, Typed, Moves, Hold, queueVars, jobVars, policyVars
  <2>5. QED
    BY <2>3, <2>4
<1>3. CASE Sleep(t)
  <2>1. Moves(t, "asleep", NoJob, 0, 1, <<>>)
    BY <1>3, ScanMoves
  <2>2. PlaceInv'
    <3>1. InPlace(t)'
      BY <1>0, <2>1 DEF InPlace, Moves
    <3>2. QED
      BY <1>0, <2>1, <3>1, PlaceMoves DEF Moves
  <2>3. Typed'
    BY <1>0, <1>3, <2>1 DEF Sleep, Typed, Moves, Release, jobVars, policyVars
  <2>4. QED
    BY <2>2, <2>3
<1>4. CASE Ask(t)
  <2> DEFINE p == policies[call[t].job][call[t].k]
  <2>1. /\ p \in Policy /\ call[t].at = "asking"
        /\ \/ Moves(t, "asking", call[t].job, call[t].cursor, call[t].k + 1,
                    Append(call[t].with, p))
           \/ Moves(t, "releasing", call[t].job, call[t].cursor, 1, call[t].with)
    BY <1>4, ScanMoves DEF Ask, Is
  <2>2. /\ \/ customers' = customers
           \/ /\ p # DependencyPolicy
              /\ customers' = [customers EXCEPT ![p] = @ \cup {call[t].job}]
        /\ UNCHANGED <<queue, lock, mutex, status, policies, handlers, dependencies>>
    BY <1>4 DEF Ask, queueVars, jobVars
  <2> HIDE DEF p
  <2>3. Append(call[t].with, p) \in Seq(Policy)
    BY <1>0, <2>1
  <2>4. PlaceInv'
    <3>1. InPlace(t)'
      <4> DEFINE w == Append(call[t].with, p)
      <4>1. CASE Moves(t, "asking", call[t].job, call[t].cursor, call[t].k + 1, w)
        <5> HIDE DEF w
        <5>1. QED
          BY <1>0, <1>j, <1>k, <2>1, <2>3, <4>1 DEF InPlace, Moves, w
      <4>2. CASE Moves(t, "releasing", call[t].job, call[t].cursor, 1, call[t].with)
        BY <1>0, <1>j, <2>1, <4>2 DEF InPlace, Moves
      <4>3. QED
        BY <2>1, <4>1, <4>2
    <3>2. QED
      BY <1>0, <2>1, <3>1, PlaceMoves DEF Moves
  <2>5. customers' \in [Restrictions -> SUBSET Jobs]
    <3>1. CASE p # DependencyPolicy /\
               customers' = [customers EXCEPT ![p] = @ \cup {call[t].job}]
      <4>1. p \in Restrictions
        BY <2>1, <3>1 DEF Policy
      <4>2. customers[p] \cup {call[t].job} \in SUBSET Jobs
        BY <1>j, <2>1, <4>1 DEF Typed
      <4>3. QED
        BY <3>1, <4>1, <4>2 DEF Typed
    <3>2. QED
      BY <2>2, <3>1 DEF Typed
  <2>6. call' \in [Actors -> Call]
    BY <2>1 DEF Moves
  <2>7. Typed'
    BY <2>2, <2>5, <2>6 DEF Typed
  <2>8. QED
    BY <2>4, <2>7
<1>5. CASE HandOut(t)
  <2>1. Moves(t, "begin", call[t].job, call[t].cursor, 1, call[t].with) /\ call[t].at = "asking"
    BY <1>5, ScanMoves DEF HandOut, Is
  <2>2. PlaceInv'
    <3>1. InPlace(t)'
      BY <1>0, <1>j, <2>1 DEF InPlace, Moves
    <3>2. QED
      BY <1>0, <2>1, <3>1, PlaceMoves DEF Moves
  <2>3. RemoveAt(queue[QueueOf[t]], call[t].cursor) \in Seq(Jobs)
    <3>1. call[t].cursor \in 1..Len(queue[QueueOf[t]]) /\ queue[QueueOf[t]] \in Seq(Jobs)
      BY <1>0, <1>j, <2>1 DEF Typed, ExecInv, AskedIsQueued
    <3>2. QED
      BY <3>1, RemoveAtProperties
  <2>4. Typed'
    BY <1>0, <1>5, <2>1, <2>3 DEF HandOut, Typed, Moves, Release, jobVars, policyVars
  <2>5. QED
    BY <2>2, <2>4
<1>6. CASE GiveBack(t)
  <2>1. /\ call[t].at = "releasing"
        /\ \/ Moves(t, "releasing", call[t].job, call[t].cursor, call[t].k + 1, call[t].with)
           \/ Moves(t, "candidate", NoJob, call[t].cursor + 1, 1, <<>>)
    BY <1>6, ScanMoves DEF GiveBack, Is
  <2>2. PlaceInv'
    <3>1. InPlace(t)'
      <4>1. CASE Moves(t, "releasing", call[t].job, call[t].cursor, call[t].k + 1, call[t].with)
        BY <1>0, <1>j, <1>k, <2>1, <4>1 DEF InPlace, Moves
      <4>2. CASE Moves(t, "candidate", NoJob, call[t].cursor + 1, 1, <<>>)
        BY <1>0, <1>k, <4>2 DEF InPlace, Moves
      <4>3. QED
        BY <2>1, <4>1, <4>2
    <3>2. QED
      BY <1>0, <2>1, <3>1, PlaceMoves DEF Moves
  <2>3. \/ customers' = customers
        \/ \E r : customers' = Without(r, call[t].job)
    BY <1>6 DEF GiveBack, Released
  <2>4. customers' \in [Restrictions -> SUBSET Jobs]
    BY <2>3 DEF Typed, Without
  <2>5. /\ mutex' = mutex \/ Release(mutex, call[t].job)
        /\ UNCHANGED <<queue, lock, status, policies, handlers, dependencies>>
    BY <1>6 DEF GiveBack, queueVars, jobVars
  <2>6. Typed'
    BY <2>1, <2>4, <2>5 DEF Typed, Moves, Release
  <2>7. QED
    BY <2>2, <2>6
<1>7. QED
  BY <1>1, <1>2, <1>3, <1>4, <1>5, <1>6

LEMMA TypedExecute ==
  ASSUME Typed, PlaceInv, NEW a \in Actors, Execute(a)
  PROVE  Typed' /\ PlaceInv'
<1>0. /\ call[a].at \in Executing => call[a].job \in Jobs
      /\ call[a].k \in Nat /\ call[a].k + 1 >= 1 /\ <<>> \in Seq(Policy)
      /\ a \in Threads => a \notin Users /\ call[a].with \in Seq(Policy)
      /\ a \notin Threads => a \in Users
  BY ActorsDiffer DEF PlaceInv, InPlace, Typed, Call, Actors
<1>1. /\ InPlace(a)'
      /\ call' \in [Actors -> Call] /\ \A b \in Actors : b # a => call'[b] = call[b]
  <2>1. ASSUME NEW at \in {"running", "ending", "handling", "freeing", "leaving"},
               NEW k \in {1, call[a].k + 1}, call[a].at \in Executing,
               Moves(a, at, call[a].job, call[a].cursor, k, call[a].with)
        PROVE  InPlace(a)'
    <3>1. at \in Executing /\ at \notin Asking \cup {"candidate", "finishing", "adding", "ready"}
      BY DEF Executing, Asking
    <3>2. k >= 1
      BY <1>0
    <3>3. QED
      BY <1>0, <2>1, <3>1, <3>2 DEF InPlace, Moves, Executing, Asking
  <2>2. ASSUME Moves(a, IF a \in Threads THEN "reporting" ELSE "ready", NoJob, 0, 1, <<>>)
        PROVE  InPlace(a)'
    BY <1>0, <2>2 DEF InPlace, Moves, Executing, Asking
  <2>3. call[a].at \in Executing
    BY DEF Execute, Begin, Run, CopyHandlers, Handle, Free, Freed, Leave, Is, Executing
  <2>4. \/ \E at \in {"running", "ending", "handling", "freeing", "leaving"},
              k \in {1, call[a].k + 1} :
             Moves(a, at, call[a].job, call[a].cursor, k, call[a].with)
        \/ Moves(a, IF a \in Threads THEN "reporting" ELSE "ready", NoJob, 0, 1, <<>>)
    BY ExecuteMoves DEF Execute
  <2>5. InPlace(a)'
    BY <2>1, <2>2, <2>3, <2>4
  <2>6. QED
    BY <2>4, <2>5 DEF Moves
<1>2. PlaceInv'
  BY <1>1, PlaceMoves
<1>3. /\ UNCHANGED <<queue, lock, mutex, policies, handlers>>
      /\ status' \in [Jobs -> {"New", "Queued", "Running"} \cup Finished]
  <2>1. CASE Begin(a)
    BY <2>1 DEF Begin, Typed, queueVars, policyVars
  <2>2. CASE Run(a)
    <3>1. call[a].job \in Jobs
      BY <1>0, <2>2 DEF Run, Is, Executing
    <3>2. \A outcome \in Outcomes[call[a].job] : outcome \in Finished
      BY <3>1, PoliciesAssumption DEF Finished
    <3>3. PICK outcome \in Finished : status' = [status EXCEPT ![call[a].job] = outcome]
      BY <2>2, <3>2 DEF Run
    <3>4. QED
      BY <2>2, <3>1, <3>3 DEF Run, Typed, queueVars, policyVars
  <2>3. CASE CopyHandlers(a) \/ Handle(a) \/ Free(a) \/ Freed(a) \/ Leave(a)
    BY <2>3 DEF CopyHandlers, Unlocks, Handle, Free, Freed, Leave, Typed,
                queueVars, jobVars, policyVars
  <2>4. QED
    BY <2>1, <2>2, <2>3 DEF Execute
<1>4. dependencies' \subseteq dependencies /\ customers' \in [Restrictions -> SUBSET Jobs]
  <2>1. CASE Free(a)
    BY <2>1 DEF Free, FreeAll, ResolveDependencies, Typed
  <2>2. CASE Begin(a) \/ Run(a) \/ CopyHandlers(a) \/ Handle(a) \/ Freed(a) \/ Leave(a)
    BY <2>2 DEF Begin, Run, CopyHandlers, Handle, Freed, Leave, Typed, policyVars
  <2>3. QED
    BY <2>1, <2>2 DEF Execute
<1>5. QED
  BY <1>1, <1>2, <1>3, <1>4 DEF Typed

LEMMA WithoutPolicyProperties ==
  ASSUME NEW s \in Seq(Policy), NEW p
  PROVE  /\ WithoutPolicy(s, p) \in Seq(Policy)
         /\ Distinct(s) => /\ Distinct(WithoutPolicy(s, p))
                           /\ \A q : Occurs(WithoutPolicy(s, p), q) <=> Occurs(s, q) /\ q # p
<1>1. CASE p \in ToSet(s)
  <2> DEFINE i == CHOOSE i \in DOMAIN s : s[i] = p
  <2>1. i \in 1..Len(s) /\ s[i] = p
    BY <1>1 DEF ToSet
  <2>2. WithoutPolicy(s, p) = RemoveAt(s, i)
    BY <1>1 DEF WithoutPolicy
  <2> HIDE DEF i
  <2>3. QED
    BY <2>1, <2>2, RemoveAtProperties, RemoveAtOccurs
<1>2. CASE p \notin ToSet(s)
  <2>1. WithoutPolicy(s, p) = s
    BY <1>2 DEF WithoutPolicy
  <2>2. ~ Occurs(s, p)
    BY <1>2 DEF Occurs, ToSet
  <2>3. QED
    BY <2>1, <2>2
<1>3. QED
  BY <1>1, <1>2

LEMMA AssignedProperties ==
  ASSUME NEW s \in Seq(Policy), NEW p \in Policy
  PROVE  /\ Assigned(s, p) \in Seq(Policy) /\ Occurs(Assigned(s, p), p)
         /\ Distinct(s) => Distinct(Assigned(s, p))
         /\ \A q : Occurs(Assigned(s, p), q) <=> Occurs(s, q) \/ q = p
         /\ Len(s) <= Len(Assigned(s, p)) /\ \A i \in DOMAIN s : Assigned(s, p)[i] = s[i]
<1>1. CASE p \in ToSet(s)
  BY <1>1 DEF Assigned, Occurs, ToSet
<1>2. CASE p \notin ToSet(s)
  <2>1. Assigned(s, p) = Append(s, p)
    BY <1>2 DEF Assigned
  <2>2. ~ Occurs(s, p)
    BY <1>2 DEF Occurs, ToSet
  <2>3. Append(s, p) \in Seq(Policy) /\ Len(s) <= Len(Append(s, p))
        /\ \A i \in DOMAIN s : Append(s, p)[i] = s[i]
    BY AppendProperties
  <2>4. QED
    BY <2>1, <2>2, <2>3, AppendOccurs
<1>3. QED
  BY <1>1, <1>2

LEMMA PlaceUser ==
  ASSUME Typed, PlaceInv, NEW u \in Users,
         (CallStep(u) /\ ~ Execute(u)) \/ ApiCall(u)
  PROVE  PlaceInv' /\ call' \in [Actors -> Call]
<1>0. u \in Actors /\ u \notin Threads
  BY ActorsDiffer
<1>1. CASE InsertDependency(u) \/ FinishReturn(u)
  <2>1. Moves(u, "ready", NoJob, 0, 1, <<>>)
    BY <1>1, CallMoves
  <2>2. InPlace(u)'
    BY <1>0, <2>1 DEF InPlace, Moves, Executing, Asking
  <2>3. QED
    BY <1>0, <2>1, <2>2, PlaceMoves DEF Moves
<1>2. CASE FinishTimeout(u)
  BY <1>2, CallMoves, PlaceFrame DEF Woken
<1>3. ASSUME NEW op \in Operations, Enqueue(u, op)
      PROVE  PlaceInv' /\ call' \in [Actors -> Call]
  BY <1>3, CallMoves, PlaceFrame DEF Woken
<1>4. ASSUME NEW op \in Operations, BlockingExecute(u, op)
      PROVE  PlaceInv' /\ call' \in [Actors -> Call]
  <2> DEFINE j == op.on[1]
  <2>1. j \in Jobs /\ Moves(u, "begin", j, 0, 1, <<>>)
    BY <1>4, CallMoves
  <2> HIDE DEF j
  <2>2. InPlace(u)'
    BY <1>0, <2>1 DEF InPlace, Moves, Executing, Asking
  <2>3. QED
    BY <1>0, <2>1, <2>2, PlaceMoves DEF Moves
<1>5. ASSUME NEW op \in Operations, AddDependency(u, op)
      PROVE  PlaceInv' /\ call' \in [Actors -> Call]
  <2>1. PICK c \in Nat, k \in Nat : Moves(u, "adding", NoJob, c, k, op.on)
    BY <1>5, CallMoves
  <2>2. op.do = "addDependency"
    BY <1>5 DEF AddDependency, MayCall
  <2>3. InPlace(u)'
    BY <1>0, <2>1, <2>2 DEF InPlace, Moves, Executing, Asking
  <2>4. QED
    BY <1>0, <2>1, <2>3, PlaceMoves DEF Moves
<1>6. ASSUME NEW op \in Operations, Finish(u, op)
      PROVE  PlaceInv' /\ call' \in [Actors -> Call]
  <2>1. PICK c \in Nat, k \in Nat : Moves(u, "finishing", NoJob, c, k, op.on)
    BY <1>6, CallMoves
  <2>2. op.on[1] \in Queues
    BY <1>6, CallMoves
  <2>3. InPlace(u)'
    BY <1>0, <2>1, <2>2 DEF InPlace, Moves, Executing, Asking
  <2>4. QED
    BY <1>0, <2>1, <2>3, PlaceMoves DEF Moves
<1>7. ASSUME NEW op \in Operations,
             Dequeue(u, op) \/ RemoveDependency(u, op) \/ SetCap(u, op)
               \/ ChangePolicies(u, op) \/ OnFinish(u, op) \/ Delete(u, op)
      PROVE  PlaceInv' /\ call' \in [Actors -> Call]
  <2>1. UNCHANGED call
    BY <1>7 DEF Dequeue, RemoveDependency, SetCap, ChangePolicies, OnFinish, Delete
  <2>2. QED
    BY <2>1, PlaceFrame DEF Typed
<1>8. QED
  BY <1>1, <1>2, <1>3, <1>4, <1>5, <1>6, <1>7 DEF CallStep, ApiCall

(* What a call changes besides.                                            *)
LEMMA TypedUser ==
  ASSUME Typed, PlaceInv, NEW u \in Users,
         (CallStep(u) /\ ~ Execute(u)) \/ ApiCall(u)
  PROVE  Typed' /\ PlaceInv'
<1>0. call' \in [Actors -> Call] /\ PlaceInv' /\ u \in Actors
  BY PlaceUser, ActorsDiffer
<1>1. CASE InsertDependency(u)
  <2>1. call[u].with[1] \in Jobs /\ call[u].with[2] \in Jobs
    BY <1>0, <1>1, OperationsAssumption DEF InsertDependency, Is, PlaceInv, InPlace
  <2> DEFINE a == call[u].with[1]
             b == call[u].with[2]
  <2> HIDE DEF a, b
  <2>2. policies' = [policies EXCEPT ![a] = Assigned(@, DependencyPolicy),
                                     ![b] = Assigned(@, DependencyPolicy)]
    BY <1>1 DEF InsertDependency, a, b
  <2>3. \A s \in Seq(Policy) : Assigned(s, DependencyPolicy) \in Seq(Policy)
    BY AssignedProperties DEF Policy
  <2>4. policies' \in [Jobs -> Seq(Policy)]
    BY <2>1, <2>2, <2>3 DEF Typed, a, b
  <2>5. \A d \in dependencies' : d[1] \in Jobs /\ d[2] \in Jobs
    BY <1>1, <2>1 DEF InsertDependency, Typed
  <2>6. QED
    BY <1>0, <1>1, <2>1, <2>4, <2>5 DEF InsertDependency, Typed, Release, queueVars, jobVars
<1>2. CASE FinishReturn(u) \/ FinishTimeout(u)
  BY <1>0, <1>2 DEF FinishReturn, FinishTimeout, Typed, queueVars, jobVars, policyVars
<1>3. ASSUME NEW op \in Operations, Enqueue(u, op) \/ Dequeue(u, op)
      PROVE  Typed'
  <2> DEFINE j == op.on[1]
             q == Home[j]
  <2>1. j \in Jobs /\ q \in Queues
    BY <1>3, OperationsAssumption, SharingAssumption DEF Enqueue, Dequeue, MayCall
  <2>2. queue[q] \in Seq(Jobs)
    BY <2>1 DEF Typed
  <2>3. queue' \in [Queues -> Seq(Jobs)]
    <3>1. CASE Enqueue(u, op)
      <4>1. Append(queue[q], j) \in Seq(Jobs)
        BY <2>1, <2>2
      <4>2. QED
        BY <2>1, <3>1, <4>1 DEF Enqueue, Typed
    <3>2. CASE Dequeue(u, op)
      <4>1. PICK i \in DOMAIN queue[q] : queue' = [queue EXCEPT ![q] = RemoveAt(@, i)]
        BY <3>2 DEF Dequeue
      <4>2. RemoveAt(queue[q], i) \in Seq(Jobs)
        BY <2>2, <4>1, RemoveAtProperties
      <4>3. QED
        BY <2>1, <4>1, <4>2 DEF Typed
    <3>3. QED
      BY <1>3, <3>1, <3>2
  <2>4. QED
    BY <1>0, <1>3, <2>1, <2>3 DEF Enqueue, Dequeue, Typed, policyVars
<1>4. ASSUME NEW op \in Operations, BlockingExecute(u, op) \/ Finish(u, op)
      PROVE  Typed'
  BY <1>0, <1>4 DEF BlockingExecute, Finish, Typed, queueVars, jobVars, policyVars
<1>5. ASSUME NEW op \in Operations, AddDependency(u, op)
      PROVE  Typed'
  <2>1. op.on[1] \in Jobs
    BY <1>5, OperationsAssumption DEF AddDependency, MayCall
  <2>2. QED
    BY <1>0, <1>5, <2>1
    DEF AddDependency, Hold, LocksDependent, Typed, queueVars, jobVars, policyVars
<1>6. ASSUME NEW op \in Operations, RemoveDependency(u, op) \/ SetCap(u, op)
      PROVE  Typed'
  BY <1>0, <1>6 DEF RemoveDependency, SetCap, Typed, queueVars, jobVars
<1>7. ASSUME NEW op \in Operations, ChangePolicies(u, op)
      PROVE  Typed'
  <2> DEFINE j == op.on[1]
  <2>1. op.on \in Jobs \X Policy
    BY <1>7, OperationsAssumption DEF ChangePolicies, MayCall, Policy
  <2>2. policies[j] \in Seq(Policy)
    BY <2>1 DEF Typed
  <2>3. \E s \in Seq(Policy) : policies' = [policies EXCEPT ![j] = s]
    BY <1>7, <2>1, <2>2, AssignedProperties, WithoutPolicyProperties DEF ChangePolicies
  <2>4. QED
    BY <1>0, <1>7, <2>1, <2>3 DEF ChangePolicies, Typed, queueVars, jobVars
<1>8. ASSUME NEW op \in Operations, OnFinish(u, op)
      PROVE  Typed'
  <2>1. op.on[1] \in Jobs
    BY <1>8, OperationsAssumption DEF OnFinish, MayCall
  <2>2. QED
    BY <1>0, <1>8, <2>1 DEF OnFinish, Typed, queueVars, policyVars
<1>9. ASSUME NEW op \in Operations, Delete(u, op)
      PROVE  Typed'
  <2>1. dependencies' \subseteq dependencies /\ customers' \in [Restrictions -> SUBSET Jobs]
    BY <1>9 DEF Delete, FreeAll, ResolveDependencies, Typed
  <2>2. QED
    BY <1>0, <1>9, <2>1 DEF Delete, Typed, queueVars
<1>10. QED
  BY <1>0, <1>1, <1>2, <1>3, <1>4, <1>5, <1>6, <1>7, <1>8, <1>9 DEF CallStep, ApiCall

-------------------------------------------------------------------------------
(* The mutexes *)

LEMMA LockFrame ==
  ASSUME Typed, LockInv, UNCHANGED <<lock, mutex>>,
         \A a \in Actors : \/ call'[a] = call[a]
                           \/ /\ call[a].at \notin {"candidate", "adding"} \cup Asking
                              /\ call'[a].at \notin {"candidate", "adding"} \cup Asking
  PROVE  LockInv'
<1>1. \A a \in Actors : Scans(a)' <=> Scans(a)
  BY DEF Scans, Asking
<1>2. \A a \in Actors : \A j : Locks(a, j)' <=> Locks(a, j)
  BY DEF Locks, Asking
<1>3. QED
  BY <1>1, <1>2 DEF LockInv

(* The mutexes an actor owns after its step, and nobody else.              *)
LEMMA LockMoves ==
  ASSUME LockInv, NEW a \in Actors, \A b \in Actors : b # a => call'[b] = call[b],
         \A q \in Queues :
           /\ lock'[q] = a <=> a \in Threads /\ QueueOf[a] = q /\ Scans(a)'
           /\ \A b \in Actors : b # a => (lock'[q] = b <=> lock[q] = b),
         \A j \in Jobs :
           /\ mutex'[j] = a <=> Locks(a, j)'
           /\ \A b \in Actors : b # a => (mutex'[j] = b <=> mutex[j] = b)
  PROVE  LockInv'
<1>1. ASSUME NEW b \in Actors, b # a
      PROVE  (Scans(b)' <=> Scans(b)) /\ \A j : Locks(b, j)' <=> Locks(b, j)
  BY <1>1 DEF Scans, Locks
<1>2. QED
  BY <1>1 DEF LockInv

LEMMA LockScan ==
  ASSUME Typed, PlaceInv, LockInv, NEW t \in Threads,
         Apply(t) \/ LockCandidate(t) \/ Sleep(t) \/ Ask(t) \/ HandOut(t) \/ GiveBack(t)
  PROVE  LockInv'
<1>0. /\ t \in Actors /\ QueueOf[t] \in Queues /\ Nobody \notin Actors
      /\ call[t].at \in Asking => call[t].job \in Jobs
  BY ActorsDiffer, SharingAssumption DEF PlaceInv, InPlace
<1>a. ASSUME \A b \in Actors : b # t => call'[b] = call[b], NEW b \in Actors, b # t
      PROVE  (Scans(b)' <=> Scans(b)) /\ \A j : Locks(b, j)' <=> Locks(b, j)
  BY <1>a DEF Scans, Locks
<1> DEFINE Queued(l) == \A q \in Queues : \A a \in Actors :
                          l[q] = a <=> a \in Threads /\ QueueOf[a] = q /\ Scans(a)
           Held(m) == \A j \in Jobs : \A a \in Actors : m[j] = a <=> Locks(a, j)
<1>b. Queued(lock) /\ Held(mutex)
  BY DEF LockInv
<1>1. CASE Apply(t)
  <2>1. Moves(t, "candidate", NoJob, 1, 1, <<>>)
    BY <1>1, ScanMoves
  <2>2. /\ ~ Scans(t) /\ Scans(t)' /\ \A j : ~ Locks(t, j) /\ ~ Locks(t, j)'
    BY <1>1, <2>1 DEF Apply, Moves, Scans, Locks, Asking
  <2>3. /\ lock[QueueOf[t]] = Nobody /\ lock' = [lock EXCEPT ![QueueOf[t]] = t] /\ mutex' = mutex
    BY <1>1 DEF Apply, Hold
  <2>4. QED
    BY <1>0, <1>a, <1>b, <2>1, <2>2, <2>3 DEF LockInv, Moves, Typed
<1>2. CASE LockCandidate(t)
  <2>1. Candidate(t) \in Jobs /\ Moves(t, "asking", Candidate(t), call[t].cursor, 1, <<>>)
    BY <1>2, ScanMoves
  <2>2. /\ Scans(t) /\ Scans(t)' /\ \A j : ~ Locks(t, j) /\ (Locks(t, j)' <=> j = Candidate(t))
    BY <1>2, <2>1 DEF LockCandidate, Is, Moves, Scans, Locks, Asking
  <2>3. /\ mutex[Candidate(t)] = Nobody /\ mutex' = [mutex EXCEPT ![Candidate(t)] = t]
        /\ lock' = lock
    BY <1>2 DEF LockCandidate, Hold, queueVars
  <2>4. QED
    BY <1>0, <1>a, <1>b, <2>1, <2>2, <2>3 DEF LockInv, Moves, Typed
<1>3. CASE Sleep(t)
  <2>1. Moves(t, "asleep", NoJob, 0, 1, <<>>)
    BY <1>3, ScanMoves
  <2>2. /\ Scans(t) /\ ~ Scans(t)' /\ \A j : ~ Locks(t, j) /\ ~ Locks(t, j)'
    BY <1>3, <2>1 DEF Sleep, Is, Moves, Scans, Locks, Asking
  <2>3. /\ lock' = [lock EXCEPT ![QueueOf[t]] = Nobody] /\ mutex' = mutex
    BY <1>3 DEF Sleep, Release
  <2>4. QED
    BY <1>0, <1>a, <1>b, <2>1, <2>2, <2>3 DEF LockInv, Moves, Typed
<1>4. CASE Ask(t)
  <2> DEFINE w == Append(call[t].with, policies[call[t].job][call[t].k])
  <2>1. \/ Moves(t, "asking", call[t].job, call[t].cursor, call[t].k + 1, w)
        \/ Moves(t, "releasing", call[t].job, call[t].cursor, 1, call[t].with)
    BY <1>4, ScanMoves
  <2> HIDE DEF w
  <2>2. /\ Scans(t) /\ Scans(t)' /\ \A j : Locks(t, j) <=> Locks(t, j)'
    BY <1>4, <2>1 DEF Ask, Is, Moves, Scans, Locks, Asking
  <2>3. lock' = lock /\ mutex' = mutex
    BY <1>4 DEF Ask, queueVars
  <2>4. \A b \in Actors : b # t => call'[b] = call[b]
    BY <2>1 DEF Moves
  <2>5. QED
    BY <1>0, <1>a, <1>b, <2>2, <2>3, <2>4 DEF LockInv
<1>5. CASE HandOut(t)
  <2>1. Moves(t, "begin", call[t].job, call[t].cursor, 1, call[t].with)
    BY <1>5, ScanMoves
  <2>2. /\ call[t].job \in Jobs /\ Scans(t) /\ ~ Scans(t)'
        /\ \A j : ~ Locks(t, j)' /\ (Locks(t, j) <=> j = call[t].job)
    BY <1>0, <1>5, <2>1 DEF HandOut, Is, Moves, Scans, Locks, Asking
  <2>3. /\ lock' = [lock EXCEPT ![QueueOf[t]] = Nobody]
        /\ mutex' = [mutex EXCEPT ![call[t].job] = Nobody]
    BY <1>5 DEF HandOut, Release
  <2>4. \A b \in Actors : b # t => call'[b] = call[b]
    BY <2>1 DEF Moves
  <2>5. Queued(lock)'
    BY <1>0, <1>a, <1>b, <2>2, <2>3, <2>4 DEF Typed
  <2>6. Held(mutex)'
    BY <1>0, <1>a, <1>b, <2>2, <2>3, <2>4 DEF Typed
  <2>7. QED
    BY <2>5, <2>6 DEF LockInv
<1>6. CASE GiveBack(t)
  <2>1. CASE call[t].k <= Len(call[t].with)
    <3>1. Moves(t, "releasing", call[t].job, call[t].cursor, call[t].k + 1, call[t].with)
      BY <1>6, <2>1, ScanMoves
    <3>2. /\ Scans(t) /\ Scans(t)' /\ \A j : Locks(t, j) <=> Locks(t, j)'
      BY <1>6, <3>1 DEF GiveBack, Is, Moves, Scans, Locks, Asking
    <3>3. lock' = lock /\ mutex' = mutex
      BY <1>6, <2>1 DEF GiveBack, queueVars
    <3>4. QED
      BY <1>0, <1>a, <1>b, <3>1, <3>2, <3>3 DEF LockInv, Moves
  <2>2. CASE ~ call[t].k <= Len(call[t].with)
    <3>1. Moves(t, "candidate", NoJob, call[t].cursor + 1, 1, <<>>)
      BY <1>6, <2>2, ScanMoves
    <3>2. /\ call[t].job \in Jobs /\ Scans(t) /\ Scans(t)'
          /\ \A j : ~ Locks(t, j)' /\ (Locks(t, j) <=> j = call[t].job)
      BY <1>0, <1>6, <3>1 DEF GiveBack, Is, Moves, Scans, Locks, Asking
    <3>3. lock' = lock /\ mutex' = [mutex EXCEPT ![call[t].job] = Nobody]
      BY <1>6, <2>2 DEF GiveBack, Release, queueVars
    <3>4. \A j \in Jobs : /\ mutex'[j] = t <=> Locks(t, j)'
                          /\ \A b \in Actors : b # t => (mutex'[j] = b <=> mutex[j] = b)
      BY <1>0, <1>b, <3>2, <3>3 DEF Typed
    <3>5. QED
      BY <1>0, <1>b, <3>1, <3>2, <3>3, <3>4, LockMoves DEF Moves
  <2>3. QED
    BY <2>1, <2>2
<1>7. QED
  BY <1>1, <1>2, <1>3, <1>4, <1>5, <1>6

LEMMA ExecuteAway ==
  ASSUME Typed, PlaceInv, NEW a \in Actors, Execute(a)
  PROVE  /\ call[a].at \in Executing /\ call'[a].at \in Executing \cup {"reporting", "ready"}
         /\ \A b \in Actors : b # a => call'[b] = call[b]
         /\ UNCHANGED <<queue, lock, mutex, policies, handlers, late, removed, deleted>>
<1>1. call[a].at \in Executing
  BY DEF Execute, Begin, Run, CopyHandlers, Handle, Free, Freed, Leave, Is, Executing
<1>2. /\ call'[a].at \in Executing \cup {"reporting", "ready"}
      /\ \A b \in Actors : b # a => call'[b] = call[b]
  BY ExecuteMoves DEF Execute, Moves, Executing
<1>3. UNCHANGED <<queue, lock, mutex, policies, handlers, late, removed, deleted>>
  BY DEF Execute, Begin, Run, CopyHandlers, Unlocks, Handle, Free, Freed, Leave,
         queueVars, jobVars, policyVars
<1>4. QED
  BY <1>1, <1>2, <1>3

LEMMA LockExecute ==
  ASSUME Typed, PlaceInv, LockInv, NEW a \in Actors, Execute(a)
  PROVE  LockInv'
BY ExecuteAway, LockFrame DEF Asking, Executing

LEMMA LockUser ==
  ASSUME Typed, PlaceInv, LockInv, NEW u \in Users,
         (CallStep(u) /\ ~ Execute(u)) \/ ApiCall(u)
  PROVE  LockInv'
<1>0. u \in Actors /\ u \notin Threads /\ Nobody \notin Actors
  BY ActorsDiffer, SharingAssumption
<1>a. ASSUME \A b \in Actors : b # u => call'[b] = call[b], NEW b \in Actors, b # u
      PROVE  (Scans(b)' <=> Scans(b)) /\ \A j : Locks(b, j)' <=> Locks(b, j)
  BY <1>a DEF Scans, Locks
<1>w. ASSUME Woken, UNCHANGED <<lock, mutex>> PROVE LockInv'
  BY <1>w, LockFrame DEF Woken, Asking
<1>1. CASE InsertDependency(u)
  <2> DEFINE a == call[u].with[1]
  <2>1. Moves(u, "ready", NoJob, 0, 1, <<>>)
    BY <1>1, CallMoves
  <2>2. a \in Jobs /\ call[u].at = "adding"
    BY <1>0, <1>1, OperationsAssumption DEF InsertDependency, Is, PlaceInv, InPlace
  <2>3. ~ Scans(u) /\ ~ Scans(u)' /\ \A j : ~ Locks(u, j)' /\ (Locks(u, j) <=> j = a)
    BY <2>1, <2>2 DEF Moves, Scans, Locks, Asking
  <2>4. lock' = lock /\ mutex' = [mutex EXCEPT ![a] = Nobody]
    BY <1>1 DEF InsertDependency, Release, queueVars
  <2> HIDE DEF a
  <2>5. \A j \in Jobs : /\ mutex'[j] = u <=> Locks(u, j)'
                        /\ \A b \in Actors : b # u => (mutex'[j] = b <=> mutex[j] = b)
    BY <1>0, <2>2, <2>3, <2>4 DEF LockInv, Typed
  <2>6. \A q \in Queues : lock'[q] # u
    BY <1>0, <2>4 DEF LockInv
  <2>7. QED
    BY <1>0, <2>1, <2>4, <2>5, <2>6, LockMoves DEF Moves
<1>2. CASE FinishReturn(u)
  <2>1. Moves(u, "ready", NoJob, 0, 1, <<>>)
    BY <1>2, CallMoves
  <2>2. QED
    BY <1>2, <2>1, LockFrame DEF FinishReturn, Is, Moves, queueVars, Asking
<1>3. CASE FinishTimeout(u)
  BY <1>3, <1>w, CallMoves DEF FinishTimeout, queueVars
<1>4. ASSUME NEW op \in Operations, Enqueue(u, op) PROVE LockInv'
  BY <1>4, <1>w, CallMoves DEF Enqueue
<1>5. ASSUME NEW op \in Operations, BlockingExecute(u, op) PROVE LockInv'
  <2>1. Moves(u, "begin", op.on[1], 0, 1, <<>>)
    BY <1>5, CallMoves
  <2>2. QED
    BY <1>5, <2>1, LockFrame DEF BlockingExecute, MayCall, Is, Moves, queueVars, Asking
<1>6. ASSUME NEW op \in Operations, Finish(u, op) PROVE LockInv'
  <2>1. PICK c \in Nat, k \in Nat : Moves(u, "finishing", NoJob, c, k, op.on)
    BY <1>6, CallMoves
  <2>2. QED
    BY <1>6, <2>1, LockFrame DEF Finish, MayCall, Is, Moves, queueVars, Asking
<1>7. ASSUME NEW op \in Operations, AddDependency(u, op) PROVE LockInv'
  <2> DEFINE a == op.on[1]
  <2>1. PICK c \in Nat, k \in Nat : Moves(u, "adding", NoJob, c, k, op.on)
    BY <1>7, CallMoves
  <2>2. a \in Jobs
    BY <1>7, CallMoves
  <2>3. ~ Scans(u) /\ ~ Scans(u)' /\ \A j : ~ Locks(u, j) /\ (Locks(u, j)' <=> j = a)
    BY <1>7, <2>1 DEF AddDependency, MayCall, Is, Moves, Scans, Locks, Asking
  <2>4. mutex[a] = Nobody /\ lock' = lock /\ mutex' = [mutex EXCEPT ![a] = u]
    BY <1>7 DEF AddDependency, Hold, LocksDependent, queueVars
  <2> HIDE DEF a
  <2>5. \A j \in Jobs : /\ mutex'[j] = u <=> Locks(u, j)'
                        /\ \A b \in Actors : b # u => (mutex'[j] = b <=> mutex[j] = b)
    BY <1>0, <2>2, <2>3, <2>4 DEF LockInv, Typed
  <2>6. \A q \in Queues : lock'[q] # u
    BY <1>0, <2>4 DEF LockInv
  <2>7. QED
    BY <1>0, <2>1, <2>4, <2>5, <2>6, LockMoves DEF Moves
<1>8. ASSUME NEW op \in Operations,
             Dequeue(u, op) \/ RemoveDependency(u, op) \/ SetCap(u, op)
               \/ ChangePolicies(u, op) \/ OnFinish(u, op) \/ Delete(u, op)
      PROVE  LockInv'
  <2>1. UNCHANGED <<call, lock, mutex>>
    BY <1>8 DEF Dequeue, RemoveDependency, SetCap, ChangePolicies, OnFinish, Delete, queueVars
  <2>2. QED
    BY <2>1, LockFrame
<1>9. QED
  BY <1>1, <1>2, <1>3, <1>4, <1>5, <1>6, <1>7, <1>8 DEF CallStep, ApiCall

-------------------------------------------------------------------------------
(* Who has which job *)

LEMMA ExecFrame ==
  ASSUME ExecInv, UNCHANGED <<queue, status>>,
         \A a \in Actors : call'[a].at \in Asking \cup Executing =>
           /\ call'[a].job = call[a].job /\ call'[a].cursor = call[a].cursor
           /\ call'[a].at \in Asking => call[a].at \in Asking
           /\ call'[a].at = "begin" => call[a].at = "begin"
           /\ call'[a].at = "running" => call[a].at = "running"
           /\ call'[a].at \in Ended => call[a].at \in Ended
  PROVE  ExecInv'
<1>1. \A a \in Actors : call'[a].at \in Executing => call[a].at \in Executing
  BY DEF Executing, Ended
<1>2. \A j : InFlight(j)' => InFlight(j)
  BY <1>1 DEF InFlight, Executing
<1>3. OneExecutes'
  BY <1>1 DEF ExecInv, OneExecutes
<1>4. AskedIsQueued'
  BY DEF ExecInv, AskedIsQueued, Candidate
<1>5. QueuedInv'
  BY <1>2 DEF ExecInv, QueuedInv
<1>6. StatusInv'
  BY DEF ExecInv, StatusInv, Executing, Ended
<1>7. QED
  BY <1>3, <1>4, <1>5, <1>6 DEF ExecInv

(* What a thread asks about is in its queue, and executed by nobody.       *)
LEMMA CandidateIsQueued ==
  ASSUME Typed, PlaceInv, QueuedInv, NEW t \in Threads, call[t].at \in {"candidate"} \cup Asking,
         call[t].cursor <= Len(queue[QueueOf[t]])
  PROVE  /\ QueueOf[t] \in Queues /\ call[t].cursor \in 1..Len(queue[QueueOf[t]])
         /\ Candidate(t) \in Jobs /\ Occurs(queue[QueueOf[t]], Candidate(t))
         /\ Home[Candidate(t)] = QueueOf[t] /\ status[Candidate(t)] = "Queued"
         /\ ~ InFlight(Candidate(t))
<1>1. t \in Actors /\ QueueOf[t] \in Queues
  BY ActorsDiffer, SharingAssumption
<1>2. queue[QueueOf[t]] \in Seq(Jobs) /\ call[t].cursor \in Nat /\ call[t].cursor >= 1
  BY <1>1 DEF Typed, Call, PlaceInv, InPlace, Asking
<1>3. Candidate(t) \in Jobs /\ Occurs(queue[QueueOf[t]], Candidate(t))
  BY <1>2 DEF Candidate, Occurs
<1>4. QED
  BY <1>1, <1>2, <1>3 DEF QueuedInv

LEMMA ExecLockCandidate ==
  ASSUME Typed, PlaceInv, ExecInv, NEW t \in Threads, LockCandidate(t)
  PROVE  ExecInv'
<1>1. Candidate(t) \in Jobs /\ Moves(t, "asking", Candidate(t), call[t].cursor, 1, <<>>)
  BY ScanMoves
<1>2. call[t].cursor <= Len(queue[QueueOf[t]]) /\ call[t].at = "candidate"
      /\ UNCHANGED <<queue, status>> /\ t \in Actors
  BY ActorsDiffer DEF LockCandidate, Is, queueVars, jobVars
<1>3. ~ InFlight(Candidate(t))
  BY <1>2, CandidateIsQueued DEF ExecInv
<1>4. \A a \in Actors : call'[a].at \in Executing => call'[a] = call[a] /\ a # t
  BY <1>1 DEF Moves, Executing
<1>5. \A j : InFlight(j)' => InFlight(j)
  BY <1>4 DEF InFlight, Executing
<1>6. OneExecutes'
  BY <1>1, <1>2, <1>3, <1>4 DEF ExecInv, OneExecutes, Moves, InFlight, Executing
<1>7. AskedIsQueued'
  BY <1>1, <1>2 DEF ExecInv, AskedIsQueued, Moves, Candidate
<1>8. QueuedInv'
  BY <1>2, <1>5 DEF ExecInv, QueuedInv
<1>9. StatusInv'
  BY <1>2, <1>4 DEF ExecInv, StatusInv, Executing, Ended
<1>10. QED
  BY <1>6, <1>7, <1>8, <1>9 DEF ExecInv

LEMMA ExecHandOut ==
  ASSUME Typed, PlaceInv, LockInv, ExecInv, NEW t \in Threads, HandOut(t)
  PROVE  ExecInv'
<1> DEFINE j == call[t].job
           q == QueueOf[t]
<1>1. Moves(t, "begin", j, call[t].cursor, 1, call[t].with)
  BY ScanMoves
<1>2. /\ call[t].at = "asking" /\ t \in Actors /\ call[t].cursor <= Len(queue[q])
      /\ Candidate(t) = j /\ status' = status
      /\ queue' = [queue EXCEPT ![q] = RemoveAt(@, call[t].cursor)]
  BY ActorsDiffer DEF HandOut, Is, jobVars, ExecInv, AskedIsQueued, Asking
<1>3. /\ q \in Queues /\ call[t].cursor \in 1..Len(queue[q]) /\ j \in Jobs
      /\ Occurs(queue[q], j) /\ Home[j] = q /\ status[j] = "Queued" /\ ~ InFlight(j)
  BY <1>2, CandidateIsQueued DEF ExecInv, Asking
<1>4. /\ queue'[q] = RemoveAt(queue[q], call[t].cursor) /\ queue[q][call[t].cursor] = j
      /\ \A p \in Queues : p # q => queue'[p] = queue[p]
  BY <1>2, <1>3 DEF Typed, Candidate
<1> HIDE DEF j, q
<1>5. Distinct(queue'[q]) /\ \A i : Occurs(queue'[q], i) <=> Occurs(queue[q], i) /\ i # j
  BY <1>3, <1>4, RemoveAtOccurs DEF ExecInv, QueuedInv, Typed
<1>6. \A b \in Actors : b # t /\ call[b].at \in Asking => QueueOf[b] # q /\ b \in Threads
  BY <1>2, <1>3, ActorsDiffer DEF LockInv, Scans, Asking, PlaceInv, InPlace, Actors, q
<1>7. \A b \in Actors : b # t /\ call[b].at \in Asking => call[b].job # j
  <2>1. SUFFICES ASSUME NEW b \in Actors, b # t, call[b].at \in Asking PROVE call[b].job # j
    OBVIOUS
  <2>2. b \in Threads /\ QueueOf[b] # q /\ call[b].cursor <= Len(queue[QueueOf[b]])
        /\ Candidate(b) = call[b].job
    BY <1>6, <2>1 DEF ExecInv, AskedIsQueued
  <2>3. Home[call[b].job] = QueueOf[b]
    BY <2>1, <2>2, CandidateIsQueued DEF ExecInv
  <2>4. QED
    BY <1>3, <2>2, <2>3
<1>8. \A i : InFlight(i)' => InFlight(i) \/ i = j
  BY <1>1 DEF InFlight, Moves
<1>9. OneExecutes'
  BY <1>1, <1>2, <1>3, <1>7 DEF ExecInv, OneExecutes, Moves, InFlight, Executing, Asking
<1>10. AskedIsQueued'
  BY <1>1, <1>4, <1>6, SharingAssumption DEF ExecInv, AskedIsQueued, Moves, Candidate, Asking
<1>11. QueuedInv'
  BY <1>2, <1>3, <1>4, <1>5, <1>8 DEF ExecInv, QueuedInv
<1>12. StatusInv'
  BY <1>1, <1>2, <1>3 DEF ExecInv, StatusInv, Moves, Ended
<1>13. QED
  BY <1>9, <1>10, <1>11, <1>12 DEF ExecInv

(* Begin() and Run() change the status of a job nobody else has.           *)
LEMMA ExecStatus ==
  ASSUME Typed, PlaceInv, ExecInv, NEW a \in Actors, Begin(a) \/ Run(a)
  PROVE  ExecInv'
<1> DEFINE j == call[a].job
<1>1. /\ call[a].at \in {"begin", "running"} /\ queue' = queue
      /\ \A i \in Jobs : i # j => status'[i] = status[i]
  BY DEF Begin, Run, Is, queueVars, Typed
<1>2. j \in Jobs
  BY <1>1 DEF PlaceInv, InPlace, Executing
<1>3. \/ Begin(a) /\ Moves(a, "running", j, call[a].cursor, 1, call[a].with)
      \/ Run(a) /\ Moves(a, "ending", j, call[a].cursor, 1, call[a].with)
  BY ExecuteMoves
<1>4. /\ Begin(a) => status'[j] = "Running"
      /\ Run(a) => status'[j] \in Finished
  <2>1. \A outcome \in Outcomes[j] : outcome \in Finished
    BY <1>2, PoliciesAssumption DEF Finished
  <2>2. QED
    BY <1>2, <2>1 DEF Begin, Run, Typed
<1>5. InFlight(j)
  BY <1>1 DEF InFlight
<1>6. \A b \in Actors : b # a /\ call[b].at \in Executing => call[b].job \in Jobs \ {j}
  BY <1>1 DEF ExecInv, OneExecutes, Executing, PlaceInv, InPlace
<1> HIDE DEF j
<1>7. \A i : InFlight(i)' => InFlight(i)
  BY <1>3, <1>5 DEF InFlight, Moves
<1>8. OneExecutes'
  BY <1>1, <1>3 DEF ExecInv, OneExecutes, Moves, Executing, Asking, j
<1>9. AskedIsQueued'
  BY <1>1, <1>3 DEF ExecInv, AskedIsQueued, Moves, Candidate, Asking
<1>10. QueuedInv'
  BY <1>1, <1>5, <1>7 DEF ExecInv, QueuedInv
<1>11. StatusInv'
  BY <1>1, <1>3, <1>4, <1>6 DEF ExecInv, StatusInv, Moves, Ended, Executing, Finished
<1>12. QED
  BY <1>8, <1>9, <1>10, <1>11 DEF ExecInv

LEMMA ExecEnqueue ==
  ASSUME Typed, PlaceInv, LockInv, ExecInv, NEW u \in Users, NEW op \in Operations, Enqueue(u, op)
  PROVE  ExecInv'
<1> DEFINE j == op.on[1]
           q == Home[j]
<1>1. /\ j \in Jobs /\ q \in Queues /\ status[j] = "New" /\ ~ InFlight(j) /\ lock[q] = Nobody
      /\ queue' = [queue EXCEPT ![q] = Append(@, j)] /\ status' = [status EXCEPT ![j] = "Queued"]
  BY OperationsAssumption, SharingAssumption DEF Enqueue, MayCall
<1>2. Woken
  BY CallMoves
<1> HIDE DEF j
<1>3. /\ queue'[q] = Append(queue[q], j) /\ \A p \in Queues : p # q => queue'[p] = queue[p]
      /\ status'[j] = "Queued" /\ \A i \in Jobs : i # j => status'[i] = status[i]
  BY <1>1 DEF Typed
<1> HIDE DEF q
<1>4. ~ Occurs(queue[q], j)
  BY <1>1 DEF ExecInv, QueuedInv
<1>5. Distinct(queue'[q]) /\ \A i : Occurs(queue'[q], i) <=> i = j \/ Occurs(queue[q], i)
  BY <1>1, <1>3, <1>4, AppendOccurs DEF ExecInv, QueuedInv, Typed
<1>6. \A a \in Actors : call'[a].at \in Asking \cup Executing => call'[a] = call[a]
  BY <1>2 DEF Woken, Asking, Executing
<1>7. \A i : InFlight(i)' => InFlight(i)
  BY <1>6 DEF InFlight, Executing
<1>8. \A a \in Actors : call[a].at \in Asking => a \in Threads /\ QueueOf[a] \in Queues \ {q}
  BY <1>1, SharingAssumption DEF LockInv, Scans, Asking, PlaceInv, InPlace, Actors
<1>9. \A a \in Actors : call[a].at \in Executing => call[a].job \in Jobs \ {j}
  BY <1>1 DEF InFlight, Executing, PlaceInv, InPlace
<1>10. OneExecutes'
  BY <1>6 DEF ExecInv, OneExecutes
<1>11. AskedIsQueued'
  BY <1>3, <1>6, <1>8 DEF ExecInv, AskedIsQueued, Candidate
<1>12. QueuedInv'
  BY <1>1, <1>3, <1>5, <1>7 DEF ExecInv, QueuedInv, q
<1>13. StatusInv'
  BY <1>3, <1>6, <1>9 DEF ExecInv, StatusInv, Ended, Executing
<1>14. QED
  BY <1>10, <1>11, <1>12, <1>13 DEF ExecInv

LEMMA ExecDequeue ==
  ASSUME Typed, PlaceInv, LockInv, ExecInv, NEW u \in Users, NEW op \in Operations, Dequeue(u, op)
  PROVE  ExecInv'
<1> DEFINE j == op.on[1]
           q == Home[j]
<1>1. /\ j \in Jobs /\ q \in Queues /\ lock[q] = Nobody
      /\ status' = [status EXCEPT ![j] = "New"] /\ call' = call
  BY OperationsAssumption, SharingAssumption DEF Dequeue, MayCall
<1>2. PICK i \in DOMAIN queue[q] :
        queue[q][i] = j /\ queue' = [queue EXCEPT ![q] = RemoveAt(@, i)]
  BY DEF Dequeue
<1> HIDE DEF j
<1>3. /\ queue'[q] = RemoveAt(queue[q], i) /\ \A p \in Queues : p # q => queue'[p] = queue[p]
      /\ status'[j] = "New" /\ \A k \in Jobs : k # j => status'[k] = status[k]
  BY <1>1, <1>2 DEF Typed
<1> HIDE DEF q
<1>4. queue[q] \in Seq(Jobs) /\ i \in 1..Len(queue[q])
  BY <1>1, <1>2 DEF Typed
<1>5. Distinct(queue'[q]) /\ \A k : Occurs(queue'[q], k) <=> Occurs(queue[q], k) /\ k # j
  BY <1>1, <1>2, <1>3, <1>4, RemoveAtOccurs DEF ExecInv, QueuedInv
<1>6. Occurs(queue[q], j) /\ ~ InFlight(j) /\ \A p \in Queues : Occurs(queue[p], j) => p = q
  BY <1>1, <1>2 DEF Occurs, ExecInv, QueuedInv
<1>7. \A k : InFlight(k)' <=> InFlight(k)
  BY <1>1 DEF InFlight
<1>8. \A a \in Actors : call[a].at \in Asking => a \in Threads /\ QueueOf[a] \in Queues \ {q}
  BY <1>1, SharingAssumption DEF LockInv, Scans, Asking, PlaceInv, InPlace, Actors
<1>9. \A a \in Actors : call[a].at \in Executing => call[a].job \in Jobs \ {j}
  BY <1>6 DEF InFlight, Executing, PlaceInv, InPlace
<1>10. OneExecutes'
  BY <1>1 DEF ExecInv, OneExecutes
<1>11. AskedIsQueued'
  BY <1>1, <1>3, <1>8 DEF ExecInv, AskedIsQueued, Candidate
<1>12. QueuedInv'
  BY <1>1, <1>3, <1>5, <1>6, <1>7 DEF ExecInv, QueuedInv
<1>13. StatusInv'
  BY <1>1, <1>3, <1>9 DEF ExecInv, StatusInv, Ended, Executing
<1>14. QED
  BY <1>10, <1>11, <1>12, <1>13 DEF ExecInv

LEMMA ExecBlocking ==
  ASSUME Typed, PlaceInv, ExecInv, NEW u \in Users, NEW op \in Operations, BlockingExecute(u, op)
  PROVE  ExecInv'
<1> DEFINE j == op.on[1]
<1>1. j \in Jobs /\ Moves(u, "begin", j, 0, 1, <<>>)
  BY CallMoves
<1>2. status[j] = "New" /\ ~ InFlight(j) /\ queue' = queue /\ status' = status /\ u \in Actors
  BY ActorsDiffer DEF BlockingExecute, queueVars, jobVars
<1> HIDE DEF j
<1>3. ASSUME NEW b \in Actors, call[b].at \in Asking PROVE call[b].job # j
  <2>1. b \in Threads /\ call[b].cursor <= Len(queue[QueueOf[b]]) /\ Candidate(b) = call[b].job
    BY <1>3 DEF ExecInv, AskedIsQueued, PlaceInv, InPlace, Actors
  <2>2. status[call[b].job] = "Queued"
    BY <1>3, <2>1, CandidateIsQueued DEF ExecInv
  <2>3. QED
    BY <1>2, <2>2
<1>4. \A i : InFlight(i)' => InFlight(i) \/ i = j
  BY <1>1 DEF InFlight, Moves
<1>5. OneExecutes'
  BY <1>1, <1>2, <1>3 DEF ExecInv, OneExecutes, Moves, InFlight, Executing, Asking
<1>6. AskedIsQueued'
  BY <1>1, <1>2 DEF ExecInv, AskedIsQueued, Moves, Candidate, Asking
<1>7. QueuedInv'
  BY <1>2, <1>4 DEF ExecInv, QueuedInv
<1>8. StatusInv'
  BY <1>1, <1>2 DEF ExecInv, StatusInv, Moves, Ended
<1>9. QED
  BY <1>5, <1>6, <1>7, <1>8 DEF ExecInv

LEMMA ExecThread ==
  ASSUME Typed, PlaceInv, LockInv, ExecInv, NEW t \in Threads,
         Apply(t) \/ LockCandidate(t) \/ Sleep(t) \/ Ask(t) \/ HandOut(t) \/ GiveBack(t)
  PROVE  ExecInv'
<1>0. t \in Actors
  BY ActorsDiffer
<1> USE DEF Asking, Executing, Ended
<1>1. CASE Apply(t)
  <2>1. Moves(t, "candidate", NoJob, 1, 1, <<>>) /\ UNCHANGED <<queue, status>>
    BY <1>1, ScanMoves DEF Apply, jobVars
  <2>2. QED
    BY <2>1, ExecFrame DEF Moves
<1>2. CASE Sleep(t)
  <2>1. Moves(t, "asleep", NoJob, 0, 1, <<>>) /\ UNCHANGED <<queue, status>>
    BY <1>2, ScanMoves DEF Sleep, jobVars
  <2>2. QED
    BY <2>1, ExecFrame DEF Moves
<1>3. CASE Ask(t)
  <2> DEFINE w == Append(call[t].with, policies[call[t].job][call[t].k])
  <2>1. \/ Moves(t, "asking", call[t].job, call[t].cursor, call[t].k + 1, w)
        \/ Moves(t, "releasing", call[t].job, call[t].cursor, 1, call[t].with)
    BY <1>3, ScanMoves
  <2>2. UNCHANGED <<queue, status>> /\ call[t].at = "asking"
    BY <1>3 DEF Ask, Is, queueVars, jobVars
  <2> HIDE DEF w
  <2>3. QED
    BY <2>1, <2>2, ExecFrame DEF Moves
<1>4. CASE GiveBack(t)
  <2>1. \/ Moves(t, "releasing", call[t].job, call[t].cursor, call[t].k + 1, call[t].with)
        \/ Moves(t, "candidate", NoJob, call[t].cursor + 1, 1, <<>>)
    BY <1>4, ScanMoves
  <2>2. UNCHANGED <<queue, status>> /\ call[t].at = "releasing"
    BY <1>4 DEF GiveBack, Is, queueVars, jobVars
  <2>3. QED
    BY <2>1, <2>2, ExecFrame DEF Moves
<1>5. QED
  BY <1>1, <1>2, <1>3, <1>4, ExecLockCandidate, ExecHandOut

LEMMA ExecExecute ==
  ASSUME Typed, PlaceInv, ExecInv, NEW a \in Actors, Execute(a)
  PROVE  ExecInv'
<1>1. CASE Begin(a) \/ Run(a)
  BY <1>1, ExecStatus
<1>2. CASE CopyHandlers(a) \/ Handle(a) \/ Free(a) \/ Freed(a) \/ Leave(a)
  <2>1. UNCHANGED <<queue, status>> /\ call[a].at \in Ended
    BY <1>2 DEF CopyHandlers, Handle, Free, Freed, Leave, Is, queueVars, jobVars, Ended
  <2>2. \/ /\ call'[a].at \in Ended /\ call'[a].job = call[a].job
           /\ call'[a].cursor = call[a].cursor
        \/ call'[a].at \in {"reporting", "ready"}
    BY <1>2, ExecuteMoves DEF Moves, Ended
  <2>3. \A b \in Actors : b # a => call'[b] = call[b]
    BY ExecuteAway
  <2>4. QED
    BY <2>1, <2>2, <2>3, ExecFrame DEF Asking, Executing, Ended
<1>3. QED
  BY <1>1, <1>2 DEF Execute

LEMMA ExecUser ==
  ASSUME Typed, PlaceInv, LockInv, ExecInv, NEW u \in Users,
         (CallStep(u) /\ ~ Execute(u)) \/ ApiCall(u)
  PROVE  ExecInv'
<1>w. ASSUME Woken, UNCHANGED <<queue, status>> PROVE ExecInv'
  BY <1>w, ExecFrame DEF Woken, Asking, Executing, Ended
<1>m. ASSUME NEW at \in {"ready", "adding", "finishing"}, NEW c, NEW k, NEW w,
             Moves(u, at, NoJob, c, k, w), UNCHANGED <<queue, status>>
      PROVE  ExecInv'
  BY <1>m, ExecFrame DEF Moves, Asking, Executing, Ended
<1>1. CASE InsertDependency(u) \/ FinishReturn(u)
  <2>1. Moves(u, "ready", NoJob, 0, 1, <<>>)
    BY <1>1, CallMoves
  <2>2. QED
    BY <1>1, <1>m, <2>1 DEF InsertDependency, FinishReturn, queueVars, jobVars
<1>2. CASE FinishTimeout(u)
  BY <1>2, <1>w, CallMoves DEF FinishTimeout, queueVars, jobVars
<1>3. ASSUME NEW op \in Operations, AddDependency(u, op) PROVE ExecInv'
  <2>1. PICK c \in Nat, k \in Nat : Moves(u, "adding", NoJob, c, k, op.on)
    BY <1>3, CallMoves
  <2>2. QED
    BY <1>3, <1>m, <2>1 DEF AddDependency, queueVars, jobVars
<1>4. ASSUME NEW op \in Operations, Finish(u, op) PROVE ExecInv'
  <2>1. PICK c \in Nat, k \in Nat : Moves(u, "finishing", NoJob, c, k, op.on)
    BY <1>4, CallMoves
  <2>2. QED
    BY <1>4, <1>m, <2>1 DEF Finish, queueVars, jobVars
<1>5. ASSUME NEW op \in Operations,
             RemoveDependency(u, op) \/ SetCap(u, op) \/ ChangePolicies(u, op)
               \/ OnFinish(u, op) \/ Delete(u, op)
      PROVE  ExecInv'
  <2>1. UNCHANGED <<call, queue, status>>
    BY <1>5 DEF RemoveDependency, SetCap, ChangePolicies, OnFinish, Delete, queueVars, jobVars
  <2>2. QED
    BY <2>1, ExecFrame
<1>6. QED
  BY <1>1, <1>2, <1>3, <1>4, <1>5, ExecEnqueue, ExecDequeue, ExecBlocking DEF CallStep, ApiCall

-------------------------------------------------------------------------------
(* Deleted jobs *)

LEMMA DeletedFrame ==
  ASSUME DeletedInv, deleted' = deleted,
         \A q \in Queues : \A j \in deleted : Occurs(queue'[q], j) => Occurs(queue[q], j),
         \A a \in Actors :
           /\ call'[a].at \in Executing =>
                \/ call[a].at \in Executing /\ call'[a].job = call[a].job
                \/ call'[a].job \notin deleted
           /\ call'[a].at = "adding" =>
                \/ call[a].at = "adding" /\ call'[a].with = call[a].with
                \/ call'[a].with[1] \notin deleted /\ call'[a].with[2] \notin deleted
  PROVE  DeletedInv'
BY DEF DeletedInv

LEMMA DeletedThread ==
  ASSUME Typed, PlaceInv, ExecInv, DeletedInv, NEW t \in Threads,
         Apply(t) \/ LockCandidate(t) \/ Sleep(t) \/ Ask(t) \/ HandOut(t) \/ GiveBack(t)
  PROVE  DeletedInv'
<1>0. t \in Actors
  BY ActorsDiffer
<1>1. CASE HandOut(t)
  <2> DEFINE j == call[t].job
             q == QueueOf[t]
  <2>1. /\ call[t].at = "asking" /\ call[t].cursor <= Len(queue[q])
        /\ Candidate(t) = j /\ deleted' = deleted
        /\ queue' = [queue EXCEPT ![q] = RemoveAt(@, call[t].cursor)]
    BY <1>0, <1>1 DEF HandOut, Is, jobVars, ExecInv, AskedIsQueued, Asking
  <2>2. /\ q \in Queues /\ call[t].cursor \in 1..Len(queue[q]) /\ Occurs(queue[q], j)
    BY <2>1, CandidateIsQueued DEF ExecInv, Asking
  <2>3. j \notin deleted
    BY <2>2 DEF DeletedInv
  <2>4. \A i : Occurs(RemoveAt(queue[q], call[t].cursor), i) => Occurs(queue[q], i)
    BY <2>2, RemoveAtOccurs DEF ExecInv, QueuedInv, Typed
  <2>5. \A p \in Queues : \A i : Occurs(queue'[p], i) => Occurs(queue[p], i)
    BY <2>1, <2>2, <2>4 DEF Typed
  <2>6. Moves(t, "begin", j, call[t].cursor, 1, call[t].with)
    BY <1>1, ScanMoves
  <2> HIDE DEF j, q
  <2>7. QED
    BY <2>1, <2>3, <2>5, <2>6, DeletedFrame DEF Moves
<1>2. CASE Apply(t) \/ LockCandidate(t) \/ Sleep(t) \/ Ask(t) \/ GiveBack(t)
  <2>1. queue' = queue /\ deleted' = deleted
    BY <1>2 DEF Apply, LockCandidate, Sleep, Ask, GiveBack, queueVars, jobVars
  <2>2. call'[t].at \in {"candidate", "asleep"} \cup Asking
        /\ \A b \in Actors : b # t => call'[b] = call[b]
    BY <1>2, ScanMoves DEF Moves, Asking
  <2>3. QED
    BY <2>1, <2>2, DeletedFrame DEF Asking, Executing
<1>3. QED
  BY <1>1, <1>2

LEMMA DeletedExecute ==
  ASSUME Typed, PlaceInv, DeletedInv, NEW a \in Actors, Execute(a)
  PROVE  DeletedInv'
<1>1. call[a].at \in Executing /\ UNCHANGED <<queue, deleted>>
      /\ \A b \in Actors : b # a => call'[b] = call[b]
  BY ExecuteAway
<1>2. call'[a].job = call[a].job \/ call'[a].at \in {"reporting", "ready"}
  BY ExecuteMoves DEF Execute, Moves
<1>3. call'[a].at # "adding"
  BY ExecuteAway DEF Executing
<1>4. QED
  BY <1>1, <1>2, <1>3, DeletedFrame DEF Executing

LEMMA DeletedUser ==
  ASSUME Typed, PlaceInv, ExecInv, DeletedInv, NEW u \in Users,
         (CallStep(u) /\ ~ Execute(u)) \/ ApiCall(u)
  PROVE  DeletedInv'
<1>w. ASSUME Woken, UNCHANGED <<queue, deleted>> PROVE DeletedInv'
  BY <1>w, DeletedFrame DEF Woken, Executing
<1>m. ASSUME NEW at \in {"ready", "finishing"}, NEW c, NEW k, NEW w,
             Moves(u, at, NoJob, c, k, w), UNCHANGED <<queue, deleted>>
      PROVE  DeletedInv'
  BY <1>m, DeletedFrame DEF Moves, Executing
<1>1. CASE InsertDependency(u) \/ FinishReturn(u)
  <2>1. Moves(u, "ready", NoJob, 0, 1, <<>>)
    BY <1>1, CallMoves
  <2>2. QED
    BY <1>1, <1>m, <2>1 DEF InsertDependency, FinishReturn, queueVars, jobVars
<1>2. CASE FinishTimeout(u)
  BY <1>2, <1>w, CallMoves DEF FinishTimeout, queueVars, jobVars
<1>3. ASSUME NEW op \in Operations, AddDependency(u, op) PROVE DeletedInv'
  <2>1. PICK c \in Nat, k \in Nat : Moves(u, "adding", NoJob, c, k, op.on)
    BY <1>3, CallMoves
  <2>2. op.on[1] \notin deleted /\ op.on[2] \notin deleted /\ UNCHANGED <<queue, deleted>>
    BY <1>3 DEF AddDependency, Alive, queueVars, jobVars
  <2>3. QED
    BY <2>1, <2>2, DeletedFrame DEF Moves, Executing
<1>4. ASSUME NEW op \in Operations, Finish(u, op) PROVE DeletedInv'
  <2>1. PICK c \in Nat, k \in Nat : Moves(u, "finishing", NoJob, c, k, op.on)
    BY <1>4, CallMoves
  <2>2. QED
    BY <1>4, <1>m, <2>1 DEF Finish, queueVars, jobVars
<1>5. ASSUME NEW op \in Operations, BlockingExecute(u, op) PROVE DeletedInv'
  <2>1. Moves(u, "begin", op.on[1], 0, 1, <<>>)
    BY <1>5, CallMoves
  <2>2. op.on[1] \notin deleted /\ UNCHANGED <<queue, deleted>>
    BY <1>5 DEF BlockingExecute, Alive, queueVars, jobVars
  <2>3. QED
    BY <2>1, <2>2, DeletedFrame DEF Moves, Executing
<1>6. ASSUME NEW op \in Operations, RemoveDependency(u, op) \/ SetCap(u, op)
                                    \/ ChangePolicies(u, op) \/ OnFinish(u, op)
      PROVE  DeletedInv'
  <2>1. UNCHANGED <<call, queue, deleted>>
    BY <1>6 DEF RemoveDependency, SetCap, ChangePolicies, OnFinish, queueVars, jobVars
  <2>2. QED
    BY <2>1, DeletedFrame
<1>7. ASSUME NEW op \in Operations, Enqueue(u, op) PROVE DeletedInv'
  <2> DEFINE j == op.on[1]
             q == Home[j]
  <2>1. /\ j \in Jobs /\ q \in Queues /\ j \notin deleted /\ deleted' = deleted
        /\ queue' = [queue EXCEPT ![q] = Append(@, j)]
    BY <1>7, OperationsAssumption, SharingAssumption DEF Enqueue, MayCall, Alive
  <2> HIDE DEF j
  <2>2. \A i : Occurs(Append(queue[q], j), i) <=> i = j \/ Occurs(queue[q], i)
    BY <2>1, AppendOccurs DEF Typed
  <2> HIDE DEF q
  <2>3. \A p \in Queues : \A i \in deleted : Occurs(queue'[p], i) => Occurs(queue[p], i)
    BY <2>1, <2>2 DEF Typed
  <2>4. Woken
    BY <1>7, CallMoves
  <2>5. QED
    BY <2>1, <2>3, <2>4, DeletedFrame DEF Woken, Executing
<1>8. ASSUME NEW op \in Operations, Dequeue(u, op) PROVE DeletedInv'
  <2> DEFINE q == Home[op.on[1]]
  <2>1. /\ q \in Queues /\ UNCHANGED <<call, deleted>>
    BY <1>8, OperationsAssumption, SharingAssumption DEF Dequeue, MayCall
  <2>2. PICK i \in DOMAIN queue[q] : queue' = [queue EXCEPT ![q] = RemoveAt(@, i)]
    BY <1>8 DEF Dequeue
  <2> HIDE DEF q
  <2>3. queue[q] \in Seq(Jobs) /\ i \in 1..Len(queue[q]) /\ Distinct(queue[q])
    BY <2>1, <2>2 DEF ExecInv, QueuedInv, Typed
  <2>4. \A k : Occurs(RemoveAt(queue[q], i), k) => Occurs(queue[q], k)
    BY <2>3, RemoveAtOccurs
  <2>5. \A p \in Queues : \A k \in deleted : Occurs(queue'[p], k) => Occurs(queue[p], k)
    BY <2>1, <2>2, <2>4 DEF Typed
  <2>6. QED
    BY <2>1, <2>5, DeletedFrame
<1>9. ASSUME NEW op \in Operations, Delete(u, op) PROVE DeletedInv'
  <2> DEFINE j == op.on[1]
  <2>1. /\ j \in Jobs /\ ~ InFlight(j) /\ status[j] # "Queued"
        /\ deleted' = deleted \cup {j} /\ UNCHANGED <<call, queue>>
        /\ \A v \in Users : j \notin ToSet(call[v].with)
    BY <1>9, OperationsAssumption DEF Delete, MayCall, queueVars
  <2>2. \A q \in Queues : ~ Occurs(queue[q], j)
    BY <2>1 DEF ExecInv, QueuedInv
  <2>3. \A a \in Actors : call[a].at \in Executing => call[a].job # j
    BY <2>1 DEF InFlight, Executing
  <2>4. ASSUME NEW a \in Actors, call[a].at = "adding"
        PROVE  call[a].with[1] # j /\ call[a].with[2] # j
    <3>1. a \in Users /\ call[a].with \in Jobs \X Jobs
      BY <2>4, OperationsAssumption DEF PlaceInv, InPlace, Actors
    <3>2. call[a].with[1] \in ToSet(call[a].with) /\ call[a].with[2] \in ToSet(call[a].with)
      BY <3>1 DEF ToSet
    <3>3. QED
      BY <2>1, <3>1, <3>2
  <2> HIDE DEF j
  <2>5. QED
    BY <2>1, <2>2, <2>3, <2>4 DEF DeletedInv
<1>10. QED
  BY <1>1, <1>2, <1>3, <1>4, <1>5, <1>6, <1>7, <1>8, <1>9 DEF CallStep, ApiCall

-------------------------------------------------------------------------------
(* What the policies have said *)

LEMMA AgreedMoves ==
  ASSUME AgreedInv, policies' = policies, NEW a \in Actors, Agreed(a)',
         \A b \in Actors : b # a => call'[b] = call[b]
  PROVE  AgreedInv'
<1>1. \A b \in Actors : b # a => Agreed(b)'
  BY SMTT(30) DEF AgreedInv, Agreed
<1>2. QED
  BY <1>1 DEF AgreedInv, Agreed

(* What the policies of a job are changed to while it is asked or executed.*)
LEMMA AgreedChange ==
  ASSUME AgreedInv, \A j \in Jobs : Distinct(policies'[j]),
         \A a \in Actors :
           /\ call'[a] = call[a] \/ call'[a].at \notin Asking \cup Executing
           /\ call[a].at \in Asking => policies'[call[a].job] = policies[call[a].job]
           /\ call[a].at \in Executing =>
                /\ Len(policies[call[a].job]) \in Nat /\ call[a].k \in Nat
                /\ Len(policies'[call[a].job]) \in Nat
                /\ Len(policies[call[a].job]) <= Len(policies'[call[a].job])
                /\ \A p : Occurs(policies[call[a].job], p) => Occurs(policies'[call[a].job], p)
  PROVE  AgreedInv'
<1>1. ASSUME NEW a \in Actors, call'[a] = call[a], call[a].at \in Asking PROVE Agreed(a)'
  BY <1>1 DEF AgreedInv, Agreed, Asking, Executing
<1>2. ASSUME NEW a \in Actors, call'[a] = call[a], call[a].at \in Executing PROVE Agreed(a)'
  <2>1. /\ call[a].at = "freeing" => call[a].k <= Len(policies'[call[a].job]) + 1
        /\ call[a].at \notin Asking
    BY <1>2, SMTT(30) DEF AgreedInv, Agreed, Asking, Executing
  <2>2. call[a].at # "leaving" =>
          \A p \in Policy : Occurs(call[a].with, p) => Occurs(policies'[call[a].job], p)
    BY <1>2 DEF AgreedInv, Agreed
  <2>3. QED
    BY <1>2, <2>1, <2>2 DEF Agreed, Asking
<1>3. ASSUME NEW a \in Actors, call'[a].at \notin Asking \cup Executing PROVE Agreed(a)'
  BY <1>3 DEF Agreed, Asking, Executing
<1>4. \A a \in Actors : Agreed(a)'
  BY <1>1, <1>2, <1>3
<1>5. QED
  BY <1>4 DEF AgreedInv, Agreed

LEMMA AgreedFrame ==
  ASSUME AgreedInv, policies' = policies,
         \A a \in Actors : call'[a] = call[a] \/ call'[a].at \notin Asking \cup Executing
  PROVE  AgreedInv'
<1>1. \A a \in Actors : Agreed(a)'
  BY DEF AgreedInv, Agreed, Asking, Executing
<1>2. QED
  BY <1>1 DEF AgreedInv, Agreed

(* The first policies of a list without duplicates are without duplicates. *)
LEMMA AskedPrefix ==
  ASSUME Typed, PlaceInv, AgreedInv, NEW t \in Threads, call[t].at = "asking"
  PROVE  /\ call[t].job \in Jobs /\ call[t].with \in Seq(Policy)
         /\ policies[call[t].job] \in Seq(Policy) /\ Distinct(policies[call[t].job])
         /\ call[t].k \in Nat /\ Len(call[t].with) = call[t].k - 1
         /\ Distinct(call[t].with)
         /\ \A p : Occurs(call[t].with, p) => Occurs(policies[call[t].job], p)
         /\ call[t].k > Len(policies[call[t].job]) => call[t].with = policies[call[t].job]
<1> DEFINE w == call[t].with
           ps == policies[call[t].job]
           k == call[t].k
<1>1. t \in Actors /\ call[t].job \in Jobs /\ w \in Seq(Policy) /\ k \in Nat
  BY ActorsDiffer DEF Typed, PlaceInv, InPlace, Call, Asking
<1>2. ps \in Seq(Policy) /\ Distinct(ps)
  BY <1>1 DEF Typed, AgreedInv
<1>3. Len(w) = k - 1 /\ k - 1 <= Len(ps) /\ \A i \in DOMAIN w : w[i] = ps[i]
  BY <1>1 DEF AgreedInv, Agreed
<1> HIDE DEF w, ps, k
<1>4. DOMAIN w = 1..Len(w) /\ DOMAIN ps = 1..Len(ps) /\ Len(w) \in Nat /\ Len(ps) \in Nat
  BY <1>1, <1>2
<1>5. \A i \in DOMAIN w : i \in DOMAIN ps
  BY <1>1, <1>3, <1>4
<1>6. Distinct(w)
  BY <1>2, <1>3, <1>5 DEF Distinct
<1>7. \A p : Occurs(w, p) => Occurs(ps, p)
  BY <1>3, <1>5 DEF Occurs
<1>8. k > Len(ps) => w = ps
  <2>1. SUFFICES ASSUME k > Len(ps) PROVE w = ps
    OBVIOUS
  <2>2. Len(w) = Len(ps)
    BY <1>1, <1>3, <1>4, <2>1
  <2>3. QED
    BY <1>1, <1>2, <1>3, <1>4, <2>2, SeqEqual
<1>9. QED
  BY <1>1, <1>2, <1>3, <1>6, <1>7, <1>8 DEF w, ps, k

LEMMA AgreedScan ==
  ASSUME Typed, PlaceInv, ExecInv, AgreedInv, NEW t \in Threads,
         Apply(t) \/ LockCandidate(t) \/ Sleep(t) \/ Ask(t) \/ HandOut(t) \/ GiveBack(t)
  PROVE  AgreedInv'
<1>0. t \in Actors /\ policies' = policies
  BY ActorsDiffer DEF Apply, LockCandidate, Sleep, Ask, HandOut, GiveBack, policyVars
<1>1. CASE Apply(t) \/ Sleep(t)
  <2>1. /\ call'[t].at \in {"candidate", "asleep"}
        /\ \A b \in Actors : b # t => call'[b] = call[b]
    BY <1>1, ScanMoves DEF Moves
  <2>2. QED
    BY <1>0, <2>1, AgreedFrame DEF Asking, Executing
<1>2. CASE LockCandidate(t)
  <2> DEFINE j == Candidate(t)
  <2>1. j \in Jobs /\ Moves(t, "asking", j, call[t].cursor, 1, <<>>)
    BY <1>2, ScanMoves
  <2> HIDE DEF j
  <2>2. Len(policies[j]) \in Nat
    BY <2>1 DEF Typed
  <2>3. Agreed(t)'
    BY <1>0, <2>1, <2>2 DEF Agreed, Moves, Executing
  <2>4. QED
    BY <1>0, <2>1, <2>3, AgreedMoves DEF Moves
<1>3. CASE Ask(t)
  <2> DEFINE ps == policies[call[t].job]
             p == ps[call[t].k]
             w == Append(call[t].with, p)
  <2>1. /\ p \in Policy
        /\ \/ Moves(t, "asking", call[t].job, call[t].cursor, call[t].k + 1, w)
           \/ Moves(t, "releasing", call[t].job, call[t].cursor, 1, call[t].with)
    BY <1>3, ScanMoves
  <2>2. call[t].at = "asking" /\ call[t].k <= Len(ps)
    BY <1>3 DEF Ask, Is
  <2>3. /\ call[t].with \in Seq(Policy) /\ call[t].k \in Nat /\ Len(call[t].with) = call[t].k - 1
        /\ Distinct(call[t].with) /\ ps \in Seq(Policy)
    BY <2>2, AskedPrefix
  <2>4. \A i \in DOMAIN call[t].with : call[t].with[i] = ps[i]
    BY <1>0, <2>2 DEF AgreedInv, Agreed
  <2>5. Len(w) = call[t].k /\ \A i \in DOMAIN w : w[i] = ps[i]
    <3>1. /\ Len(w) = Len(call[t].with) + 1 /\ w[Len(call[t].with) + 1] = p /\ w \in Seq(Policy)
          /\ \A i \in 1..Len(call[t].with) : w[i] = call[t].with[i]
      BY <2>1, <2>3, AppendProperties
    <3> HIDE DEF w
    <3>2. DOMAIN w = 1..Len(w) /\ DOMAIN call[t].with = 1..Len(call[t].with)
      BY <2>3, <3>1
    <3>3. QED
      BY <2>3, <2>4, <3>1, <3>2
  <2>6. Len(ps) \in Nat
    BY <2>3
  <2>7. ps = policies[call[t].job]
    OBVIOUS
  <2> HIDE DEF ps, p, w
  <2>8. Agreed(t)'
    <3>1. CASE Moves(t, "asking", call[t].job, call[t].cursor, call[t].k + 1, w)
      BY <1>0, <2>2, <2>3, <2>5, <2>6, <2>7, <3>1 DEF Agreed, Moves, Executing
    <3>2. CASE Moves(t, "releasing", call[t].job, call[t].cursor, 1, call[t].with)
      BY <1>0, <2>3, <3>2 DEF Agreed, Moves, Executing
    <3>3. QED
      BY <2>1, <3>1, <3>2
  <2>9. QED
    BY <1>0, <2>1, <2>8, AgreedMoves DEF Moves
<1>4. CASE HandOut(t)
  <2>1. Moves(t, "begin", call[t].job, call[t].cursor, 1, call[t].with) /\ call[t].at = "asking"
    BY <1>4, ScanMoves DEF HandOut, Is
  <2>2. \A p : Occurs(call[t].with, p) => Occurs(policies[call[t].job], p)
    BY <2>1, AskedPrefix
  <2>3. Agreed(t)'
    BY <1>0, <2>1, <2>2 DEF Agreed, Moves
  <2>4. QED
    BY <1>0, <2>1, <2>3, AgreedMoves DEF Moves
<1>5. CASE GiveBack(t)
  <2>1. /\ call[t].at = "releasing"
        /\ \/ Moves(t, "releasing", call[t].job, call[t].cursor, call[t].k + 1, call[t].with)
           \/ Moves(t, "candidate", NoJob, call[t].cursor + 1, 1, <<>>)
    BY <1>5, ScanMoves DEF GiveBack, Is
  <2>2. Distinct(call[t].with)
    BY <1>0, <2>1 DEF AgreedInv, Agreed
  <2>3. Agreed(t)'
    BY <1>0, <2>1, <2>2 DEF Agreed, Moves, Executing
  <2>4. QED
    BY <1>0, <2>1, <2>3, AgreedMoves DEF Moves
<1>6. QED
  BY <1>1, <1>2, <1>3, <1>4, <1>5

LEMMA AgreedExecute ==
  ASSUME Typed, PlaceInv, AgreedInv, NEW a \in Actors, Execute(a)
  PROVE  AgreedInv'
<1>1. /\ call[a].at \in Executing /\ policies' = policies
      /\ \A b \in Actors : b # a => call'[b] = call[b]
  BY ExecuteAway
<1>2. call[a].job \in Jobs /\ Len(policies[call[a].job]) \in Nat /\ call[a].k \in Nat
  BY <1>1 DEF Typed, PlaceInv, InPlace, Call
<1>3. CASE Leave(a)
  <2>1. call'[a].at \in {"reporting", "ready"}
    BY <1>3, ExecuteMoves DEF Moves
  <2>2. QED
    BY <1>1, <2>1, AgreedFrame DEF Asking, Executing
<1>4. CASE Freed(a)
  <2>1. call'[a].at = "leaving"
    BY <1>4, ExecuteMoves DEF Moves
  <2>2. Agreed(a)'
    BY <2>1 DEF Agreed
  <2>3. QED
    BY <1>1, <2>2, AgreedMoves
<1>5. CASE Begin(a) \/ Run(a) \/ CopyHandlers(a) \/ Handle(a) \/ Free(a)
  <2>1. /\ call[a].at # "leaving" /\ call'[a].at \in Executing
        /\ call'[a].job = call[a].job /\ call'[a].with = call[a].with
        /\ call'[a].at = "freeing" => call'[a].k = 1 \/ (call'[a].k = call[a].k + 1 /\ Free(a))
    <3>1. Handle(a) => ~ call'[a].at = "freeing" \/ call'[a].k = 1
      BY ExecuteMoves DEF Moves
    <3>2. QED
      BY <1>5, <3>1, ExecuteMoves
         DEF Moves, Begin, Run, CopyHandlers, Handle, Free, Is, Executing
  <2>2. Free(a) => call[a].k <= Len(policies[call[a].job])
    BY DEF Free
  <2>3. Agreed(a)'
    BY <1>1, <1>2, <2>1, <2>2 DEF Agreed, AgreedInv, Executing
  <2>4. QED
    BY <1>1, <2>3, AgreedMoves
<1>6. QED
  BY <1>3, <1>4, <1>5 DEF Execute

LEMMA AgreedUser ==
  ASSUME Typed, PlaceInv, LockInv, AgreedInv, NEW u \in Users,
         (CallStep(u) /\ ~ Execute(u)) \/ ApiCall(u)
  PROVE  AgreedInv'
<1>0. u \in Actors /\ Nobody \notin Actors
  BY ActorsDiffer, SharingAssumption
<1>w. ASSUME Woken, policies' = policies PROVE AgreedInv'
  BY <1>w, AgreedFrame DEF Woken, Asking, Executing
<1>a. ASSUME NEW a \in Actors, call[a].at \in Asking PROVE mutex[call[a].job] = a
  BY <1>a DEF LockInv, Locks, PlaceInv, InPlace
<1>e. ASSUME NEW a \in Actors, call[a].at \in Asking \cup Executing
      PROVE  call[a].job \in Jobs /\ call[a].k \in Nat /\ Len(policies[call[a].job]) \in Nat
  BY <1>e DEF PlaceInv, InPlace, Typed, Call
<1>1. CASE InsertDependency(u)
  <2> DEFINE a == call[u].with[1]
             b == call[u].with[2]
             dp == DependencyPolicy
  <2>1. Moves(u, "ready", NoJob, 0, 1, <<>>) /\ call[u].at = "adding"
    BY <1>1, CallMoves DEF InsertDependency, Is
  <2>2. a \in Jobs /\ b \in Jobs /\ a # b
    BY <1>0, <2>1, OperationsAssumption DEF PlaceInv, InPlace
  <2>3. mutex[a] = u /\ mutex[b] = Nobody
    BY <1>0, <1>1, <2>1, <2>2 DEF LockInv, Locks, InsertDependency
  <2>4. policies' = [policies EXCEPT ![a] = Assigned(@, dp), ![b] = Assigned(@, dp)]
    BY <1>1 DEF InsertDependency
  <2> HIDE DEF a, b
  <2>5. ASSUME NEW j \in Jobs
        PROVE  /\ Len(policies[j]) \in Nat /\ Len(policies'[j]) \in Nat
               /\ Len(policies[j]) <= Len(policies'[j]) /\ Distinct(policies'[j])
               /\ \A p : Occurs(policies[j], p) => Occurs(policies'[j], p)
               /\ j \notin {a, b} => policies'[j] = policies[j]
    <3>1. /\ policies'[j] = policies[j] \/ policies'[j] = Assigned(policies[j], dp)
          /\ j \notin {a, b} => policies'[j] = policies[j]
      BY <2>2, <2>4 DEF Typed
    <3>2. policies[j] \in Seq(Policy) /\ Distinct(policies[j]) /\ dp \in Policy
      BY DEF Typed, AgreedInv, Policy
    <3> DEFINE s == policies[j]
               r == Assigned(s, dp)
    <3>3. /\ Len(s) \in Nat /\ Len(r) \in Nat /\ Len(s) <= Len(r) /\ Distinct(r)
          /\ \A p : Occurs(s, p) => Occurs(r, p)
      <4> HIDE DEF dp, s
      <4>1. s \in Seq(Policy) /\ Distinct(s) /\ dp \in Policy
        BY <3>2 DEF s
      <4>2. r \in Seq(Policy)
        BY <4>1, AssignedProperties
      <4>3. QED
        BY <4>1, <4>2, AssignedProperties
    <3>4. policies'[j] = s \/ policies'[j] = r
      BY <3>1
    <3> HIDE DEF r, s
    <3>5. /\ Len(policies'[j]) \in Nat /\ Len(s) <= Len(policies'[j]) /\ Distinct(policies'[j])
          /\ \A p : Occurs(s, p) => Occurs(policies'[j], p)
      BY <3>2, <3>3, <3>4 DEF s
    <3>6. QED
      BY <3>1, <3>3, <3>5 DEF s
  <2>6. \A x \in Actors : call[x].at \in Asking => call[x].job \notin {a, b}
    BY <1>0, <1>a, <2>1, <2>3 DEF Asking
  <2>7. \A x \in Actors : call'[x] = call[x] \/ call'[x].at \notin Asking \cup Executing
    BY <2>1 DEF Moves, Asking, Executing
  <2>8. QED
    BY <1>e, <2>5, <2>6, <2>7, AgreedChange
<1>2. CASE FinishReturn(u)
  <2>1. Moves(u, "ready", NoJob, 0, 1, <<>>)
    BY <1>2, CallMoves
  <2>2. QED
    BY <1>2, <2>1, AgreedFrame DEF FinishReturn, Moves, policyVars, Asking, Executing
<1>3. CASE FinishTimeout(u)
  BY <1>3, <1>w, CallMoves DEF FinishTimeout, policyVars
<1>4. ASSUME NEW op \in Operations, Enqueue(u, op) PROVE AgreedInv'
  BY <1>4, <1>w, CallMoves DEF Enqueue, policyVars
<1>5. ASSUME NEW op \in Operations, BlockingExecute(u, op) PROVE AgreedInv'
  <2> DEFINE j == op.on[1]
  <2>1. Moves(u, "begin", j, 0, 1, <<>>) /\ policies' = policies
    BY <1>5, CallMoves DEF BlockingExecute, policyVars
  <2> HIDE DEF j
  <2>2. \A p : ~ Occurs(<<>>, p)
    BY DEF Occurs
  <2>3. Agreed(u)'
    BY <2>1, <2>2 DEF Agreed, Moves
  <2>4. QED
    BY <1>0, <2>1, <2>3, AgreedMoves DEF Moves
<1>6. ASSUME NEW op \in Operations, AddDependency(u, op) PROVE AgreedInv'
  <2>1. PICK c \in Nat, k \in Nat : Moves(u, "adding", NoJob, c, k, op.on)
    BY <1>6, CallMoves
  <2>2. QED
    BY <1>6, <2>1, AgreedFrame DEF AddDependency, Moves, policyVars, Asking, Executing
<1>7. ASSUME NEW op \in Operations, Finish(u, op) PROVE AgreedInv'
  <2>1. PICK c \in Nat, k \in Nat : Moves(u, "finishing", NoJob, c, k, op.on)
    BY <1>7, CallMoves
  <2>2. QED
    BY <1>7, <2>1, AgreedFrame DEF Finish, Moves, policyVars, Asking, Executing
<1>8. ASSUME NEW op \in Operations, ChangePolicies(u, op) PROVE AgreedInv'
  <2> DEFINE j == op.on[1]
  <2>1. /\ op.on \in Jobs \X Policy /\ mutex[j] = Nobody /\ call' = call
        /\ \/ policies' = [policies EXCEPT ![j] = Assigned(@, op.on[2])]
           \/ /\ policies' = [policies EXCEPT ![j] = WithoutPolicy(@, op.on[2])]
              /\ ~ InFlight(j)
    BY <1>8, OperationsAssumption DEF ChangePolicies, MayCall, Policy
  <2> DEFINE p == op.on[2]
  <2>2. j \in Jobs /\ p \in Policy /\ policies[j] \in Seq(Policy) /\ Distinct(policies[j])
    BY <2>1 DEF Typed, AgreedInv
  <2>3. \A i \in Jobs : i # j => policies'[i] = policies[i]
    BY <2>1 DEF Typed
  <2>4. \A x \in Actors : call[x].at \in Asking => call[x].job # j
    BY <1>0, <1>a, <2>1
  <2>5. CASE policies'[j] = Assigned(policies[j], p)
    <3> HIDE DEF j, p
    <3>1. /\ Distinct(policies'[j]) /\ Len(policies'[j]) \in Nat /\ Len(policies[j]) \in Nat
          /\ Len(policies[j]) <= Len(policies'[j])
          /\ \A r : Occurs(policies[j], r) => Occurs(policies'[j], r)
      BY <2>2, <2>5, AssignedProperties
    <3>2. \A i \in Jobs : Distinct(policies'[i])
      BY <2>3, <3>1 DEF AgreedInv
    <3>3. ASSUME NEW x \in Actors, call[x].at \in Executing
          PROVE  /\ Len(policies[call[x].job]) \in Nat /\ call[x].k \in Nat
                 /\ Len(policies'[call[x].job]) \in Nat
                 /\ Len(policies[call[x].job]) <= Len(policies'[call[x].job])
                 /\ \A r : Occurs(policies[call[x].job], r) => Occurs(policies'[call[x].job], r)
      BY <1>e, <2>3, <3>1, <3>3
    <3>4. QED
      BY <1>e, <2>1, <2>3, <2>4, <3>2, <3>3, AgreedChange
  <2>6. CASE policies'[j] = WithoutPolicy(policies[j], p) /\ ~ InFlight(j)
    <3> HIDE DEF j, p
    <3>1. Distinct(policies'[j])
      BY <2>2, <2>6, WithoutPolicyProperties
    <3>2. \A i \in Jobs : Distinct(policies'[i])
      BY <2>3, <3>1 DEF AgreedInv
    <3>3. \A x \in Actors : call[x].at \in Executing => call[x].job # j
      BY <2>6 DEF InFlight, Executing
    <3>4. \A x \in Actors : call[x].at \in Asking \cup Executing =>
            policies'[call[x].job] = policies[call[x].job]
      BY <1>e, <2>3, <2>4, <3>3
    <3>5. QED
      BY <1>e, <2>1, <3>2, <3>4, AgreedChange
  <2>7. QED
    BY <2>1, <2>2, <2>5, <2>6 DEF Typed
<1>9. ASSUME NEW op \in Operations,
             Dequeue(u, op) \/ RemoveDependency(u, op) \/ SetCap(u, op)
               \/ OnFinish(u, op) \/ Delete(u, op)
      PROVE  AgreedInv'
  <2>1. UNCHANGED <<call, policies>>
    BY <1>9 DEF Dequeue, RemoveDependency, SetCap, OnFinish, Delete, policyVars
  <2>2. QED
    BY <2>1, AgreedFrame
<1>10. QED
  BY <1>1, <1>2, <1>3, <1>4, <1>5, <1>6, <1>7, <1>8, <1>9 DEF CallStep, ApiCall

-------------------------------------------------------------------------------
(* The slots of the restrictions *)

LEMMA AheadProperties ==
  ASSUME NEW s \in Seq(Policy)
  PROVE  /\ \A p : p \in ToSet(s) <=> Occurs(s, p)
         /\ \A p : p \in Ahead(s, 1) <=> Occurs(s, p)
         /\ \A k \in Nat : k > Len(s) => Ahead(s, k) = {}
         /\ \A k \in 1..Len(s) : s[k] \in Ahead(s, k) /\
              (Distinct(s) => \A p : p \in Ahead(s, k + 1) <=> p \in Ahead(s, k) /\ p # s[k])
<1> DEFINE n == Len(s)
<1>1. n \in Nat /\ DOMAIN s = 1..n
  OBVIOUS
<1> HIDE DEF n
<1>2. \A p : p \in ToSet(s) <=> Occurs(s, p)
  BY DEF ToSet, Occurs
<1>3. \A k : Ahead(s, k) = {s[i] : i \in k..n}
  BY DEF Ahead, n
<1>4. \A p : p \in Ahead(s, 1) <=> Occurs(s, p)
  BY <1>1, <1>3 DEF Occurs
<1>5. \A k \in Nat : k > n => Ahead(s, k) = {}
  BY <1>1, <1>3
<1>6. ASSUME NEW k \in 1..n PROVE s[k] \in Ahead(s, k)
  BY <1>1, <1>3
<1>7. ASSUME NEW k \in 1..n, Distinct(s), NEW p
      PROVE  p \in Ahead(s, k + 1) <=> p \in Ahead(s, k) /\ p # s[k]
  <2>1. ASSUME NEW i \in k + 1..n PROVE i \in k..n /\ i \in 1..n /\ i # k
    BY <1>1
  <2>2. ASSUME NEW i \in k..n, i # k PROVE i \in k + 1..n
    BY <1>1, <2>2
  <2>3. \A i \in 1..n : i # k => s[i] # s[k]
    BY <1>1, <1>7 DEF Distinct
  <2>4. QED
    BY <1>3, <2>1, <2>2, <2>3
<1>8. QED
  BY <1>1, <1>2, <1>4, <1>5, <1>6, <1>7 DEF n

(* What is appended to a list is not one of those that it had.             *)
LEMMA AssignedAhead ==
  ASSUME NEW s \in Seq(Policy), NEW p \in Policy, NEW k \in 1..Len(s) + 1, NEW r, Occurs(s, r)
  PROVE  r \in Ahead(Assigned(s, p), k) <=> r \in Ahead(s, k)
<1>1. CASE p \in ToSet(s)
  BY <1>1 DEF Assigned
<1>2. CASE p \notin ToSet(s)
  <2> DEFINE n == Len(s)
             w == Append(s, p)
  <2>1. /\ n \in Nat /\ Len(w) = n + 1 /\ w[n + 1] = p /\ w = Assigned(s, p)
        /\ \A i \in 1..n : w[i] = s[i]
    BY <1>2 DEF Assigned
  <2>2. r # p
    BY <1>2, AheadProperties
  <2>3. k \in 1..n + 1
    OBVIOUS
  <2>4. Ahead(s, k) = {s[i] : i \in k..n}
    BY DEF Ahead
  <2> HIDE DEF n, w
  <2>5. Ahead(w, k) = {w[i] : i \in k..n + 1}
    BY <2>1 DEF Ahead
  <2>6. ASSUME NEW i \in k..n + 1, w[i] = r PROVE i \in k..n /\ s[i] = r
    BY <2>1, <2>2, <2>3, <2>6
  <2>7. ASSUME NEW i \in k..n PROVE i \in k..n + 1 /\ w[i] = s[i]
    BY <2>1, <2>3
  <2>8. QED
    BY <2>1, <2>4, <2>5, <2>6, <2>7
<1>3. QED
  BY <1>1, <1>2

(* Who is asked about or executed has one actor to care for it.            *)
LEMMA OneCares ==
  ASSUME PlaceInv, LockInv, OneExecutes, NEW a \in Actors, NEW b \in Actors,
         call[a].at \in Asking \cup Executing, call[b].at \in Asking \cup Executing,
         call[a].job = call[b].job
  PROVE  a = b
<1>1. CASE call[a].at \in Executing \/ call[b].at \in Executing
  BY <1>1 DEF OneExecutes
<1>2. CASE call[a].at \in Asking /\ call[b].at \in Asking
  BY <1>2 DEF LockInv, Locks, PlaceInv, InPlace
<1>3. QED
  BY <1>1, <1>2

LEMMA HasWhere ==
  ASSUME NEW t, NEW r
  PROVE  Has(t, r) => call[t].at \in Asking \cup Executing
BY DEF Has, Asking, Executing

LEMMA SlotFrame ==
  ASSUME SlotInv, \A r \in Restrictions : customers'[r] = customers[r],
         \A t \in Threads : \A r \in Restrictions :
           /\ Has(t, r)' <=> Has(t, r)
           /\ Has(t, r) => call'[t].job = call[t].job
  PROVE  SlotInv'
<1>1. ASSUME NEW r \in Restrictions, NEW j \in Jobs
      PROVE  (\E t \in Threads : Has(t, r) /\ call[t].job = j)' <=>
             \E t \in Threads : Has(t, r) /\ call[t].job = j
  OBVIOUS
<1>2. QED
  BY <1>1 DEF SlotInv

(* Only what a thread has for its own job changes.                         *)
LEMMA SlotMoves ==
  ASSUME SlotInv, NEW t \in Threads, NEW j \in Jobs, call[t].job = j, call'[t].job = j,
         \A x \in Threads : x # t => \A r \in Restrictions :
           /\ Has(x, r)' <=> Has(x, r)
           /\ Has(x, r) => call'[x].job = call[x].job /\ call[x].job # j,
         \A r \in Restrictions : \A i \in Jobs :
           i # j => (i \in customers'[r] <=> i \in customers[r]),
         \A r \in Restrictions : j \in customers'[r] <=> Has(t, r)'
  PROVE  SlotInv'
<1>1. ASSUME NEW r \in Restrictions, NEW i \in Jobs, i # j
      PROVE  (i \in customers[r])' <=> (\E x \in Threads : Has(x, r) /\ call[x].job = i)'
  <2>1. i \in customers[r] <=> \E x \in Threads : Has(x, r) /\ call[x].job = i
    BY DEF SlotInv
  <2>2. \A x \in Threads : (Has(x, r) /\ call[x].job = i)' <=> Has(x, r) /\ call[x].job = i
    BY <1>1
  <2>3. QED
    BY <1>1, <2>1, <2>2
<1>2. ASSUME NEW r \in Restrictions
      PROVE  (j \in customers[r])' <=> (\E x \in Threads : Has(x, r) /\ call[x].job = j)'
  OBVIOUS
<1>3. QED
  BY <1>1, <1>2 DEF SlotInv

(* What the customers say about the job of a thread.                       *)
LEMMA SlotOfJob ==
  ASSUME PlaceInv, LockInv, ExecInv, SlotInv, NEW t \in Threads,
         call[t].at \in Asking \cup Executing
  PROVE  /\ call[t].job \in Jobs
         /\ \A r \in Restrictions : call[t].job \in customers[r] <=> Has(t, r)
         /\ \A x \in Threads : x # t => \A r : Has(x, r) => call[x].job # call[t].job
<1>1. call[t].job \in Jobs /\ t \in Actors
  BY ActorsDiffer DEF PlaceInv, InPlace
<1>2. \A x \in Threads : x # t => \A r : Has(x, r) => call[x].job # call[t].job
  BY <1>1, ActorsDiffer, HasWhere, OneCares DEF ExecInv
<1>3. QED
  BY <1>1, <1>2 DEF SlotInv

(* Those whom a step leaves alone have what they had.                      *)
LEMMA HasFrame ==
  ASSUME policies' = policies, NEW x, call'[x] = call[x]
  PROVE  \A r : Has(x, r)' <=> Has(x, r)
BY DEF Has

LEMMA SlotScan ==
  ASSUME Typed, PlaceInv, LockInv, ExecInv, AgreedInv, SlotInv, NEW t \in Threads,
         Apply(t) \/ LockCandidate(t) \/ Sleep(t) \/ Ask(t) \/ HandOut(t) \/ GiveBack(t)
  PROVE  SlotInv'
<1>0. t \in Actors /\ policies' = policies /\ \A x \in Threads : x \in Actors
  BY ActorsDiffer DEF Apply, LockCandidate, Sleep, Ask, HandOut, GiveBack, policyVars
<1>o. \A x \in Threads : x # t => call'[x] = call[x]
  BY <1>0, ScanMoves DEF Moves
<1>f. ASSUME NEW x \in Threads, x # t PROVE \A r : Has(x, r)' <=> Has(x, r)
  BY <1>0, <1>o, <1>f, HasFrame
<1>1. CASE Apply(t) \/ LockCandidate(t) \/ Sleep(t)
  <2>1. /\ call[t].at \in {"applying", "reporting", "candidate"}
        /\ \/ call'[t].at \in {"candidate", "asleep"}
           \/ call'[t].at = "asking" /\ call'[t].with = <<>>
        /\ customers' = customers
    BY <1>1, ScanMoves DEF Apply, LockCandidate, Sleep, Is, Moves, policyVars
  <2>2. \A r : ~ Has(t, r)
    BY <2>1 DEF Has
  <2>3. \A r : r \notin ToSet(<<>>)
    BY DEF ToSet
  <2>4. \A r : ~ Has(t, r)'
    BY <2>1, <2>3 DEF Has
  <2>5. QED
    BY <1>o, <1>f, <2>1, <2>2, <2>4, SlotFrame
<1>2. CASE Ask(t)
  <2> DEFINE j == call[t].job
             k == call[t].k
             w == call[t].with
             p == policies[j][k]
             v == Append(w, p)
  <2>1. /\ p \in Policy /\ call[t].at = "asking"
        /\ IF Allows(p, j) THEN Moves(t, "asking", j, call[t].cursor, k + 1, v)
                           ELSE Moves(t, "releasing", j, call[t].cursor, 1, w)
    BY <1>2, ScanMoves DEF Ask, Is
  <2>2. w \in Seq(Policy) /\ j \in Jobs
    BY <2>1, AskedPrefix
  <2>3. /\ \A r \in Restrictions : j \in customers[r] <=> Has(t, r)
        /\ \A x \in Threads : x # t => \A r : Has(x, r) => call[x].job # j
    BY <2>1, SlotOfJob DEF Asking
  <2>4. \A r : Has(t, r) <=> r \in ToSet(w)
    BY <2>1 DEF Has
  <2>5. CASE Allows(p, j)
    <3>1. customers' = IF p = DependencyPolicy THEN customers
                                               ELSE [customers EXCEPT ![p] = @ \cup {j}]
      BY <1>2, <2>5 DEF Ask
    <3>2. Moves(t, "asking", j, call[t].cursor, k + 1, v)
      BY <2>1, <2>5
    <3> HIDE DEF p
    <3>3. \A r : r \in ToSet(v) <=> r \in ToSet(w) \/ r = p
      <4> HIDE DEF w
      <4>1. w \in Seq(Policy) /\ p \in Policy /\ v \in Seq(Policy)
        BY <2>1, <2>2 DEF w
      <4>2. \A r : Occurs(v, r) <=> r = p \/ Occurs(w, r)
        BY <4>1, AppendOccurs
      <4> HIDE DEF v
      <4>3. QED
        BY <4>1, <4>2, AheadProperties
    <3> HIDE DEF j, k, w, v
    <3>4. \A r : Has(t, r)' <=> r \in ToSet(w) \/ r = p
      BY <3>2, <3>3 DEF Has, Moves
    <3>5. /\ \A r \in Restrictions : \A i \in Jobs :
               i # j => (i \in customers'[r] <=> i \in customers[r])
          /\ \A r \in Restrictions : j \in customers'[r] <=> j \in customers[r] \/ r = p
      BY <2>1, <3>1, SharingAssumption DEF Typed, Policy
    <3>6. \A r \in Restrictions : j \in customers'[r] <=> Has(t, r)'
      BY <2>3, <2>4, <3>4, <3>5
    <3>7. call[t].job = j /\ call'[t].job = j
      BY <3>2 DEF Moves, j
    <3>8. QED
      BY <1>o, <1>f, <2>2, <2>3, <3>5, <3>6, <3>7, SlotMoves
  <2>6. CASE ~ Allows(p, j)
    <3>1. customers' = customers
      BY <1>2, <2>6 DEF Ask
    <3>2. Moves(t, "releasing", j, call[t].cursor, 1, w)
      BY <2>1, <2>6
    <3>3. \A r : r \in Ahead(w, 1) <=> r \in ToSet(w)
      BY <2>2, AheadProperties
    <3>4. \A r : Has(t, r)' <=> Has(t, r)
      BY <2>4, <3>2, <3>3 DEF Has, Moves
    <3>5. QED
      BY <1>o, <1>f, <3>1, <3>2, <3>4, SlotFrame DEF Moves
  <2>7. QED
    BY <2>5, <2>6
<1>3. CASE HandOut(t)
  <2>1. /\ Moves(t, "begin", call[t].job, call[t].cursor, 1, call[t].with)
        /\ call[t].at = "asking" /\ customers' = customers
    BY <1>3, ScanMoves DEF HandOut, Is, policyVars
  <2>2. \A r : Has(t, r)' <=> Has(t, r)
    BY <2>1 DEF Has, Moves
  <2>3. QED
    BY <1>o, <1>f, <2>1, <2>2, SlotFrame DEF Moves
<1>4. CASE GiveBack(t)
  <2> DEFINE j == call[t].job
             k == call[t].k
             w == call[t].with
  <2>1. /\ call[t].at = "releasing"
        /\ IF k <= Len(w) THEN Moves(t, "releasing", j, call[t].cursor, k + 1, w)
                          ELSE Moves(t, "candidate", NoJob, call[t].cursor + 1, 1, <<>>)
    BY <1>4, ScanMoves DEF GiveBack, Is
  <2>2. w \in Seq(Policy) /\ Distinct(w) /\ k \in Nat /\ k >= 1
    BY <1>0, <2>1 DEF PlaceInv, InPlace, AgreedInv, Agreed, Typed, Call
  <2>3. /\ j \in Jobs
        /\ \A r \in Restrictions : j \in customers[r] <=> Has(t, r)
        /\ \A x \in Threads : x # t => \A r : Has(x, r) => call[x].job # j
    BY <2>1, SlotOfJob DEF Asking
  <2>4. \A r : Has(t, r) <=> r \in Ahead(w, k)
    BY <2>1 DEF Has
  <2>5. CASE k <= Len(w)
    <3> DEFINE p == w[k]
    <3>1. Moves(t, "releasing", j, call[t].cursor, k + 1, w) /\ customers' = Released(p, j)
      BY <1>4, <2>1, <2>5 DEF GiveBack
    <3>2. \A r : r \in Ahead(w, k + 1) <=> r \in Ahead(w, k) /\ r # p
      <4>1. k \in 1..Len(w)
        BY <2>2, <2>5
      <4>2. QED
        BY <2>2, <4>1, AheadProperties
    <3> HIDE DEF p, j, k, w
    <3>3. \A r : Has(t, r)' <=> r \in Ahead(w, k) /\ r # p
      BY <3>1, <3>2 DEF Has, Moves
    <3>4. /\ \A r \in Restrictions : \A i \in Jobs :
               i # j => (i \in customers'[r] <=> i \in customers[r])
          /\ \A r \in Restrictions : j \in customers'[r] <=> j \in customers[r] /\ r # p
      BY <3>1, SharingAssumption DEF Typed, Released, Without
    <3>5. \A r \in Restrictions : j \in customers'[r] <=> Has(t, r)'
      BY <2>3, <2>4, <3>3, <3>4
    <3>6. call[t].job = j /\ call'[t].job = j
      BY <3>1 DEF Moves, j
    <3>7. QED
      BY <1>o, <1>f, <2>3, <3>4, <3>5, <3>6, SlotMoves
  <2>6. CASE ~ k <= Len(w)
    <3>1. Moves(t, "candidate", NoJob, call[t].cursor + 1, 1, <<>>) /\ customers' = customers
      BY <1>4, <2>1, <2>6 DEF GiveBack
    <3>2. Ahead(w, k) = {}
      <4>1. k > Len(w)
        BY <2>2, <2>6
      <4>2. QED
        BY <2>2, <4>1, AheadProperties
    <3>3. \A r : ~ Has(t, r) /\ ~ Has(t, r)'
      BY <2>4, <3>1, <3>2 DEF Has, Moves
    <3>4. QED
      BY <1>o, <1>f, <3>1, <3>3, SlotFrame
  <2>7. QED
    BY <2>5, <2>6
<1>5. QED
  BY <1>1, <1>2, <1>3, <1>4

LEMMA SlotExecute ==
  ASSUME Typed, PlaceInv, LockInv, ExecInv, AgreedInv, SlotInv, NEW a \in Actors, Execute(a)
  PROVE  SlotInv'
<1> DEFINE j == call[a].job
           k == call[a].k
           w == call[a].with
           ps == policies[j]
<1>1. /\ call[a].at \in Executing /\ policies' = policies
      /\ \A b \in Actors : b # a => call'[b] = call[b]
  BY ExecuteAway
<1>2. j \in Jobs /\ k \in Nat /\ ps \in Seq(Policy) /\ Distinct(ps)
  BY <1>1 DEF PlaceInv, InPlace, Typed, Call, AgreedInv
<1>f. ASSUME NEW x \in Threads, x # a
      PROVE  call'[x] = call[x] /\ \A r : Has(x, r)' <=> Has(x, r)
  BY <1>1, <1>f, ActorsDiffer, HasFrame
<1>3. CASE Begin(a) \/ Run(a) \/ CopyHandlers(a) \/ Freed(a) \/ Leave(a) \/ Handle(a)
  <2>1. customers' = customers
    BY <1>3 DEF Begin, Run, CopyHandlers, Handle, Freed, Leave, policyVars
  <2>2. ASSUME a \in Threads, NEW r \in Restrictions
        PROVE  (Has(a, r)' <=> Has(a, r)) /\ (Has(a, r) => call'[a].job = j)
    <3>1. CASE Begin(a) \/ Run(a) \/ CopyHandlers(a)
      <4>1. /\ call[a].at \in {"begin", "running", "ending"}
            /\ call'[a].at \in {"running", "ending", "handling"}
            /\ call'[a].job = j /\ call'[a].with = w
        BY <3>1, ExecuteMoves DEF Begin, Run, CopyHandlers, Is, Moves
      <4>2. QED
        BY <4>1 DEF Has
    <3>2. CASE Handle(a)
      <4>1. /\ call[a].at = "handling" /\ call'[a].job = j /\ call'[a].with = w
            /\ call'[a].at = "handling" \/ (call'[a].at = "freeing" /\ call'[a].k = 1)
        BY <3>2, ExecuteMoves DEF Handle, Is, Moves
      <4>2. r \in ToSet(w) => r \in Ahead(ps, 1)
        <5>1. w \in Seq(Policy) /\ r \in Policy
          BY <2>2 DEF PlaceInv, InPlace, Policy
        <5>2. Occurs(w, r) => Occurs(ps, r)
          BY <4>1, <5>1 DEF AgreedInv, Agreed, Executing
        <5>3. QED
          BY <1>2, <5>1, <5>2, AheadProperties
      <4>3. Has(a, r) <=> r \in ToSet(w)
        BY <4>1 DEF Has
      <4>4. Has(a, r)' <=> r \in ToSet(w)
        BY <1>1, <4>1, <4>2 DEF Has
      <4>5. QED
        BY <4>1, <4>3, <4>4
    <3>3. CASE Freed(a) \/ Leave(a)
      <4>1. /\ call[a].at = "leaving" \/ (call[a].at = "freeing" /\ k > Len(ps))
            /\ call'[a].at \in {"leaving", "reporting", "ready"}
        BY <3>3, ExecuteMoves DEF Freed, Leave, Is, Moves
      <4>2. k > Len(ps) => Ahead(ps, k) = {}
        BY <1>2, AheadProperties
      <4>3. QED
        BY <4>1, <4>2 DEF Has
    <3>4. QED
      BY <1>3, <3>1, <3>2, <3>3
  <2>3. QED
    BY <1>f, <2>1, <2>2, SlotFrame
<1>4. CASE Free(a)
  <2> DEFINE p == ps[k]
  <2>1. /\ call[a].at = "freeing" /\ k <= Len(ps)
        /\ customers' = [r \in Restrictions |-> IF r \in {p} THEN customers[r] \ {j}
                                                             ELSE customers[r]]
        /\ Moves(a, "freeing", j, call[a].cursor, k + 1, w)
    BY <1>4, ExecuteMoves DEF Free, FreeAll, Is
  <2>2. k \in 1..Len(ps)
    BY <1>1, <1>2, <2>1 DEF PlaceInv, InPlace
  <2>3. \A r : r \in Ahead(ps, k + 1) <=> r \in Ahead(ps, k) /\ r # p
    BY <1>2, <2>2, AheadProperties
  <2> HIDE DEF p
  <2>4. /\ \A r \in Restrictions : \A i \in Jobs :
             i # j => (i \in customers'[r] <=> i \in customers[r])
        /\ \A r \in Restrictions : j \in customers'[r] <=> j \in customers[r] /\ r # p
    BY <2>1
  <2>5. CASE a \in Threads
    <3>1. /\ \A r \in Restrictions : j \in customers[r] <=> Has(a, r)
          /\ \A x \in Threads : x # a => \A r : Has(x, r) => call[x].job # j
      BY <1>1, <2>5, SlotOfJob
    <3>2. \A r : /\ Has(a, r) <=> r \in ToSet(w) \cap Ahead(ps, k)
                 /\ Has(a, r)' <=> r \in ToSet(w) \cap Ahead(ps, k + 1)
      BY <1>1, <2>1 DEF Has, Moves
    <3>3. \A r \in Restrictions : j \in customers'[r] <=> Has(a, r)'
      BY <2>3, <2>4, <3>1, <3>2
    <3>4. call'[a].job = j
      BY <2>1 DEF Moves
    <3> HIDE DEF j
    <3>5. call[a].job = j
      BY DEF j
    <3>6. QED
      BY <1>2, <1>f, <2>4, <2>5, <3>1, <3>3, <3>4, <3>5, SlotMoves
  <2>6. CASE a \notin Threads
    <3>1. ASSUME NEW x \in Threads, NEW r \in Restrictions, Has(x, r) PROVE call[x].job # j
      BY <1>1, <2>6, <3>1, HasWhere, ActorsDiffer DEF ExecInv, OneExecutes
    <3>2. \A r \in Restrictions : j \notin customers[r]
      BY <1>2, <3>1 DEF SlotInv
    <3>3. \A r \in Restrictions : customers'[r] = customers[r]
      BY <2>1, <3>2
    <3>4. QED
      BY <1>f, <2>6, <3>3, SlotFrame
  <2>7. QED
    BY <2>5, <2>6
<1>5. QED
  BY <1>3, <1>4 DEF Execute

(* Policies that are assigned meanwhile make no difference.                *)
LEMMA HasExtends ==
  ASSUME Typed, PlaceInv, AgreedInv, NEW x \in Threads, NEW p \in Policy, call'[x] = call[x],
         call[x].at \in Executing =>
           \/ policies'[call[x].job] = policies[call[x].job]
           \/ policies'[call[x].job] = Assigned(policies[call[x].job], p)
  PROVE  \A r \in Restrictions : Has(x, r)' <=> Has(x, r)
<1>1. CASE call[x].at # "freeing"
  BY <1>1 DEF Has
<1>2. CASE call[x].at = "freeing"
  <2> DEFINE k == call[x].k
             w == call[x].with
             ps == policies[call[x].job]
             qs == policies'[call[x].job]
  <2>1. /\ x \in Actors /\ w \in Seq(Policy) /\ k \in Nat /\ k >= 1 /\ ps \in Seq(Policy)
        /\ k <= Len(ps) + 1 /\ \A r \in Policy : Occurs(w, r) => Occurs(ps, r)
    BY <1>2, ActorsDiffer DEF PlaceInv, InPlace, Typed, Call, AgreedInv, Agreed, Executing
  <2>2. \A r : Has(x, r) <=> r \in ToSet(w) \cap Ahead(ps, k)
    BY <1>2 DEF Has
  <2>3. \A r : Has(x, r)' <=> r \in ToSet(w) \cap Ahead(qs, k)
    BY <1>2 DEF Has
  <2>4. qs = ps \/ qs = Assigned(ps, p)
    BY <1>2 DEF Executing
  <2> HIDE DEF k, w, ps, qs
  <2>5. ASSUME NEW r \in Restrictions, r \in ToSet(w)
        PROVE  r \in Ahead(ps, k) <=> r \in Ahead(qs, k)
    <3>1. Occurs(ps, r)
      BY <2>1, <2>5, AheadProperties DEF Policy
    <3>2. k \in 1..Len(ps) + 1
      BY <2>1
    <3>3. QED
      BY <2>1, <2>4, <3>1, <3>2, AssignedAhead
  <2>6. QED
    BY <2>2, <2>3, <2>5
<1>3. QED
  BY <1>1, <1>2

LEMMA InsertAssigns ==
  ASSUME Typed, PlaceInv, NEW u \in Users, InsertDependency(u)
  PROVE  /\ call[u].with[1] \in Jobs /\ call[u].with[2] \in Jobs
         /\ call[u].with[1] # call[u].with[2]
         /\ \A j \in Jobs :
              policies'[j] = IF j \in {call[u].with[1], call[u].with[2]}
                               THEN Assigned(policies[j], DependencyPolicy) ELSE policies[j]
<1>1. /\ call[u].with[1] \in Jobs /\ call[u].with[2] \in Jobs
      /\ call[u].with[1] # call[u].with[2]
  BY ActorsDiffer, OperationsAssumption DEF InsertDependency, Is, PlaceInv, InPlace
<1> DEFINE a == call[u].with[1]
           b == call[u].with[2]
<1>2. policies' = [policies EXCEPT ![a] = Assigned(@, DependencyPolicy),
                                   ![b] = Assigned(@, DependencyPolicy)]
  BY DEF InsertDependency
<1> HIDE DEF a, b
<1>3. a \in Jobs /\ b \in Jobs /\ a # b
  BY <1>1 DEF a, b
<1>4. \A j \in Jobs : policies'[j] = IF j \in {a, b} THEN Assigned(policies[j], DependencyPolicy)
                                                     ELSE policies[j]
  BY <1>2, <1>3 DEF Typed
<1>5. QED
  BY <1>1, <1>4 DEF a, b

LEMMA SlotUser ==
  ASSUME Typed, PlaceInv, LockInv, ExecInv, AgreedInv, SlotInv, NEW u \in Users,
         (CallStep(u) /\ ~ Execute(u)) \/ ApiCall(u)
  PROVE  SlotInv'
<1>0. /\ u \in Actors /\ u \notin Threads /\ Nobody \notin Actors
      /\ \A x \in Threads : x \in Actors /\ x # u
  BY ActorsDiffer, SharingAssumption
<1>w. ASSUME Woken, UNCHANGED <<policies, customers>> PROVE SlotInv'
  <2>1. ASSUME NEW x \in Threads
        PROVE  \A r : (Has(x, r)' <=> Has(x, r)) /\ (Has(x, r) => call'[x].job = call[x].job)
    <3>1. CASE call'[x] = call[x]
      BY <1>w, <3>1, HasFrame
    <3>2. CASE call[x].at = "asleep" /\ call'[x].at = "applying"
      BY <3>2 DEF Has
    <3>3. QED
      BY <1>0, <1>w, <3>1, <3>2 DEF Woken
  <2>2. QED
    BY <1>w, <2>1, SlotFrame
<1>s. ASSUME \A x \in Threads : call'[x] = call[x], UNCHANGED <<policies, customers>>
      PROVE  SlotInv'
  BY <1>s, HasFrame, SlotFrame
<1>1. CASE InsertDependency(u)
  <2>1. Moves(u, "ready", NoJob, 0, 1, <<>>) /\ customers' = customers
    BY <1>1, CallMoves DEF InsertDependency
  <2>2. DependencyPolicy \in Policy
    BY DEF Policy
  <2>3. ASSUME NEW x \in Threads, call[x].at \in Executing
        PROVE  \/ policies'[call[x].job] = policies[call[x].job]
               \/ policies'[call[x].job] = Assigned(policies[call[x].job], DependencyPolicy)
    <3>1. call[x].job \in Jobs
      BY <1>0, <2>3 DEF PlaceInv, InPlace
    <3>2. QED
      BY <1>1, <3>1, InsertAssigns
  <2>4. \A x \in Threads : call'[x] = call[x]
    BY <1>0, <2>1 DEF Moves
  <2>5. \A x \in Threads : \A r \in Restrictions : Has(x, r)' <=> Has(x, r)
    BY <2>2, <2>3, <2>4, HasExtends
  <2>6. QED
    BY <2>1, <2>4, <2>5, SlotFrame
<1>2. CASE FinishReturn(u)
  <2>1. Moves(u, "ready", NoJob, 0, 1, <<>>)
    BY <1>2, CallMoves
  <2>2. QED
    BY <1>0, <1>2, <1>s, <2>1 DEF FinishReturn, Moves, policyVars
<1>3. CASE FinishTimeout(u)
  BY <1>3, <1>w, CallMoves DEF FinishTimeout, policyVars
<1>4. ASSUME NEW op \in Operations, Enqueue(u, op) PROVE SlotInv'
  BY <1>4, <1>w, CallMoves DEF Enqueue, policyVars
<1>5. ASSUME NEW op \in Operations, BlockingExecute(u, op) PROVE SlotInv'
  <2>1. Moves(u, "begin", op.on[1], 0, 1, <<>>)
    BY <1>5, CallMoves
  <2>2. QED
    BY <1>0, <1>5, <1>s, <2>1 DEF BlockingExecute, Moves, policyVars
<1>6. ASSUME NEW op \in Operations, AddDependency(u, op) PROVE SlotInv'
  <2>1. PICK c \in Nat, k \in Nat : Moves(u, "adding", NoJob, c, k, op.on)
    BY <1>6, CallMoves
  <2>2. QED
    BY <1>0, <1>6, <1>s, <2>1 DEF AddDependency, Moves, policyVars
<1>7. ASSUME NEW op \in Operations, Finish(u, op) PROVE SlotInv'
  <2>1. PICK c \in Nat, k \in Nat : Moves(u, "finishing", NoJob, c, k, op.on)
    BY <1>7, CallMoves
  <2>2. QED
    BY <1>0, <1>7, <1>s, <2>1 DEF Finish, Moves, policyVars
<1>8. ASSUME NEW op \in Operations, ChangePolicies(u, op) PROVE SlotInv'
  <2> DEFINE j == op.on[1]
             p == op.on[2]
  <2>1. /\ op.on \in Jobs \X Policy /\ UNCHANGED <<call, customers>>
        /\ \/ policies' = [policies EXCEPT ![j] = Assigned(@, p)]
           \/ policies' = [policies EXCEPT ![j] = WithoutPolicy(@, p)] /\ ~ InFlight(j)
    BY <1>8, OperationsAssumption DEF ChangePolicies, MayCall, Policy
  <2>2. j \in Jobs /\ p \in Policy
    BY <2>1
  <2> HIDE DEF j, p
  <2>3. ASSUME NEW x \in Threads, call[x].at \in Executing
        PROVE  \/ policies'[call[x].job] = policies[call[x].job]
               \/ policies'[call[x].job] = Assigned(policies[call[x].job], p)
    <3>1. call[x].job \in Jobs
      BY <1>0, <2>3 DEF PlaceInv, InPlace
    <3>2. ~ InFlight(j) => call[x].job # j
      BY <1>0, <2>3 DEF InFlight, Executing
    <3>3. QED
      BY <2>1, <2>2, <3>1, <3>2 DEF Typed
  <2>4. \A x \in Threads : \A r \in Restrictions : Has(x, r)' <=> Has(x, r)
    BY <2>1, <2>2, <2>3, HasExtends
  <2>5. QED
    BY <2>1, <2>4, SlotFrame
<1>9. ASSUME NEW op \in Operations, Delete(u, op) PROVE SlotInv'
  <2> DEFINE j == op.on[1]
  <2>1. /\ j \in Jobs /\ ~ InFlight(j) /\ mutex[j] = Nobody /\ UNCHANGED <<call, policies>>
        /\ customers' = [r \in Restrictions |-> IF r \in ToSet(policies[j])
                                                  THEN customers[r] \ {j} ELSE customers[r]]
    BY <1>9, OperationsAssumption DEF Delete, MayCall, FreeAll
  <2> HIDE DEF j
  <2>2. ASSUME NEW x \in Threads, NEW r, Has(x, r) PROVE call[x].job # j
    <3>1. call[x].at \in Asking => mutex[call[x].job] = x
      BY <1>0 DEF LockInv, Locks, PlaceInv, InPlace
    <3>2. call[x].at \in Executing => call[x].job # j
      BY <1>0, <2>1 DEF InFlight, Executing
    <3>3. QED
      BY <1>0, <2>1, <2>2, <3>1, <3>2, HasWhere
  <2>3. \A r \in Restrictions : j \notin customers[r]
    BY <2>1, <2>2 DEF SlotInv
  <2>4. \A r \in Restrictions : customers'[r] = customers[r]
    BY <2>1, <2>3
  <2>5. QED
    BY <2>1, <2>4, HasFrame, SlotFrame
<1>10. ASSUME NEW op \in Operations,
              Dequeue(u, op) \/ RemoveDependency(u, op) \/ SetCap(u, op) \/ OnFinish(u, op)
       PROVE  SlotInv'
  BY <1>10, <1>s DEF Dequeue, RemoveDependency, SetCap, OnFinish, policyVars
<1>11. QED
  BY <1>1, <1>2, <1>3, <1>4, <1>5, <1>6, <1>7, <1>8, <1>9, <1>10 DEF CallStep, ApiCall

-------------------------------------------------------------------------------
(* Dependencies on jobs that have succeeded *)

LEMMA DependencyFrame ==
  ASSUME DependencyInv, dependencies' \subseteq dependencies, late \subseteq late',
         \A j \in Jobs : Occurs(policies[j], DependencyPolicy) =>
                           Occurs(policies'[j], DependencyPolicy),
         \A d \in dependencies' :
           /\ d[1] \in Jobs /\ d[2] \in Jobs
           /\ status'[d[2]] = "Success" =>
                status[d[2]] = "Success" /\ d[2] \notin deleted' \ deleted
           /\ \A a \in Actors : Resolves(a, d[2]) => Resolves(a, d[2])'
  PROVE  DependencyInv'
<1>1. ASSUME NEW d \in dependencies'
      PROVE  (/\ Occurs(policies[d[1]], DependencyPolicy)
              /\ Occurs(policies[d[2]], DependencyPolicy)
              /\ status[d[2]] = "Success" =>
                   d[2] \notin deleted /\
                   (<<d[1], d[2]>> \in late \/ \E a \in Actors : Resolves(a, d[2])))'
  BY <1>1 DEF DependencyInv
<1>2. QED
  BY <1>1 DEF DependencyInv

(* Those whom a step leaves alone will do what they would have done.       *)
LEMMA ResolvesFrame ==
  ASSUME policies' = policies, NEW a, call'[a] = call[a]
  PROVE  \A j : Resolves(a, j)' <=> Resolves(a, j)
BY DEF Resolves

LEMMA DependencyScan ==
  ASSUME Typed, PlaceInv, DependencyInv, NEW t \in Threads,
         Apply(t) \/ LockCandidate(t) \/ Sleep(t) \/ Ask(t) \/ HandOut(t) \/ GiveBack(t)
  PROVE  DependencyInv'
<1>1. UNCHANGED <<policies, dependencies, late, status, deleted>>
      /\ call[t].at \in {"applying", "reporting", "candidate"} \cup Asking
  BY DEF Apply, LockCandidate, Sleep, Ask, HandOut, GiveBack, jobVars, policyVars, Is, Asking
<1>2. \A x \in Actors : x # t => call'[x] = call[x]
  BY ScanMoves DEF Moves
<1>3. \A j : ~ Resolves(t, j)
  BY <1>1 DEF Resolves, Asking
<1>4. \A x \in Actors : \A j : Resolves(x, j) => Resolves(x, j)'
  BY <1>1, <1>2, <1>3, ResolvesFrame
<1>5. QED
  BY <1>1, <1>4, DependencyFrame DEF Typed

(* free() of one policy, or of all of them.                                *)
LEMMA FreeResolves ==
  ASSUME Typed, NEW j \in Jobs, NEW ps, FreeAll(j, ps)
  PROVE  /\ dependencies' \subseteq dependencies
         /\ \A d \in dependencies : d[2] # j => d \in dependencies'
         /\ DependencyPolicy \in ps /\ status[j] = "Success" =>
              \A d \in dependencies' : d[2] # j
         /\ DependencyPolicy \notin ps \/ status[j] # "Success" => dependencies' = dependencies
BY DEF FreeAll, ResolveDependencies

LEMMA DependencyExecute ==
  ASSUME Typed, PlaceInv, ExecInv, DeletedInv, AgreedInv, DependencyInv,
         NEW a \in Actors, Execute(a)
  PROVE  DependencyInv'
<1> DEFINE j == call[a].job
           k == call[a].k
           ps == policies[j]
           dp == DependencyPolicy
<1>1. /\ call[a].at \in Executing /\ UNCHANGED <<policies, late, deleted>>
      /\ \A b \in Actors : b # a => call'[b] = call[b]
  BY ExecuteAway
<1>2. j \in Jobs /\ k \in Nat /\ ps \in Seq(Policy) /\ Distinct(ps) /\ j \notin deleted
  BY <1>1 DEF PlaceInv, InPlace, Typed, Call, AgreedInv, DeletedInv
<1>f. ASSUME NEW b \in Actors, b # a PROVE \A i : Resolves(b, i)' <=> Resolves(b, i)
  BY <1>1, <1>f, ResolvesFrame
<1>3. CASE Begin(a)
  <2>1. /\ call[a].at = "begin" /\ dependencies' = dependencies
        /\ status' = [status EXCEPT ![j] = "Running"]
    BY <1>3 DEF Begin, Is, policyVars
  <2>2. \A i : ~ Resolves(a, i)
    BY <2>1 DEF Resolves
  <2> HIDE DEF j
  <2>3. \A i \in Jobs : status'[i] = "Success" => status[i] = "Success"
    BY <1>2, <2>1 DEF Typed
  <2>4. QED
    BY <1>1, <1>f, <2>1, <2>2, <2>3, DependencyFrame DEF Typed
<1>4. CASE Run(a)
  <2>1. PICK outcome : status' = [status EXCEPT ![j] = outcome]
    BY <1>4 DEF Run
  <2>2. dependencies' = dependencies /\ call[a].at = "running"
        /\ call'[a].at = "ending" /\ call'[a].job = j
    BY <1>4, ExecuteMoves DEF Run, Is, Moves, policyVars
  <2>3. \A i : ~ Resolves(a, i)
    BY <2>2 DEF Resolves
  <2> HIDE DEF j
  <2>4. \A i \in Jobs : i # j => status'[i] = status[i]
    BY <2>1 DEF Typed
  <2>5. \A b \in Actors : \A i : Resolves(b, i) => Resolves(b, i)'
    BY <1>f, <2>3
  <2>6. ASSUME NEW d \in dependencies'
        PROVE  (/\ Occurs(policies[d[1]], DependencyPolicy)
                /\ Occurs(policies[d[2]], DependencyPolicy)
                /\ status[d[2]] = "Success" =>
                     d[2] \notin deleted /\
                     (<<d[1], d[2]>> \in late \/ \E b \in Actors : Resolves(b, d[2])))'
    <3>1. d \in dependencies /\ d[2] \in Jobs
      BY <2>2 DEF Typed
    <3>2. CASE d[2] = j
      <4>1. Resolves(a, d[2])'
        BY <2>2, <3>2 DEF Resolves, j
      <4>2. d[2] \notin deleted'
        BY <1>1, <1>2, <3>2
      <4>3. QED
        BY <1>1, <3>1, <4>1, <4>2 DEF DependencyInv
    <3>3. CASE d[2] # j
      BY <1>1, <2>4, <2>5, <3>1, <3>3 DEF DependencyInv
    <3>4. QED
      BY <3>2, <3>3
  <2>7. QED
    BY <2>6 DEF DependencyInv
<1>5. CASE CopyHandlers(a) \/ Handle(a) \/ Freed(a) \/ Leave(a)
  <2>1. UNCHANGED <<dependencies, status>>
    BY <1>5 DEF CopyHandlers, Handle, Freed, Leave, jobVars, policyVars
  <2>2. ASSUME NEW d \in dependencies', Resolves(a, d[2]) PROVE Resolves(a, d[2])'
    <3>1. Occurs(policies[d[2]], DependencyPolicy) /\ d[2] = j
      BY <2>1, <2>2 DEF DependencyInv, Resolves
    <3>2. DependencyPolicy \in Ahead(ps, 1)
      BY <1>2, <3>1, AheadProperties
    <3>3. CASE CopyHandlers(a) \/ Handle(a)
      <4>1. /\ call'[a].job = j
            /\ \/ call'[a].at = "handling"
               \/ call'[a].at = "freeing" /\ call'[a].k = 1
        BY <3>3, ExecuteMoves DEF Moves
      <4>2. QED
        BY <1>1, <3>1, <3>2, <4>1 DEF Resolves
    <3>4. CASE Freed(a) \/ Leave(a)
      <4>1. call[a].at = "leaving" \/ (call[a].at = "freeing" /\ k > Len(ps))
        BY <3>4 DEF Freed, Leave, Is
      <4>2. k > Len(ps) => Ahead(ps, k) = {}
        BY <1>2, AheadProperties
      <4>3. QED
        BY <2>2, <3>1, <4>1, <4>2 DEF Resolves
    <3>5. QED
      BY <1>5, <3>3, <3>4
  <2>3. QED
    BY <1>1, <1>f, <2>1, <2>2, DependencyFrame DEF Typed
<1>6. CASE Free(a)
  <2> DEFINE p == ps[k]
  <2>1. /\ call[a].at = "freeing" /\ k <= Len(ps) /\ FreeAll(j, {p}) /\ status' = status
        /\ call'[a].at = "freeing" /\ call'[a].job = j /\ call'[a].k = k + 1
    BY <1>6, ExecuteMoves DEF Free, Is, Moves, jobVars
  <2>2. k \in 1..Len(ps)
    BY <1>1, <1>2, <2>1 DEF PlaceInv, InPlace
  <2>3. \A r : r \in Ahead(ps, k + 1) <=> r \in Ahead(ps, k) /\ r # p
    BY <1>2, <2>2, AheadProperties
  <2> HIDE DEF p
  <2>4. /\ dependencies' \subseteq dependencies
        /\ p = dp /\ status[j] = "Success" => \A d \in dependencies' : d[2] # j
    BY <1>2, <2>1, FreeResolves
  <2>5. \A i : Resolves(a, i) => i = j /\ DependencyPolicy \in Ahead(ps, k)
    BY <2>1 DEF Resolves
  <2>6. p # dp => \A i : Resolves(a, i) => Resolves(a, i)'
    BY <1>1, <2>1, <2>3, <2>5 DEF Resolves
  <2>7. CASE p # dp
    BY <1>1, <1>f, <2>1, <2>4, <2>6, <2>7, DependencyFrame DEF Typed
  <2>8. CASE p = dp
    <3>1. ASSUME NEW d \in dependencies'
          PROVE  (/\ Occurs(policies[d[1]], DependencyPolicy)
                  /\ Occurs(policies[d[2]], DependencyPolicy)
                  /\ status[d[2]] = "Success" =>
                       d[2] \notin deleted /\
                       (<<d[1], d[2]>> \in late \/ \E b \in Actors : Resolves(b, d[2])))'
      <4>1. status'[d[2]] = "Success" => d[2] # j
        BY <2>1, <2>4, <2>8
      <4>2. d[2] # j => \A b \in Actors : Resolves(b, d[2]) => Resolves(b, d[2])'
        BY <1>f, <2>5
      <4>3. QED
        BY <1>1, <2>1, <2>4, <4>1, <4>2 DEF DependencyInv
    <3>2. QED
      BY <3>1 DEF DependencyInv
  <2>9. QED
    BY <2>7, <2>8
<1>7. QED
  BY <1>3, <1>4, <1>5, <1>6 DEF Execute

(* What a call assigns to the job of somebody who executes it.             *)
LEMMA ResolvesExtends ==
  ASSUME Typed, PlaceInv, AgreedInv, NEW a \in Actors, NEW j \in Jobs, NEW p \in Policy,
         call'[a] = call[a], Occurs(policies[j], DependencyPolicy),
         policies'[j] = policies[j] \/ policies'[j] = Assigned(policies[j], p),
         Resolves(a, j)
  PROVE  Resolves(a, j)'
<1>1. CASE call[a].at \in {"ending", "handling"}
  BY <1>1 DEF Resolves
<1>2. CASE call[a].at = "freeing"
  <2> DEFINE k == call[a].k
             ps == policies[j]
             qs == policies'[j]
  <2>1. /\ call[a].job = j /\ DependencyPolicy \in Ahead(ps, k) /\ ps \in Seq(Policy)
        /\ k \in Nat /\ k >= 1 /\ k <= Len(ps) + 1 /\ Len(ps) \in Nat
        /\ qs = ps \/ qs = Assigned(ps, p)
    BY <1>2 DEF Resolves, PlaceInv, InPlace, Typed, Call, AgreedInv, Agreed
  <2>2. Occurs(ps, DependencyPolicy)
    OBVIOUS
  <2> HIDE DEF k, ps, qs
  <2>3. k \in 1..Len(ps) + 1
    BY <2>1
  <2>4. DependencyPolicy \in Ahead(qs, k)
    BY <2>1, <2>2, <2>3, AssignedAhead
  <2>5. QED
    BY <1>2, <2>1, <2>4 DEF Resolves, k, qs
<1>3. QED
  BY <1>1, <1>2 DEF Resolves

(* An entry that does not come too late is still to be resolved.           *)
LEMMA InTime ==
  ASSUME Typed, PlaceInv, ExecInv, AgreedInv, NEW j \in Jobs, status[j] = "Success",
         ~ TooLate(j), policies'[j] = Assigned(policies[j], DependencyPolicy),
         \A a \in Actors : call[a].at \in Executing => call'[a] = call[a]
  PROVE  \E a \in Actors : Resolves(a, j)'
<1>1. PICK a \in Actors : call[a].job = j /\ call[a].at \in Executing
  BY DEF TooLate, Over, InFlight, Executing
<1>2. call[a].at \in {"ending", "handling", "freeing"}
  BY <1>1 DEF TooLate, ExecInv, StatusInv, Executing
<1>3. CASE call[a].at \in {"ending", "handling"}
  BY <1>1, <1>3 DEF Resolves
<1>4. CASE call[a].at = "freeing"
  <2> DEFINE k == call[a].k
             ps == policies[j]
             qs == policies'[j]
             dp == DependencyPolicy
  <2>1. /\ dp \notin Passed(ps, k) /\ ps \in Seq(Policy) /\ dp \in Policy
        /\ k \in Nat /\ k >= 1 /\ k <= Len(ps) + 1
    BY <1>1, <1>4 DEF TooLate, PlaceInv, InPlace, Typed, Call, AgreedInv, Agreed, Policy
  <2>a. qs = Assigned(ps, dp)
    OBVIOUS
  <2>b. Resolves(a, j)' <=> dp \in Ahead(qs, k)
    BY <1>1, <1>4 DEF Resolves, Executing
  <2> HIDE DEF k, ps, qs, dp
  <2>3. qs \in Seq(Policy)
    BY <2>1, <2>a, AssignedProperties
  <2>2. /\ Occurs(qs, dp) /\ Len(qs) \in Nat /\ Len(ps) \in Nat
        /\ Len(ps) <= Len(qs) /\ \A i \in 1..Len(ps) : qs[i] = ps[i]
    <3>1. Len(qs) \in Nat /\ Len(ps) \in Nat /\ DOMAIN ps = 1..Len(ps)
      BY <2>1, <2>3
    <3>2. Occurs(qs, dp) /\ Len(ps) <= Len(qs) /\ \A i \in DOMAIN ps : qs[i] = ps[i]
      BY <2>1, <2>a, AssignedProperties
    <3>3. QED
      BY <3>1, <3>2
  <2>4. PICK i \in 1..Len(qs) : qs[i] = dp
    BY <2>2, <2>3 DEF Occurs
  <2>5. i >= k
    <3>1. SUFFICES ASSUME i < k PROVE FALSE
      BY <2>1
    <3>2. i \in 1..k - 1 /\ i \in 1..Len(ps)
      BY <2>1, <3>1
    <3>3. QED
      BY <2>1, <2>2, <2>4, <3>2 DEF Passed
  <2>6. dp \in Ahead(qs, k)
    BY <2>1, <2>4, <2>5 DEF Ahead
  <2>7. QED
    BY <2>6, <2>b
<1>5. QED
  BY <1>2, <1>3, <1>4

LEMMA DependencyInsert ==
  ASSUME Typed, PlaceInv, ExecInv, DeletedInv, AgreedInv, DependencyInv,
         NEW u \in Users, InsertDependency(u),
         NEW a, NEW b, a = call[u].with[1], b = call[u].with[2]
  PROVE  DependencyInv'
<1> DEFINE dp == DependencyPolicy
<1>0. u \in Actors /\ u \notin Threads /\ call[u].at = "adding"
  BY ActorsDiffer DEF InsertDependency, Is
<1>1. /\ a \in Jobs /\ b \in Jobs
      /\ \A j \in Jobs : policies'[j] = IF j \in {a, b} THEN Assigned(policies[j], dp)
                                                        ELSE policies[j]
  BY InsertAssigns
<1>2. a \notin deleted /\ b \notin deleted
  BY <1>0 DEF DeletedInv
<1>c. PICK n : dependencies' = dependencies \cup {<<a, b, n>>}
  BY DEF InsertDependency
<1>3. /\ Moves(u, "ready", NoJob, 0, 1, <<>>) /\ UNCHANGED <<status, deleted>>
      /\ late' = IF TooLate(b) THEN late \cup {<<a, b>>} ELSE late
      /\ \A d \in dependencies' : d \in dependencies \/ (d[1] = a /\ d[2] = b)
  <2>1. Moves(u, "ready", NoJob, 0, 1, <<>>)
    BY CallMoves
  <2>2. /\ UNCHANGED <<status, deleted>>
        /\ late' = IF TooLate(b) THEN late \cup {<<a, b>>} ELSE late
    BY DEF InsertDependency, jobVars
  <2>3. \A d \in dependencies' : d \in dependencies \/ (d[1] = a /\ d[2] = b)
    BY <1>c
  <2>4. QED
    BY <2>1, <2>2, <2>3
<1> HIDE DEF dp
<1>4. \A x \in Actors : call[x].at \in Executing => call'[x] = call[x]
  BY <1>0, <1>3 DEF Moves, Executing
<1>5. ASSUME NEW j \in Jobs, NEW p, Occurs(policies[j], p) PROVE Occurs(policies'[j], p)
  <2>1. policies[j] \in Seq(Policy) /\ dp \in Policy
    BY DEF Typed, Policy, dp
  <2>2. \A q : Occurs(policies[j], q) => Occurs(Assigned(policies[j], dp), q)
    BY <2>1, AssignedProperties
  <2>3. QED
    BY <1>1, <1>5, <2>2
<1>6. Occurs(policies'[a], dp) /\ Occurs(policies'[b], dp)
  <2>1. policies[a] \in Seq(Policy) /\ policies[b] \in Seq(Policy) /\ dp \in Policy
    BY <1>1 DEF Typed, Policy, dp
  <2>2. Occurs(Assigned(policies[a], dp), dp) /\ Occurs(Assigned(policies[b], dp), dp)
    BY <2>1, AssignedProperties
  <2>3. QED
    BY <1>1, <2>2
<1>7. ASSUME NEW d \in dependencies
      PROVE  \A x \in Actors : Resolves(x, d[2]) => Resolves(x, d[2])'
  <2>1. d[2] \in Jobs /\ Occurs(policies[d[2]], dp) /\ dp \in Policy
    BY DEF Typed, DependencyInv, Policy, dp
  <2>2. \/ policies'[d[2]] = policies[d[2]]
        \/ policies'[d[2]] = Assigned(policies[d[2]], dp)
    BY <1>1, <2>1
  <2>3. \A x \in Actors : Resolves(x, d[2]) => call'[x] = call[x]
    BY <1>4 DEF Resolves, Executing
  <2>4. QED
    BY <2>1, <2>2, <2>3, ResolvesExtends DEF dp
<1>8. ASSUME status[b] = "Success" PROVE <<a, b>> \in late' \/ \E x \in Actors : Resolves(x, b)'
  <2>1. CASE TooLate(b)
    BY <1>3, <2>1
  <2>2. CASE ~ TooLate(b)
    <3>1. policies'[b] = Assigned(policies[b], DependencyPolicy)
      BY <1>1 DEF dp
    <3>2. QED
      BY <1>1, <1>4, <1>8, <2>2, <3>1, InTime
  <2>3. QED
    BY <2>1, <2>2
<1>9. ASSUME NEW d \in dependencies'
      PROVE  (/\ Occurs(policies[d[1]], DependencyPolicy)
              /\ Occurs(policies[d[2]], DependencyPolicy)
              /\ status[d[2]] = "Success" =>
                   d[2] \notin deleted /\
                   (<<d[1], d[2]>> \in late \/ \E x \in Actors : Resolves(x, d[2])))'
  <2>1. CASE d \in dependencies
    <3>1. Occurs(policies'[d[1]], dp) /\ Occurs(policies'[d[2]], dp)
      BY <1>5, <2>1 DEF Typed, DependencyInv, dp
    <3>2. QED
      BY <1>3, <1>7, <2>1, <3>1 DEF DependencyInv, dp
  <2>2. CASE d[1] = a /\ d[2] = b
    <3>1. status'[d[2]] = "Success" =>
            <<d[1], d[2]>> \in late' \/ \E x \in Actors : Resolves(x, d[2])'
      BY <1>3, <1>8, <2>2 DEF Resolves
    <3>2. QED
      BY <1>2, <1>3, <1>6, <2>2, <3>1 DEF dp
  <2>3. QED
    BY <1>3, <1>9, <2>1, <2>2
<1>10. QED
  BY <1>9 DEF DependencyInv

LEMMA DependencyUser ==
  ASSUME Typed, PlaceInv, ExecInv, DeletedInv, AgreedInv, DependencyInv,
         NEW u \in Users, (CallStep(u) /\ ~ Execute(u)) \/ ApiCall(u)
  PROVE  DependencyInv'
<1>0. u \in Actors /\ u \notin Threads
  BY ActorsDiffer
<1>s. ASSUME UNCHANGED <<policies, late, deleted>>, dependencies' \subseteq dependencies,
             \A j \in Jobs : status'[j] = "Success" => status[j] = "Success",
             \A a \in Actors : call'[a] = call[a] \/ call[a].at \notin Ended
      PROVE  DependencyInv'
  <2>1. \A a \in Actors : \A j : Resolves(a, j) => Resolves(a, j)'
    BY <1>s, ResolvesFrame DEF Resolves, Ended
  <2>2. QED
    BY <1>s, <2>1, DependencyFrame DEF Typed
<1>w. Woken => \A a \in Actors : call'[a] = call[a] \/ call[a].at \notin Ended
  BY DEF Woken, Ended
<1>m. ASSUME NEW at, NEW j, NEW c, NEW k, NEW w, Moves(u, at, j, c, k, w), call[u].at \notin Ended
      PROVE  \A a \in Actors : call'[a] = call[a] \/ call[a].at \notin Ended
  BY <1>m DEF Moves
<1>1. CASE InsertDependency(u)
  BY <1>1, DependencyInsert
<1>2. CASE FinishReturn(u)
  <2>1. Moves(u, "ready", NoJob, 0, 1, <<>>) /\ call[u].at \notin Ended
    BY <1>2, CallMoves DEF FinishReturn, Is, Ended
  <2>2. QED
    BY <1>2, <1>m, <1>s, <2>1 DEF FinishReturn, jobVars, policyVars
<1>3. CASE FinishTimeout(u)
  BY <1>3, <1>s, <1>w, CallMoves DEF FinishTimeout, jobVars, policyVars
<1>4. ASSUME NEW op \in Operations, Enqueue(u, op) PROVE DependencyInv'
  <2>1. \A j \in Jobs : status'[j] = "Success" => status[j] = "Success"
    BY <1>4 DEF Enqueue, Typed
  <2>2. QED
    BY <1>4, <1>s, <1>w, <2>1, CallMoves DEF Enqueue, policyVars
<1>5. ASSUME NEW op \in Operations, Dequeue(u, op) PROVE DependencyInv'
  <2>1. \A j \in Jobs : status'[j] = "Success" => status[j] = "Success"
    BY <1>5 DEF Dequeue, Typed
  <2>2. QED
    BY <1>5, <1>s, <2>1 DEF Dequeue, policyVars
<1>6. ASSUME NEW op \in Operations, BlockingExecute(u, op) PROVE DependencyInv'
  <2>1. Moves(u, "begin", op.on[1], 0, 1, <<>>) /\ call[u].at \notin Ended
    BY <1>6, CallMoves DEF BlockingExecute, MayCall, Is, Ended
  <2>2. QED
    BY <1>6, <1>m, <1>s, <2>1 DEF BlockingExecute, jobVars, policyVars
<1>7. ASSUME NEW op \in Operations, AddDependency(u, op) PROVE DependencyInv'
  <2>1. PICK c \in Nat, k \in Nat : Moves(u, "adding", NoJob, c, k, op.on)
    BY <1>7, CallMoves
  <2>2. call[u].at \notin Ended
    BY <1>7 DEF AddDependency, MayCall, Is, Ended
  <2>3. QED
    BY <1>7, <1>m, <1>s, <2>1, <2>2 DEF AddDependency, jobVars, policyVars
<1>8. ASSUME NEW op \in Operations, Finish(u, op) PROVE DependencyInv'
  <2>1. PICK c \in Nat, k \in Nat : Moves(u, "finishing", NoJob, c, k, op.on)
    BY <1>8, CallMoves
  <2>2. call[u].at \notin Ended
    BY <1>8 DEF Finish, MayCall, Is, Ended
  <2>3. QED
    BY <1>8, <1>m, <1>s, <2>1, <2>2 DEF Finish, jobVars, policyVars
<1>9. ASSUME NEW op \in Operations,
             RemoveDependency(u, op) \/ SetCap(u, op) \/ OnFinish(u, op)
      PROVE  DependencyInv'
  BY <1>9, <1>s DEF RemoveDependency, SetCap, OnFinish, jobVars, policyVars
<1>10. ASSUME NEW op \in Operations, ChangePolicies(u, op) PROVE DependencyInv'
  <2>1. PICK j \in Jobs, p \in Policy :
          /\ UNCHANGED <<call, status, deleted, dependencies, late>>
          /\ \/ policies' = [policies EXCEPT ![j] = Assigned(@, p)]
             \/ /\ policies' = [policies EXCEPT ![j] = WithoutPolicy(@, p)]
                /\ ~ InFlight(j) /\ p # DependencyPolicy
    <3>1. CASE MayCall(u, op, "assignPolicy")
      <4>1. op.on[1] \in Jobs /\ op.on[2] \in Policy
        BY <3>1, OperationsAssumption DEF MayCall
      <4>2. policies' = [policies EXCEPT ![op.on[1]] = Assigned(@, op.on[2])]
        BY <1>10, <3>1 DEF ChangePolicies, MayCall
      <4>3. QED
        BY <1>10, <4>1, <4>2 DEF ChangePolicies, jobVars
    <3>2. CASE MayCall(u, op, "removePolicy")
      <4>1. op.on[1] \in Jobs /\ op.on[2] \in Policy /\ op.on[2] # DependencyPolicy
        BY <3>2, OperationsAssumption, SharingAssumption DEF MayCall, Policy
      <4>2. policies' = [policies EXCEPT ![op.on[1]] = WithoutPolicy(@, op.on[2])]
            /\ ~ InFlight(op.on[1])
        BY <1>10, <3>2 DEF ChangePolicies, MayCall
      <4>3. QED
        BY <1>10, <4>1, <4>2 DEF ChangePolicies, jobVars
    <3>3. QED
      BY <1>10, <3>1, <3>2 DEF ChangePolicies
  <2>2. policies[j] \in Seq(Policy) /\ Distinct(policies[j])
    BY DEF Typed, AgreedInv
  <2>3. \A i \in Jobs : i # j => policies'[i] = policies[i]
    BY <2>1 DEF Typed
  <2>4. Occurs(policies[j], DependencyPolicy) => Occurs(policies'[j], DependencyPolicy)
    <3>1. CASE policies'[j] = Assigned(policies[j], p)
      BY <2>2, <3>1, AssignedProperties
    <3>2. CASE policies'[j] = WithoutPolicy(policies[j], p) /\ p # DependencyPolicy
      BY <2>2, <3>2, WithoutPolicyProperties
    <3>3. QED
      BY <2>1, <3>1, <3>2 DEF Typed
  <2>5. ASSUME NEW d \in dependencies, NEW a \in Actors, Resolves(a, d[2])
        PROVE  Resolves(a, d[2])'
    <3>1. d[2] \in Jobs /\ Occurs(policies[d[2]], DependencyPolicy)
      BY DEF Typed, DependencyInv
    <3>2. ~ InFlight(j) => d[2] # j
      BY <2>5 DEF InFlight, Resolves
    <3>3. \/ policies'[d[2]] = policies[d[2]]
          \/ policies'[d[2]] = Assigned(policies[d[2]], p)
      BY <2>1, <2>3, <3>1, <3>2 DEF Typed
    <3>4. QED
      BY <2>1, <2>5, <3>1, <3>3, ResolvesExtends
  <2>6. QED
    BY <2>1, <2>3, <2>4, <2>5, DependencyFrame DEF Typed
<1>11. ASSUME NEW op \in Operations, Delete(u, op) PROVE DependencyInv'
  <2>1. PICK j \in Jobs :
          /\ UNCHANGED <<call, status, policies, late>> /\ deleted' = deleted \cup {j}
          /\ FreeAll(j, ToSet(policies[j]))
    BY <1>11, OperationsAssumption DEF Delete, MayCall
  <2>2. /\ dependencies' \subseteq dependencies
        /\ DependencyPolicy \in ToSet(policies[j]) /\ status[j] = "Success" =>
             \A d \in dependencies' : d[2] # j
    BY <2>1, FreeResolves DEF Typed
  <2>3. ASSUME NEW d \in dependencies', status'[d[2]] = "Success" PROVE d[2] # j
    <3>1. CASE Occurs(policies[j], DependencyPolicy)
      <4>1. policies[j] \in Seq(Policy)
        BY DEF Typed
      <4>2. DependencyPolicy \in ToSet(policies[j])
        BY <3>1, <4>1, AheadProperties
      <4>3. QED
        BY <2>1, <2>2, <2>3, <4>2
    <3>2. CASE ~ Occurs(policies[j], DependencyPolicy)
      BY <2>2, <3>2 DEF DependencyInv
    <3>3. QED
      BY <3>1, <3>2
  <2>4. \A a \in Actors : \A i : Resolves(a, i) => Resolves(a, i)'
    BY <2>1, ResolvesFrame
  <2>5. QED
    BY <2>1, <2>2, <2>3, <2>4, DependencyFrame DEF Typed
<1>12. QED
  BY <1>1, <1>2, <1>3, <1>4, <1>5, <1>6, <1>7, <1>8, <1>9, <1>10, <1>11 DEF CallStep, ApiCall

-------------------------------------------------------------------------------
(* Dependencies of jobs that are being asked about *)

LEMMA AskedFrame ==
  ASSUME AskedInv,
         \A t \in Threads : call'[t].at = "asking" => call'[t] = call[t],
         \A d \in dependencies' : d \in dependencies \/
           \A t \in Threads : call[t].at = "asking" => call[t].job # d[1]
  PROVE  AskedInv'
BY DEF AskedInv, HasUnresolvedDependencies

LEMMA AskedScan ==
  ASSUME Typed, PlaceInv, AskedInv, NEW t \in Threads,
         Apply(t) \/ LockCandidate(t) \/ Sleep(t) \/ Ask(t) \/ HandOut(t) \/ GiveBack(t)
  PROVE  AskedInv'
<1>0. dependencies' = dependencies
  BY DEF Apply, LockCandidate, Sleep, Ask, HandOut, GiveBack, policyVars
<1>o. \A x \in Threads : x # t => call'[x] = call[x]
  BY ActorsDiffer, ScanMoves DEF Moves
<1>1. CASE LockCandidate(t)
  <2>1. call'[t].with = <<>>
    BY <1>1, ScanMoves DEF Moves
  <2>2. ~ Occurs(<<>>, DependencyPolicy)
    BY DEF Occurs
  <2>3. QED
    BY <1>0, <1>o, <2>1, <2>2 DEF AskedInv
<1>2. CASE Ask(t)
  <2> DEFINE j == call[t].job
             w == call[t].with
             p == policies[j][call[t].k]
             v == Append(w, p)
  <2>1. /\ p \in Policy /\ call[t].at = "asking" /\ w \in Seq(Policy)
        /\ IF Allows(p, j) THEN Moves(t, "asking", j, call[t].cursor, call[t].k + 1, v)
                           ELSE Moves(t, "releasing", j, call[t].cursor, 1, w)
    BY <1>2, ScanMoves, ActorsDiffer DEF Ask, Is, PlaceInv, InPlace
  <2>2. CASE Allows(p, j)
    <3>1. Moves(t, "asking", j, call[t].cursor, call[t].k + 1, v)
      BY <2>1, <2>2
    <3>2. Occurs(v, DependencyPolicy) => p = DependencyPolicy \/ Occurs(w, DependencyPolicy)
      <4> HIDE DEF w, p
      <4>1. \A r : Occurs(v, r) <=> r = p \/ Occurs(w, r)
        BY <2>1, AppendOccurs
      <4>2. QED
        BY <4>1
    <3>3. p = DependencyPolicy => ~ HasUnresolvedDependencies(dependencies, j)
      BY <2>2 DEF Allows
    <3> HIDE DEF p, v
    <3>4. Occurs(v, DependencyPolicy) => ~ HasUnresolvedDependencies(dependencies', j)
      BY <1>0, <2>1, <3>2, <3>3 DEF AskedInv
    <3>5. call'[t].job = j /\ call'[t].with = v
      BY <3>1 DEF Moves
    <3> HIDE DEF j
    <3>6. QED
      BY <1>0, <1>o, <3>4, <3>5 DEF AskedInv
  <2>3. CASE ~ Allows(p, j)
    <3>1. call'[t].at = "releasing"
      BY <2>1, <2>3 DEF Moves
    <3>2. QED
      BY <1>0, <1>o, <3>1, AskedFrame
  <2>4. QED
    BY <2>2, <2>3
<1>3. CASE Apply(t) \/ Sleep(t) \/ HandOut(t) \/ GiveBack(t)
  <2>1. call'[t].at # "asking"
    BY <1>3, ScanMoves DEF Moves
  <2>2. QED
    BY <1>0, <1>o, <2>1, AskedFrame
<1>4. QED
  BY <1>1, <1>2, <1>3

LEMMA AskedExecute ==
  ASSUME Typed, PlaceInv, AskedInv, NEW a \in Actors, Execute(a)
  PROVE  AskedInv'
<1>1. /\ call'[a].at # "asking" /\ \A b \in Actors : b # a => call'[b] = call[b]
  BY ExecuteAway DEF Executing
<1>2. dependencies' \subseteq dependencies
  BY DEF Execute, Begin, Run, CopyHandlers, Handle, Free, FreeAll, ResolveDependencies,
         Freed, Leave, policyVars
<1>3. QED
  BY <1>1, <1>2, AskedFrame, ActorsDiffer

LEMMA AskedUser ==
  ASSUME Typed, PlaceInv, LockInv, AskedInv, NEW u \in Users,
         (CallStep(u) /\ ~ Execute(u)) \/ ApiCall(u)
  PROVE  AskedInv'
<1>0. u \in Actors /\ u \notin Threads /\ \A t \in Threads : t \in Actors /\ t # u
  BY ActorsDiffer
<1>1. ASSUME NEW t \in Threads, call'[t].at = "asking" PROVE call'[t] = call[t]
  <2>1. CASE InsertDependency(u) \/ FinishReturn(u) \/ FinishTimeout(u)
    BY <1>0, <1>1, <2>1, CallMoves DEF Moves, Woken
  <2>2. ASSUME NEW op \in Operations,
               \/ Enqueue(u, op) \/ BlockingExecute(u, op)
               \/ AddDependency(u, op) \/ Finish(u, op)
        PROVE  call'[t] = call[t]
    BY <1>0, <1>1, <2>2, CallMoves DEF Moves, Woken
  <2>3. ASSUME NEW op \in Operations,
               Dequeue(u, op) \/ RemoveDependency(u, op) \/ SetCap(u, op)
                 \/ ChangePolicies(u, op) \/ OnFinish(u, op) \/ Delete(u, op)
        PROVE  call'[t] = call[t]
    BY <2>3 DEF Dequeue, RemoveDependency, SetCap, ChangePolicies, OnFinish, Delete
  <2>4. QED
    BY <2>1, <2>2, <2>3 DEF CallStep, ApiCall
<1>2. CASE InsertDependency(u)
  <2>1. PICK n : dependencies' = dependencies \cup {<<call[u].with[1], call[u].with[2], n>>}
    BY <1>2 DEF InsertDependency
  <2>2. call[u].at = "adding" /\ call[u].with[1] \in Jobs
    BY <1>2, InsertAssigns DEF InsertDependency, Is
  <2>3. \A t \in Threads : call[t].at = "asking" => call[t].job # call[u].with[1]
    BY <1>0, <2>2 DEF LockInv, Locks, Asking
  <2>4. QED
    BY <1>1, <2>1, <2>3, AskedFrame
<1>3. CASE ~ InsertDependency(u)
  <2>1. dependencies' \subseteq dependencies
    BY <1>3 DEF CallStep, ApiCall, FinishReturn, FinishTimeout, Enqueue, Dequeue, BlockingExecute,
                AddDependency, RemoveDependency, SetCap, ChangePolicies, OnFinish, Delete, FreeAll,
                ResolveDependencies, Finish, policyVars
  <2>2. QED
    BY <1>1, <2>1, AskedFrame
<1>4. QED
  BY <1>2, <1>3

-------------------------------------------------------------------------------
(* Dependencies that were declared at first *)

LEMMA DeclaredFrame ==
  ASSUME DeclaredInv, removed \subseteq removed',
         \A d \in DependsOn \ removed' : \A e \in dependencies :
           e[1] = d[1] /\ e[2] = d[2] =>
             Done(d[2])' \/ \E x \in dependencies' : x[1] = d[1] /\ x[2] = d[2],
         \A j \in Jobs : Done(j) => Done(j)'
  PROVE  DeclaredInv'
<1>1. ASSUME NEW d \in DependsOn \ removed'
      PROVE  (\E x \in dependencies' : x[1] = d[1] /\ x[2] = d[2]) \/ Done(d[2])'
  <2>1. d \in DependsOn \ removed /\ d[2] \in Jobs
    BY PoliciesAssumption
  <2>2. QED
    BY <2>1 DEF DeclaredInv
<1>2. QED
  BY <1>1 DEF DeclaredInv

(* Nobody takes up again what is done.                                     *)
LEMMA DoneFrame ==
  ASSUME \A j \in Jobs : status[j] = "Success" => status'[j] = "Success",
         \A a \in Actors : call'[a].job = call[a].job \/ call'[a].job \notin Jobs
                             \/ status[call'[a].job] # "Success",
         \A a \in Actors : call[a].at \in {"freeing", "leaving"} /\ call'[a].job \in Jobs =>
           call'[a].at \in {"freeing", "leaving"}
  PROVE  \A j \in Jobs : Done(j) => Done(j)'
BY DEF Done

LEMMA DeclaredScan ==
  ASSUME Typed, PlaceInv, ExecInv, DeclaredInv, NEW t \in Threads,
         Apply(t) \/ LockCandidate(t) \/ Sleep(t) \/ Ask(t) \/ HandOut(t) \/ GiveBack(t)
  PROVE  DeclaredInv'
<1>1. /\ UNCHANGED <<dependencies, removed, status>>
      /\ call[t].at \notin {"freeing", "leaving"}
  BY DEF Apply, LockCandidate, Sleep, Ask, HandOut, GiveBack, Is, jobVars, policyVars
<1>2. \A x \in Actors : x # t => call'[x] = call[x]
  BY ScanMoves DEF Moves
<1>3. ASSUME LockCandidate(t) PROVE status[call'[t].job] = "Queued"
  <2>1. call[t].at = "candidate" /\ call[t].cursor <= Len(queue[QueueOf[t]])
    BY <1>3 DEF LockCandidate, Is
  <2>2. status[Candidate(t)] = "Queued"
    BY <2>1, CandidateIsQueued DEF ExecInv
  <2>3. QED
    BY <1>3, <2>2, ScanMoves DEF Moves
<1>4. \/ call'[t].job = call[t].job \/ call'[t].job \notin Jobs
      \/ status[call'[t].job] # "Success"
  <2>1. CASE LockCandidate(t)
    BY <1>3, <2>1
  <2>2. CASE Apply(t) \/ Sleep(t) \/ Ask(t) \/ HandOut(t) \/ GiveBack(t)
    BY <2>2, ScanMoves, SharingAssumption DEF Moves
  <2>3. QED
    BY <2>1, <2>2
<1>5. \A j \in Jobs : Done(j) => Done(j)'
  BY <1>1, <1>2, <1>4, DoneFrame
<1>6. QED
  BY <1>1, <1>5, DeclaredFrame

LEMMA DeclaredExecute ==
  ASSUME Typed, PlaceInv, LockInv, ExecInv, DeclaredInv, NEW a \in Actors, Execute(a)
  PROVE  DeclaredInv'
<1>1. call[a].at \in Executing /\ removed' = removed
      /\ \A b \in Actors : b # a => call'[b] = call[b]
  BY ExecuteAway
<1>2. call[a].job \in Jobs
  BY <1>1 DEF PlaceInv, InPlace
<1>3. call'[a].job = call[a].job \/ call'[a].job \notin Jobs
  BY ExecuteMoves, SharingAssumption DEF Execute, Moves
<1>4. CASE Begin(a) \/ Run(a)
  <2>1. /\ \E s : status' = [status EXCEPT ![call[a].job] = s]
        /\ call[a].at \in {"begin", "running"} /\ dependencies' = dependencies
    BY <1>4 DEF Begin, Run, Is, policyVars
  <2>2. status[call[a].job] # "Success"
    BY <1>1, <2>1 DEF ExecInv, StatusInv
  <2>3. \A j \in Jobs : status[j] = "Success" => status'[j] = "Success"
    BY <2>1, <2>2 DEF Typed
  <2>4. \A j \in Jobs : Done(j) => Done(j)'
    BY <1>1, <1>3, <2>1, <2>3, DoneFrame
  <2>5. QED
    BY <1>1, <2>1, <2>4, DeclaredFrame
<1>5. CASE CopyHandlers(a) \/ Handle(a) \/ Free(a) \/ Freed(a) \/ Leave(a)
  <2>1. status' = status
    BY <1>5 DEF CopyHandlers, Handle, Free, Freed, Leave, jobVars
  <2>2. call[a].at \in {"freeing", "leaving"} /\ call'[a].job \in Jobs =>
          call'[a].at \in {"freeing", "leaving"}
    BY <1>5, ExecuteMoves, SharingAssumption DEF CopyHandlers, Handle, Is, Moves
  <2>3. \A j \in Jobs : Done(j) => Done(j)'
    BY <1>1, <1>3, <2>1, <2>2, DoneFrame
  <2>4. CASE ~ Free(a)
    BY <1>1, <1>5, <2>3, <2>4, DeclaredFrame DEF CopyHandlers, Handle, Freed, Leave, policyVars
  <2>5. CASE Free(a)
    <3>1. call'[a].at = "freeing"
      BY <2>5, ExecuteMoves DEF Moves
    <3>2. PICK ps : FreeAll(call[a].job, ps)
      BY <2>5 DEF Free
    <3>3. ASSUME NEW e \in dependencies, e \notin dependencies'
          PROVE  e[2] = call[a].job /\ status[e[2]] = "Success"
      BY <1>2, <3>2, <3>3, FreeResolves
    <3>4. \A b \in Actors : call[b].job = call[a].job => b = a
      <4>1. \A b \in Actors : call[b].job \in Jobs => call[b].at \in Asking \cup Executing
        BY SharingAssumption DEF PlaceInv, InPlace
      <4>2. QED
        BY <1>1, <1>2, <4>1, OneCares DEF ExecInv
    <3>5. ASSUME NEW d \in DependsOn, NEW e \in dependencies, e[2] = d[2], e \notin dependencies'
          PROVE  Done(d[2])'
      <4>1. d[2] = call[a].job /\ status'[d[2]] = "Success"
        BY <2>1, <3>3, <3>5
      <4>2. \A b \in Actors : call'[b].job = d[2] => b = a
        BY <1>1, <3>4, <4>1
      <4>3. QED
        BY <3>1, <4>1, <4>2 DEF Done
    <3>6. QED
      BY <1>1, <2>3, <3>5, DeclaredFrame
  <2>6. QED
    BY <2>4, <2>5
<1>6. QED
  BY <1>4, <1>5 DEF Execute

LEMMA DeclaredUser ==
  ASSUME Typed, PlaceInv, LockInv, ExecInv, DeclaredInv, NEW u \in Users,
         (CallStep(u) /\ ~ Execute(u)) \/ ApiCall(u)
  PROVE  DeclaredInv'
<1>0. u \in Actors /\ u \notin Threads /\ Nobody \notin Actors /\ NoJob \notin Jobs
  BY ActorsDiffer, SharingAssumption
<1>s. ASSUME \A j \in Jobs : Done(j) => Done(j)', removed' = removed,
             dependencies \subseteq dependencies'
      PROVE  DeclaredInv'
  BY <1>s, DeclaredFrame
<1>d. ASSUME \A j \in Jobs : status[j] = "Success" => status'[j] = "Success",
             \/ UNCHANGED call \/ Woken
             \/ \E at, c, k, w : Moves(u, at, NoJob, c, k, w)
      PROVE  \A j \in Jobs : Done(j) => Done(j)'
  <2>1. /\ \A a \in Actors : call'[a].job = call[a].job \/ call'[a].job \notin Jobs
        /\ \A a \in Actors : call[a].at \in {"freeing", "leaving"} /\ call'[a].job \in Jobs =>
             call'[a].at \in {"freeing", "leaving"}
    BY <1>0, <1>d DEF Moves, Woken
  <2>2. QED
    BY <1>d, <2>1, DoneFrame
<1>1. CASE InsertDependency(u) \/ FinishReturn(u) \/ FinishTimeout(u)
  <2>1. status' = status /\ dependencies \subseteq dependencies' /\ removed' = removed
    BY <1>1 DEF InsertDependency, FinishReturn, FinishTimeout, jobVars, policyVars
  <2>2. Woken \/ Moves(u, "ready", NoJob, 0, 1, <<>>)
    BY <1>1, CallMoves
  <2>3. QED
    BY <1>d, <1>s, <2>1, <2>2
<1>2. ASSUME NEW op \in Operations,
             Enqueue(u, op) \/ Dequeue(u, op) \/ AddDependency(u, op) \/ Finish(u, op)
               \/ SetCap(u, op) \/ ChangePolicies(u, op) \/ OnFinish(u, op)
      PROVE  DeclaredInv'
  <2>1. /\ \A j \in Jobs : status[j] = "Success" => status'[j] = "Success"
        /\ UNCHANGED <<dependencies, removed>>
    BY <1>2 DEF Enqueue, Dequeue, AddDependency, Finish, SetCap, ChangePolicies, OnFinish, Typed,
                jobVars, policyVars
  <2>2. UNCHANGED call \/ Woken \/ \E at, c, k, w : Moves(u, at, NoJob, c, k, w)
    BY <1>2, CallMoves DEF Dequeue, SetCap, ChangePolicies, OnFinish
  <2>3. QED
    BY <1>d, <1>s, <2>1, <2>2
<1>3. ASSUME NEW op \in Operations, BlockingExecute(u, op) PROVE DeclaredInv'
  <2>1. /\ UNCHANGED <<status, dependencies, removed>> /\ call[u].at = "ready"
        /\ status[op.on[1]] = "New" /\ Moves(u, "begin", op.on[1], 0, 1, <<>>)
    BY <1>3, CallMoves DEF BlockingExecute, MayCall, Is, jobVars, policyVars
  <2>2. \A j \in Jobs : Done(j) => Done(j)'
    BY <1>0, <2>1, DoneFrame DEF Moves
  <2>3. QED
    BY <1>s, <2>1, <2>2
<1>4. ASSUME NEW op \in Operations, RemoveDependency(u, op) PROVE DeclaredInv'
  <2>1. /\ op.on \in Jobs \X Jobs /\ UNCHANGED <<call, status>> /\ removed' = removed \cup {op.on}
        /\ \A e \in dependencies : ~ (e[1] = op.on[1] /\ e[2] = op.on[2]) => e \in dependencies'
    BY <1>4, OperationsAssumption DEF RemoveDependency, MayCall, jobVars
  <2>2. ASSUME NEW d \in DependsOn \ removed' PROVE ~ (d[1] = op.on[1] /\ d[2] = op.on[2])
    <3>1. d \in Jobs \X Jobs /\ d # op.on
      BY <2>1, PoliciesAssumption
    <3>2. QED
      BY <2>1, <3>1
  <2>3. \A j \in Jobs : Done(j) => Done(j)'
    BY <1>d, <2>1
  <2>4. QED
    BY <2>1, <2>2, <2>3, DeclaredFrame
<1>5. ASSUME NEW op \in Operations, Delete(u, op) PROVE DeclaredInv'
  <2>1. PICK j \in Jobs :
          /\ UNCHANGED <<call, status, removed>> /\ ~ InFlight(j) /\ mutex[j] = Nobody
          /\ FreeAll(j, ToSet(policies[j]))
    BY <1>5, OperationsAssumption DEF Delete, MayCall
  <2>2. \A i \in Jobs : Done(i) => Done(i)'
    BY <1>d, <2>1
  <2>3. \A e \in dependencies : e \notin dependencies' => e[2] = j /\ status[j] = "Success"
    BY <2>1, FreeResolves
  <2>4. ASSUME NEW a \in Actors PROVE call[a].job # j
    <3>1. call[a].job = j => call[a].at \in Asking \cup Executing
      BY <1>0 DEF PlaceInv, InPlace
    <3>2. call[a].at \in Asking /\ call[a].job = j => mutex[j] = a
      BY DEF LockInv, Locks
    <3>3. QED
      BY <1>0, <2>1, <3>1, <3>2 DEF InFlight, Executing
  <2>5. status[j] = "Success" => Done(j)'
    BY <2>1, <2>4 DEF Done
  <2>6. ASSUME NEW d \in DependsOn, NEW e \in dependencies, e[1] = d[1], e[2] = d[2]
        PROVE  Done(d[2])' \/ \E x \in dependencies' : x[1] = d[1] /\ x[2] = d[2]
    <3>1. e \notin dependencies' => d[2] = j /\ status[j] = "Success"
      BY <2>3, <2>6
    <3>2. QED
      BY <2>1, <2>4, <2>6, <3>1 DEF Done
  <2>7. QED
    BY <2>1, <2>2, <2>6, DeclaredFrame
<1>6. QED
  BY <1>1, <1>2, <1>3, <1>4, <1>5 DEF CallStep, ApiCall

-------------------------------------------------------------------------------
(* The invariant holds *)

LEMMA PolicyInit ==
  ASSUME Init
  PROVE  PolicyInv
<1>1. ASSUME NEW a \in Actors
      PROVE  /\ call[a] \in Call /\ call[a].at = IF a \in Threads THEN "asleep" ELSE "ready"
             /\ call[a].job = NoJob /\ call[a].with = <<>>
  <2> DEFINE p == IF a \in Threads THEN "asleep" ELSE "ready"
  <2>1. p \in Places /\ call[a] = At(p)
    BY DEF Init, Places
  <2> HIDE DEF p
  <2>2. QED
    BY <2>1, AtCall DEF p
<1>2. \A q \in Queues : queue[q] = <<>>
  BY DEF Init
<1>3. \A x : ~ Occurs(<<>>, x)
  BY DEF Occurs
<1>4. Distinct(<<>>)
  BY DEF Distinct
<1>5. \A a \in Actors :
        call[a].at \notin Asking \cup Executing \cup {"candidate", "adding", "finishing"}
  BY <1>1 DEF Asking, Executing
<1>6. \A j \in Jobs : status[j] = "New" /\ policies[j] = InitialPolicies[j]
  BY DEF Init
<1>7. Typed
  <2>1. queue \in [Queues -> Seq(Jobs)] /\ policies \in [Jobs -> Seq(Policy)]
    BY PoliciesAssumption DEF Init
  <2>2. call \in [Actors -> Call]
    BY <1>1 DEF Init
  <2>3. \A d \in dependencies : d[1] \in Jobs /\ d[2] \in Jobs
    BY PoliciesAssumption DEF Init
  <2>4. QED
    BY <2>1, <2>2, <2>3 DEF Init, Typed
<1>8. PlaceInv
  <2>1. <<>> \in Seq(Policy)
    OBVIOUS
  <2>2. QED
    BY <1>1, <1>5, <2>1, ActorsDiffer DEF PlaceInv, InPlace, Asking, Executing
<1>9. LockInv
  <2>1. /\ \A q \in Queues : lock[q] = Nobody
        /\ \A j \in Jobs : mutex[j] = Nobody
    BY DEF Init
  <2>2. QED
    BY <1>5, <2>1, SharingAssumption DEF LockInv, Scans, Locks, Asking
<1>10. ExecInv
  <2>1. OneExecutes /\ AskedIsQueued
    BY <1>5 DEF OneExecutes, AskedIsQueued
  <2>2. QueuedInv
    BY <1>2, <1>3, <1>4 DEF QueuedInv
  <2>3. StatusInv
    BY <1>5 DEF StatusInv, Executing, Ended
  <2>4. QED
    BY <2>1, <2>2, <2>3 DEF ExecInv
<1>11. DeletedInv
  BY <1>5 DEF Init, DeletedInv
<1>12. AgreedInv
  <2>1. \A j \in Jobs : Distinct(policies[j])
    BY <1>6, PoliciesAssumption DEF IsInjective, Distinct
  <2>2. \A a \in Actors : Agreed(a)
    BY <1>5 DEF Agreed, Asking, Executing
  <2>3. QED
    BY <2>1, <2>2 DEF AgreedInv
<1>13. SlotInv
  <2>1. \A t \in Threads : \A r : ~ Has(t, r)
    BY <1>5, ActorsDiffer, HasWhere
  <2>2. \A r \in Restrictions : customers[r] = {}
    BY DEF Init
  <2>3. QED
    BY <2>1, <2>2 DEF SlotInv
<1>14. DependencyInv
  <2>1. ASSUME NEW d \in dependencies
        PROVE  /\ d[1] \in Jobs /\ Occurs(policies[d[1]], DependencyPolicy)
               /\ d[2] \in Jobs /\ Occurs(policies[d[2]], DependencyPolicy)
    <3>1. PICK e \in DependsOn : d[1] = e[1] /\ d[2] = e[2]
      BY <2>1 DEF Init
    <3>2. /\ d[1] \in Jobs /\ DependencyPolicy \in ToSet(InitialPolicies[d[1]])
          /\ d[2] \in Jobs /\ DependencyPolicy \in ToSet(InitialPolicies[d[2]])
      BY <3>1, PoliciesAssumption
    <3>3. policies[d[1]] \in Seq(Policy) /\ policies[d[2]] \in Seq(Policy)
      BY <1>7, <3>2 DEF Typed
    <3>4. QED
      BY <1>6, <3>2, <3>3, AheadProperties
  <2>2. QED
    BY <1>6, <2>1 DEF DependencyInv
<1>15. AskedInv
  BY <1>5, ActorsDiffer DEF AskedInv, Asking
<1>16. DeclaredInv
  <2>1. ASSUME NEW d \in DependsOn PROVE \E e \in dependencies : e[1] = d[1] /\ e[2] = d[2]
    <3>1. <<d[1], d[2], 1>> \in dependencies
      BY DEF Init
    <3>2. QED
      BY <3>1
  <2>2. QED
    BY <2>1 DEF DeclaredInv
<1>17. QED
  BY <1>7, <1>8, <1>9, <1>10, <1>11, <1>12, <1>13, <1>14, <1>15, <1>16 DEF PolicyInv

LEMMA PolicyStep ==
  ASSUME PolicyInv, [Next]_vars
  PROVE  PolicyInv'
<1> USE DEF PolicyInv
<1>1. ASSUME NEW t \in Threads,
             Apply(t) \/ LockCandidate(t) \/ Sleep(t) \/ Ask(t) \/ HandOut(t) \/ GiveBack(t)
      PROVE  PolicyInv'
  BY <1>1, TypedScan, LockScan, ExecThread, DeletedThread, AgreedScan, SlotScan, DependencyScan,
     AskedScan, DeclaredScan
<1>2. ASSUME NEW a \in Actors, Execute(a) PROVE PolicyInv'
  BY <1>2, TypedExecute, LockExecute, ExecExecute, DeletedExecute, AgreedExecute, SlotExecute,
     DependencyExecute, AskedExecute, DeclaredExecute
<1>3. ASSUME NEW u \in Users, (CallStep(u) /\ ~ Execute(u)) \/ ApiCall(u) PROVE PolicyInv'
  BY <1>3, TypedUser, LockUser, ExecUser, DeletedUser, AgreedUser, SlotUser, DependencyUser,
     AskedUser, DeclaredUser
<1>4. CASE UNCHANGED vars
  <2> USE DEF vars, queueVars, jobVars, policyVars
  <2>1. Typed' /\ PlaceInv' /\ LockInv'
    BY <1>4 DEF Typed, PlaceInv, InPlace, LockInv, Scans, Locks
  <2>2. ExecInv' /\ DeletedInv'
    BY <1>4, ExecFrame DEF DeletedInv
  <2>3. AgreedInv' /\ SlotInv'
    BY <1>4, AgreedFrame, SlotFrame, HasFrame
  <2>4. DependencyInv' /\ AskedInv' /\ DeclaredInv'
    BY <1>4 DEF DependencyInv, Resolves, AskedInv, DeclaredInv, Done
  <2>5. QED
    BY <2>1, <2>2, <2>3, <2>4
<1>5. QED
  BY <1>1, <1>2, <1>3, <1>4, ActorsDiffer DEF Next, ThreadStep, CallStep

(* The policies of a job, what they have agreed to and what the actors do  *)
(* with it fit together in every state.                                    *)
THEOREM PolicyInvariant == Spec => []PolicyInv
<1>1. Init => PolicyInv
  BY PolicyInit
<1>2. PolicyInv /\ [Next]_vars => PolicyInv'
  BY PolicyStep
<1>3. QED
  BY <1>1, <1>2, PTL DEF Spec

-------------------------------------------------------------------------------
(* What follows *)

(* The customers of a restriction are exactly the jobs it has agreed to    *)
(* and has not been told about: canRun() is answered by one free() or      *)
(* release(), queuepolicy.h:30.                                            *)
THEOREM CustomersAreExact == Spec => []SlotsExact
<1>1. ASSUME PolicyInv PROVE SlotsExact
  <2>1. Typed /\ PlaceInv /\ SlotInv
    BY <1>1 DEF PolicyInv
  <2>2. \A t \in Threads : \A r : Has(t, r) => call[t].job \in Jobs
    BY <2>1, HasWhere, ActorsDiffer DEF PlaceInv, InPlace
  <2>3. \A r \in Restrictions : customers[r] \subseteq Jobs
    BY <2>1 DEF Typed
  <2>4. QED
    BY <2>1, <2>2, <2>3 DEF SlotsExact, SlotInv
<1>2. QED
  BY <1>1, PolicyInvariant, PTL

(* The dependencies on a job that has succeeded are resolved when it is    *)
(* over, except those added when it had resolved the others (free() in     *)
(* dependencypolicy.cpp runs once for each execution).                     *)
THEOREM OnlyLateDependenciesStay == Spec => []ResolvedUnlessLate
<1>1. ASSUME PolicyInv PROVE ResolvedUnlessLate
  <2>1. ASSUME NEW j, Over(j) PROVE \A a \in Actors : ~ Resolves(a, j)
    BY <2>1 DEF Over, InFlight, Resolves
  <2>2. QED
    BY <1>1, <2>1 DEF PolicyInv, DependencyInv, ResolvedUnlessLate
<1>2. QED
  BY <1>1, PolicyInvariant, PTL

(* A job is handed out in one way.                                         *)
LEMMA OnlyHandOutStarts ==
  ASSUME PolicyInv, [Next]_vars, NEW t \in Threads, Starts(t)
  PROVE  HandOut(t)
<1>0. Typed /\ PlaceInv
  BY DEF PolicyInv
<1>1. t \in Actors /\ call[t].at = "asking" /\ call'[t].at = "begin"
  BY ActorsDiffer DEF Starts
<1>2. ASSUME NEW x \in Threads, NEW at, NEW j, NEW c, NEW k, NEW w, Moves(x, at, j, c, k, w)
      PROVE  x = t /\ at = "begin"
  BY <1>1, <1>2 DEF Moves
<1>3. ASSUME NEW x \in Threads,
             Apply(x) \/ LockCandidate(x) \/ Sleep(x) \/ Ask(x) \/ HandOut(x) \/ GiveBack(x)
      PROVE  HandOut(t)
  BY <1>0, <1>2, <1>3, ScanMoves
<1>4. ASSUME NEW a \in Actors, Execute(a) PROVE FALSE
  <2>1. call[a].at \in Executing /\ \A b \in Actors : b # a => call'[b] = call[b]
    BY <1>0, <1>4, ExecuteAway
  <2>2. QED
    BY <1>1, <2>1 DEF Executing
<1>5. ASSUME NEW u \in Users, (CallStep(u) /\ ~ Execute(u)) \/ ApiCall(u) PROVE FALSE
  <2>1. u # t
    BY ActorsDiffer
  <2>2. CASE InsertDependency(u) \/ FinishReturn(u) \/ FinishTimeout(u)
    BY <1>0, <1>1, <2>1, <2>2, CallMoves DEF Moves, Woken
  <2>3. ASSUME NEW op \in Operations,
               \/ Enqueue(u, op) \/ BlockingExecute(u, op)
               \/ AddDependency(u, op) \/ Finish(u, op)
        PROVE  FALSE
    BY <1>0, <1>1, <2>1, <2>3, CallMoves DEF Moves, Woken
  <2>4. ASSUME NEW op \in Operations,
               Dequeue(u, op) \/ RemoveDependency(u, op) \/ SetCap(u, op)
                 \/ ChangePolicies(u, op) \/ OnFinish(u, op) \/ Delete(u, op)
        PROVE  FALSE
    BY <1>1, <2>4 DEF Dequeue, RemoveDependency, SetCap, ChangePolicies, OnFinish, Delete
  <2>5. QED
    BY <1>5, <2>2, <2>3, <2>4 DEF CallStep, ApiCall
<1>6. ~ UNCHANGED vars
  BY <1>1 DEF vars
<1>7. QED
  BY <1>3, <1>4, <1>5, <1>6, ActorsDiffer DEF Next, ThreadStep, CallStep

(* All its policies have agreed to a job that is handed out, the           *)
(* dependency policy among them if there is a dependency.                  *)
LEMMA StartsResolved ==
  ASSUME PolicyInv, [Next]_vars, NEW t \in Threads, Starts(t)
  PROVE  ~ HasUnresolvedDependencies(dependencies, call[t].job)
<1>1. call[t].at = "asking" /\ call[t].k > Len(policies[call[t].job])
  BY OnlyHandOutStarts DEF HandOut, Is
<1>2. call[t].with = policies[call[t].job]
  BY <1>1, AskedPrefix DEF PolicyInv
<1>3. SUFFICES ASSUME NEW d \in dependencies, d[1] = call[t].job PROVE FALSE
  BY DEF HasUnresolvedDependencies
<1>4. Occurs(call[t].with, DependencyPolicy)
  BY <1>2, <1>3 DEF PolicyInv, DependencyInv
<1>5. QED
  BY <1>1, <1>3, <1>4 DEF PolicyInv, AskedInv, HasUnresolvedDependencies

(* No job is handed out with a dependency in the map, though canRun() of   *)
(* the dependency policy was called some steps earlier.                    *)
THEOREM NoneOverlooked == Spec => NoDependencyOverlooked
<1>1. PolicyInv /\ [Next]_vars =>
        [\A t \in Threads :
           Starts(t) => ~ HasUnresolvedDependencies(dependencies, call[t].job)]_vars
  BY StartsResolved
<1>2. QED
  BY <1>1, PolicyInvariant, PTL DEF Spec, NoDependencyOverlooked

(* A job that is handed out finds what it was declared to depend on        *)
(* succeeded and past its finish handlers (defaultEnd() calls them before  *)
(* it frees the policies).                                                 *)
THEOREM HandlersHaveRun == Spec => HandlersComeFirst
<1> DEFINE First(t) == \A d \in DependsOn :
             d[1] = call[t].job /\ d \notin removed =>
               /\ status[d[2]] = "Success"
               /\ \A a \in Actors : call[a].job = d[2] => call[a].at \in {"freeing", "leaving"}
<1>1. ASSUME PolicyInv, [Next]_vars, NEW t \in Threads, Starts(t) PROVE First(t)
  <2>1. SUFFICES ASSUME NEW d \in DependsOn, d[1] = call[t].job, d \notin removed PROVE Done(d[2])
    BY DEF Done
  <2>2. ~ \E e \in dependencies : e[1] = d[1] /\ e[2] = d[2]
    BY <1>1, <2>1, StartsResolved DEF HasUnresolvedDependencies
  <2>3. QED
    BY <1>1, <2>1, <2>2 DEF PolicyInv, DeclaredInv
<1>2. PolicyInv /\ [Next]_vars => [\A t \in Threads : Starts(t) => First(t)]_vars
  BY <1>1
<1>3. QED
  BY <1>2, PolicyInvariant, PTL DEF Spec, HandlersComeFirst

(* An owner that waits for something itself is at a candidate, or adds a   *)
(* dependency.                                                             *)
LEMMA OwnersWait ==
  ASSUME PolicyInv, NEW a \in Actors, NEW b \in Actors, b \in Owners(a), Owners(b) # {}
  PROVE  \/ call[b].at = "candidate" /\ call[a].at \notin {"candidate", "adding"}
         \/ /\ call[b].at = "adding"
            /\ call[a].at = "adding" => call[b].with[1] = call[a].with[2]
<1>0. Typed /\ PlaceInv /\ LockInv /\ QueuedInv
  BY DEF PolicyInv, ExecInv
<1>1. call[b].at \notin Asking
  BY DEF Owners, Asking
<1>2. ASSUME NEW q \in Queues, lock[q] = b PROVE call[b].at = "candidate"
  BY <1>0, <1>1, <1>2 DEF LockInv, Scans, Asking
<1>3. ASSUME NEW j \in Jobs, mutex[j] = b PROVE call[b].at = "adding" /\ call[b].with[1] = j
  BY <1>0, <1>1, <1>3 DEF LockInv, Locks
<1>4. CASE call[a].at \in {"applying", "reporting"}
  <2>1. a \in Threads /\ QueueOf[a] \in Queues /\ lock[QueueOf[a]] = b
    BY <1>0, <1>4, SharingAssumption DEF PlaceInv, InPlace, Actors, Owners
  <2>2. QED
    BY <1>2, <1>4, <2>1
<1>5. CASE call[a].at = "candidate"
  <2>1. a \in Threads /\ call[a].cursor <= Len(queue[QueueOf[a]]) /\ mutex[Candidate(a)] = b
    BY <1>0, <1>5 DEF PlaceInv, InPlace, Actors, Owners
  <2>2. Candidate(a) \in Jobs
    BY <1>0, <1>5, <2>1, CandidateIsQueued
  <2>3. QED
    BY <1>3, <1>5, <2>1, <2>2
<1>6. CASE call[a].at \in {"ending", "handling"}
  <2>1. call[a].job \in Jobs /\ mutex[call[a].job] = b
    BY <1>0, <1>6 DEF PlaceInv, InPlace, Executing, Owners
  <2>2. QED
    BY <1>3, <1>6, <2>1
<1>7. CASE call[a].at = "adding"
  <2>1. call[a].with[2] \in Jobs /\ mutex[call[a].with[2]] = b
    BY <1>0, <1>7, OperationsAssumption DEF PlaceInv, InPlace, Owners
  <2>2. QED
    BY <1>3, <1>7, <2>1
<1>8. CASE call[a].at = "finishing"
  <2>1. call[a].with[1] \in Queues /\ lock[call[a].with[1]] = b
    BY <1>0, <1>8 DEF PlaceInv, InPlace, Owners
  <2>2. QED
    BY <1>2, <1>8, <2>1
<1>9. QED
  BY <1>4, <1>5, <1>6, <1>7, <1>8 DEF Owners

(* No circle of threads and users that wait for each other's mutexes, of   *)
(* queues and of jobs, if dependencies are declared in one order: without  *)
(* it, addDependency(a, b) and addDependency(b, a) can wait for each other.*)
THEOREM NobodyWaitsInACircle == DeclaredInOneOrder => (Spec => []NoCircularWait)
<1>1. ASSUME DeclaredInOneOrder, PolicyInv,
             NEW S \in SUBSET Actors, S # {}, \A a \in S : Owners(a) \cap S # {}
      PROVE  FALSE
  <2>1. \A a \in S : a \in Actors /\ \E b \in S : b \in Owners(a) /\ Owners(b) # {}
    BY <1>1
  <2> DEFINE A == {a \in S : call[a].at = "adding"}
             J == {call[a].with[1] : a \in A}
  <2>2. A # {}
    <3>1. PICK a \in S : TRUE
      BY <1>1
    <3>2. PICK b \in S : b \in Owners(a) /\ Owners(b) # {}
      BY <2>1
    <3>3. PICK c \in S : c \in Owners(b) /\ Owners(c) # {}
      BY <2>1
    <3>4. call[b].at = "candidate" \/ call[b].at = "adding"
      BY <1>1, <2>1, <3>2, OwnersWait
    <3>5. call[b].at = "candidate" => call[c].at = "adding"
      BY <1>1, <2>1, <3>3, OwnersWait
    <3>6. QED
      BY <3>4, <3>5
  <2>3. \A a \in A : \E op \in Operations :
          op.do = "addDependency" /\ call[a].with = op.on /\ op.on[1] \in Jobs
    BY <1>1, <2>1, OperationsAssumption DEF PolicyInv, PlaceInv, InPlace
  <2>4. J \in SUBSET Jobs /\ J # {}
    BY <2>2, <2>3
  <2>5. PICK j \in J : \A op \in Operations :
          op.do = "addDependency" /\ op.on[1] = j => op.on[2] \notin J
    BY <1>1, <2>4 DEF DeclaredInOneOrder
  <2>6. PICK a \in A : call[a].with[1] = j
    OBVIOUS
  <2>7. call[a].with[2] \notin J
    BY <2>3, <2>5, <2>6
  <2>8. PICK b \in S : b \in Owners(a) /\ Owners(b) # {}
    BY <2>1
  <2>9. call[b].at = "adding" /\ call[b].with[1] = call[a].with[2]
    BY <1>1, <2>1, <2>8, OwnersWait
  <2>10. QED
    BY <2>7, <2>9
<1>2. DeclaredInOneOrder /\ PolicyInv => NoCircularWait
  BY <1>1 DEF NoCircularWait
<1>3. ASSUME DeclaredInOneOrder PROVE Spec => []NoCircularWait
  <2>1. PolicyInv => NoCircularWait
    BY <1>2, <1>3
  <2>2. QED
    BY <2>1, PolicyInvariant, PTL
<1>4. QED
  BY <1>3

===============================================================================
