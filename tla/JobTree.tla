------------------------------- MODULE JobTree -------------------------------
(***************************************************************************)
(* What collections and sequences promise their clients, without threads,  *)
(* wrappers, counters or locks: the elements of a collection are executed  *)
(* while the collection is, one after the other in a sequence, and the     *)
(* collection is over when they are (collection.h, sequence.h).            *)
(***************************************************************************)
EXTENDS Sequences, SequencesExt

CONSTANT Jobs

VARIABLES
  elements,    \* the elements of each collection
  sequential,  \* the collections that are sequences
  phase,       \* "idle", "queued", "running" or "over"
  succeeded    \* the jobs whose status says so

vars == <<elements, sequential, phase, succeeded>>

Init ==
  /\ phase = [j \in Jobs |-> "idle"]
  /\ succeeded = {}

(* Some jobs go from a phase in p to phase q, and nothing else changes.    *)
Move(J, p, q) ==
  /\ LET after == phase' IN
     \A j \in Jobs : after[j] = phase[j] \/ (j \in J /\ phase[j] \in p /\ after[j] = q)
  /\ UNCHANGED <<elements, sequential, succeeded>>

(* Once a collection is over, none of its elements is queued any more.     *)
Queue ==
  Move({j \in Jobs : \A c \in DOMAIN elements : phase[c] = "over" => j \notin ToSet(elements[c])},
       {"idle"}, "queued")
Dequeue == Move(Jobs, {"queued"}, "idle")

(* An element of a collection begins while the collection is running, and  *)
(* one of a sequence when those before it are over and have succeeded.     *)
Begin(j) ==
  /\ phase[j] \in {"idle", "queued"} /\ phase'[j] = "running"
  /\ \A c \in DOMAIN elements : \A n \in DOMAIN elements[c] : elements[c][n] = j =>
       /\ phase[c] = "running"
       /\ c \in sequential => \A m \in 1..(n - 1) :
            phase[elements[c][m]] = "over" /\ elements[c][m] \in succeeded
  /\ Move({j}, {"idle", "queued"}, "running")

(* Only a job that is running, or has been dequeued, changes its mind      *)
(* about its success; and only a running collection gets more elements.    *)
Decide(j) ==
  /\ phase[j] # "over"
  /\ succeeded' \in {succeeded \cup {j}, succeeded \ {j}}
  /\ UNCHANGED <<elements, sequential, phase>>

DecideAndGrow(c) ==
  /\ phase[c] = "running"
  /\ c \in DOMAIN elements /\ DOMAIN elements' = DOMAIN elements
  /\ IsPrefix(elements[c], elements'[c])
  /\ \A d \in DOMAIN elements \ {c} : elements'[d] = elements[d]
  /\ succeeded' \in {succeeded \cup {c}, succeeded \ {c}}
  /\ UNCHANGED <<sequential, phase>>

End(j) ==
  /\ phase[j] = "running" /\ phase'[j] = "over"
  /\ j \in DOMAIN elements =>
       \A e \in ToSet(elements[j]) : phase[e] \notin {"queued", "running"}
  /\ Move({j}, {"running"}, "over")

Next ==
  \/ Queue \/ Dequeue
  \/ \E j \in Jobs : Begin(j) \/ Decide(j) \/ DecideAndGrow(j) \/ End(j)

Spec == Init /\ [][Next]_vars

==============================================================================
