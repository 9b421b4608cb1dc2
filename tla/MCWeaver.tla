------------------------------- MODULE MCWeaver -------------------------------
(***************************************************************************)
(* The instances of Weaver that TLC checks: three jobs, two users.         *)
(***************************************************************************)
EXTENDS WeaverInvariants

CONSTANTS a, b, c,      \* the jobs
          u1, u2        \* the users

OneJobEach == {<<j>> : j \in Jobs}
PairWithC == {<<a, c>>, <<b>>}
PairAndSingle == {<<a, b>>, <<c>>}

(* b and c wait for a; or c waits for b, which waits for a; or nothing.    *)
Fork == {<<b, a>>, <<c, a>>}
OnA == {<<c, a>>}
None == {}

EqualPriority == [j \in Jobs |-> 0]
CIsUrgent == [j \in Jobs |-> IF j = c THEN 1 ELSE 0]

(* Who calls what: u1 is the user a call is about, u2 interferes.          *)
ResizeCalls   == [u \in Users |-> IF u = u1 THEN {"enqueue", "finish"} ELSE {"setMax", "reschedule"}]
FinishCalls   == [u \in Users |-> IF u = u1 THEN {"enqueue", "finish"}
                                            ELSE {"suspend", "resume", "dequeueAll"}]
ResumeCalls   == [u \in Users |-> IF u = u1 THEN {"enqueue"} ELSE {"suspend", "resume"}]
ShutDownCalls == [u \in Users |-> IF u = u1 THEN {"enqueue", "shutDown"} ELSE {"suspend", "setMax"}]
AllCalls      == [u \in Users |-> IF u = u1 THEN {"enqueue", "dequeue", "finish", "shutDown"}
                                            ELSE {"suspend", "resume", "dequeueAll"}]

==============================================================================
