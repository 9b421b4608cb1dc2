---------------------------- MODULE SequenceLemmas ----------------------------
(***************************************************************************)
(* Sequences without repetition: the queue of the weaver, the list of      *)
(* policies of a job, the jobs of a stream.                                *)
(***************************************************************************)
EXTENDS Integers, SequencesExt, SequenceTheorems, TLAPS

-------------------------------------------------------------------------------
(* Inserting and removing *)

(* Inserting an element puts it at its place and moves the rest back.      *)
LEMMA InsertAtProperties ==
  ASSUME NEW S, NEW s \in Seq(S), NEW e \in S, NEW i \in 1..Len(s) + 1
  PROVE  /\ InsertAt(s, i, e) \in Seq(S)
         /\ Len(InsertAt(s, i, e)) = Len(s) + 1
         /\ InsertAt(s, i, e)[i] = e
         /\ \A k \in 1..i - 1 : InsertAt(s, i, e)[k] = s[k]
         /\ \A k \in i + 1..Len(s) + 1 : InsertAt(s, i, e)[k] = s[k - 1]
<1> DEFINE head == SubSeq(s, 1, i - 1)
           tail == SubSeq(s, i, Len(s))
<1>1. /\ head \in Seq(S) /\ Len(head) = i - 1
      /\ \A k \in 1..i - 1 : head[k] = s[k]
  BY SubSeqProperties
<1>2. /\ tail \in Seq(S) /\ Len(tail) = Len(s) - i + 1
      /\ \A k \in 1..Len(s) - i + 1 : tail[k] = s[i + k - 1]
  BY SubSeqProperties
<1>3. /\ <<e>> \in Seq(S) /\ Len(<<e>>) = 1 /\ <<e>>[1] = e
  OBVIOUS
<1> DEFINE front == head \o <<e>>
<1> HIDE DEF head, tail
<1>4. /\ front \in Seq(S) /\ Len(front) = i
      /\ \A k \in 1..i : front[k] = IF k < i THEN s[k] ELSE e
  BY <1>1, <1>3, ConcatProperties
<1> HIDE DEF front
<1>5. /\ front \o tail \in Seq(S) /\ Len(front \o tail) = Len(s) + 1
      /\ \A k \in 1..Len(s) + 1 :
           (front \o tail)[k] = IF k <= i THEN front[k] ELSE tail[k - i]
  BY <1>2, <1>4, ConcatProperties
<1>6. InsertAt(s, i, e) = front \o tail
  BY DEF InsertAt, head, tail, front
<1>7. /\ (front \o tail)[i] = e
      /\ \A k \in 1..i - 1 : (front \o tail)[k] = s[k]
  BY <1>4, <1>5
<1>8. ASSUME NEW k \in i + 1..Len(s) + 1 PROVE (front \o tail)[k] = s[k - 1]
  <2>1. k - i \in 1..Len(s) - i + 1 /\ k > i
    OBVIOUS
  <2>2. tail[k - i] = s[k - 1]
    BY <1>2, <2>1
  <2>3. QED
    BY <1>5, <2>1, <2>2
<1>9. QED
  BY <1>5, <1>6, <1>7, <1>8

(* Removing an element moves those behind it forward.                      *)
LEMMA RemoveAtProperties ==
  ASSUME NEW S, NEW s \in Seq(S), NEW i \in 1..Len(s)
  PROVE  /\ RemoveAt(s, i) \in Seq(S)
         /\ Len(RemoveAt(s, i)) = Len(s) - 1
         /\ \A k \in 1..Len(s) - 1 :
              RemoveAt(s, i)[k] = IF k < i THEN s[k] ELSE s[k + 1]
<1> DEFINE head == SubSeq(s, 1, i - 1)
           tail == SubSeq(s, i + 1, Len(s))
<1>1. /\ head \in Seq(S) /\ Len(head) = i - 1
      /\ \A k \in 1..i - 1 : head[k] = s[k]
  BY SubSeqProperties
<1>2. /\ tail \in Seq(S) /\ Len(tail) = Len(s) - i
      /\ \A k \in 1..Len(s) - i : tail[k] = s[i + k]
  BY SubSeqProperties
<1>3. RemoveAt(s, i) = head \o tail
  BY DEF RemoveAt
<1> HIDE DEF head, tail
<1>4. /\ head \o tail \in Seq(S) /\ Len(head \o tail) = Len(s) - 1
      /\ \A k \in 1..Len(s) - 1 :
           (head \o tail)[k] = IF k <= i - 1 THEN head[k] ELSE tail[k - (i - 1)]
  <2>1. /\ head \o tail \in Seq(S) /\ Len(head \o tail) = Len(head) + Len(tail)
        /\ \A k \in 1..Len(head) + Len(tail) :
             (head \o tail)[k] = IF k <= Len(head) THEN head[k] ELSE tail[k - Len(head)]
    BY <1>1, <1>2, ConcatProperties
  <2>2. QED
    BY <1>1, <1>2, <2>1
<1>5. ASSUME NEW k \in 1..Len(s) - 1
      PROVE  (head \o tail)[k] = IF k < i THEN s[k] ELSE s[k + 1]
  <2>1. CASE k < i
    BY <1>1, <1>4, <2>1
  <2>2. CASE k >= i
    <3>1. k - (i - 1) \in 1..Len(s) - i
      BY <2>2
    <3>2. tail[k - (i - 1)] = s[k + 1]
      BY <1>2, <3>1, SMTT(30)
    <3>3. QED
      BY <1>4, <2>2, <3>2
  <2>3. k < i \/ k >= i
    OBVIOUS
  <2>4. QED
    BY <2>1, <2>2, <2>3
<1>6. QED
  BY <1>3, <1>4, <1>5

-------------------------------------------------------------------------------
(* What occurs in a sequence, and whether it does so once *)

Occurs(s, x) == \E k \in DOMAIN s : s[k] = x
Distinct(s) == \A k, l \in DOMAIN s : s[k] = s[l] => k = l

LEMMA InsertAtOccurs ==
  ASSUME NEW S, NEW s \in Seq(S), NEW e \in S, NEW i \in 1..Len(s) + 1
  PROVE  /\ \A x : Occurs(InsertAt(s, i, e), x) <=> x = e \/ Occurs(s, x)
         /\ Distinct(s) /\ ~ Occurs(s, e) => Distinct(InsertAt(s, i, e))
<1> DEFINE r == InsertAt(s, i, e)
<1>1. /\ r \in Seq(S) /\ Len(r) = Len(s) + 1 /\ r[i] = e
      /\ \A k \in 1..i - 1 : r[k] = s[k]
      /\ \A k \in i + 1..Len(s) + 1 : r[k] = s[k - 1]
  BY InsertAtProperties
<1> HIDE DEF r
<1>2. DOMAIN r = 1..Len(s) + 1 /\ DOMAIN s = 1..Len(s) /\ Len(s) \in Nat
  BY <1>1
<1>3. ASSUME NEW x, Occurs(r, x) PROVE x = e \/ Occurs(s, x)
  <2>1. PICK k \in 1..Len(s) + 1 : r[k] = x
    BY <1>2, <1>3 DEF Occurs
  <2>2. CASE k < i
    BY <1>1, <1>2, <2>1, <2>2 DEF Occurs
  <2>3. CASE k = i
    BY <1>1, <2>1, <2>3
  <2>4. CASE k > i
    <3>1. r[k] = s[k - 1] /\ k - 1 \in 1..Len(s)
      BY <1>1, <1>2, <2>4
    <3>2. QED
      BY <1>2, <2>1, <3>1 DEF Occurs
  <2>5. QED
    BY <2>2, <2>3, <2>4
<1>4. ASSUME NEW x, Occurs(s, x) PROVE Occurs(r, x)
  <2>1. PICK k \in 1..Len(s) : s[k] = x
    BY <1>2, <1>4 DEF Occurs
  <2>2. CASE k < i
    <3>1. r[k] = s[k] /\ k \in 1..Len(s) + 1
      BY <1>1, <1>2, <2>2
    <3>2. QED
      BY <1>2, <2>1, <3>1 DEF Occurs
  <2>3. CASE k >= i
    <3>1. r[k + 1] = s[k] /\ k + 1 \in 1..Len(s) + 1
      BY <1>1, <1>2, <2>3
    <3>2. QED
      BY <1>2, <2>1, <3>1 DEF Occurs
  <2>4. QED
    BY <2>2, <2>3
<1>5. Occurs(r, e)
  <2>1. r[i] = e /\ i \in 1..Len(s) + 1
    BY <1>1
  <2>2. QED
    BY <1>2, <2>1 DEF Occurs
<1>6. ASSUME Distinct(s), ~ Occurs(s, e) PROVE Distinct(r)
  <2>1. SUFFICES ASSUME NEW k \in 1..Len(s) + 1, NEW l \in 1..Len(s) + 1, k < l PROVE r[k] # r[l]
    BY <1>2 DEF Distinct
  <2>2. \A m \in 1..Len(s) + 1 : \/ m < i /\ r[m] = s[m]
                                 \/ m = i /\ r[m] = e
                                 \/ m > i /\ r[m] = s[m - 1]
    <3>1. TAKE m \in 1..Len(s) + 1
    <3>2. m < i => m \in 1..i - 1
      OBVIOUS
    <3>3. m > i => m \in i + 1..Len(s) + 1
      OBVIOUS
    <3>4. QED
      BY <1>1, <3>2, <3>3
  <2>3. \A m \in 1..Len(s) : s[m] # e
    BY <1>2, <1>6 DEF Occurs
  <2>4. \A m, n \in 1..Len(s) : m < n => s[m] # s[n]
    BY <1>2, <1>6 DEF Distinct
  <2>5. QED
    BY <1>2, <2>1, <2>2, <2>3, <2>4
<1>7. QED
  BY <1>3, <1>4, <1>5, <1>6 DEF r

LEMMA RemoveAtOccurs ==
  ASSUME NEW S, NEW s \in Seq(S), NEW i \in 1..Len(s), Distinct(s)
  PROVE  /\ \A x : Occurs(RemoveAt(s, i), x) <=> Occurs(s, x) /\ x # s[i]
         /\ Distinct(RemoveAt(s, i))
<1> DEFINE r == RemoveAt(s, i)
<1>1. /\ r \in Seq(S) /\ Len(r) = Len(s) - 1
      /\ \A k \in 1..Len(s) - 1 : r[k] = IF k < i THEN s[k] ELSE s[k + 1]
  BY RemoveAtProperties
<1>2. DOMAIN r = 1..Len(s) - 1 /\ DOMAIN s = 1..Len(s) /\ Len(s) \in Nat
  BY <1>1
<1> HIDE DEF r
<1>3. ASSUME NEW k \in 1..Len(s) - 1
      PROVE  \E m \in 1..Len(s) : /\ r[k] = s[m] /\ m # i
                                  /\ m = IF k < i THEN k ELSE k + 1
  BY <1>1, <1>2
<1>4. \A x : Occurs(r, x) => Occurs(s, x) /\ x # s[i]
  <2>1. SUFFICES ASSUME NEW k \in 1..Len(s) - 1 PROVE Occurs(s, r[k]) /\ r[k] # s[i]
    BY <1>2 DEF Occurs
  <2>2. QED
    BY <1>2, <1>3 DEF Occurs, Distinct
<1>5. ASSUME NEW x, Occurs(s, x), x # s[i] PROVE Occurs(r, x)
  <2>1. PICK k \in 1..Len(s) : s[k] = x /\ k # i
    BY <1>2, <1>5 DEF Occurs
  <2>2. CASE k < i
    <3>1. k \in 1..Len(s) - 1 /\ r[k] = s[k]
      BY <1>1, <1>2, <2>2
    <3>2. QED
      BY <1>2, <2>1, <3>1 DEF Occurs
  <2>3. CASE k > i
    <3>1. k - 1 \in 1..Len(s) - 1 /\ ~ k - 1 < i /\ (k - 1) + 1 = k
      BY <1>2, <2>3
    <3>2. r[k - 1] = s[k]
      BY <1>1, <3>1
    <3>3. QED
      BY <1>2, <2>1, <3>1, <3>2 DEF Occurs
  <2>4. QED
    BY <1>2, <2>1, <2>2, <2>3
<1>6. Distinct(r)
  <2>1. SUFFICES ASSUME NEW k \in 1..Len(s) - 1, NEW l \in 1..Len(s) - 1, r[k] = r[l] PROVE k = l
    BY <1>2 DEF Distinct
  <2>2. PICK m \in 1..Len(s) : r[k] = s[m] /\ m = IF k < i THEN k ELSE k + 1
    BY <1>3
  <2>3. PICK n \in 1..Len(s) : r[l] = s[n] /\ n = IF l < i THEN l ELSE l + 1
    BY <1>3
  <2>4. m = n
    BY <1>2, <2>1, <2>2, <2>3 DEF Distinct
  <2>5. QED
    BY <2>2, <2>3, <2>4
<1>7. QED
  BY <1>4, <1>5, <1>6 DEF r

LEMMA AppendOccurs ==
  ASSUME NEW S, NEW s \in Seq(S), NEW e \in S
  PROVE  /\ \A x : Occurs(Append(s, e), x) <=> x = e \/ Occurs(s, x)
         /\ Distinct(s) /\ ~ Occurs(s, e) => Distinct(Append(s, e))
<1> DEFINE r == Append(s, e)
<1>1. /\ r \in Seq(S) /\ Len(r) = Len(s) + 1 /\ r[Len(s) + 1] = e
      /\ \A k \in 1..Len(s) : r[k] = s[k]
  BY AppendProperties
<1>2. DOMAIN r = 1..Len(s) + 1 /\ DOMAIN s = 1..Len(s) /\ Len(s) \in Nat
  BY <1>1
<1> HIDE DEF r
<1>3. \A x : Occurs(r, x) <=> x = e \/ Occurs(s, x)
  BY <1>1, <1>2 DEF Occurs
<1>4. Distinct(s) /\ ~ Occurs(s, e) => Distinct(r)
  BY <1>1, <1>2 DEF Occurs, Distinct
<1>5. QED
  BY <1>3, <1>4 DEF r

LEMMA TailOccurs ==
  ASSUME NEW S, NEW s \in Seq(S), s # <<>>, Distinct(s)
  PROVE  /\ \A x : Occurs(Tail(s), x) <=> Occurs(s, x) /\ x # Head(s)
         /\ Distinct(Tail(s)) /\ Tail(s) \in Seq(S)
<1> DEFINE r == Tail(s)
<1>1. /\ r \in Seq(S) /\ Len(r) = Len(s) - 1 /\ Head(s) = s[1]
      /\ \A k \in 1..Len(s) - 1 : r[k] = s[k + 1]
  BY HeadTailProperties
<1>2. DOMAIN r = 1..Len(s) - 1 /\ DOMAIN s = 1..Len(s) /\ Len(s) \in Nat /\ Len(s) > 0
  BY <1>1
<1> HIDE DEF r
<1>3. ASSUME NEW x, Occurs(r, x) PROVE Occurs(s, x) /\ x # Head(s)
  <2>1. PICK k \in 1..Len(s) - 1 : r[k] = x
    BY <1>2, <1>3 DEF Occurs
  <2>2. s[k + 1] = x /\ k + 1 \in 1..Len(s) /\ k + 1 # 1 /\ 1 \in 1..Len(s)
    BY <1>1, <1>2, <2>1
  <2>3. QED
    BY <1>1, <1>2, <2>2 DEF Occurs, Distinct
<1>4. ASSUME NEW x, Occurs(s, x), x # Head(s) PROVE Occurs(r, x)
  <2>1. PICK k \in 1..Len(s) : s[k] = x
    BY <1>2, <1>4 DEF Occurs
  <2>2. k - 1 \in 1..Len(s) - 1 /\ (k - 1) + 1 = k
    BY <1>1, <1>2, <1>4, <2>1
  <2>3. r[k - 1] = x
    BY <1>1, <2>1, <2>2
  <2>4. QED
    BY <1>2, <2>2, <2>3 DEF Occurs
<1>5. Distinct(r)
  <2>1. SUFFICES ASSUME NEW k \in 1..Len(s) - 1, NEW l \in 1..Len(s) - 1, r[k] = r[l] PROVE k = l
    BY <1>2 DEF Distinct
  <2>2. s[k + 1] = s[l + 1] /\ k + 1 \in 1..Len(s) /\ l + 1 \in 1..Len(s)
    BY <1>1, <1>2, <2>1
  <2>3. k + 1 = l + 1
    BY <1>2, <2>2 DEF Distinct
  <2>4. QED
    BY <2>3
<1>6. QED
  BY <1>1, <1>3, <1>4, <1>5 DEF r

===============================================================================
