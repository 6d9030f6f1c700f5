----------------------------- MODULE ClientProofs -----------------------------
(***************************************************************************)
(* Proofs about the SDK and the mobile app.  The request queue: however    *)
(* many requests there are and whatever the limits, the slot counter is    *)
(* exact, no request waits beside a free slot, and none is queued twice or *)
(* after its outcome.  The contract clients: whatever the network loses    *)
(* and however a call is retried, fails over or is run again by the        *)
(* request queue, its transaction takes effect at most once.  The app's    *)
(* write queue: a mutation is kept until it is settled unless an           *)
(* overlapping write dropped it, and one that none put back is applied at  *)
(* most once more than times nobody learned of it.  The event feeds: no    *)
(* event is delivered twice while all are remembered, and out of order or  *)
(* never only where a page ended inside its ledger.                        *)
(***************************************************************************)
EXTENDS RequestQueue, SdkClient, MobileOffline, EventFeed,
        SelectionTheorems, SequenceTheorems, FiniteSetTheorems, TLAPS

-----------------------------------------------------------------------------
(* Lists without repetition. *)

LEMMA ToSetMember ==
    ASSUME NEW S, NEW q \in Seq(S)
    PROVE  /\ \A x : x \in ToSet(q) <=> \E i \in 1..Len(q) : q[i] = x
           /\ ToSet(q) \subseteq S
  BY DEF ToSet

\* Cutting a list without repetition in two: the front has as many members as its
\* length says, the back has the others, each of them once.
LEMMA Cut ==
    ASSUME NEW S, NEW q \in Seq(S), IsInjective(q), NEW n \in 0..Len(q)
    PROVE  LET front == SubSeq(q, 1, n)
               back == SubSeq(q, n + 1, Len(q))
           IN  /\ ToSet(front) \subseteq ToSet(q)
               /\ IsFiniteSet(ToSet(front)) /\ Cardinality(ToSet(front)) = n
               /\ back \in Seq(S) /\ Len(back) = Len(q) - n /\ IsInjective(back)
               /\ ToSet(back) = ToSet(q) \ ToSet(front)
<1> DEFINE front == SubSeq(q, 1, n)
           back == SubSeq(q, n + 1, Len(q))
<1>0. Len(q) \in Nat /\ n \in Nat /\ n <= Len(q) /\ \A i \in 1..Len(q) : q[i] \in S
  OBVIOUS
<1>1. front \in Seq(S) /\ Len(front) = n /\ \A i \in 1..n : front[i] = q[i]
  BY <1>0, SubSeqProperties
<1>2. /\ back \in Seq(S) /\ Len(back) = Len(q) - n
      /\ \A i \in 1..(Len(q) - n) : back[i] = q[n + i]
  <2>1. \A i \in (n + 1)..Len(q) : q[i] \in S
    BY <1>0
  <2>2. \A i \in 1..(Len(q) - n) : back[i] = q[(n + 1) + i - 1]
    BY <1>0, <2>1, SubSeqProperties
  <2>3. \A i \in 1..(Len(q) - n) : (n + 1) + i - 1 = n + i
    BY <1>0
  <2> QED BY <1>0, <2>1, <2>2, <2>3, SubSeqProperties
<1> HIDE DEF front, back
<1>3. \A x : x \in ToSet(front) <=> \E i \in 1..n : q[i] = x
  BY <1>1, ToSetMember
<1>4. \A x : x \in ToSet(back) <=> \E i \in (n + 1)..Len(q) : q[i] = x
  <2>1. ASSUME NEW x, x \in ToSet(back) PROVE \E i \in (n + 1)..Len(q) : q[i] = x
    <3>1. PICK i \in 1..(Len(q) - n) : back[i] = x
      BY <1>2, <2>1, ToSetMember
    <3>2. n + i \in (n + 1)..Len(q) /\ q[n + i] = x
      BY <1>0, <1>2, <3>1
    <3> QED BY <3>2
  <2>2. ASSUME NEW x, NEW i \in (n + 1)..Len(q), q[i] = x PROVE x \in ToSet(back)
    <3>1. i - n \in 1..(Len(q) - n) /\ back[i - n] = x
      BY <1>0, <1>2, <2>2
    <3> QED BY <1>2, <3>1, ToSetMember
  <2> QED BY <2>1, <2>2
<1>5. \A i, j \in 1..Len(q) : q[i] = q[j] => i = j
  BY DEF IsInjective
<1>6. ToSet(front) \subseteq ToSet(q)
  BY <1>0, <1>3, ToSetMember
<1>7. ToSet(back) = ToSet(q) \ ToSet(front)
  <2>1. ASSUME NEW x \in ToSet(back) PROVE x \in ToSet(q) \ ToSet(front)
    <3>1. PICK i \in (n + 1)..Len(q) : q[i] = x
      BY <1>4
    <3>2. \A j \in 1..n : q[j] # x
      BY <1>0, <1>5, <3>1
    <3> QED BY <1>0, <1>3, <3>1, <3>2, ToSetMember
  <2>2. ASSUME NEW x \in ToSet(q) \ ToSet(front) PROVE x \in ToSet(back)
    <3>1. PICK i \in 1..Len(q) : q[i] = x
      BY ToSetMember
    <3>2. i \notin 1..n
      BY <1>3, <3>1
    <3>3. i \in (n + 1)..Len(q)
      BY <1>0, <3>2
    <3> QED BY <1>4, <3>1, <3>3
  <2> QED BY <2>1, <2>2
<1>8. IsInjective(back)
  BY <1>0, <1>2, <1>5 DEF IsInjective
<1>9. IsFiniteSet(ToSet(front)) /\ Cardinality(ToSet(front)) = n
  <2> DEFINE f == [i \in 1..n |-> q[i]]
  <2>1. f \in [1..n -> ToSet(front)]
    BY <1>3
  <2>2. \A x \in ToSet(front) : \E i \in 1..n : f[i] = x
    BY <1>3
  <2>3. \A i, j \in 1..n : f[i] = f[j] => i = j
    BY <1>0, <1>5
  <2>4. f \in Bijection(1..n, ToSet(front))
    BY <2>1, <2>2, <2>3 DEF Bijection, Injection, Surjection, IsInjective
  <2>5. IsFiniteSet(1..n) /\ Cardinality(1..n) = n
    BY <1>0, FS_Interval
  <2> HIDE DEF f
  <2>6. ExistsBijection(1..n, ToSet(front))
    BY <2>4 DEF ExistsBijection
  <2> QED BY <2>5, <2>6, FS_Bijection
<1> QED BY <1>2, <1>6, <1>7, <1>8, <1>9 DEF front, back

-----------------------------------------------------------------------------
(* The invariant. *)

Running(ph) == {r \in Request : ph[r] = "running"}

\* The parts of the queue's state agree: the counter counts the calls in flight and
\* the ones whose finally is due, the list holds the waiting requests once each, and
\* a request whose finally is due is neither waiting nor in flight again.
Consistent(q, active, ph, due) ==
    /\ active = Cardinality(Running(ph)) + Cardinality(due)
    /\ active <= maxConcurrent
    /\ IsInjective(q)
    /\ \A r \in Request : ph[r] = "queued" <=> r \in ToSet(q)
    /\ \A r \in due : ph[r] \in Settled \cup {"backoff"}

QueueInv == Consistent(queue, activeRequests, phase, freeing) /\ WaitsOnlyForSlots

LEMMA SubsetsFinite ==
    \A S \in SUBSET Request : IsFiniteSet(S) /\ Cardinality(S) \in Nat
  BY RequestAssumption, FS_Subset, FS_CardinalityType

\* processQueue: it starts as many requests as there are slots, in order, and leaves
\* nothing waiting beside a free slot.
LEMMA Process ==
    ASSUME NEW q \in Seq(Request), NEW active \in Nat, NEW ph \in [Request -> Phase],
           NEW due \in SUBSET Request, Consistent(q, active, ph, due),
           processQueue(q, active, ph)
    PROVE  /\ queue' \in Seq(Request) /\ activeRequests' \in Nat
           /\ phase' \in [Request -> Phase]
           /\ Consistent(queue', activeRequests', phase', due)
           /\ queue' # <<>> => activeRequests' = maxConcurrent
<1> DEFINE free == FreeSlots(active)
           n == IF Len(q) < free THEN Len(q) ELSE free
           first == ToSet(SubSeq(q, 1, n))
<1>0. active <= maxConcurrent /\ IsInjective(q) /\ Len(q) \in Nat
  BY DEF Consistent
<1>1. free = maxConcurrent - active /\ free \in Nat
  BY <1>0, LimitAssumption DEF FreeSlots
<1>2. n \in 0..Len(q) /\ n <= free /\ (n # Len(q) => n = free)
  BY <1>0, <1>1
<1>3. /\ queue' = SubSeq(q, n + 1, Len(q))
      /\ activeRequests' = active + n
      /\ phase' = [r \in Request |-> IF r \in first THEN "running" ELSE ph[r]]
  BY DEF processQueue
<1> HIDE DEF n, free
<1>4. /\ first \subseteq ToSet(q) /\ IsFiniteSet(first) /\ Cardinality(first) = n
      /\ queue' \in Seq(Request) /\ Len(queue') = Len(q) - n /\ IsInjective(queue')
      /\ ToSet(queue') = ToSet(q) \ first
  BY <1>0, <1>2, <1>3, Cut
<1> HIDE DEF first
<1>5. first \subseteq Request /\ \A r \in first : ph[r] = "queued"
  BY <1>4, ToSetMember DEF Consistent
<1>6. phase' \in [Request -> Phase]
  BY <1>3 DEF Phase
<1>7. Cardinality(Running(phase')) = Cardinality(Running(ph)) + n
  <2>1. Running(phase') = Running(ph) \cup first /\ Running(ph) \cap first = {}
    BY <1>3, <1>5 DEF Running
  <2>2. IsFiniteSet(Running(ph)) /\ Cardinality(Running(ph)) \in Nat
    BY SubsetsFinite DEF Running
  <2>3. Cardinality(Running(ph) \cup first)
          = Cardinality(Running(ph)) + Cardinality(first) - Cardinality(Running(ph) \cap first)
    BY <1>4, <2>2, FS_Union
  <2>4. Cardinality(Running(ph) \cap first) = 0
    BY <2>1, FS_EmptySet
  <2> QED BY <1>2, <1>4, <2>1, <2>2, <2>3, <2>4
<1>8. Cardinality(due) \in Nat /\ Cardinality(Running(ph)) \in Nat
  BY SubsetsFinite DEF Running
<1>9. activeRequests' = Cardinality(Running(phase')) + Cardinality(due)
  BY <1>2, <1>3, <1>7, <1>8 DEF Consistent
<1>10. activeRequests' \in Nat /\ activeRequests' <= maxConcurrent
  BY <1>0, <1>1, <1>2, <1>3, LimitAssumption
<1>11. \A r \in Request : phase'[r] = "queued" <=> r \in ToSet(queue')
  BY <1>3, <1>4, <1>5 DEF Consistent
<1>12. \A r \in due : phase'[r] \in Settled \cup {"backoff"}
  BY <1>3, <1>5 DEF Consistent, Settled
<1>13. queue' # <<>> => activeRequests' = maxConcurrent
  <2>1. CASE n = Len(q)
    <3>1. Len(queue') = 0
      BY <1>0, <1>4, <2>1
    <3> QED BY <1>4, <3>1
  <2>2. CASE n # Len(q)
    BY <1>1, <1>2, <1>3, <2>2, LimitAssumption
  <2> QED BY <2>1, <2>2
<1> QED BY <1>4, <1>6, <1>9, <1>10, <1>11, <1>12, <1>13 DEF Consistent

LEMMA InitInv == Init => TypeOK /\ QueueInv
<1> SUFFICES ASSUME Init PROVE TypeOK /\ QueueInv
  OBVIOUS
<1>1. TypeOK
  <2>1. disposed \in BOOLEAN
    BY DEF Init
  <2> QED BY <2>1, LimitAssumption DEF Init, TypeOK, Phase
<1>2. Running(phase) = {} /\ freeing = {}
  BY DEF Init, Running
<1>3. Cardinality(Running(phase)) = 0 /\ Cardinality(freeing) = 0
  BY <1>2, FS_EmptySet
<1>4. ToSet(queue) = {} /\ IsInjective(queue)
  BY DEF Init, ToSet, IsInjective
<1> QED
  BY <1>1, <1>3, <1>4, LimitAssumption DEF Init, QueueInv, Consistent, WaitsOnlyForSlots

\* A call settles: it moves from the calls in flight to those whose finally is due.
LEMMA SettleStep ==
    ASSUME TypeOK, QueueInv, NEW r \in Request, phase[r] = "running",
           NEW outcome \in Settled \cup {"backoff"},
           phase' = [phase EXCEPT ![r] = outcome], freeing' = freeing \cup {r},
           UNCHANGED <<queue, activeRequests>>
    PROVE  QueueInv'
<1>1. r \notin freeing
  BY DEF QueueInv, Consistent, Settled
<1>2. Running(phase') = Running(phase) \ {r} /\ r \in Running(phase)
  BY DEF Running, TypeOK, Settled
<1>3. /\ IsFiniteSet(Running(phase)) /\ Cardinality(Running(phase)) \in Nat
      /\ IsFiniteSet(freeing) /\ Cardinality(freeing) \in Nat
  BY SubsetsFinite DEF Running, TypeOK
<1>4. Cardinality(Running(phase) \ {r}) = Cardinality(Running(phase)) - 1
  BY <1>2, <1>3, FS_RemoveElement
<1>5. Cardinality(freeing \cup {r}) = Cardinality(freeing) + 1
  BY <1>1, <1>3, FS_AddElement
<1>6. activeRequests' = Cardinality(Running(phase')) + Cardinality(freeing')
  <2>1. activeRequests' = Cardinality(Running(phase)) + Cardinality(freeing)
    BY DEF QueueInv, Consistent
  <2>2. Cardinality(Running(phase')) = Cardinality(Running(phase)) - 1
    BY <1>2, <1>4
  <2>3. Cardinality(freeing') = Cardinality(freeing) + 1
    BY <1>5
  <2> QED BY <1>3, <2>1, <2>2, <2>3
<1>7. \A s \in Request : phase'[s] = "queued" <=> s \in ToSet(queue')
  BY DEF QueueInv, Consistent, TypeOK, Settled
<1>8. \A s \in freeing' : phase'[s] \in Settled \cup {"backoff"}
  BY DEF QueueInv, Consistent, TypeOK
<1> QED
  BY <1>6, <1>7, <1>8 DEF QueueInv, Consistent, WaitsOnlyForSlots

LEMMA InvStep == TypeOK /\ QueueInv /\ [Next]_vars => (TypeOK /\ QueueInv)'
<1> SUFFICES ASSUME TypeOK, QueueInv, [Next]_vars PROVE (TypeOK /\ QueueInv)'
  OBVIOUS
<1> USE LimitAssumption
<1>0. /\ queue \in Seq(Request) /\ activeRequests \in Nat /\ phase \in [Request -> Phase]
      /\ freeing \in SUBSET Request
      /\ Consistent(queue, activeRequests, phase, freeing)
  BY DEF TypeOK, QueueInv
<1>1. CASE Dispose
  <2>1. /\ queue' = <<>> /\ activeRequests' = activeRequests /\ freeing' = freeing
        /\ retries' = retries /\ disposed' \in BOOLEAN
        /\ phase' = [r \in Request |-> IF r \in ToSet(queue) THEN "rejected" ELSE phase[r]]
    BY <1>1 DEF Dispose, Drained
  <2>2. phase' \in [Request -> Phase]
    BY <1>0, <2>1 DEF Phase, Settled
  <2>3. TypeOK'
    BY <2>1, <2>2 DEF TypeOK
  <2>4. \A r \in Request : r \in ToSet(queue) <=> phase[r] = "queued"
    BY <1>0 DEF Consistent
  <2>5. Running(phase') = Running(phase)
    BY <2>1, <2>4 DEF Running
  <2>6. ToSet(queue') = {} /\ IsInjective(queue')
    BY <2>1 DEF ToSet, IsInjective
  <2>7. \A r \in Request : phase'[r] # "queued"
    BY <2>1, <2>4
  <2>8. \A r \in freeing : phase'[r] \in Settled \cup {"backoff"}
    BY <1>0, <2>1 DEF Consistent, Settled
  <2> QED
    BY <2>1, <2>3, <2>5, <2>6, <2>7, <2>8 DEF QueueInv, Consistent, WaitsOnlyForSlots
<1>2. ASSUME NEW r \in Request, Enqueue(r)
      PROVE  (TypeOK /\ QueueInv)'
  <2>1. CASE disposed
    <3>1. /\ phase[r] = "new" /\ phase' = [phase EXCEPT ![r] = "rejected"]
          /\ UNCHANGED <<queue, activeRequests, retries, freeing, disposed>>
      BY <1>2, <2>1 DEF Enqueue
    <3>2. TypeOK'
      BY <3>1 DEF TypeOK, Phase, Settled
    <3>3. Running(phase') = Running(phase)
      BY <3>1 DEF Running, TypeOK
    <3>4. \A s \in Request : phase'[s] = "queued" <=> phase[s] = "queued"
      BY <3>1 DEF TypeOK
    <3>5. \A s \in freeing : phase'[s] \in Settled \cup {"backoff"}
      BY <1>0, <3>1 DEF Consistent, Settled
    <3> QED
      BY <3>1, <3>2, <3>3, <3>4, <3>5 DEF QueueInv, Consistent, WaitsOnlyForSlots
  <2>2. CASE ~disposed
    <3> DEFINE q == Append(queue, r)
               ph == [phase EXCEPT ![r] = "queued"]
    <3>1. /\ phase[r] = "new" /\ processQueue(q, activeRequests, ph)
          /\ UNCHANGED <<retries, freeing, disposed>>
      BY <1>2, <2>2 DEF Enqueue
    <3>2. q \in Seq(Request) /\ ph \in [Request -> Phase]
      BY <1>0 DEF Phase
    <3>3. r \notin ToSet(queue)
      BY <1>0, <3>1 DEF Consistent
    <3>4. ToSet(q) = ToSet(queue) \cup {r} /\ IsInjective(q)
      <4>1. Len(q) = Len(queue) + 1 /\ q[Len(queue) + 1] = r
            /\ \A i \in 1..Len(queue) : q[i] = queue[i]
        BY <1>0
      <4>2. IsInjective(queue)
        BY <1>0 DEF Consistent
      <4>3. \A i \in 1..Len(queue) : queue[i] # r
        BY <1>0, <3>3, ToSetMember
      <4> HIDE DEF q
      <4>4. \A x : x \in ToSet(q) <=> x = r \/ x \in ToSet(queue)
        <5>1. \A x : x \in ToSet(q) <=> \E i \in 1..Len(q) : q[i] = x
          BY <3>2, ToSetMember
        <5>2. \A x : x \in ToSet(queue) <=> \E i \in 1..Len(queue) : queue[i] = x
          BY <1>0, ToSetMember
        <5>3. Len(queue) \in Nat
          BY <1>0
        <5> QED BY <4>1, <5>1, <5>2, <5>3
      <4>5. IsInjective(q)
        BY <1>0, <3>2, <4>1, <4>2, <4>3 DEF IsInjective
      <4> QED BY <4>4, <4>5
    <3>5. Running(ph) = Running(phase)
      BY <1>0, <3>1 DEF Running
    <3>6. Consistent(q, activeRequests, ph, freeing)
      BY <1>0, <3>1, <3>4, <3>5 DEF Consistent, Settled
    <3> HIDE DEF q, ph
    <3>7. /\ queue' \in Seq(Request) /\ activeRequests' \in Nat
          /\ phase' \in [Request -> Phase]
          /\ Consistent(queue', activeRequests', phase', freeing)
          /\ queue' # <<>> => activeRequests' = maxConcurrent
      BY <1>0, <3>1, <3>2, <3>6, Process
    <3> QED BY <3>1, <3>7 DEF TypeOK, QueueInv, WaitsOnlyForSlots
  <2> QED BY <2>1, <2>2
<1>3. ASSUME NEW r \in Request, Succeed(r)
      PROVE  (TypeOK /\ QueueInv)'
  <2>1. TypeOK'
    BY <1>3 DEF Succeed, TypeOK, Phase, Settled
  <2>2. "resolved" \in Settled
    BY DEF Settled
  <2> QED BY <1>3, <2>1, <2>2, SettleStep DEF Succeed
<1>4. ASSUME NEW r \in Request, NEW transient \in BOOLEAN, Fail(r, transient)
      PROVE  (TypeOK /\ QueueInv)'
  <2>1. TypeOK'
    <3>1. retries' \in [Request -> 0..maxRetries]
      <4>1. retries' \in {retries, [retries EXCEPT ![r] = retries[r] + 1]}
            /\ (retries' = retries \/ retries[r] < maxRetries)
        BY <1>4 DEF Fail, BudgetLeft
      <4>2. retries \in [Request -> 0..maxRetries]
        BY DEF TypeOK
      <4> QED BY <4>1, <4>2
    <3>2. phase' \in [Request -> Phase]
      BY <1>4 DEF Fail, TypeOK, Phase, Settled
    <3> QED BY <1>4, <3>1, <3>2 DEF Fail, TypeOK
  <2>2. PICK outcome \in Settled \cup {"backoff"} : phase' = [phase EXCEPT ![r] = outcome]
    BY <1>4 DEF Fail, Settled
  <2>3. QueueInv'
    BY <1>4, <2>2, SettleStep DEF Fail
  <2> QED BY <2>1, <2>3
<1>5. ASSUME NEW r \in Request, Release(r)
      PROVE  (TypeOK /\ QueueInv)'
  <2>1. /\ r \in freeing /\ freeing' = freeing \ {r}
        /\ processQueue(queue, activeRequests - 1, phase)
        /\ UNCHANGED <<retries, disposed>>
    BY <1>5 DEF Release, SlotFreed
  <2>2. /\ IsFiniteSet(freeing) /\ Cardinality(freeing) \in Nat
        /\ Cardinality(Running(phase)) \in Nat
    BY <1>0, SubsetsFinite DEF Running
  <2>3. Cardinality(freeing') = Cardinality(freeing) - 1 /\ Cardinality(freeing') \in Nat
    BY <1>0, <2>1, <2>2, FS_RemoveElement, SubsetsFinite
  <2>4. activeRequests - 1 \in Nat
    BY <1>0, <2>2, <2>3 DEF Consistent
  <2>5. Consistent(queue, activeRequests - 1, phase, freeing')
    BY <1>0, <2>1, <2>2, <2>3, <2>4 DEF Consistent
  <2>6. freeing' \in SUBSET Request
    BY <1>0, <2>1
  <2>7. /\ queue' \in Seq(Request) /\ activeRequests' \in Nat
        /\ phase' \in [Request -> Phase]
        /\ Consistent(queue', activeRequests', phase', freeing')
        /\ queue' # <<>> => activeRequests' = maxConcurrent
    BY <1>0, <2>1, <2>4, <2>5, <2>6, Process
  <2> QED BY <2>1, <2>6, <2>7 DEF TypeOK, QueueInv, WaitsOnlyForSlots
<1>6. ASSUME NEW r \in Request, RetryTimer(r)
      PROVE  (TypeOK /\ QueueInv)'
  <2> DEFINE q == <<r>> \o queue
             ph == [phase EXCEPT ![r] = "queued"]
  <2>1. /\ freeing = {} /\ phase[r] = "backoff" /\ processQueue(q, activeRequests, ph)
        /\ UNCHANGED <<retries, freeing, disposed>>
    BY <1>6 DEF RetryTimer, Requeued
  <2>2. q \in Seq(Request) /\ ph \in [Request -> Phase]
    BY <1>0 DEF Phase
  <2>3. r \notin ToSet(queue)
    BY <1>0, <2>1 DEF Consistent
  <2>4. ToSet(q) = ToSet(queue) \cup {r} /\ IsInjective(q)
    <3>1. Len(q) = Len(queue) + 1 /\ q[1] = r /\ \A i \in 2..Len(q) : q[i] = queue[i - 1]
      BY <1>0
    <3>2. IsInjective(queue)
      BY <1>0 DEF Consistent
    <3>3. \A i \in 1..Len(queue) : queue[i] # r
      BY <1>0, <2>3, ToSetMember
    <3> HIDE DEF q
    <3>4. \A x : x \in ToSet(q) <=> x = r \/ x \in ToSet(queue)
      <4>1. \A x : x \in ToSet(q) <=> \E i \in 1..Len(q) : q[i] = x
        BY <2>2, ToSetMember
      <4>2. \A x : x \in ToSet(queue) <=> \E i \in 1..Len(queue) : queue[i] = x
        BY <1>0, ToSetMember
      <4>3. Len(queue) \in Nat
        BY <1>0
      <4>4. \A i \in 1..Len(queue) : i + 1 \in 2..Len(q) /\ q[i + 1] = queue[i]
        BY <3>1, <4>3
      <4> QED BY <3>1, <4>1, <4>2, <4>3, <4>4
    <3>5. IsInjective(q)
      <4>1. Len(queue) \in Nat /\ DOMAIN q = 1..(Len(queue) + 1)
        BY <1>0, <2>2, <3>1
      <4>2. \A i, j \in 1..Len(queue) : queue[i] = queue[j] => i = j
        BY <1>0, <3>2 DEF IsInjective
      <4>3. \A i \in 2..Len(q) : q[i] # r
        BY <3>1, <3>3, <4>1
      <4>4. \A i, j \in 2..Len(q) : q[i] = q[j] => i - 1 = j - 1
        BY <3>1, <4>1, <4>2
      <4>5. \A i \in DOMAIN q : i = 1 \/ i \in 2..Len(q)
        BY <3>1, <4>1
      <4> QED BY <3>1, <4>1, <4>3, <4>4, <4>5 DEF IsInjective
    <3> QED BY <3>4, <3>5
  <2>5. Running(ph) = Running(phase)
    BY <1>0, <2>1 DEF Running
  <2>6. Consistent(q, activeRequests, ph, freeing)
    BY <1>0, <2>1, <2>4, <2>5 DEF Consistent
  <2> HIDE DEF q, ph
  <2>7. /\ queue' \in Seq(Request) /\ activeRequests' \in Nat
        /\ phase' \in [Request -> Phase]
        /\ Consistent(queue', activeRequests', phase', freeing)
        /\ queue' # <<>> => activeRequests' = maxConcurrent
    BY <1>0, <2>1, <2>2, <2>6, Process
  <2> QED BY <2>1, <2>7 DEF TypeOK, QueueInv, WaitsOnlyForSlots
<1>7. CASE UNCHANGED vars
  BY <1>7 DEF vars, TypeOK, QueueInv, Consistent, WaitsOnlyForSlots, Running
<1> QED
  BY <1>1, <1>2, <1>3, <1>4, <1>5, <1>6, <1>7 DEF Next, Settle

\* request-queue.ts, for any number of requests, slots and retries: activeRequests is
\* exact and within maxConcurrent, a request waits only while every slot is taken, and
\* the queue holds each waiting request once and nothing that already has an outcome.
THEOREM SlotsExact == Spec => []QueueSlotsExact
<1>1. TypeOK /\ QueueInv => QueueSlotsExact
  BY DEF QueueInv, Consistent, QueueSlotsExact, SlotsAccountedFor, QueuedOnce, Running,
         IsInjective
<1> QED BY <1>1, InitInv, InvStep, PTL DEF Spec

-----------------------------------------------------------------------------
(* The contract clients (SdkClient). *)

CallRecords ==
  [state : {"idle", "running", "ended"}, steps : Seq(Steps), raced : BOOLEAN,
   tries : 0 .. MaxRetries + NServers, polls : 0 .. PollRetries,
   reruns : 0 .. QueueRetries, via : Servers, seq : Int,
   out : Outcomes, writes : BOOLEAN, blind : BOOLEAN, shown : BOOLEAN,
   asked : SUBSET Servers, moved : BOOLEAN, spent : BOOLEAN]

Lone == \A c, d \in pool : c = d

SdkTypes ==
  /\ call \in [Calls -> CallRecords] /\ current \in Servers /\ clientDisposed \in BOOLEAN
  /\ pool \subseteq Calls /\ Lone /\ failed \subseteq Calls /\ sequence \in Nat
  /\ applied \in [Calls -> Nat] /\ behind \subseteq Servers /\ losses \in 0 .. MaxLosses

Underway(c) == call[c].state = "running"
First(c) == call[c].steps[1]
Comes(c, K) == \E i \in 1 .. Len(call[c].steps) : call[c].steps[i] \in K
OnLedger(c) == applied[c] > 0 \/ c \in pool

\* What is left of a method is in order, and its outcome is open, but for a timer
InStep(c) ==
  /\ Underway(c) => /\ call[c].steps # <<>> /\ WritesInOrder(call[c].steps)
                   /\ call[c].out \in {"none", "timeout"} /\ ~call[c].spent
  /\ call[c].state = "idle" => /\ ~OnLedger(c) /\ c \notin failed
                               /\ call[c].out = "none" /\ ~call[c].spent
  /\ call[c].state = "ended" => call[c].out # "none"

\* A transaction in the pool bears the next sequence number and has not been included;
\* one that was included bears a number that is spent, and reads no other
NumberSpent(c) ==
  /\ c \in pool => call[c].seq = sequence + 1 /\ applied[c] = 0 /\ c \notin failed
  /\ applied[c] > 0 \/ c \in failed => call[c].seq <= sequence
  /\ applied[c] <= 1
  /\ Underway(c) /\ (OnLedger(c) \/ c \in failed) => ~Comes(c, {"account"})

\* A write is still to come, is being polled for, or has taken effect
WriteInStep(c) ==
  /\ Underway(c) /\ call[c].writes => Comes(c, Writing) \/ First(c) = "poll" \/ applied[c] = 1
  /\ call[c].out = "resolved" /\ call[c].writes => applied[c] = 1

\* A client that sends again what a node has taken is blind
KnownOrBlind(c) ==
  /\ Underway(c) /\ OnLedger(c) =>
       \/ call[c].shown \/ First(c) = "poll"
       \/ First(c) \in Writing /\ call[c].blind
       \/ First(c) = "submit" /\ call[c].polls > 0
  /\ call[c].out = "contract" /\ OnLedger(c) => call[c].blind \/ call[c].shown

\* The failover has asked the servers it has counted
Counted(c) ==
  /\ Underway(c) /\ First(c) \in {"probe", "submit"} /\ ~call[c].moved =>
       /\ \A j \in 0 .. call[c].tries - 1 : (current + j) % NServers \in call[c].asked
       /\ call[c].polls > 0 => (current + call[c].tries) % NServers \in call[c].asked
  /\ call[c].spent => call[c].asked = Servers \/ call[c].moved

CallInv(c) == InStep(c) /\ NumberSpent(c) /\ WriteInStep(c) /\ KnownOrBlind(c) /\ Counted(c)

SdkInv == SdkTypes /\ \A c \in Calls : CallInv(c)

-----------------------------------------------------------------------------
LEMMA Mod ==
    /\ \A n \in Nat \ {0} : \A a \in Nat : a % n \in 0 .. n - 1
    /\ \A n \in Nat \ {0} : \A a \in 0 .. n - 1 : a % n = a /\ (a + n) % n = a
<1>1. ASSUME NEW n \in Nat \ {0}, NEW a \in Nat PROVE a % n \in 0 .. n - 1
  OBVIOUS
<1>2. ASSUME NEW n \in Nat \ {0}, NEW a \in 0 .. n - 1 PROVE a % n = a
  OBVIOUS
<1>3. ASSUME NEW n \in Nat \ {0}, NEW a \in 0 .. n - 1 PROVE (a + n) % n = a
  OBVIOUS
<1> QED BY <1>1, <1>2, <1>3

\* Counting through the servers from the current one meets all of them.
LEMMA AllMet ==
    ASSUME NEW cur \in Servers, NEW S \in SUBSET Servers, NEW t \in Nat, t + 1 >= NServers,
           \A j \in 0 .. t : (cur + j) % NServers \in S
    PROVE  S = Servers
<1> SUFFICES ASSUME NEW s \in Servers PROVE s \in S
  OBVIOUS
<1>1. NServers \in Nat \ {0} /\ cur \in 0 .. NServers - 1 /\ s \in 0 .. NServers - 1
  BY SdkAssumption DEF Servers
<1>2. CASE s >= cur
  <2>1. s - cur \in 0 .. t /\ cur + (s - cur) = s
    BY <1>1, <1>2
  <2>2. s % NServers = s
    BY <1>1, Mod
  <2> QED BY <2>1, <2>2
<1>3. CASE s < cur
  <2>1. s + NServers - cur \in 0 .. t /\ cur + (s + NServers - cur) = s + NServers
    BY <1>1, <1>3
  <2>2. (s + NServers) % NServers = s
    BY <1>1, Mod
  <2> QED BY <2>1, <2>2
<1> QED BY <1>1, <1>2, <1>3

LEMMA TargetServer == SdkTypes => \A c \in Calls : Target(c) \in Servers
<1> SUFFICES ASSUME SdkTypes, NEW c \in Calls PROVE Target(c) \in Servers
  OBVIOUS
<1>1. NServers \in Nat \ {0} /\ current \in Nat /\ call[c].tries \in Nat
  BY SdkAssumption DEF SdkTypes, Servers, CallRecords
<1>2. current + call[c].tries \in Nat
  BY <1>1
<1> QED BY <1>1, <1>2, Mod DEF Target, Servers

\* What is left of an ordered method after its first request.
LEMMA TailInOrder ==
    ASSUME NEW s \in Seq(Steps), Len(s) > 1, WritesInOrder(s)
    PROVE  /\ Tail(s) \in Seq(Steps) /\ Tail(s) # <<>> /\ Len(Tail(s)) = Len(s) - 1
           /\ \A i \in 1 .. Len(s) - 1 : Tail(s)[i] = s[i + 1]
           /\ WritesInOrder(Tail(s))
           /\ s[1] \in {"send", "sendOnce"} => Tail(s)[1] = "poll"
<1>1. Len(s) \in Nat
  OBVIOUS
<1>2. /\ Tail(s) \in Seq(Steps) /\ Len(Tail(s)) = Len(s) - 1
      /\ \A i \in 1 .. Len(s) - 1 : Tail(s)[i] = s[i + 1]
  BY <1>1
<1>3. Tail(s) # <<>>
  <2>1. Len(Tail(s)) > 0
    BY <1>1, <1>2
  <2>2. \A t : t = <<>> => ~(Len(t) > 0)
    OBVIOUS
  <2> QED BY <2>1, <2>2, Zenon
<1>4. WritesInOrder(Tail(s))
  <2> DEFINE t == Tail(s)
  <2> SUFFICES ASSUME NEW i \in 1 .. Len(t), NEW k \in 1 .. Len(t)
               PROVE  /\ t[i] \in {"send", "sendOnce"} => i < Len(t) /\ t[i + 1] = "poll"
                      /\ t[i] = "submit" => i = Len(t)
                      /\ i < k /\ t[k] \in Writing => t[i] \notin Writing \cup {"poll", "ask", "probe"}
                      /\ i < k /\ t[i] \in Writing => t[k] # "account"
    BY Zenon DEF WritesInOrder
  <2>1. /\ i + 1 \in 1 .. Len(s) /\ k + 1 \in 1 .. Len(s) /\ (i < k <=> i + 1 < k + 1)
        /\ t[i] = s[i + 1] /\ t[k] = s[k + 1] /\ Len(t) = Len(s) - 1
        /\ (i + 1 < Len(s) <=> i < Len(t)) /\ (i + 1 = Len(s) <=> i = Len(t))
        /\ (i + 1 < Len(s) => t[i + 1] = s[(i + 1) + 1])
    BY <1>1, <1>2
  <2> HIDE DEF t
  <2>2. /\ s[i + 1] \in {"send", "sendOnce"} => i + 1 < Len(s) /\ s[(i + 1) + 1] = "poll"
        /\ s[i + 1] = "submit" => i + 1 = Len(s)
        /\ i + 1 < k + 1 /\ s[k + 1] \in Writing => s[i + 1] \notin Writing \cup {"poll", "ask", "probe"}
        /\ i + 1 < k + 1 /\ s[i + 1] \in Writing => s[k + 1] # "account"
    BY <2>1 DEF WritesInOrder
  <2> QED BY <2>1, <2>2
<1>5. s[1] \in {"send", "sendOnce"} => Tail(s)[1] = "poll"
  <2>1. 1 \in 1 .. Len(s) /\ 1 \in 1 .. Len(s) - 1
    BY <1>1
  <2>2. Tail(s)[1] = s[1 + 1]
    BY <1>2, <2>1
  <2> QED BY <2>1, <2>2 DEF WritesInOrder
<1> QED BY <1>2, <1>3, <1>4, <1>5

-----------------------------------------------------------------------------
\* A step of one call: the account's number and the ledger stay as they are, and the
\* call's transaction may enter the pool
SendsOnly(c) ==
  /\ UNCHANGED <<sequence, applied, failed>>
  /\ pool' = pool \/ (pool = {} /\ call[c].seq = sequence + 1 /\ pool' = {c})

LEMMA StepTypes ==
    ASSUME SdkInv, NEW c \in Calls
    PROVE  /\ call[c] \in CallRecords /\ CallInv(c) /\ applied[c] \in Nat /\ sequence \in Nat
           /\ call[c].steps \in Seq(Steps) /\ Len(call[c].steps) \in Nat /\ call[c].seq \in Int
           /\ call[c].tries \in Nat /\ call[c].polls \in Nat
           /\ pool \subseteq Calls /\ Lone
<1>1. call[c] \in CallRecords /\ CallInv(c) /\ applied[c] \in Nat /\ sequence \in Nat
      /\ pool \subseteq Calls /\ Lone
  BY DEF SdkInv, SdkTypes
<1>2. call[c].steps \in Seq(Steps) /\ call[c].seq \in Int
      /\ call[c].tries \in 0 .. MaxRetries + NServers /\ call[c].polls \in 0 .. PollRetries
  BY <1>1 DEF CallRecords
<1>3. call[c].tries \in Nat /\ call[c].polls \in Nat
  BY <1>2, SdkAssumption
<1>4. Len(call[c].steps) \in Nat
  BY <1>2
<1> QED BY <1>1, <1>2, <1>3, <1>4

\* The transaction that enters the pool has not been included.
LEMMA SendSpends ==
    ASSUME SdkInv, NEW c \in Calls, SendsOnly(c), call'[c].seq = call[c].seq
    PROVE  /\ c \in pool' => call'[c].seq = sequence' + 1 /\ applied'[c] = 0 /\ c \notin failed'
           /\ applied'[c] > 0 \/ c \in failed' => call'[c].seq <= sequence'
           /\ applied'[c] <= 1
<1>1. NumberSpent(c) /\ applied[c] \in Nat /\ sequence \in Nat /\ call[c].seq \in Int
  BY StepTypes DEF CallInv
<1> QED BY <1>1 DEF NumberSpent, SendsOnly

LEMMA EndingKeeps ==
    ASSUME SdkInv, NEW c \in Calls, Underway(c), SendsOnly(c), call'[c].seq = call[c].seq,
           call'[c].state = "ended", call'[c].out # "none",
           call'[c].out = "resolved" /\ call'[c].writes => applied[c] = 1,
           call'[c].out = "contract" /\ OnLedger(c)' => call'[c].blind \/ call'[c].shown,
           call'[c].spent => call'[c].asked = Servers \/ call'[c].moved
    PROVE  CallInv(c)'
<1>1. ~Underway(c)' /\ call'[c].state # "idle"
  BY DEF Underway
<1>2. InStep(c)'
  BY <1>1 DEF InStep
<1>3. NumberSpent(c)'
  BY <1>1, SendSpends DEF NumberSpent
<1>4. WriteInStep(c)'
  BY <1>1 DEF WriteInStep, SendsOnly
<1>5. KnownOrBlind(c)'
  BY <1>1 DEF KnownOrBlind
<1>6. Counted(c)'
  BY <1>1 DEF Counted
<1> QED BY <1>2, <1>3, <1>4, <1>5, <1>6 DEF CallInv

\* A step that is repeated: the steps to come stay the same.
LEMMA StayingKeeps ==
    ASSUME SdkInv, NEW c \in Calls, Underway(c), SendsOnly(c), call'[c].seq = call[c].seq,
           call'[c].state = "running", call'[c].steps = call[c].steps,
           call'[c].out \in {"none", "timeout"}, ~call'[c].spent,
           call'[c].writes = call[c].writes, call[c].shown => call'[c].shown,
           pool' # pool => First(c) \in Writing,
           First(c) \in Writing /\ OnLedger(c)' =>
             \/ call'[c].shown \/ call'[c].blind
             \/ First(c) = "submit" /\ call'[c].polls > 0,
           Counted(c)'
    PROVE  CallInv(c)'
<1>1. CallInv(c) /\ call[c].steps \in Seq(Steps) /\ Len(call[c].steps) \in Nat
  BY StepTypes
<1>2. Underway(c)' /\ First(c)' = First(c) /\ call'[c].out # "resolved"
      /\ call'[c].out # "contract" /\ call'[c].state # "idle" /\ call'[c].state # "ended"
  BY DEF Underway, First
<1>3. \A K : Comes(c, K)' <=> Comes(c, K)
  BY DEF Comes
<1>4. InStep(c)'
  BY <1>1, <1>2 DEF InStep, CallInv
<1>5. NumberSpent(c)'
  <2>1. pool' # pool => ~Comes(c, {"account"})
    <3> SUFFICES ASSUME First(c) \in Writing, Comes(c, {"account"}) PROVE FALSE
      OBVIOUS
    <3>1. PICK k \in 1 .. Len(call[c].steps) : call[c].steps[k] = "account"
      BY DEF Comes
    <3>2. 1 \in 1 .. Len(call[c].steps) /\ (k # 1 => 1 < k)
      BY <1>1
    <3>3. k # 1
      BY <3>1 DEF First, Writing
    <3> QED BY <1>1, <3>1, <3>2, <3>3 DEF CallInv, InStep, WritesInOrder, First
  <2>2. OnLedger(c)' \/ c \in failed' => ~Comes(c, {"account"})
    BY <1>1, <2>1 DEF CallInv, NumberSpent, OnLedger, SendsOnly
  <2> QED BY <1>3, <2>2, SendSpends DEF NumberSpent
<1>6. WriteInStep(c)'
  BY <1>1, <1>2, <1>3 DEF WriteInStep, CallInv, SendsOnly
<1>7. KnownOrBlind(c)'
  <2>1. CASE First(c) \in Writing
    BY <1>2, <2>1 DEF KnownOrBlind
  <2>2. CASE First(c) \notin Writing
    <3>1. OnLedger(c)' => OnLedger(c)
      BY <2>2 DEF OnLedger, SendsOnly
    <3> QED BY <1>1, <1>2, <2>2, <3>1 DEF KnownOrBlind, CallInv, Writing
  <2> QED BY <2>1, <2>2
<1> QED BY <1>4, <1>5, <1>6, <1>7 DEF CallInv

\* A step that is done: r goes on with the next one, or is resolved
PassedAs(c, r) ==
  /\ r.writes = call[c].writes /\ r.spent = call[c].spent
  /\ Len(call[c].steps) = 1 =>
       r.state = "ended" /\ r.out = IF call[c].out = "none" THEN "resolved" ELSE call[c].out
  /\ Len(call[c].steps) # 1 =>
       /\ r.state = "running" /\ r.steps = Tail(call[c].steps) /\ r.tries = 0 /\ r.polls = 0
       /\ r.out = call[c].out

LEMMA PassingKeeps ==
    ASSUME SdkInv, NEW c \in Calls, Underway(c), SendsOnly(c), PassedAs(c, call'[c]),
           call'[c].seq = call[c].seq \/ (First(c) = "account" /\ pool' = pool),
           call[c].shown => call'[c].shown,
           pool' # pool => First(c) \in {"send", "sendOnce"},
           First(c) \in {"poll", "submit"} => applied[c] = 1 /\ call'[c].shown
    PROVE  CallInv(c)'
<1> DEFINE s == call[c].steps
<1>1. CallInv(c) /\ s \in Seq(Steps) /\ Len(s) \in Nat /\ s # <<>> /\ WritesInOrder(s)
      /\ call[c].out \in {"none", "timeout"} /\ ~call[c].spent
      /\ applied[c] \in Nat /\ sequence \in Nat
  BY StepTypes DEF CallInv, InStep
<1>2. Len(s) >= 1 /\ 1 \in 1 .. Len(s) /\ First(c) = s[1]
  BY <1>1 DEF First
<1>3. CASE Len(s) = 1
  <2>1. call'[c].out \in {"resolved", "timeout"} /\ call'[c].state = "ended"
    BY <1>1, <1>3 DEF PassedAs
  <2>2. First(c) \notin {"send", "sendOnce"}
    BY <1>1, <1>2, <1>3 DEF WritesInOrder
  <2>3. call[c].writes => applied[c] = 1
    <3>1. Comes(c, Writing) => First(c) \in Writing
      BY <1>2, <1>3 DEF Comes
    <3> QED BY <1>1, <2>2, <3>1 DEF CallInv, WriteInStep, Writing
  <2>4. call'[c].seq = call[c].seq => CallInv(c)'
    BY <1>1, <1>3, <2>1, <2>3, EndingKeeps DEF PassedAs
  <2>5. CASE call'[c].seq # call[c].seq
    <3>1. First(c) = "account" /\ pool' = pool /\ ~OnLedger(c) /\ c \notin failed
      <4>1. Comes(c, {"account"}) <=> \E i \in 1 .. Len(s) : s[i] \in {"account"}
        BY DEF Comes
      <4> QED BY <1>1, <1>2, <2>5, <4>1 DEF CallInv, NumberSpent
    <3>2. ~Underway(c)' /\ call'[c].state # "idle"
      BY <2>1 DEF Underway
    <3>3. ~OnLedger(c)' /\ c \notin failed' /\ applied'[c] = applied[c] /\ applied[c] = 0
      BY <1>1, <3>1 DEF OnLedger, SendsOnly
    <3>4. InStep(c)' /\ NumberSpent(c)'
      BY <2>1, <3>2, <3>3 DEF InStep, NumberSpent, OnLedger
    <3>5. WriteInStep(c)' /\ KnownOrBlind(c)'
      BY <1>3, <2>1, <2>3, <3>2, <3>3 DEF WriteInStep, KnownOrBlind, PassedAs
    <3>6. Counted(c)'
      BY <1>1, <1>3, <3>2 DEF Counted, PassedAs
    <3> QED BY <3>4, <3>5, <3>6 DEF CallInv
  <2> QED BY <2>4, <2>5
<1>4. CASE Len(s) # 1
  <2> DEFINE t == Tail(s)
  <2>1. Len(s) > 1
    <3>1. \A n \in Nat : n >= 1 /\ n # 1 => n > 1
      OBVIOUS
    <3> QED BY <1>1, <1>2, <1>4, <3>1, Zenon
  <2>2. /\ t \in Seq(Steps) /\ t # <<>> /\ Len(t) = Len(s) - 1 /\ WritesInOrder(t)
        /\ \A i \in 1 .. Len(s) - 1 : t[i] = s[i + 1]
        /\ s[1] \in {"send", "sendOnce"} => t[1] = "poll"
    BY <1>1, <2>1, TailInOrder
  <2>3. /\ call'[c].steps = t /\ call'[c].state = "running" /\ call'[c].tries = 0
        /\ call'[c].polls = 0 /\ call'[c].out \in {"none", "timeout"} /\ ~call'[c].spent
        /\ call'[c].writes = call[c].writes
    BY <1>1, <1>4 DEF PassedAs
  <2> HIDE DEF t
  <2>4. Underway(c)' /\ First(c)' = t[1] /\ call'[c].out # "resolved"
        /\ call'[c].out # "contract" /\ call'[c].state # "idle" /\ call'[c].state # "ended"
    BY <2>3 DEF Underway, First
  <2>5. ASSUME NEW K PROVE /\ Comes(c, K)' => Comes(c, K)
                           /\ Comes(c, K) /\ s[1] \notin K => Comes(c, K)'
    <3>1. Comes(c, K)' <=> \E i \in 1 .. Len(t) : t[i] \in K
      BY <2>3 DEF Comes
    <3>2. Comes(c, K) <=> \E i \in 1 .. Len(s) : s[i] \in K
      BY DEF Comes
    <3>3. \A i \in 1 .. Len(t) : i + 1 \in 1 .. Len(s) /\ t[i] = s[i + 1]
      BY <1>1, <2>2
    <3>4. \A i \in 1 .. Len(s) : i # 1 => i - 1 \in 1 .. Len(t) /\ (i - 1) + 1 = i
      BY <1>1, <2>2
    <3>5. ASSUME NEW i \in 1 .. Len(s), s[i] \in K, s[1] \notin K
          PROVE \E k \in 1 .. Len(t) : t[k] \in K
      <4>1. i # 1
        BY <3>5
      <4>2. i - 1 \in 1 .. Len(t) /\ t[i - 1] = s[i]
        BY <3>3, <3>4, <4>1
      <4> QED BY <3>5, <4>2
    <3> QED BY <3>1, <3>2, <3>3, <3>5
  <2>6. s[1] # "submit"
    BY <1>1, <1>2, <1>4 DEF WritesInOrder
  <2>7. InStep(c)'
    BY <2>2, <2>3, <2>4 DEF InStep
  <2>8. NumberSpent(c)'
    <3>1. CASE s[1] = "account"
      <4>1. Comes(c, {"account"})
        BY <1>2, <3>1 DEF Comes
      <4>2. ~OnLedger(c)' /\ c \notin failed' /\ applied'[c] = 0 /\ c \notin pool'
        <5>1. pool' = pool
          BY <1>2, <3>1
        <5> QED BY <1>1, <4>1, <5>1 DEF CallInv, NumberSpent, OnLedger, SendsOnly
      <4> QED BY <4>2 DEF NumberSpent
    <3>2. CASE s[1] # "account"
      <4>1. call'[c].seq = call[c].seq
        BY <1>2, <3>2
      <4>2. pool' # pool => ~Comes(c, {"account"})
        <5>1. s[1] \in Writing => ~Comes(c, {"account"})
          <6> SUFFICES ASSUME s[1] \in Writing, NEW k \in 1 .. Len(s), s[k] = "account" PROVE FALSE
            BY DEF Comes
          <6>1. k # 1 /\ (k # 1 => 1 < k)
            BY <1>1, <3>2
          <6> QED BY <1>1, <1>2, <6>1 DEF WritesInOrder
        <5> QED BY <1>2, <5>1 DEF Writing
      <4>3. OnLedger(c)' \/ c \in failed' => ~Comes(c, {"account"})
        BY <1>1, <4>2 DEF CallInv, NumberSpent, OnLedger, SendsOnly
      <4>4. OnLedger(c)' \/ c \in failed' => ~Comes(c, {"account"})'
        BY <4>3, <2>5
      <4> QED BY <4>1, <4>4, SendSpends DEF NumberSpent
    <3> QED BY <3>1, <3>2
  <2>9. WriteInStep(c)'
    <3>1. CASE s[1] \in {"send", "sendOnce"}
      BY <2>2, <2>4, <3>1 DEF WriteInStep
    <3>2. CASE s[1] = "poll"
      BY <1>2, <2>4, <3>2 DEF WriteInStep, SendsOnly
    <3>3. CASE s[1] \notin {"send", "sendOnce", "poll"}
      <4>1. s[1] \notin Writing
        BY <2>6, <3>3 DEF Writing
      <4>2. Comes(c, Writing) => Comes(c, Writing)'
        BY <2>5, <4>1
      <4>3. call[c].writes => Comes(c, Writing) \/ applied[c] = 1
        BY <1>1, <1>2, <3>3 DEF CallInv, WriteInStep
      <4> QED BY <2>3, <2>4, <4>2, <4>3 DEF WriteInStep, SendsOnly
    <3> QED BY <3>1, <3>2, <3>3
  <2>10. KnownOrBlind(c)'
    <3>1. CASE s[1] \in {"send", "sendOnce"}
      BY <2>2, <2>4, <3>1 DEF KnownOrBlind
    <3>2. CASE s[1] = "poll"
      BY <1>2, <2>4, <3>2 DEF KnownOrBlind
    <3>3. CASE s[1] \notin {"send", "sendOnce", "poll"}
      <4>1. OnLedger(c)' => OnLedger(c)
        BY <1>2, <3>3 DEF OnLedger, SendsOnly
      <4>2. OnLedger(c) => call[c].shown
        BY <1>1, <1>2, <2>6, <3>3 DEF CallInv, KnownOrBlind, Writing
      <4> QED BY <2>4, <4>1, <4>2 DEF KnownOrBlind
    <3> QED BY <3>1, <3>2, <3>3
  <2>11. Counted(c)'
    BY <2>3 DEF Counted
  <2> QED BY <2>7, <2>8, <2>9, <2>10, <2>11 DEF CallInv
<1> QED BY <1>3, <1>4

-----------------------------------------------------------------------------
\* The other calls: a success elsewhere may move the index a failover counts from
LEMMA OthersKeep ==
    ASSUME SdkInv, NEW c \in Calls, SendsOnly(c), NEW d \in Calls, d # c,
           NEW w \in BOOLEAN, call[d].moved => w,
           call'[d] = call[d] \/ call'[d] = [call[d] EXCEPT !.moved = w],
           ~call'[d].moved /\ Counting(d) => current' = current
    PROVE  call'[d] \in CallRecords /\ CallInv(d)'
<1>1. call[d] \in CallRecords /\ CallInv(d)
  BY StepTypes
<1>2. /\ call'[d] \in CallRecords
      /\ call'[d].state = call[d].state /\ call'[d].steps = call[d].steps
      /\ call'[d].out = call[d].out /\ call'[d].spent = call[d].spent
      /\ call'[d].seq = call[d].seq /\ call'[d].writes = call[d].writes
      /\ call'[d].blind = call[d].blind /\ call'[d].shown = call[d].shown
      /\ call'[d].tries = call[d].tries /\ call'[d].polls = call[d].polls
      /\ call'[d].asked = call[d].asked /\ (call[d].moved => call'[d].moved)
  BY <1>1 DEF CallRecords
<1>3. /\ (d \in pool' => d \in pool) /\ applied'[d] = applied[d] /\ (d \in failed' <=> d \in failed)
      /\ sequence' = sequence /\ (OnLedger(d)' => OnLedger(d))
  BY DEF SendsOnly, OnLedger
<1>4. /\ Underway(d)' <=> Underway(d)
      /\ First(d)' = First(d)
      /\ \A K : Comes(d, K)' <=> Comes(d, K)
  BY <1>2 DEF Underway, First, Comes
<1>5. InStep(d)'
  BY <1>1, <1>2, <1>3, <1>4 DEF InStep, CallInv
<1>6. NumberSpent(d)'
  BY <1>1, <1>2, <1>3, <1>4 DEF NumberSpent, CallInv
<1>7. WriteInStep(d)'
  BY <1>1, <1>2, <1>3, <1>4 DEF WriteInStep, CallInv
<1>8. KnownOrBlind(d)'
  BY <1>1, <1>2, <1>3, <1>4 DEF KnownOrBlind, CallInv
<1>9. Counted(d)'
  <2>1. Underway(d) /\ First(d) \in {"probe", "submit"} => At(d, {"probe", "submit"})
    <3>1. Underway(d) => call[d].steps # <<>> /\ call[d].steps \in Seq(Steps)
      BY <1>1, StepTypes DEF CallInv, InStep
    <3> QED BY <3>1 DEF At, Underway, First
  <2>2. Counted(d)
    BY <1>1 DEF CallInv
  <2>3. CASE Underway(d) /\ First(d) \in {"probe", "submit"} /\ ~call'[d].moved
    <3>1. CASE Counting(d)
      <4>1. current' = current
        BY <2>3, <3>1
      <4> QED BY <1>2, <1>4, <2>2, <2>3, <4>1 DEF Counted
    <3>2. CASE ~Counting(d)
      <4>1. ~(call[d].tries > 0) /\ ~(call[d].polls > 0) /\ call[d].tries \in Nat
        BY <2>1, <2>3, <3>2, StepTypes DEF Counting
      <4>2. ~(call'[d].polls > 0) /\ \A j \in 0 .. call'[d].tries - 1 : FALSE
        BY <1>2, <4>1
      <4> QED BY <1>2, <2>2, <4>2 DEF Counted
    <3> QED BY <3>1, <3>2
  <2>4. CASE ~(Underway(d) /\ First(d) \in {"probe", "submit"} /\ ~call'[d].moved)
    BY <1>2, <1>4, <2>2, <2>4 DEF Counted
  <2> QED BY <2>3, <2>4
<1> QED BY <1>2, <1>5, <1>6, <1>7, <1>8, <1>9 DEF CallInv

\* A step of one call keeps the invariant if it keeps that call's.
LEMMA OneCallSteps ==
    ASSUME SdkInv, NEW c \in Calls, SendsOnly(c), NEW new, Become(c, new), new \in CallRecords,
           CallInv(c)', UNCHANGED <<current, behind>>, clientDisposed' \in BOOLEAN,
           losses' \in 0 .. MaxLosses
    PROVE  SdkInv'
<1>1. call \in [Calls -> CallRecords] /\ pool \subseteq Calls /\ Lone
  BY DEF SdkInv, SdkTypes
<1>2. call' \in [Calls -> CallRecords]
  BY <1>1 DEF Become
<1>3. pool' \subseteq Calls /\ Lone'
  BY <1>1 DEF SendsOnly, Lone
<1>4. SdkTypes'
  BY <1>2, <1>3 DEF SdkInv, SdkTypes, SendsOnly
<1>5. ASSUME NEW d \in Calls, d # c PROVE CallInv(d)'
  <2>1. call'[d] = call[d]
    BY <1>1, <1>5 DEF Become
  <2> QED BY <1>5, <2>1, OthersKeep, TRUE \in BOOLEAN
<1> QED BY <1>4, <1>5 DEF SdkInv

LEMMA EndedIs ==
    ASSUME NEW c \in Calls, call[c] \in CallRecords, NEW o \in Outcomes
    PROVE  LET r == Ended(c, o) IN
           /\ r \in CallRecords /\ r.state = "ended"
           /\ r.out = (IF call[c].out = "none" THEN o ELSE call[c].out)
           /\ r.seq = call[c].seq /\ r.writes = call[c].writes /\ r.blind = call[c].blind
           /\ r.shown = call[c].shown /\ r.asked = call[c].asked /\ r.moved = call[c].moved
           /\ r.spent = call[c].spent
<1>1. <<>> \in Seq(Steps) /\ 0 \in Servers /\ 0 \in 0 .. MaxRetries + NServers /\ 0 \in 0 .. PollRetries
      /\ 0 \in 0 .. QueueRetries
  BY SdkAssumption DEF Servers
<1> QED BY <1>1 DEF Ended, CallRecords

LEMMA PassedIs ==
    ASSUME NEW c \in Calls, call[c] \in CallRecords, call[c].state = "running", call[c].steps # <<>>
    PROVE  LET r == Passed(c) IN
           /\ r \in CallRecords /\ PassedAs(c, r)
           /\ r.seq = call[c].seq /\ r.shown = call[c].shown /\ r.blind = call[c].blind
           /\ r.asked = call[c].asked /\ r.moved = call[c].moved
<1>1. CASE Len(call[c].steps) = 1
  <2>1. Passed(c) = Ended(c, "resolved")
    BY <1>1 DEF Passed
  <2> QED BY <1>1, <2>1, EndedIs DEF PassedAs, Outcomes
<1>2. CASE Len(call[c].steps) # 1
  <2>1. Passed(c) = [call[c] EXCEPT !.steps = Tail(@), !.tries = 0, !.polls = 0, !.reruns = 0]
    BY <1>2 DEF Passed
  <2>2. call[c].steps \in Seq(Steps)
    BY DEF CallRecords
  <2>3. Tail(call[c].steps) \in Seq(Steps) /\ 0 \in 0 .. MaxRetries + NServers /\ 0 \in 0 .. PollRetries
        /\ 0 \in 0 .. QueueRetries
    BY <2>2, SdkAssumption
  <2>4. Passed(c) \in CallRecords
    BY <2>1, <2>3 DEF CallRecords
  <2>5. LET r == Passed(c) IN
        /\ r.writes = call[c].writes /\ r.spent = call[c].spent /\ r.state = "running"
        /\ r.steps = Tail(call[c].steps) /\ r.tries = 0 /\ r.polls = 0 /\ r.out = call[c].out
        /\ r.seq = call[c].seq /\ r.shown = call[c].shown /\ r.blind = call[c].blind
        /\ r.asked = call[c].asked /\ r.moved = call[c].moved
    BY <2>1 DEF CallRecords
  <2> QED BY <1>2, <2>4, <2>5 DEF PassedAs
<1> QED BY <1>1, <1>2

\* A call that ends otherwise than resolved, and has not lost sight of its transaction.
LEMMA EndedKeeps ==
    ASSUME SdkInv, NEW c \in Calls, Underway(c), NEW o \in Outcomes \ {"none"},
           Become(c, Ended(c, o)), UNCHANGED <<sequence, applied, failed, pool>>,
           UNCHANGED <<current, behind>>, clientDisposed' \in BOOLEAN, losses' \in 0 .. MaxLosses,
           o = "resolved" /\ call[c].writes => applied[c] = 1,
           o = "contract" /\ OnLedger(c) => call[c].blind \/ call[c].shown
    PROVE  SdkInv'
<1>1. call[c] \in CallRecords /\ CallInv(c) /\ call \in [Calls -> CallRecords]
  BY StepTypes DEF SdkInv, SdkTypes
<1>2. call[c].out \in {"none", "timeout"} /\ ~call[c].spent
  BY <1>1 DEF CallInv, InStep
<1>3. call'[c] = Ended(c, o)
  BY <1>1 DEF Become
<1>4. SendsOnly(c) /\ (OnLedger(c)' <=> OnLedger(c))
  BY DEF SendsOnly, OnLedger
<1>5. CallInv(c)'
  BY <1>1, <1>2, <1>3, <1>4, EndedIs, EndingKeeps
<1>6. Ended(c, o) \in CallRecords
  BY <1>1, EndedIs
<1> QED BY <1>4, <1>5, <1>6, OneCallSteps

\* A request other than those of a write is answered.
LEMMA PassedKeeps ==
    ASSUME SdkInv, NEW c \in Calls, Underway(c), Become(c, Passed(c)),
           UNCHANGED <<sequence, applied, failed, pool>>, UNCHANGED <<current, behind>>,
           clientDisposed' \in BOOLEAN, losses' \in 0 .. MaxLosses,
           First(c) \notin {"poll", "submit"}
    PROVE  SdkInv'
<1>1. call[c] \in CallRecords /\ CallInv(c) /\ call \in [Calls -> CallRecords]
  BY StepTypes DEF SdkInv, SdkTypes
<1>2. call'[c] = Passed(c) /\ call[c].state = "running" /\ call[c].steps # <<>>
  BY <1>1 DEF Become, Underway, CallInv, InStep
<1>3. SendsOnly(c)
  BY DEF SendsOnly
<1>4. Passed(c) \in CallRecords /\ PassedAs(c, call'[c]) /\ call'[c].seq = call[c].seq
      /\ call'[c].shown = call[c].shown
  BY <1>1, <1>2, PassedIs
<1>5. CallInv(c)'
  BY <1>3, <1>4, PassingKeeps
<1> QED BY <1>3, <1>4, <1>5, OneCallSteps

-----------------------------------------------------------------------------
LEMMA AtIs ==
    ASSUME SdkInv, NEW c \in Calls
    PROVE  /\ \A K : At(c, K) <=> Underway(c) /\ First(c) \in K
           /\ call[c] \in CallRecords /\ CallInv(c) /\ call \in [Calls -> CallRecords]
           /\ clientDisposed \in BOOLEAN /\ losses \in 0 .. MaxLosses /\ losses \in Nat
           /\ current \in Servers /\ behind \subseteq Servers
<1>1. call[c] \in CallRecords /\ CallInv(c) /\ call \in [Calls -> CallRecords]
  BY StepTypes DEF SdkInv, SdkTypes
<1>2. clientDisposed \in BOOLEAN /\ losses \in 0 .. MaxLosses
      /\ current \in Servers /\ behind \subseteq Servers
  BY DEF SdkInv, SdkTypes
<1>3. losses \in Nat
  BY <1>2, SdkAssumption
<1>4. Underway(c) => call[c].steps # <<>>
  BY <1>1 DEF CallInv, InStep
<1>5. call[c].steps \in Seq(Steps)
  BY StepTypes
<1>6. call[c].steps # <<>> => Head(call[c].steps) = call[c].steps[1]
  BY <1>5
<1>7. \A K : At(c, K) <=> Underway(c) /\ First(c) \in K
  BY <1>4, <1>6 DEF At, Underway, First
<1> QED BY <1>1, <1>2, <1>3, <1>7

LEMMA LoseIs == Lose /\ losses \in 0 .. MaxLosses => losses' \in 0 .. MaxLosses
BY SdkAssumption DEF Lose

LEMMA IdleIs == Idle \in CallRecords
<1>1. 0 \in Servers /\ 0 \in 0 .. MaxRetries + NServers /\ 0 \in 0 .. PollRetries /\ 0 \in Int
      /\ 0 \in 0 .. QueueRetries
      /\ <<>> \in Seq(Steps) /\ {} \in SUBSET Servers /\ "none" \in Outcomes
  BY SdkAssumption DEF Servers, Outcomes
<1> QED BY <1>1 DEF Idle, CallRecords

LEMMA StartKeeps ==
    ASSUME SdkInv, NEW c \in Calls, NEW m \in Offered[c], Start(c, m)
    PROVE  SdkInv'
<1> DEFINE new == [Idle EXCEPT !.state = "running", !.steps = m.steps, !.raced = m.raced,
                     !.writes = \E i \in DOMAIN m.steps : m.steps[i] \in Writing]
<1>1. CallInv(c) /\ call \in [Calls -> CallRecords] /\ clientDisposed \in BOOLEAN
      /\ losses \in 0 .. MaxLosses /\ applied[c] \in Nat
  BY AtIs, StepTypes
<1>2. m.raced \in BOOLEAN /\ m.steps \in Seq(Steps) /\ m.steps # <<>> /\ WritesInOrder(m.steps)
  BY SdkAssumption
<1>3. Become(c, new) /\ call[c].state = "idle"
  BY DEF Start, Become
<1>4. SendsOnly(c) /\ UNCHANGED <<current, behind, clientDisposed, losses, pool, applied, failed>>
  BY DEF SendsOnly, Start, Network
<1> DEFINE w == \E i \in DOMAIN m.steps : m.steps[i] \in Writing
<1>6. w \in BOOLEAN
  OBVIOUS
<1>7. /\ new.state = "running" /\ new.steps = m.steps /\ new.writes = w /\ new.out = "none"
      /\ new.tries = 0 /\ new.polls = 0 /\ ~new.spent
  BY DEF Idle
<1>8. new \in CallRecords
  <2> HIDE DEF w
  <2>1. [Idle EXCEPT !.state = "running", !.steps = m.steps, !.raced = m.raced, !.writes = w]
          \in CallRecords
    BY <1>2, <1>6, IdleIs DEF CallRecords
  <2> QED BY <2>1 DEF w
<1> HIDE DEF new
<1>9. call'[c] = new
  BY <1>1, <1>3 DEF Become
<1>10. ~OnLedger(c) /\ c \notin failed
  BY <1>1, <1>3 DEF CallInv, InStep
<1>11. ~OnLedger(c)' /\ c \notin failed' /\ applied'[c] = 0 /\ c \notin pool'
  BY <1>1, <1>4, <1>10 DEF OnLedger
<1>12. InStep(c)' /\ NumberSpent(c)' /\ KnownOrBlind(c)'
  BY <1>2, <1>7, <1>9, <1>11 DEF InStep, NumberSpent, KnownOrBlind, Underway, OnLedger
<1>13. WriteInStep(c)'
  <2>1. DOMAIN m.steps = 1 .. Len(m.steps)
    BY <1>2
  <2>2. w => Comes(c, Writing)'
    BY <1>7, <1>9, <2>1 DEF Comes
  <2> QED BY <1>7, <1>9, <2>2 DEF WriteInStep
<1>14. Counted(c)'
  BY <1>7, <1>9 DEF Counted
<1>15. CallInv(c)'
  BY <1>12, <1>13, <1>14 DEF CallInv
<1> QED BY <1>1, <1>3, <1>4, <1>8, <1>15, OneCallSteps

LEMMA RefuseKeeps ==
    ASSUME SdkInv, NEW c \in Calls, Refuse(c)
    PROVE  SdkInv'
<1> DEFINE new == [Idle EXCEPT !.state = "ended", !.out = "refused"]
<1>1. CallInv(c) /\ call \in [Calls -> CallRecords] /\ clientDisposed \in BOOLEAN
      /\ losses \in 0 .. MaxLosses /\ applied[c] \in Nat
  BY AtIs, StepTypes
<1>2. Become(c, new) /\ call[c].state = "idle"
  BY DEF Refuse, Become
<1>3. SendsOnly(c) /\ UNCHANGED <<current, behind, clientDisposed, losses, pool, applied, failed>>
  BY DEF SendsOnly, Refuse, Network
<1>5. /\ new \in CallRecords /\ new.state = "ended" /\ new.out = "refused" /\ ~new.spent
  <2>1. "refused" \in Outcomes /\ ~Idle.spent
    BY DEF Outcomes, Idle
  <2> QED BY <2>1, IdleIs DEF CallRecords
<1> HIDE DEF new
<1>6. call'[c] = new
  BY <1>1, <1>2 DEF Become
<1>7. ~OnLedger(c)' /\ c \notin failed' /\ applied'[c] = 0 /\ c \notin pool'
  BY <1>1, <1>2, <1>3 DEF OnLedger, CallInv, InStep
<1>8. CallInv(c)'
  BY <1>5, <1>6, <1>7
     DEF CallInv, InStep, NumberSpent, WriteInStep, KnownOrBlind, Counted, Underway, OnLedger
<1> QED BY <1>1, <1>2, <1>3, <1>5, <1>8, OneCallSteps

\* Nothing that may resolve a call stands before its write.
LEMMA EarlyAnswer ==
    ASSUME SdkInv, NEW c \in Calls, Underway(c), First(c) \in {"ask", "probe"}
    PROVE  call[c].writes => applied[c] = 1
<1>1. CallInv(c) /\ Len(call[c].steps) \in Nat
  BY StepTypes
<1>2. ASSUME NEW k \in 1 .. Len(call[c].steps), call[c].steps[k] \in Writing PROVE FALSE
  <2>1. 1 \in 1 .. Len(call[c].steps) /\ (k # 1 => 1 < k)
    BY <1>1
  <2>2. k # 1
    BY <1>2 DEF First, Writing
  <2> QED BY <1>1, <1>2, <2>1, <2>2 DEF CallInv, InStep, WritesInOrder, First
<1>3. ~Comes(c, Writing)
  BY <1>2 DEF Comes
<1> QED BY <1>1, <1>3 DEF CallInv, WriteInStep

LEMMA ServerGetterKeeps ==
    ASSUME SdkInv, NEW c \in Calls, ServerGetter(c)
    PROVE  SdkInv'
<1>1. Underway(c)
  BY AtIs DEF ServerGetter
<1>2. UNCHANGED <<sequence, applied, failed, pool>> /\ UNCHANGED <<current, behind>>
      /\ clientDisposed' \in BOOLEAN /\ losses' \in 0 .. MaxLosses
  BY AtIs DEF ServerGetter, Network
<1>3. CASE At(c, {"quiet"})
  <2>1. Become(c, Passed(c)) /\ First(c) = "quiet"
    BY <1>3, AtIs DEF ServerGetter
  <2> QED BY <1>1, <1>2, <2>1, PassedKeeps
<1>4. CASE At(c, {"probe"})
  <2>1. First(c) = "probe" /\ ~At(c, {"quiet"})
    BY <1>4, AtIs
  <2>2. Become(c, Ended(c, "resolved"))
    BY <1>4, <2>1 DEF ServerGetter
  <2>3. call[c].writes => applied[c] = 1
    BY <1>1, <2>1, EarlyAnswer
  <2> QED BY <1>1, <1>2, <2>2, <2>3, EndedKeeps DEF Outcomes
<1>5. CASE ~At(c, {"quiet"}) /\ ~At(c, {"probe"})
  <2>1. Become(c, Ended(c, "disposed"))
    BY <1>5 DEF ServerGetter
  <2> QED BY <1>1, <1>2, <2>1, EndedKeeps DEF Outcomes
<1> QED BY <1>3, <1>4, <1>5

LEMMA GetAccountKeeps ==
    ASSUME SdkInv, NEW c \in Calls, GetAccount(c)
    PROVE  SdkInv'
<1> DEFINE q == SequenceAt(current) + 1
           new == [Passed(c) EXCEPT !.seq = q]
<1>1. Underway(c) /\ First(c) = "account" /\ call[c] \in CallRecords
      /\ call \in [Calls -> CallRecords] /\ sequence \in Nat
  BY AtIs, StepTypes DEF GetAccount
<1>2. UNCHANGED <<sequence, applied, failed, pool>> /\ UNCHANGED <<current, behind>>
      /\ clientDisposed' \in BOOLEAN /\ losses' \in 0 .. MaxLosses
  BY AtIs DEF GetAccount, Network
<1>3. call[c].state = "running" /\ call[c].steps # <<>>
  BY <1>1, StepTypes DEF Underway, CallInv, InStep
<1>4. Passed(c) \in CallRecords /\ PassedAs(c, Passed(c)) /\ Passed(c).shown = call[c].shown
  BY <1>1, <1>3, PassedIs
<1>5. q \in Int
  BY <1>1 DEF SequenceAt
<1> HIDE DEF q
<1>6. new \in CallRecords /\ PassedAs(c, new) /\ new.shown = call[c].shown
  BY <1>4, <1>5 DEF CallRecords, PassedAs
<1>7. Become(c, new)
  BY DEF GetAccount, q
<1> HIDE DEF new
<1>8. call'[c] = new
  BY <1>1, <1>7 DEF Become
<1>9. SendsOnly(c)
  BY <1>2 DEF SendsOnly
<1>10. CallInv(c)'
  BY <1>1, <1>2, <1>6, <1>8, <1>9, PassingKeeps
<1> QED BY <1>2, <1>6, <1>7, <1>9, <1>10, OneCallSteps

\* A step other than a write is tried again, or its timer fires.
LEMMA TriesIs ==
    ASSUME SdkInv, NEW c \in Calls, call[c].tries < MaxRetries
    PROVE  LET r == [call[c] EXCEPT !.tries = @ + 1] IN
           /\ r \in CallRecords /\ r.state = call[c].state /\ r.steps = call[c].steps
           /\ r.out = call[c].out /\ r.seq = call[c].seq /\ r.writes = call[c].writes
           /\ r.shown = call[c].shown /\ r.blind = call[c].blind /\ r.spent = call[c].spent
<1>1. call[c] \in CallRecords
  BY StepTypes
<1>2. call[c].tries \in Nat
  BY StepTypes
<1>3. call[c].tries + 1 \in 0 .. MaxRetries + NServers
  BY <1>2, SdkAssumption
<1> QED BY <1>1, <1>3 DEF CallRecords

LEMMA NotCounting ==
    ASSUME SdkInv, NEW c \in Calls, Underway(c), First(c) \notin {"probe", "submit"},
           call'[c].steps = call[c].steps, ~call'[c].spent
    PROVE  Counted(c)'
BY DEF Counted, First

LEMMA RetryKeeps ==
    ASSUME SdkInv, NEW c \in Calls, Underway(c), call[c].tries < MaxRetries,
           Become(c, [call[c] EXCEPT !.tries = @ + 1]),
           UNCHANGED <<sequence, applied, failed, pool>>, UNCHANGED <<current, behind>>,
           clientDisposed' \in BOOLEAN, losses' \in 0 .. MaxLosses,
           First(c) \notin {"probe", "submit"}
    PROVE  SdkInv'
<1> DEFINE r == [call[c] EXCEPT !.tries = @ + 1]
<1>1. call[c] \in CallRecords /\ CallInv(c) /\ call \in [Calls -> CallRecords]
  BY AtIs
<1>2. /\ r \in CallRecords /\ r.state = call[c].state /\ r.steps = call[c].steps
      /\ r.out = call[c].out /\ r.seq = call[c].seq /\ r.writes = call[c].writes
      /\ r.shown = call[c].shown /\ r.blind = call[c].blind /\ r.spent = call[c].spent
  BY TriesIs
<1> HIDE DEF r
<1>3. call'[c] = r
  BY <1>1 DEF Become, r
<1>4. SendsOnly(c) /\ (OnLedger(c)' <=> OnLedger(c))
  BY DEF SendsOnly, OnLedger
<1>5. call[c].out \in {"none", "timeout"} /\ ~call[c].spent /\ call[c].state = "running"
  BY <1>1 DEF CallInv, InStep, Underway
<1>6. First(c) \in Writing /\ OnLedger(c) => call[c].shown \/ call[c].blind
  BY <1>1 DEF CallInv, KnownOrBlind, Writing
<1>7. Counted(c)'
  BY <1>2, <1>3, <1>5, NotCounting
<1>8. CallInv(c)'
  BY <1>2, <1>3, <1>4, <1>5, <1>6, <1>7, StayingKeeps
<1> QED BY <1>2, <1>4, <1>8, OneCallSteps DEF r

\* A simulation can fail a call only before its write or after a node showed it.
LEMMA FailsKnown ==
    ASSUME SdkInv, NEW c \in Calls, Underway(c), First(c) \notin Writing \cup {"poll"}
    PROVE  OnLedger(c) => call[c].shown
<1>1. CallInv(c)
  BY StepTypes
<1> QED BY <1>1 DEF CallInv, KnownOrBlind, Writing

LEMMA SimulateKeeps ==
    ASSUME SdkInv, NEW c \in Calls, Simulate(c)
    PROVE  SdkInv'
<1>1. Underway(c) /\ First(c) \in {"prepare", "prepareOnce", "read", "ask", "resolve", "quiet", "schema"}
  BY AtIs DEF Simulate
<1>2. UNCHANGED <<sequence, applied, failed, pool>> /\ UNCHANGED <<current, behind>>
      /\ clientDisposed' \in BOOLEAN /\ losses' \in 0 .. MaxLosses
  BY AtIs DEF Simulate, Network
<1>3. CASE Become(c, Passed(c))
  BY <1>1, <1>2, <1>3, PassedKeeps
<1>4. CASE Become(c, Ended(c, "contract"))
  <2>1. OnLedger(c) => call[c].shown
    BY <1>1, FailsKnown DEF Writing
  <2> QED BY <1>1, <1>2, <1>4, <2>1, EndedKeeps DEF Outcomes
<1>5. CASE At(c, {"ask"}) /\ Become(c, Ended(c, "resolved"))
  <2>1. call[c].writes => applied[c] = 1
    BY <1>1, <1>5, AtIs, EarlyAnswer
  <2> QED BY <1>1, <1>2, <1>5, <2>1, EndedKeeps DEF Outcomes
<1>6. CASE call[c].tries < MaxRetries /\ Become(c, [call[c] EXCEPT !.tries = @ + 1])
  BY <1>1, <1>2, <1>6, RetryKeeps
<1> QED BY <1>3, <1>4, <1>5, <1>6 DEF Simulate

\* The three ways on after a transport error
AfterLossKinds(c, transient) ==
  \/ AfterLoss(c, transient) = [call[c] EXCEPT !.tries = @ + 1] /\ call[c].tries < MaxRetries
  \/ AfterLoss(c, transient) = Passed(c) /\ First(c) = "quiet"
  \/ AfterLoss(c, transient) = Ended(c, "network")

LEMMA AfterLossIs ==
    ASSUME SdkInv, NEW c \in Calls, NEW transient \in BOOLEAN
    PROVE  AfterLossKinds(c, transient)
<1>1. call[c].tries \in Nat /\ Tries(c) \in {MaxRetries, 0}
  BY StepTypes DEF Tries
<1>2. CASE transient /\ call[c].tries < Tries(c)
  BY <1>1, <1>2 DEF AfterLoss, AfterLossKinds
<1>3. CASE ~(transient /\ call[c].tries < Tries(c)) /\ At(c, {"quiet"})
  <2>1. AfterLoss(c, transient) = Passed(c)
    BY <1>3 DEF AfterLoss
  <2> QED BY <1>3, <2>1, AtIs DEF AfterLossKinds
<1>4. CASE ~(transient /\ call[c].tries < Tries(c)) /\ ~At(c, {"quiet"})
  <2>1. AfterLoss(c, transient) = Ended(c, "network")
    BY <1>4 DEF AfterLoss
  <2> QED BY <2>1 DEF AfterLossKinds
<1> QED BY <1>2, <1>3, <1>4

LEMMA RequestLostKeeps ==
    ASSUME SdkInv, NEW c \in Calls, RequestLost(c)
    PROVE  SdkInv'
<1>1. Underway(c) /\ First(c) \notin {"probe", "submit", "poll"}
  BY AtIs DEF RequestLost
<1>2. UNCHANGED <<sequence, applied, failed, pool>> /\ UNCHANGED <<current, behind>>
      /\ clientDisposed' \in BOOLEAN /\ losses' \in 0 .. MaxLosses
  BY AtIs, LoseIs DEF RequestLost, Network
<1>3. PICK transient \in BOOLEAN : Become(c, AfterLoss(c, transient))
  BY DEF RequestLost
<1>7. AfterLossKinds(c, transient)
  BY AfterLossIs
<1>4. CASE AfterLoss(c, transient) = [call[c] EXCEPT !.tries = @ + 1] /\ call[c].tries < MaxRetries
  BY <1>1, <1>2, <1>3, <1>4, RetryKeeps
<1>5. CASE AfterLoss(c, transient) = Passed(c) /\ First(c) = "quiet"
  BY <1>1, <1>2, <1>3, <1>5, PassedKeeps
<1>6. CASE AfterLoss(c, transient) = Ended(c, "network")
  BY <1>1, <1>2, <1>3, <1>6, EndedKeeps DEF Outcomes
<1> QED BY <1>4, <1>5, <1>6, <1>7 DEF AfterLossKinds

\* What a node does with a transaction, and what the client that sent it knew.
LEMMA PooledNet ==
    ASSUME SdkInv, NEW c \in Calls, Pooled(c), UNCHANGED <<sequence, applied, failed>>
    PROVE  /\ SendsOnly(c) /\ (pool' # pool => Accepted(c)) /\ (~Accepted(c) => pool' = pool)
           /\ OnLedger(c)' => OnLedger(c) \/ Accepted(c)
BY DEF Pooled, Accepted, SendsOnly, OnLedger

LEMMA SendKeeps ==
    ASSUME SdkInv, NEW c \in Calls, Send(c)
    PROVE  SdkInv'
<1>1. /\ Underway(c) /\ First(c) \in {"send", "sendOnce"} /\ ~clientDisposed
      /\ call[c] \in CallRecords /\ CallInv(c) /\ call \in [Calls -> CallRecords]
      /\ current \in Servers
  BY AtIs DEF Send
<1>2. UNCHANGED <<sequence, applied, failed, current, behind>>
      /\ clientDisposed' \in BOOLEAN /\ losses' \in 0 .. MaxLosses
  BY AtIs DEF Send
<1>3. /\ SendsOnly(c) /\ (~Accepted(c) => pool' = pool)
  BY <1>2, PooledNet DEF Send
<1>4. CASE ~Accepted(c)
  <2>1. Become(c, Ended(c, "contract")) /\ pool' = pool
    BY <1>3, <1>4 DEF Send
  <2>2. OnLedger(c) => call[c].blind \/ call[c].shown
    BY <1>1 DEF CallInv, KnownOrBlind
  <2> QED BY <1>1, <1>2, <2>1, <2>2, EndedKeeps DEF Outcomes
<1>5. CASE Accepted(c)
  <2> DEFINE new == [Passed(c) EXCEPT !.via = current]
  <2>1. Become(c, new)
    BY <1>1, <1>5 DEF Send, Polling
  <2>2. call[c].state = "running" /\ call[c].steps # <<>>
    BY <1>1 DEF Underway, CallInv, InStep
  <2>3. Passed(c) \in CallRecords /\ PassedAs(c, Passed(c)) /\ Passed(c).seq = call[c].seq
        /\ Passed(c).shown = call[c].shown
    BY <1>1, <2>2, PassedIs
  <2>4. new \in CallRecords /\ PassedAs(c, new) /\ new.seq = call[c].seq
        /\ new.shown = call[c].shown
    BY <1>1, <2>3 DEF CallRecords, PassedAs
  <2> HIDE DEF new
  <2>5. call'[c] = new
    BY <1>1, <2>1 DEF Become
  <2>6. CallInv(c)'
    BY <1>1, <1>3, <2>4, <2>5, PassingKeeps
  <2> QED BY <1>2, <1>3, <2>1, <2>4, <2>6, OneCallSteps
<1> QED BY <1>4, <1>5

LEMMA SendAnswerLostKeeps ==
    ASSUME SdkInv, NEW c \in Calls, SendAnswerLost(c)
    PROVE  SdkInv'
<1>13. PICK transient \in BOOLEAN :
         Become(c, [AfterLoss(c, transient) EXCEPT !.blind = @ \/ Accepted(c)])
  BY DEF SendAnswerLost
<1> DEFINE old == AfterLoss(c, transient)
           b == old.blind \/ Accepted(c)
           new == [old EXCEPT !.blind = b]
<1>1. /\ Underway(c) /\ First(c) \in {"send", "sendOnce"}
      /\ call[c] \in CallRecords /\ CallInv(c) /\ call \in [Calls -> CallRecords]
  BY AtIs DEF SendAnswerLost
<1>2. UNCHANGED <<sequence, applied, failed, current, behind>>
      /\ clientDisposed' \in BOOLEAN /\ losses' \in 0 .. MaxLosses
  BY AtIs, LoseIs DEF SendAnswerLost
<1>3. /\ SendsOnly(c) /\ (OnLedger(c)' => OnLedger(c) \/ Accepted(c))
  BY <1>2, PooledNet DEF SendAnswerLost
<1>4. /\ old \in CallRecords /\ old.blind = call[c].blind /\ old.shown = call[c].shown
      /\ old.seq = call[c].seq /\ old.writes = call[c].writes /\ old.spent = call[c].spent
      /\ \/ old.state = "ended" /\ old.out \in {"network", "timeout"}
         \/ old.state = "running" /\ old.steps = call[c].steps /\ old.out = call[c].out
  <2>1. AfterLossKinds(c, transient) /\ First(c) # "quiet"
    BY <1>1, AfterLossIs
  <2>2. CASE AfterLoss(c, transient) = [call[c] EXCEPT !.tries = @ + 1] /\ call[c].tries < MaxRetries
    <3>1. call[c].state = "running"
      BY <1>1 DEF Underway
    <3> QED BY <2>2, <3>1, TriesIs
  <2>3. CASE AfterLoss(c, transient) = Ended(c, "network")
    <3>1. call[c].out \in {"none", "timeout"}
      BY <1>1 DEF CallInv, InStep
    <3>2. "network" \in Outcomes
      BY DEF Outcomes
    <3> QED BY <1>1, <2>3, <3>1, <3>2, EndedIs
  <2> QED BY <2>1, <2>2, <2>3 DEF AfterLossKinds
<1>5. b \in BOOLEAN
  OBVIOUS
<1>6. Become(c, new)
  BY <1>13
<1>7. b <=> call[c].blind \/ Accepted(c)
  BY <1>4
<1> HIDE DEF old, b
<1>8. /\ new \in CallRecords /\ new.blind = b /\ new.shown = call[c].shown
      /\ new.seq = call[c].seq /\ new.writes = call[c].writes /\ new.spent = call[c].spent
      /\ \/ new.state = "ended" /\ new.out \in {"network", "timeout"}
         \/ new.state = "running" /\ new.steps = call[c].steps /\ new.out = call[c].out
  BY <1>4, <1>5 DEF CallRecords
<1> HIDE DEF new
<1>9. call'[c] = new
  BY <1>1, <1>6 DEF Become
<1>10. call[c].out \in {"none", "timeout"} /\ ~call[c].spent
  BY <1>1 DEF CallInv, InStep
<1>11. CASE new.state = "ended"
  <2>1. new.out \in {"network", "timeout"}
    BY <1>8, <1>11
  <2>2. CallInv(c)'
    BY <1>1, <1>3, <1>8, <1>9, <1>10, <1>11, <2>1, EndingKeeps
  <2> QED BY <1>2, <1>3, <1>6, <1>8, <2>2, OneCallSteps
<1>12. CASE new.state # "ended"
  <2>1. new.state = "running" /\ new.steps = call[c].steps /\ new.out = call[c].out
    BY <1>8, <1>12
  <2>2. OnLedger(c) => call[c].shown \/ call[c].blind
    BY <1>1 DEF CallInv, KnownOrBlind
  <2>3. OnLedger(c)' => call'[c].shown \/ call'[c].blind
    BY <1>3, <1>7, <1>8, <1>9, <2>2
  <2>4. Counted(c)'
    BY <1>1, <1>8, <1>9, <1>10, <2>1, NotCounting
  <2>5. First(c) \in Writing
    BY <1>1 DEF Writing
  <2>6. CallInv(c)'
    BY <1>1, <1>3, <1>8, <1>9, <1>10, <2>1, <2>3, <2>4, <2>5, StayingKeeps
  <2> QED BY <1>2, <1>3, <1>6, <1>8, <2>6, OneCallSteps
<1> QED BY <1>11, <1>12

\* What a node shows is so.
LEMMA ShownIs ==
    ASSUME SdkInv, NEW c \in Calls, NEW x
    PROVE  /\ Shown(x, c) = "SUCCESS" => applied[c] = 1
           /\ Shown(x, c) = "FAILED" => ~OnLedger(c)
           /\ Shown(x, c) \in {"SUCCESS", "FAILED", "NOT_FOUND"}
<1>1. NumberSpent(c) /\ applied[c] \in Nat
  BY StepTypes DEF CallInv
<1> QED BY <1>1 DEF Shown, NumberSpent, OnLedger

LEMMA PollKeeps ==
    ASSUME SdkInv, NEW c \in Calls, Poll(c)
    PROVE  SdkInv'
<1>1. /\ Underway(c) /\ First(c) = "poll"
      /\ call[c] \in CallRecords /\ CallInv(c) /\ call \in [Calls -> CallRecords]
  BY AtIs DEF Poll
<1>2. UNCHANGED <<sequence, applied, failed, pool>> /\ UNCHANGED <<current, behind>>
      /\ clientDisposed' \in BOOLEAN /\ losses' \in 0 .. MaxLosses
  BY AtIs, LoseIs DEF Poll, Network
<1> DEFINE v == Shown(call[c].via, c)
<1>3. /\ v = "SUCCESS" => applied[c] = 1
      /\ v = "FAILED" => ~OnLedger(c)
      /\ v \in {"SUCCESS", "FAILED", "NOT_FOUND"}
  BY ShownIs
<1> HIDE DEF v
<1>4. SendsOnly(c) /\ (OnLedger(c)' <=> OnLedger(c))
  BY <1>2 DEF SendsOnly, OnLedger
<1>5. call[c].out \in {"none", "timeout"} /\ ~call[c].spent /\ call[c].state = "running"
      /\ call[c].steps # <<>> /\ call[c].polls \in Nat
  BY <1>1, StepTypes DEF CallInv, InStep, Underway
<1>6. CASE Become(c, Ended(c, "network"))
  BY <1>1, <1>2, <1>6, EndedKeeps DEF Outcomes
<1>7. CASE Become(c, AfterPoll(c, v))
  <2>1. CASE v = "SUCCESS"
    <3> DEFINE new == [Passed(c) EXCEPT !.shown = TRUE]
    <3>1. Become(c, new)
      BY <1>7, <2>1 DEF AfterPoll
    <3>2. Passed(c) \in CallRecords /\ PassedAs(c, Passed(c)) /\ Passed(c).seq = call[c].seq
      BY <1>1, <1>5, PassedIs
    <3>3. new \in CallRecords /\ PassedAs(c, new) /\ new.seq = call[c].seq /\ new.shown
      BY <3>2 DEF CallRecords, PassedAs
    <3> HIDE DEF new
    <3>4. call'[c] = new
      BY <1>1, <3>1 DEF Become
    <3>5. CallInv(c)'
      BY <1>1, <1>2, <1>3, <1>4, <2>1, <3>3, <3>4, PassingKeeps
    <3> QED BY <1>2, <1>4, <3>1, <3>3, <3>5, OneCallSteps
  <2>2. CASE v = "FAILED"
    <3>1. Become(c, Ended(c, "contract"))
      BY <1>7, <2>2 DEF AfterPoll
    <3> QED BY <1>1, <1>2, <1>3, <2>2, <3>1, EndedKeeps DEF Outcomes
  <2>3. CASE v = "NOT_FOUND" /\ call[c].polls + 1 < PollRetries
    <3> DEFINE new == [call[c] EXCEPT !.polls = @ + 1]
    <3>1. Become(c, new)
      BY <1>7, <2>3 DEF AfterPoll
    <3>2. call[c].polls + 1 \in 0 .. PollRetries
      BY <1>5, <2>3, SdkAssumption
    <3>3. /\ new \in CallRecords /\ new.state = call[c].state /\ new.steps = call[c].steps
          /\ new.out = call[c].out /\ new.seq = call[c].seq /\ new.writes = call[c].writes
          /\ new.shown = call[c].shown /\ new.spent = call[c].spent
      BY <1>1, <3>2 DEF CallRecords
    <3> HIDE DEF new
    <3>4. call'[c] = new
      BY <1>1, <3>1 DEF Become
    <3>5. Counted(c)'
      BY <1>1, <1>5, <3>3, <3>4, NotCounting
    <3>6. First(c) \notin Writing
      BY <1>1 DEF Writing
    <3>7. CallInv(c)'
      BY <1>1, <1>2, <1>4, <1>5, <3>3, <3>4, <3>5, <3>6, StayingKeeps
    <3> QED BY <1>2, <1>4, <3>1, <3>3, <3>7, OneCallSteps
  <2>4. CASE v = "NOT_FOUND" /\ ~(call[c].polls + 1 < PollRetries)
    <3>1. Become(c, Ended(c, "timeout"))
      BY <1>7, <2>4 DEF AfterPoll
    <3> QED BY <1>1, <1>2, <3>1, EndedKeeps DEF Outcomes
  <2> QED BY <1>3, <2>1, <2>2, <2>3, <2>4
<1> QED BY <1>6, <1>7 DEF Poll, v

LEMMA ConfirmKeeps ==
    ASSUME SdkInv, NEW c \in Calls, Confirm(c)
    PROVE  SdkInv'
<1>1. Underway(c) /\ First(c) = "confirm"
  BY AtIs DEF Confirm
<1>2. UNCHANGED <<sequence, applied, failed, pool>> /\ UNCHANGED <<current, behind>>
      /\ clientDisposed' \in BOOLEAN /\ losses' \in 0 .. MaxLosses
  BY AtIs DEF Confirm, Network
<1>3. CASE Become(c, Passed(c))
  BY <1>1, <1>2, <1>3, PassedKeeps
<1>4. CASE Become(c, Ended(c, "broken"))
  BY <1>1, <1>2, <1>4, EndedKeeps DEF Outcomes
<1> QED BY <1>3, <1>4 DEF Confirm

LEMMA TimerFiresKeeps ==
    ASSUME SdkInv, NEW c \in Calls, TimerFires(c)
    PROVE  SdkInv'
<1> DEFINE new == [call[c] EXCEPT !.out = "timeout"]
<1>1. /\ Underway(c) /\ call[c] \in CallRecords /\ CallInv(c) /\ call \in [Calls -> CallRecords]
  BY AtIs DEF TimerFires, Underway
<1>2. UNCHANGED <<sequence, applied, failed, pool>> /\ UNCHANGED <<current, behind>>
      /\ clientDisposed' \in BOOLEAN /\ losses' \in 0 .. MaxLosses
  BY AtIs DEF TimerFires, Network
<1>3. SendsOnly(c) /\ (OnLedger(c)' <=> OnLedger(c))
  BY <1>2 DEF SendsOnly, OnLedger
<1>4. Become(c, new)
  BY <1>1 DEF TimerFires, Become
<1>5. "timeout" \in Outcomes
  BY DEF Outcomes
<1>6. /\ new \in CallRecords /\ new.state = call[c].state /\ new.steps = call[c].steps
      /\ new.out = "timeout" /\ new.seq = call[c].seq /\ new.writes = call[c].writes
      /\ new.shown = call[c].shown /\ new.spent = call[c].spent /\ new.blind = call[c].blind
      /\ new.tries = call[c].tries /\ new.polls = call[c].polls /\ new.asked = call[c].asked
      /\ new.moved = call[c].moved
  BY <1>1, <1>5 DEF CallRecords
<1> HIDE DEF new
<1>7. call'[c] = new
  BY <1>1, <1>4 DEF Become
<1>8. ~call[c].spent /\ call[c].state = "running"
  BY <1>1 DEF CallInv, InStep, Underway
<1>9. Counted(c)'
  BY <1>1, <1>2, <1>6, <1>7 DEF CallInv, Counted, Underway, First
<1>10. First(c) \in Writing /\ OnLedger(c) =>
         call[c].shown \/ call[c].blind \/ (First(c) = "submit" /\ call[c].polls > 0)
  BY <1>1 DEF CallInv, KnownOrBlind, Writing
<1>11. CallInv(c)'
  BY <1>1, <1>2, <1>3, <1>6, <1>7, <1>8, <1>9, <1>10, StayingKeeps
<1> QED BY <1>2, <1>3, <1>4, <1>6, <1>11, OneCallSteps

-----------------------------------------------------------------------------
\* An attempt of the failover threw: r is on the next server, at the start of another run,
\* or ended
FailedOverAs(c, r) ==
  /\ r.seq = call[c].seq /\ r.writes = call[c].writes /\ r.shown = call[c].shown
  /\ \/ /\ r.state = "running" /\ r.steps = call[c].steps /\ r.out = call[c].out
        /\ r.spent = call[c].spent /\ r.polls = 0 /\ r.tries = call[c].tries + 1
        /\ r.moved = call[c].moved /\ r.asked = call[c].asked \cup {Serving(c)}
     \/ /\ r.state = "running" /\ r.steps = call[c].steps /\ r.out = call[c].out
        /\ r.spent = call[c].spent /\ r.polls = 0 /\ r.tries = 0
     \/ /\ r.state = "ended" /\ r.out \in {"network", "timeout", "resolved"}
        /\ r.out = "resolved" => First(c) = "probe"
        /\ r.spent => ~(call[c].tries + 1 < NServers)
        /\ r.moved = call[c].moved /\ r.asked = call[c].asked \cup {Serving(c)}

LEMMA FailOverIs ==
    ASSUME SdkInv, NEW c \in Calls, Underway(c), First(c) \in {"probe", "submit"},
           NEW over \in BOOLEAN, NEW again \in BOOLEAN, NEW out \in {"network", "timeout"}
    PROVE  LET r == FailOver(c, over, again, out) IN
           r \in CallRecords /\ FailedOverAs(c, r) /\ r.blind = call[c].blind
<1> DEFINE r == FailOver(c, over, again, out)
<1>1. call[c] \in CallRecords /\ CallInv(c) /\ call[c].tries \in Nat
  BY StepTypes
<1>2. call[c].state = "running" /\ call[c].out \in {"none", "timeout"} /\ ~call[c].spent
  BY <1>1 DEF Underway, CallInv, InStep
<1>3. Serving(c) \in Servers /\ call[c].asked \cup {Serving(c)} \in SUBSET Servers
  <2>1. Target(c) \in Servers /\ call[c].via \in Servers /\ call[c].asked \in SUBSET Servers
    BY <1>1, TargetServer DEF SdkInv, CallRecords
  <2> QED BY <2>1 DEF Serving
<1>4. 0 \in 0 .. PollRetries /\ 0 \in 0 .. MaxRetries + NServers /\ {} \in SUBSET Servers
  BY SdkAssumption
<1>5. CASE over /\ call[c].tries + 1 < NServers
  <2>1. r = [call[c] EXCEPT !.tries = @ + 1, !.polls = 0, !.asked = @ \cup {Serving(c)}]
    BY <1>5 DEF FailOver
  <2>2. call[c].tries + 1 \in 0 .. MaxRetries + NServers
    BY <1>1, <1>5, SdkAssumption
  <2> HIDE DEF r
  <2> QED BY <1>1, <1>2, <1>3, <1>4, <2>1, <2>2 DEF FailedOverAs, CallRecords, r
<1>6. CASE ~(over /\ call[c].tries + 1 < NServers) /\ again /\ call[c].reruns < QueueRetries
  <2>1. r = [call[c] EXCEPT !.tries = 0, !.polls = 0, !.reruns = @ + 1, !.asked = {}, !.moved = FALSE]
    BY <1>6 DEF FailOver
  <2>2. call[c].reruns + 1 \in 0 .. QueueRetries
    <3>1. call[c].reruns \in 0 .. QueueRetries
      BY <1>1 DEF CallRecords
    <3> QED BY <1>6, <3>1, SdkAssumption
  <2> HIDE DEF r
  <2> QED BY <1>1, <1>2, <1>4, <2>1, <2>2 DEF FailedOverAs, CallRecords, r
<1>7. CASE /\ ~(over /\ call[c].tries + 1 < NServers)
           /\ ~(again /\ call[c].reruns < QueueRetries)
  <2> DEFINE o == IF At(c, {"probe"}) THEN "resolved" ELSE out
             e == Ended(c, o)
  <2>1. r = [e EXCEPT !.spent = over, !.asked = @ \cup {Serving(c)}]
    BY <1>7 DEF FailOver
  <2>2. /\ o \in Outcomes /\ o \in {"resolved", "network", "timeout"}
        /\ (o = "resolved" => First(c) = "probe")
    BY AtIs DEF Outcomes
  <2> HIDE DEF o
  <2>3. /\ e \in CallRecords /\ e.state = "ended"
        /\ e.out = (IF call[c].out = "none" THEN o ELSE call[c].out)
        /\ e.seq = call[c].seq /\ e.writes = call[c].writes /\ e.blind = call[c].blind
        /\ e.shown = call[c].shown /\ e.asked = call[c].asked /\ e.moved = call[c].moved
    BY <1>1, <2>2, EndedIs
  <2>4. e.out \in {"network", "timeout", "resolved"} /\ (e.out = "resolved" => First(c) = "probe")
    BY <1>2, <2>2, <2>3
  <2> HIDE DEF e, r
  <2>5. r \in CallRecords /\ r.spent = over /\ r.asked = call[c].asked \cup {Serving(c)}
    BY <1>3, <2>1, <2>3 DEF CallRecords
  <2>6. /\ r.state = "ended" /\ r.out = e.out /\ r.seq = call[c].seq /\ r.writes = call[c].writes
        /\ r.blind = call[c].blind /\ r.shown = call[c].shown /\ r.moved = call[c].moved
    BY <2>1, <2>3 DEF CallRecords
  <2> QED BY <1>7, <2>4, <2>5, <2>6 DEF FailedOverAs, r
<1> QED BY <1>5, <1>6, <1>7

LEMMA FailOverKeeps ==
    ASSUME SdkInv, NEW c \in Calls, Underway(c), First(c) \in {"probe", "submit"}, SendsOnly(c),
           NEW new \in CallRecords, Become(c, new), FailedOverAs(c, new),
           UNCHANGED <<current, behind>>, clientDisposed' \in BOOLEAN, losses' \in 0 .. MaxLosses,
           ~call[c].moved => Target(c) \in call[c].asked \cup {Serving(c)},
           pool' # pool => First(c) = "submit",
           First(c) = "submit" /\ OnLedger(c)' => new.shown \/ new.blind
    PROVE  SdkInv'
<1>1. /\ call[c] \in CallRecords /\ CallInv(c) /\ call[c].tries \in Nat
      /\ call \in [Calls -> CallRecords] /\ current \in Servers
  BY StepTypes, AtIs
<1>2. call'[c] = new
  BY <1>1 DEF Become
<1>3. call[c].out \in {"none", "timeout"} /\ ~call[c].spent
  BY <1>1 DEF CallInv, InStep
<1>4. NServers \in Nat \ {0} /\ new.asked \in SUBSET Servers
  BY SdkAssumption DEF CallRecords
<1>5. ~call[c].moved => \A j \in 0 .. call[c].tries :
                          (current + j) % NServers \in call[c].asked \cup {Serving(c)}
  <2> SUFFICES ASSUME ~call[c].moved, NEW j \in 0 .. call[c].tries
               PROVE (current + j) % NServers \in call[c].asked \cup {Serving(c)}
    OBVIOUS
  <2>1. \A i \in 0 .. call[c].tries - 1 : (current + i) % NServers \in call[c].asked
    BY <1>1 DEF CallInv, Counted
  <2>2. j = call[c].tries \/ j \in 0 .. call[c].tries - 1
    BY <1>1
  <2>3. CASE j = call[c].tries
    BY <2>3 DEF Target
  <2>4. CASE j \in 0 .. call[c].tries - 1
    BY <2>1, <2>4
  <2> QED BY <2>2, <2>3, <2>4
<1>10. /\ new.seq = call[c].seq /\ new.writes = call[c].writes /\ new.shown = call[c].shown
       /\ (First(c) \in Writing => First(c) = "submit") /\ "submit" \in Writing
  BY DEF FailedOverAs, Writing
<1>6. ASSUME new.state = "running", new.steps = call[c].steps, new.out = call[c].out,
             new.spent = call[c].spent, new.polls = 0,
             ~new.moved => \A j \in 0 .. new.tries - 1 : (current + j) % NServers \in new.asked
      PROVE  SdkInv'
  <2>1. Counted(c)'
    <3>1. ~(0 > 0)
      OBVIOUS
    <3> QED BY <1>2, <1>3, <1>6, <3>1 DEF Counted
  <2>2. CallInv(c)'
    BY <1>2, <1>3, <1>6, <1>10, <2>1, StayingKeeps
  <2> QED BY <2>2, OneCallSteps
<1>7. CASE /\ new.state = "running" /\ new.steps = call[c].steps /\ new.out = call[c].out
           /\ new.spent = call[c].spent /\ new.polls = 0 /\ new.tries = call[c].tries + 1
           /\ new.moved = call[c].moved /\ new.asked = call[c].asked \cup {Serving(c)}
  <2>1. (call[c].tries + 1) - 1 = call[c].tries
    BY <1>1
  <2> QED BY <1>5, <1>6, <1>7, <2>1
<1>8. CASE /\ new.state = "running" /\ new.steps = call[c].steps /\ new.out = call[c].out
           /\ new.spent = call[c].spent /\ new.polls = 0 /\ new.tries = 0
  <2>1. \A j \in 0 .. new.tries - 1 : FALSE
    BY <1>8
  <2> QED BY <1>6, <1>8, <2>1
<1>9. CASE /\ new.state = "ended" /\ new.out \in {"network", "timeout", "resolved"}
           /\ (new.out = "resolved" => First(c) = "probe")
           /\ (new.spent => ~(call[c].tries + 1 < NServers))
           /\ new.moved = call[c].moved /\ new.asked = call[c].asked \cup {Serving(c)}
  <2>1. new.out = "resolved" /\ new.writes => applied[c] = 1
    BY <1>9, <1>10, EarlyAnswer
  <2>2. new.spent => new.asked = Servers \/ new.moved
    <3>1. new.spent => call[c].tries + 1 >= NServers
      BY <1>1, <1>4, <1>9
    <3> QED BY <1>1, <1>4, <1>5, <1>9, <3>1, AllMet
  <2>3. CallInv(c)'
    BY <1>2, <1>9, <1>10, <2>1, <2>2, EndingKeeps
  <2> QED BY <2>3, OneCallSteps
<1> QED BY <1>7, <1>8, <1>9 DEF FailedOverAs

\* A success makes its server the current one, under the feet of the others.
LEMMA SwitchKeeps ==
    ASSUME SdkInv, NEW c \in Calls, Underway(c), First(c) \in {"probe", "submit"},
           NEW s \in Servers, Switch(c, s), UNCHANGED <<pool, sequence, applied, failed, behind>>,
           clientDisposed' \in BOOLEAN, losses' \in 0 .. MaxLosses,
           First(c) = "submit" => applied[c] = 1
    PROVE  SdkInv'
<1>1. /\ call[c] \in CallRecords /\ CallInv(c) /\ call \in [Calls -> CallRecords]
      /\ Len(call[c].steps) \in Nat
  BY StepTypes, AtIs
<1>2. call[c].state = "running" /\ call[c].steps # <<>> /\ call[c].out \in {"none", "timeout"}
      /\ ~call[c].spent
  BY <1>1 DEF Underway, CallInv, InStep
<1>3. SendsOnly(c) /\ current' = s /\ call'[c] = Passed(c)
  BY DEF SendsOnly, Switch
<1>4. Passed(c) \in CallRecords /\ PassedAs(c, call'[c]) /\ call'[c].seq = call[c].seq
      /\ call'[c].shown = call[c].shown
  BY <1>1, <1>2, <1>3, PassedIs
<1>5. CallInv(c)'
  <2>1. CASE First(c) = "probe"
    BY <1>3, <1>4, <2>1, PassingKeeps
  <2>2. CASE First(c) = "submit"
    <3>1. Len(call[c].steps) = 1
      <4>1. 1 \in 1 .. Len(call[c].steps)
        BY <1>1, <1>2, StepTypes
      <4> QED BY <1>1, <2>2, <4>1 DEF CallInv, InStep, WritesInOrder, First
    <3>2. call'[c].state = "ended" /\ call'[c].out \in {"resolved", "timeout"} /\ ~call'[c].spent
      BY <1>2, <1>4, <3>1 DEF PassedAs
    <3> QED BY <1>3, <1>4, <2>2, <3>2, EndingKeeps
  <2> QED BY <2>1, <2>2
<1>6. ASSUME NEW d \in Calls, d # c PROVE call'[d] \in CallRecords /\ CallInv(d)'
  <2> DEFINE w == call[d].moved \/ (Counting(d) /\ s # current)
  <2>1. call'[d] = [call[d] EXCEPT !.moved = w]
    BY <1>6 DEF Switch
  <2>2. call[d] \in CallRecords
    BY StepTypes
  <2>3. w \in BOOLEAN
    OBVIOUS
  <2>4. ~w /\ Counting(d) => current' = current
    BY <1>3
  <2>5. call[d].moved => w
    OBVIOUS
  <2> HIDE DEF w
  <2>6. call'[d].moved = w
    BY <2>1, <2>2 DEF CallRecords
  <2> QED BY <1>3, <1>6, <2>1, <2>3, <2>4, <2>5, <2>6, OthersKeep
<1>7. call' \in [Calls -> CallRecords]
  <2>1. call' = [d \in Calls |-> call'[d]]
    BY DEF Switch
  <2>2. \A d \in Calls : call'[d] \in CallRecords
    BY <1>3, <1>4, <1>6
  <2> QED BY <2>1, <2>2
<1>8. SdkTypes'
  BY <1>3, <1>7 DEF SdkInv, SdkTypes, Lone
<1> QED BY <1>5, <1>6, <1>8 DEF SdkInv

LEMMA ProbeKeeps ==
    ASSUME SdkInv, NEW c \in Calls, Probe(c)
    PROVE  SdkInv'
<1>1. Underway(c) /\ First(c) = "probe"
  BY AtIs DEF Probe
<1>2. UNCHANGED <<sequence, applied, failed, pool, behind>>
      /\ clientDisposed' \in BOOLEAN /\ losses' \in 0 .. MaxLosses
  BY AtIs, LoseIs DEF Probe, Network
<1>3. Target(c) \in Servers
  BY TargetServer DEF SdkInv
<1>4. CASE Switch(c, Target(c))
  BY <1>1, <1>2, <1>3, <1>4, SwitchKeeps
<1>5. CASE /\ current' = current
           /\ \E over, again \in BOOLEAN : Become(c, FailOver(c, over, again, "network"))
  <2>1. PICK over \in BOOLEAN, again \in BOOLEAN : Become(c, FailOver(c, over, again, "network"))
    BY <1>5
  <2> DEFINE new == FailOver(c, over, again, "network")
  <2>2. new \in CallRecords /\ FailedOverAs(c, new)
    BY <1>1, FailOverIs
  <2>3. Become(c, new)
    BY <2>1
  <2> HIDE DEF new
  <2>4. SendsOnly(c) /\ UNCHANGED <<current, behind>>
    BY <1>2, <1>5 DEF SendsOnly
  <2>5. call[c].polls = 0 => Serving(c) = Target(c)
    BY DEF Serving
  <2>6. call[c].polls = 0
    BY DEF Probe, Attempting
  <2> QED BY <1>1, <1>2, <2>2, <2>3, <2>4, <2>5, <2>6, FailOverKeeps
<1> QED BY <1>4, <1>5 DEF Probe

LEMMA SubmitSendKeeps ==
    ASSUME SdkInv, NEW c \in Calls, SubmitSend(c)
    PROVE  SdkInv'
<1>1. /\ Underway(c) /\ First(c) = "submit" /\ call[c].polls = 0
      /\ call[c] \in CallRecords /\ CallInv(c) /\ call \in [Calls -> CallRecords]
  BY AtIs DEF SubmitSend, Attempting
<1>2. UNCHANGED <<sequence, applied, failed, current, behind>>
      /\ clientDisposed' \in BOOLEAN /\ losses' \in 0 .. MaxLosses
  BY AtIs, LoseIs DEF SubmitSend
<1>3. Target(c) \in Servers
  BY TargetServer DEF SdkInv
<1>4. OnLedger(c) => call[c].shown \/ call[c].blind
  BY <1>1 DEF CallInv, KnownOrBlind
<1>5. call[c].out \in {"none", "timeout"} /\ ~call[c].spent /\ call[c].state = "running"
      /\ First(c) \in Writing
  BY <1>1 DEF CallInv, InStep, Underway, Writing
<1>6. CASE Pooled(c) /\ ~Accepted(c) /\ Become(c, Ended(c, "contract"))
  <2>1. pool' = pool
    BY <1>2, <1>6, PooledNet
  <2> QED BY <1>1, <1>2, <1>4, <1>6, <2>1, EndedKeeps DEF Outcomes
<1>7. CASE Pooled(c) /\ Accepted(c) /\ Become(c, [Ask(c) EXCEPT !.polls = 1])
  <2> DEFINE new == [Ask(c) EXCEPT !.polls = 1]
  <2>1. SendsOnly(c)
    BY <1>2, <1>7, PooledNet
  <2>2. call[c].asked \cup {Target(c)} \in SUBSET Servers /\ 1 \in 0 .. PollRetries
    BY <1>1, <1>3, SdkAssumption DEF CallRecords
  <2>3. /\ new \in CallRecords /\ new.state = call[c].state /\ new.steps = call[c].steps
        /\ new.out = call[c].out /\ new.seq = call[c].seq /\ new.writes = call[c].writes
        /\ new.shown = call[c].shown /\ new.spent = call[c].spent
        /\ new.tries = call[c].tries /\ new.polls = 1 /\ new.moved = call[c].moved
        /\ new.asked = call[c].asked \cup {Target(c)}
    BY <1>1, <1>3, <2>2 DEF CallRecords, Ask
  <2>4. Become(c, new)
    BY <1>7
  <2> HIDE DEF new
  <2>5. call'[c] = new
    BY <1>1, <2>4 DEF Become
  <2>6. Counted(c)'
    <3>1. ~call[c].moved =>
            \A j \in 0 .. call[c].tries - 1 : (current + j) % NServers \in call[c].asked
      BY <1>1 DEF CallInv, Counted
    <3> QED BY <1>2, <1>5, <2>3, <2>5, <3>1 DEF Counted, Target
  <2>7. CallInv(c)'
    BY <1>1, <1>5, <2>1, <2>3, <2>5, <2>6, StayingKeeps
  <2> QED BY <1>2, <2>1, <2>3, <2>4, <2>7, OneCallSteps
<1>8. Serving(c) = Target(c)
  BY <1>1 DEF Serving
<1>10. CASE Pooled(c) /\ \E over, again \in BOOLEAN :
              Become(c, [FailOver(c, over, again, "network") EXCEPT !.blind = @ \/ Accepted(c)])
  <2>1. PICK over \in BOOLEAN, again \in BOOLEAN :
          Become(c, [FailOver(c, over, again, "network") EXCEPT !.blind = @ \/ Accepted(c)])
    BY <1>10
  <2> DEFINE f == FailOver(c, over, again, "network")
             b == f.blind \/ Accepted(c)
             new == [f EXCEPT !.blind = b]
  <2>2. f \in CallRecords /\ FailedOverAs(c, f) /\ f.blind = call[c].blind
    BY <1>1, FailOverIs
  <2>3. b \in BOOLEAN /\ (b <=> call[c].blind \/ Accepted(c))
    BY <2>2
  <2>4. Become(c, new)
    BY <2>1
  <2> HIDE DEF f, b
  <2>5. /\ new \in CallRecords /\ FailedOverAs(c, new) /\ new.blind = b /\ new.shown = call[c].shown
    BY <2>2, <2>3 DEF CallRecords, FailedOverAs
  <2> HIDE DEF new
  <2>6. SendsOnly(c) /\ (OnLedger(c)' => OnLedger(c) \/ Accepted(c))
    BY <1>2, <1>10, PooledNet
  <2>7. OnLedger(c)' => new.shown \/ new.blind
    BY <1>4, <2>3, <2>5, <2>6
  <2> QED BY <1>1, <1>2, <1>8, <2>4, <2>5, <2>6, <2>7, FailOverKeeps
<1>11. CASE pool' = pool /\ \E over, again \in BOOLEAN : Become(c, FailOver(c, over, again, "network"))
  <2>1. PICK over \in BOOLEAN, again \in BOOLEAN : Become(c, FailOver(c, over, again, "network"))
    BY <1>11
  <2> DEFINE new == FailOver(c, over, again, "network")
  <2>2. /\ new \in CallRecords /\ FailedOverAs(c, new) /\ new.blind = call[c].blind
        /\ new.shown = call[c].shown
    BY <1>1, FailOverIs DEF FailedOverAs
  <2>3. Become(c, new)
    BY <2>1
  <2> HIDE DEF new
  <2>4. SendsOnly(c) /\ (OnLedger(c)' <=> OnLedger(c))
    BY <1>2, <1>11 DEF SendsOnly, OnLedger
  <2> QED BY <1>1, <1>2, <1>4, <1>8, <2>2, <2>3, <2>4, FailOverKeeps
<1> QED BY <1>6, <1>7, <1>10, <1>11 DEF SubmitSend

LEMMA SubmitPollKeeps ==
    ASSUME SdkInv, NEW c \in Calls, SubmitPoll(c)
    PROVE  SdkInv'
<1>1. /\ Underway(c) /\ First(c) = "submit" /\ call[c].polls > 0 /\ call[c].polls \in Nat
      /\ call[c] \in CallRecords /\ CallInv(c) /\ call \in [Calls -> CallRecords]
  BY AtIs, StepTypes DEF SubmitPoll
<1>2. UNCHANGED <<sequence, applied, failed, pool, behind>>
      /\ clientDisposed' \in BOOLEAN /\ losses' \in 0 .. MaxLosses
  BY AtIs, LoseIs DEF SubmitPoll, Network
<1>3. call[c].via \in Servers
  BY <1>1 DEF CallRecords
<1> DEFINE v == Shown(call[c].via, c)
<1>4. /\ v = "SUCCESS" => applied[c] = 1
      /\ v = "FAILED" => ~OnLedger(c)
  BY ShownIs
<1> HIDE DEF v
<1>5. SendsOnly(c) /\ (OnLedger(c)' <=> OnLedger(c))
  BY <1>2 DEF SendsOnly, OnLedger
<1>6. call[c].out \in {"none", "timeout"} /\ ~call[c].spent /\ call[c].state = "running"
      /\ First(c) \in Writing
  BY <1>1 DEF CallInv, InStep, Underway, Writing
<1>7. CASE v = "SUCCESS" /\ Switch(c, call[c].via)
  BY <1>1, <1>2, <1>3, <1>4, <1>7, SwitchKeeps
<1>8. CASE v = "FAILED" /\ Become(c, Ended(c, "contract")) /\ current' = current
  BY <1>1, <1>2, <1>4, <1>8, EndedKeeps DEF Outcomes
<1>9. CASE call[c].polls < PollRetries /\ Become(c, [call[c] EXCEPT !.polls = @ + 1])
           /\ current' = current
  <2> DEFINE new == [call[c] EXCEPT !.polls = @ + 1]
  <2>1. call[c].polls + 1 \in 0 .. PollRetries /\ call[c].polls + 1 > 0
    BY <1>1, <1>9, SdkAssumption
  <2>2. /\ new \in CallRecords /\ new.state = call[c].state /\ new.steps = call[c].steps
        /\ new.out = call[c].out /\ new.seq = call[c].seq /\ new.writes = call[c].writes
        /\ new.shown = call[c].shown /\ new.spent = call[c].spent /\ new.tries = call[c].tries
        /\ new.polls = call[c].polls + 1 /\ new.moved = call[c].moved /\ new.asked = call[c].asked
    BY <1>1, <2>1 DEF CallRecords
  <2>3. Become(c, new)
    BY <1>9
  <2> HIDE DEF new
  <2>4. call'[c] = new
    BY <1>1, <2>3 DEF Become
  <2>5. Counted(c)'
    BY <1>1, <1>6, <1>9, <2>2, <2>4 DEF CallInv, Counted
  <2>6. CallInv(c)'
    BY <1>1, <1>2, <1>5, <1>6, <2>1, <2>2, <2>4, <2>5, StayingKeeps
  <2> QED BY <1>2, <1>5, <1>9, <2>2, <2>3, <2>6, OneCallSteps
<1>11. CASE /\ current' = current
            /\ \E over, again \in BOOLEAN, out \in {"network", "timeout"} :
                 Become(c, [FailOver(c, over, again, out) EXCEPT !.blind = TRUE])
  <2>1. PICK over \in BOOLEAN, again \in BOOLEAN, out \in {"network", "timeout"} :
          Become(c, [FailOver(c, over, again, out) EXCEPT !.blind = TRUE])
    BY <1>11
  <2> DEFINE f == FailOver(c, over, again, out)
             new == [f EXCEPT !.blind = TRUE]
  <2>2. f \in CallRecords /\ FailedOverAs(c, f)
    BY <1>1, FailOverIs
  <2>3. Become(c, new)
    BY <2>1
  <2> HIDE DEF f
  <2>4. new \in CallRecords /\ FailedOverAs(c, new) /\ new.blind
    BY <2>2 DEF CallRecords, FailedOverAs
  <2> HIDE DEF new
  <2>5. ~call[c].moved => Target(c) \in call[c].asked
    BY <1>1 DEF CallInv, Counted, Target
  <2> QED BY <1>1, <1>2, <1>5, <1>11, <2>3, <2>4, <2>5, FailOverKeeps
<1> QED BY <1>7, <1>8, <1>9, <1>11 DEF SubmitPoll, v

-----------------------------------------------------------------------------
\* The ledger, the nodes and the client's owner: no call changes
LEMMA NetworkKeeps ==
    ASSUME SdkInv, UNCHANGED <<call, current>>, pool' = {} \/ pool' = pool,
           clientDisposed' \in BOOLEAN, behind' \subseteq Servers, losses' \in 0 .. MaxLosses,
           sequence' \in Nat, failed' \subseteq Calls, applied' \in [Calls -> Nat],
           \A c \in Calls : /\ OnLedger(c)' => OnLedger(c)
                            /\ OnLedger(c)' \/ c \in failed' => OnLedger(c) \/ c \in failed
                            /\ applied[c] = 1 => applied'[c] = 1,
           \A c \in Calls :
             /\ c \in pool' => call[c].seq = sequence' + 1 /\ applied'[c] = 0 /\ c \notin failed'
             /\ applied'[c] > 0 \/ c \in failed' => call[c].seq <= sequence'
             /\ applied'[c] <= 1
    PROVE  SdkInv'
<1>1. SdkTypes'
  BY DEF SdkInv, SdkTypes, Lone
<1>2. ASSUME NEW c \in Calls PROVE CallInv(c)'
  <2>1. CallInv(c)
    BY StepTypes
  <2>2. /\ Underway(c)' <=> Underway(c)
        /\ First(c)' = First(c)
        /\ \A K : Comes(c, K)' <=> Comes(c, K)
    BY DEF Underway, First, Comes
  <2>3. InStep(c)'
    BY <2>1, <2>2 DEF InStep, CallInv
  <2>4. NumberSpent(c)'
    BY <2>1, <2>2 DEF NumberSpent, CallInv
  <2>5. WriteInStep(c)'
    BY <2>1, <2>2 DEF WriteInStep, CallInv
  <2>6. KnownOrBlind(c)'
    BY <2>1, <2>2 DEF KnownOrBlind, CallInv
  <2>7. Counted(c)'
    BY <2>1, <2>2 DEF Counted, CallInv
  <2> QED BY <2>3, <2>4, <2>5, <2>6, <2>7 DEF CallInv
<1> QED BY <1>1, <1>2 DEF SdkInv

LEMMA LedgerClosesKeeps ==
    ASSUME SdkInv, LedgerCloses
    PROVE  SdkInv'
<1>1. /\ pool' = {} /\ sequence' = sequence + 1 /\ behind' \subseteq Servers
      /\ UNCHANGED <<call, current, clientDisposed, losses>>
  BY DEF LedgerCloses
<1>2. /\ sequence \in Nat /\ applied \in [Calls -> Nat] /\ failed \subseteq Calls /\ pool \subseteq Calls
      /\ clientDisposed \in BOOLEAN /\ losses \in 0 .. MaxLosses
  BY DEF SdkInv, SdkTypes
<1>3. applied' \in [Calls -> Nat] /\ failed' \subseteq Calls
  BY <1>2 DEF LedgerCloses
<1>4. ASSUME NEW c \in Calls
      PROVE  /\ OnLedger(c)' => OnLedger(c)
             /\ OnLedger(c)' \/ c \in failed' => OnLedger(c) \/ c \in failed
             /\ applied[c] = 1 => applied'[c] = 1
             /\ applied'[c] > 0 \/ c \in failed' => call[c].seq <= sequence'
             /\ applied'[c] <= 1
  <2>1. NumberSpent(c) /\ applied[c] \in Nat /\ call[c].seq \in Int
    BY StepTypes DEF CallInv
  <2>2. CASE c \in pool
    <3>1. applied[c] = 0 /\ call[c].seq = sequence + 1 /\ OnLedger(c)
      BY <2>1, <2>2 DEF NumberSpent, OnLedger
    <3>2. applied'[c] \in {0, 1}
      BY <2>2, <3>1 DEF LedgerCloses
    <3> QED BY <1>1, <1>2, <3>1, <3>2
  <2>3. CASE c \notin pool
    <3>1. applied'[c] = applied[c] /\ (c \in failed' <=> c \in failed)
      BY <1>2, <2>3 DEF LedgerCloses
    <3> QED BY <1>1, <1>2, <2>1, <3>1 DEF NumberSpent, OnLedger
  <2> QED BY <2>2, <2>3
<1> QED BY <1>1, <1>2, <1>3, <1>4, NetworkKeeps

LEMMA EnvironmentKeeps ==
    ASSUME SdkInv, TransactionDropped \/ CatchUp \/ DisposeClient
    PROVE  SdkInv'
<1>1. UNCHANGED <<call, current, sequence, applied, failed>> /\ (pool' = {} \/ pool' = pool)
  BY DEF TransactionDropped, CatchUp, DisposeClient, Network
<1>2. /\ sequence \in Nat /\ applied \in [Calls -> Nat] /\ failed \subseteq Calls
      /\ behind \subseteq Servers /\ clientDisposed \in BOOLEAN /\ losses \in 0 .. MaxLosses
  BY DEF SdkInv, SdkTypes
<1>3. behind' \subseteq Servers /\ clientDisposed' \in BOOLEAN /\ losses' \in 0 .. MaxLosses
  <2>1. CASE TransactionDropped
    BY <1>2, <2>1, LoseIs DEF TransactionDropped
  <2>2. CASE CatchUp
    BY <1>2, <2>2 DEF CatchUp
  <2>3. CASE DisposeClient
    BY <1>2, <2>3 DEF DisposeClient, Network
  <2> QED BY <2>1, <2>2, <2>3
<1>4. ASSUME NEW c \in Calls
      PROVE  /\ (OnLedger(c)' => OnLedger(c)) /\ (c \in pool' => c \in pool) /\ NumberSpent(c)
             /\ applied[c] \in Nat
  BY <1>1, StepTypes DEF OnLedger, CallInv
<1> QED BY <1>1, <1>2, <1>3, <1>4, NetworkKeeps DEF NumberSpent

-----------------------------------------------------------------------------
LEMMA SdkInvInit == SdkInit => SdkInv
<1> SUFFICES ASSUME SdkInit PROVE SdkInv
  OBVIOUS
<1>1. 0 \in Servers /\ 0 \in 0 .. MaxLosses
  BY SdkAssumption DEF Servers
<1>2. SdkTypes
  BY <1>1, IdleIs DEF SdkInit, SdkTypes, Lone
<1>3. ASSUME NEW c \in Calls PROVE CallInv(c)
  <2>1. call[c] = Idle /\ applied[c] = 0 /\ c \notin pool /\ c \notin failed
    BY DEF SdkInit
  <2>2. Idle.state = "idle" /\ Idle.out = "none" /\ ~Idle.spent
    BY DEF Idle
  <2> QED BY <2>1, <2>2
          DEF CallInv, InStep, NumberSpent, WriteInStep, KnownOrBlind, Counted, Underway, OnLedger
<1> QED BY <1>2, <1>3 DEF SdkInv

LEMMA SdkInvStep == SdkInv /\ [SdkNext]_sdkVars => SdkInv'
<1> SUFFICES ASSUME SdkInv, [SdkNext]_sdkVars PROVE SdkInv'
  OBVIOUS
<1>1. ASSUME NEW c \in Calls, NEW m \in Offered[c], Start(c, m) PROVE SdkInv'
  BY <1>1, StartKeeps
<1>2. ASSUME NEW c \in Calls, Refuse(c) \/ RequestLost(c) \/ SendAnswerLost(c) \/ TimerFires(c)
      PROVE  SdkInv'
  BY <1>2, RefuseKeeps, RequestLostKeeps, SendAnswerLostKeeps, TimerFiresKeeps
<1>3. ASSUME NEW c \in Calls, Answer(c) PROVE SdkInv'
  BY <1>3, ServerGetterKeeps, GetAccountKeeps, SimulateKeeps, SendKeeps, PollKeeps, ConfirmKeeps,
     ProbeKeeps, SubmitSendKeeps, SubmitPollKeeps DEF Answer
<1>4. CASE LedgerCloses
  BY <1>4, LedgerClosesKeeps
<1>5. CASE TransactionDropped \/ CatchUp \/ DisposeClient
  BY <1>5, EnvironmentKeeps
<1>6. CASE UNCHANGED sdkVars
  BY <1>6 DEF sdkVars, SdkInv, SdkTypes, Lone, CallInv, InStep, NumberSpent, WriteInStep,
             KnownOrBlind, Counted, Underway, First, Comes, OnLedger
<1> QED BY <1>1, <1>2, <1>3, <1>4, <1>5, <1>6 DEF SdkNext

LEMMA SdkInvTakesEffect == SdkInv => CallsTakeEffectOnce
<1> SUFFICES ASSUME SdkInv PROVE CallsTakeEffectOnce
  OBVIOUS
<1>1. ASSUME NEW c \in Calls
      PROVE  /\ call[c] \in CallRecords /\ InStep(c) /\ NumberSpent(c) /\ WriteInStep(c)
             /\ KnownOrBlind(c) /\ Counted(c) /\ applied[c] \in Nat
  BY StepTypes DEF CallInv
<1>2. Cardinality(pool) <= 1
  <2>1. pool \subseteq Calls /\ Lone
    BY DEF SdkInv, SdkTypes
  <2>2. CASE pool = {}
    BY <2>2, FS_EmptySet
  <2>3. CASE pool # {}
    <3>1. PICK c \in pool : pool = {c}
      BY <2>1, <2>3 DEF Lone
    <3>2. Cardinality({c}) = 1
      BY FS_Singleton
    <3> QED BY <3>1, <3>2
  <2> QED BY <2>2, <2>3
<1>3. applied \in [Calls -> 0 .. Cardinality(Calls)]
  <2>1. ASSUME NEW c \in Calls PROVE applied[c] \in 0 .. Cardinality(Calls)
    <3>1. Cardinality({c}) <= Cardinality(Calls) /\ Cardinality(Calls) \in Nat
      BY SdkAssumption, FS_Subset, FS_CardinalityType
    <3>2. Cardinality({c}) = 1
      BY FS_Singleton
    <3> QED BY <1>1, <3>1, <3>2 DEF NumberSpent
  <2>2. applied \in [Calls -> Nat]
    BY DEF SdkInv, SdkTypes
  <2> QED BY <2>1, <2>2
<1>4. ASSUME NEW c \in Calls
      PROVE  /\ call[c].state \in {"idle", "running", "ended"} /\ call[c].out \in Outcomes
             /\ call[c].tries \in 0 .. MaxRetries + NServers /\ call[c].polls \in 0 .. PollRetries
             /\ call[c].reruns \in 0 .. QueueRetries
             /\ call[c].via \in Servers /\ call[c].asked \subseteq Servers
             /\ call[c].state = "ended" => call[c].out # "none"
  BY <1>1 DEF CallRecords, InStep
<1>5. SdkTypeOK
  BY <1>2, <1>3, <1>4 DEF SdkTypeOK, SdkInv, SdkTypes
<1>6. AppliedAtMostOnce /\ ResolvedTookEffect
  BY <1>1 DEF AppliedAtMostOnce, ResolvedTookEffect, NumberSpent, WriteInStep
<1>7. FalseFailureOnlyIfBlind /\ AllServersAsked
  BY <1>1 DEF FalseFailureOnlyIfBlind, AllServersAsked, KnownOrBlind, Counted, OnLedger
<1> QED BY <1>5, <1>6, <1>7 DEF CallsTakeEffectOnce

\* A transaction takes effect at most once, retries and failover included, a write that resolves took
\* effect, and one that took effect is reported failed only when the client could not know
\* (base-client.ts:316-457, request-queue.ts:112-151, utils.ts:21-93), for any number of calls,
\* servers, retries, runs by the queue and losses.
THEOREM CallsHaveOneEffect == SdkSpec => []CallsTakeEffectOnce
<1>1. SdkInit => SdkInv
  BY SdkInvInit
<1>2. SdkInv /\ [SdkNext]_sdkVars => SdkInv'
  BY SdkInvStep
<1>3. SdkInv => CallsTakeEffectOnce
  BY SdkInvTakesEffect
<1> QED BY <1>1, <1>2, <1>3, PTL DEF SdkSpec

-----------------------------------------------------------------------------
(* The write queue of the mobile app *)

MutEntries == [id : Mutations, attempts : 0 .. MaxSyncAttempts - 1]
Hands == [at : {"new", "adding", "made", "removing", "removed", "lost"}, has : Seq(MutEntries)]
Syncs == [at : {"idle", "read", "asking", "retrying"}, todo : Seq(MutEntries), left : Seq(MutEntries),
          done : SUBSET Mutations]

OfflineTypes ==
  /\ stored \in Seq(MutEntries) /\ making \in [Mutations -> Hands] /\ online \in BOOLEAN
  /\ sync \in Syncs /\ onServer \in [Mutations -> Nat] /\ blind \in [Mutations -> Nat]
  /\ settled \in SUBSET Mutations /\ raced \in SUBSET Mutations /\ doubled \in SUBSET Mutations
  /\ mishaps \in 0 .. MaxMishaps

Distinct(q) == \A i, j \in DOMAIN q : q[i].id = q[j].id => i = j
Copied(m) == \E n \in Mutations : m \in IdsOf(making[n].has)

\* Every copy of the array has its mutations once, and a sync divides what it read
ArraysInOrder ==
  /\ Distinct(stored) /\ Distinct(sync.todo) /\ Distinct(sync.left)
  /\ IdsOf(sync.todo) \cap IdsOf(sync.left) = {}
  /\ ~Syncing => sync.todo = <<>> /\ sync.left = <<>> /\ sync.done = {}
  /\ \A n \in Mutations : /\ Distinct(making[n].has)
                          /\ n \notin Reading => making[n].has = <<>>

\* A mutation that was never queued is in no copy, and nobody has applied it
UnqueuedNowhere ==
  \A m \in Mutations :
    making[m].at \in {"new", "adding", "lost"} =>
      m \notin IdsOf(stored) \cup Taken /\ ~Copied(m) /\ onServer[m] <= blind[m]

\* A queued mutation that met no other read-modify-write is in every copy that may be
\* written back
QueuedEverywhere ==
  \A m \in Mutations \ raced :
    /\ making[m].at \in {"made", "removing"} /\ m \notin settled =>
         /\ m \in IdsOf(stored) /\ (Syncing => m \in Taken)
         /\ \A n \in Reading : m \in IdsOf(making[n].has)
    /\ m \in Reading => ~Syncing /\ \A n \in Reading : n = m

\* What may be executed again has been applied as often as nobody learned it
Owed(m) == m \in IdsOf(sync.todo) \cup IdsOf(sync.left) \cup (IdsOf(stored) \ Taken) \/ Copied(m)

AppliedAccounts ==
  \A m \in Mutations \ doubled :
    /\ onServer[m] <= blind[m] + 1
    /\ Owed(m) => onServer[m] <= blind[m]
    /\ Copied(m) => ~Syncing

OfflineInv ==
  OfflineTypes /\ ArraysInOrder /\ UnqueuedNowhere /\ QueuedEverywhere /\ AppliedAccounts

-----------------------------------------------------------------------------
LEMMA TailIds ==
    ASSUME NEW q \in Seq(MutEntries), q # <<>>
    PROVE  /\ Tail(q) \in Seq(MutEntries) /\ Head(q) \in MutEntries /\ Head(q).id \in Mutations
           /\ Head(q).id \in IdsOf(q)
           /\ Distinct(q) => Distinct(Tail(q)) /\ IdsOf(Tail(q)) = IdsOf(q) \ {Head(q).id}
<1>1. Len(q) \in Nat /\ Len(q) > 0 /\ DOMAIN q = 1 .. Len(q) /\ Head(q) = q[1]
  OBVIOUS
<1>2. /\ Tail(q) \in Seq(MutEntries) /\ DOMAIN Tail(q) = 1 .. Len(q) - 1
      /\ \A i \in 1 .. Len(q) - 1 : Tail(q)[i] = q[i + 1]
  <2>1. Tail(q) \in Seq(MutEntries) /\ Len(Tail(q)) = Len(q) - 1
    BY <1>1
  <2> QED BY <1>1, <2>1
<1>3. 1 \in DOMAIN q /\ q[1] \in MutEntries
  BY <1>1
<1>4. Head(q) \in MutEntries /\ Head(q).id \in Mutations /\ Head(q).id \in IdsOf(q)
  BY <1>1, <1>3 DEF IdsOf, MutEntries
<1>5. ASSUME Distinct(q) PROVE Distinct(Tail(q)) /\ IdsOf(Tail(q)) = IdsOf(q) \ {Head(q).id}
  <2>1. \A i \in 1 .. Len(q) - 1 : i + 1 \in DOMAIN q /\ i + 1 # 1 /\ i \in Nat
    BY <1>1
  <2>2. Distinct(Tail(q))
    <3> SUFFICES ASSUME NEW i \in DOMAIN Tail(q), NEW j \in DOMAIN Tail(q), Tail(q)[i].id = Tail(q)[j].id
                 PROVE  i = j
      BY DEF Distinct
    <3>1. i + 1 = j + 1
      BY <1>2, <1>5, <2>1 DEF Distinct
    <3> QED BY <1>2, <2>1, <3>1
  <2>3. ASSUME NEW x \in IdsOf(Tail(q)) PROVE x \in IdsOf(q) \ {Head(q).id}
    <3>1. PICK i \in 1 .. Len(q) - 1 : x = q[i + 1].id
      BY <1>2, <2>3 DEF IdsOf
    <3>2. q[i + 1].id # q[1].id
      BY <1>3, <1>5, <2>1 DEF Distinct
    <3> QED BY <1>1, <2>1, <3>1, <3>2 DEF IdsOf
  <2>4. ASSUME NEW x \in IdsOf(q), x # Head(q).id PROVE x \in IdsOf(Tail(q))
    <3>1. PICK i \in DOMAIN q : x = q[i].id
      BY DEF IdsOf
    <3>2. i # 1
      BY <1>1, <2>4, <3>1
    <3>3. i - 1 \in 1 .. Len(q) - 1 /\ (i - 1) + 1 = i
      BY <1>1, <3>2
    <3>4. Tail(q)[i - 1] = q[i] /\ i - 1 \in DOMAIN Tail(q)
      BY <1>2, <3>3
    <3> QED BY <3>1, <3>4 DEF IdsOf
  <2> QED BY <2>2, <2>3, <2>4
<1> QED BY <1>2, <1>4, <1>5

LEMMA AppendIds ==
    ASSUME NEW q \in Seq(MutEntries), NEW e \in MutEntries
    PROVE  /\ Append(q, e) \in Seq(MutEntries) /\ IdsOf(Append(q, e)) = IdsOf(q) \cup {e.id}
           /\ Distinct(q) /\ e.id \notin IdsOf(q) => Distinct(Append(q, e))
<1> DEFINE t == Append(q, e)
<1>1. Len(q) \in Nat /\ DOMAIN q = 1 .. Len(q)
  OBVIOUS
<1>2. /\ t \in Seq(MutEntries) /\ DOMAIN t = 1 .. Len(q) + 1 /\ t[Len(q) + 1] = e
      /\ \A i \in DOMAIN q : t[i] = q[i] /\ i \in DOMAIN t
      /\ Len(q) + 1 \in DOMAIN t
  BY <1>1
<1> HIDE DEF t
<1>3. \A i \in DOMAIN t : i \in DOMAIN q \/ i = Len(q) + 1
  BY <1>1, <1>2
<1>4. IdsOf(t) = IdsOf(q) \cup {e.id}
  BY <1>2, <1>3 DEF IdsOf
<1>5. ASSUME Distinct(q), e.id \notin IdsOf(q) PROVE Distinct(t)
  <2>1. \A i \in DOMAIN q : q[i].id # e.id
    BY <1>5 DEF IdsOf
  <2> QED BY <1>2, <1>3, <1>5, <2>1 DEF Distinct
<1> QED BY <1>2, <1>4, <1>5 DEF t

LEMMA FilterIds ==
    ASSUME NEW q \in Seq(MutEntries), NEW m
    PROVE  LET t == Filtered(q, {i \in DOMAIN q : q[i].id # m})
           IN /\ t \in Seq(MutEntries)
              /\ Distinct(q) => Distinct(t) /\ IdsOf(t) = IdsOf(q) \ {m}
<1> DEFINE J == {i \in DOMAIN q : q[i].id # m}
           t == Filtered(q, J)
           n == Cardinality(J)
<1>1. J \in SUBSET DOMAIN q
  OBVIOUS
<1> HIDE DEF J
<1>2. t \in Seq(MutEntries) /\ Len(t) = n /\ n \in Nat
  BY <1>1, FilteredIs
<1>3. PICK p \in [1 .. n -> J] :
        /\ \A j \in 1 .. n : t[j] = q[p[j]]
        /\ \A i \in J : \E j \in 1 .. n : p[j] = i
        /\ \A i, j \in 1 .. n : i < j => p[i] < p[j]
  BY <1>1, FilteredIs
<1> HIDE DEF t, n
<1>4. DOMAIN t = 1 .. n /\ DOMAIN q \subseteq Nat
  BY <1>2
<1>5. ASSUME Distinct(q) PROVE Distinct(t)
  <2> SUFFICES ASSUME NEW i \in DOMAIN t, NEW j \in DOMAIN t, t[i].id = t[j].id
               PROVE  i = j
    BY DEF Distinct
  <2>1. p[i] \in DOMAIN q /\ p[j] \in DOMAIN q /\ t[i] = q[p[i]] /\ t[j] = q[p[j]]
    BY <1>1, <1>3, <1>4
  <2>2. p[i] = p[j] /\ p[i] \in Nat /\ p[j] \in Nat
    BY <1>4, <1>5, <2>1 DEF Distinct
  <2>3. (i < j => p[i] < p[j]) /\ (j < i => p[j] < p[i]) /\ i \in Nat /\ j \in Nat
    BY <1>2, <1>3, <1>4
  <2> QED BY <2>2, <2>3
<1>6. IdsOf(t) = IdsOf(q) \ {m}
  <2>1. ASSUME NEW x \in IdsOf(t) PROVE x \in IdsOf(q) \ {m}
    <3>1. PICK j \in 1 .. n : x = t[j].id
      BY <1>4 DEF IdsOf
    <3>2. p[j] \in J /\ x = q[p[j]].id
      BY <1>3, <3>1
    <3> QED BY <3>2 DEF IdsOf, J
  <2>2. ASSUME NEW x \in IdsOf(q), x # m PROVE x \in IdsOf(t)
    <3>1. PICK i \in DOMAIN q : x = q[i].id
      BY DEF IdsOf
    <3>2. i \in J
      BY <2>2, <3>1 DEF J
    <3>3. PICK j \in 1 .. n : t[j] = q[i]
      BY <1>3, <3>2
    <3> QED BY <1>4, <3>1, <3>3 DEF IdsOf
  <2> QED BY <2>1, <2>2
<1> QED BY <1>2, <1>5, <1>6 DEF t, J

LEMMA EmptyIds == IdsOf(<<>>) = {} /\ Distinct(<<>>)
BY DEF IdsOf, Distinct

LEMMA NoSyncIs ==
    \A a \in {"idle", "read"} :
      LET s == [NoSync EXCEPT !.at = a]
      IN s \in Syncs /\ s.at = a /\ s.todo = <<>> /\ s.left = <<>> /\ s.done = {}
<1>1. <<>> \in Seq(MutEntries)
  OBVIOUS
<1> QED BY <1>1 DEF NoSync, Syncs

LEMMA HandIs ==
    ASSUME OfflineTypes, NEW n \in Mutations
    PROVE  making[n] \in Hands /\ making[n].has \in Seq(MutEntries) /\ IdsOf(making[n].has) \subseteq Mutations
<1>1. making[n] \in Hands /\ making[n].has \in Seq(MutEntries)
  BY DEF OfflineTypes, Hands
<1>2. \A i \in DOMAIN making[n].has : making[n].has[i] \in MutEntries
  BY <1>1
<1> QED BY <1>1, <1>2 DEF IdsOf, MutEntries

LEMMA StoredIds == OfflineTypes => IdsOf(stored) \subseteq Mutations
<1> SUFFICES ASSUME OfflineTypes PROVE IdsOf(stored) \subseteq Mutations
  OBVIOUS
<1>1. \A i \in DOMAIN stored : stored[i] \in MutEntries
  BY DEF OfflineTypes
<1> QED BY <1>1 DEF IdsOf, MutEntries

\* A step that leaves the arrays and the sync's entries alone.
LEMMA SameArrays ==
    ASSUME OfflineInv, OfflineTypes', Syncing' <=> Syncing,
           sync'.todo = sync.todo, sync'.left = sync.left, sync'.done = sync.done,
           UNCHANGED <<stored, making, onServer, blind, settled, raced, doubled>>
    PROVE  OfflineInv'
<1>1. ArraysInOrder /\ UnqueuedNowhere /\ QueuedEverywhere /\ AppliedAccounts
  BY DEF OfflineInv
<1>2. /\ Reading' = Reading /\ Taken' = Taken /\ IdsOf(stored)' = IdsOf(stored)
      /\ Distinct(stored)' = Distinct(stored)
  BY DEF Reading, Taken, IdsOf, Distinct
<1>3. \A n \in Mutations : (Copied(n)' <=> Copied(n)) /\ (Owed(n)' <=> Owed(n))
  BY <1>2 DEF Copied, Owed
<1>4. ArraysInOrder'
  BY <1>1, <1>2 DEF ArraysInOrder
<1>5. UnqueuedNowhere'
  BY <1>1, <1>2, <1>3 DEF UnqueuedNowhere
<1>6. QueuedEverywhere'
  BY <1>1, <1>2 DEF QueuedEverywhere
<1>7. AppliedAccounts'
  BY <1>1, <1>3 DEF AppliedAccounts
<1> QED BY <1>4, <1>5, <1>6, <1>7 DEF OfflineInv

LEMMA OfflineInvInit ==
    OfflineInit => OfflineInv
<1> SUFFICES ASSUME OfflineInit PROVE OfflineInv
  OBVIOUS
<1>1. /\ stored = <<>> /\ making = [m \in Mutations |-> Untouched] /\ online \in BOOLEAN
      /\ sync = NoSync /\ onServer = [m \in Mutations |-> 0] /\ blind = [m \in Mutations |-> 0]
      /\ settled = {} /\ raced = {} /\ doubled = {} /\ mishaps = 0
  BY DEF OfflineInit
<1>2. Untouched \in Hands /\ Untouched.at = "new" /\ Untouched.has = <<>>
  BY DEF Untouched, Hands
<1>3. NoSync \in Syncs /\ NoSync.at = "idle" /\ NoSync.todo = <<>> /\ NoSync.left = <<>> /\ NoSync.done = {}
  BY DEF NoSync, Syncs
<1>4. stored \in Seq(MutEntries) /\ mishaps \in 0 .. MaxMishaps
  BY <1>1, OfflineAssumption
<1>5. OfflineTypes
  BY <1>1, <1>2, <1>3, <1>4 DEF OfflineTypes
<1>6. \A m \in Mutations : making[m].at = "new" /\ making[m].has = <<>>
  BY <1>1, <1>2
<1>7. ~Syncing /\ IdsOf(stored) = {} /\ Taken = {} /\ Reading = {} /\ \A m \in Mutations : ~Copied(m)
  BY <1>1, <1>3, <1>6, EmptyIds DEF Syncing, Taken, Reading, Copied
<1>8. ArraysInOrder
  BY <1>1, <1>3, <1>6, <1>7, EmptyIds DEF ArraysInOrder
<1>9. UnqueuedNowhere
  BY <1>1, <1>7 DEF UnqueuedNowhere
<1>10. QueuedEverywhere
  BY <1>6, <1>7 DEF QueuedEverywhere
<1>11. AppliedAccounts
  BY <1>1, <1>3, <1>7, EmptyIds DEF AppliedAccounts, Owed
<1> QED BY <1>5, <1>8, <1>9, <1>10, <1>11 DEF OfflineInv

\* readQueue of an enqueue or a dequeue
LEMMA ReadsKeeps ==
    ASSUME OfflineInv, NEW m \in Mutations, NEW from, NEW at \in {"adding", "removing"},
           <<from, at>> \in {<<"new", "adding">>, <<"made", "removing">>}, Reads(m, from, at)
    PROVE  OfflineInv'
<1>1. /\ making[m].at = from /\ making' = [making EXCEPT ![m] = [at |-> at, has |-> stored]]
      /\ raced' = raced \cup (IF Reading # {} \/ Syncing THEN Reading \cup {m} ELSE {})
      /\ doubled' = doubled \cup (IF Syncing THEN IdsOf(stored) ELSE {})
      /\ UNCHANGED <<stored, online, sync, onServer, blind, settled, mishaps>>
  BY DEF Reads
<1>2. (from = "new" /\ at = "adding") \/ (from = "made" /\ at = "removing")
  OBVIOUS
<1>3. OfflineTypes /\ ArraysInOrder /\ UnqueuedNowhere /\ QueuedEverywhere /\ AppliedAccounts
  BY DEF OfflineInv
<1>4. [at |-> at, has |-> stored] \in Hands
  BY <1>3 DEF OfflineTypes, Hands
<1>5. /\ making' \in [Mutations -> Hands] /\ making'[m].at = at /\ making'[m].has = stored
      /\ \A n \in Mutations : n # m => making'[n] = making[n]
  BY <1>1, <1>3, <1>4 DEF OfflineTypes
<1>6. Reading' = Reading \cup {m} /\ Reading \in SUBSET Mutations /\ m \notin Reading
  BY <1>1, <1>2, <1>5 DEF Reading
<1>7. OfflineTypes'
  <2>1. raced' \in SUBSET Mutations /\ doubled' \in SUBSET Mutations
    BY <1>1, <1>3, <1>6, StoredIds DEF OfflineTypes
  <2> QED BY <1>1, <1>3, <1>5, <2>1 DEF OfflineTypes
<1>8. /\ (Syncing' <=> Syncing) /\ Taken' = Taken /\ IdsOf(stored)' = IdsOf(stored)
      /\ Distinct(stored)' = Distinct(stored)
  BY <1>1 DEF Syncing, Taken, IdsOf, Distinct
<1>9. ArraysInOrder'
  BY <1>1, <1>3, <1>5, <1>6, <1>8 DEF ArraysInOrder
<1>10. \A n \in Mutations : Copied(n)' => Copied(n) \/ n \in IdsOf(stored)
  BY <1>5 DEF Copied
<1>11. UnqueuedNowhere'
  <2> SUFFICES ASSUME NEW n \in Mutations, making'[n].at \in {"new", "adding", "lost"}
               PROVE  n \notin (IdsOf(stored) \cup Taken)' /\ ~Copied(n)' /\ onServer'[n] <= blind'[n]
    BY DEF UnqueuedNowhere
  <2>1. making[n].at \in {"new", "adding", "lost"}
    BY <1>1, <1>2, <1>5
  <2> QED BY <1>1, <1>3, <1>8, <1>10, <2>1 DEF UnqueuedNowhere
<1>12. QueuedEverywhere'
  <2> SUFFICES ASSUME NEW n \in Mutations \ raced'
               PROVE  /\ making'[n].at \in {"made", "removing"} /\ n \notin settled' =>
                           /\ n \in IdsOf(stored)' /\ (Syncing' => n \in Taken')
                           /\ \A o \in Reading' : n \in IdsOf(making'[o].has)
                      /\ n \in Reading' => ~Syncing' /\ \A o \in Reading' : o = n
    BY DEF QueuedEverywhere, IdsOf
  <2>1. n \in Mutations \ raced
    BY <1>1
  <2>2. ASSUME making'[n].at \in {"made", "removing"}, n \notin settled'
        PROVE  /\ n \in IdsOf(stored)' /\ (Syncing' => n \in Taken')
               /\ \A o \in Reading' : n \in IdsOf(making'[o].has)
    <3>1. making[n].at \in {"made", "removing"} /\ n \notin settled
      BY <1>1, <1>2, <1>5, <2>2
    <3>2. /\ n \in IdsOf(stored) /\ (Syncing => n \in Taken)
          /\ \A o \in Reading : n \in IdsOf(making[o].has)
      BY <1>3, <2>1, <3>1 DEF QueuedEverywhere
    <3>3. \A o \in Reading' : n \in IdsOf(making'[o].has)
      BY <1>5, <1>6, <3>2
    <3> QED BY <1>8, <3>2, <3>3
  <2>3. ASSUME n \in Reading' PROVE ~Syncing' /\ \A o \in Reading' : o = n
    BY <1>1, <1>6, <1>8, <2>3
  <2> QED BY <2>2, <2>3
<1>13. AppliedAccounts'
  <2> SUFFICES ASSUME NEW n \in Mutations \ doubled'
               PROVE  /\ onServer'[n] <= blind'[n] + 1
                      /\ Owed(n)' => onServer'[n] <= blind'[n]
                      /\ Copied(n)' => ~Syncing'
    BY DEF AppliedAccounts
  <2>1. /\ n \in Mutations \ doubled /\ (Syncing => n \notin IdsOf(stored))
    BY <1>1
  <2>2. ~Syncing => Taken = {}
    BY <1>3, EmptyIds DEF ArraysInOrder, Taken
  <2>3. Owed(n)' => Owed(n)
    BY <1>1, <1>8, <1>10, <2>1, <2>2 DEF Owed
  <2>4. Copied(n)' => ~Syncing
    BY <1>3, <1>10, <2>1 DEF AppliedAccounts
  <2> QED BY <1>1, <1>3, <1>8, <2>1, <2>3, <2>4 DEF AppliedAccounts
<1> QED BY <1>7, <1>9, <1>11, <1>12, <1>13 DEF OfflineInv

\* Somebody between his read and his write puts an array in the place of the stored one:
\* what his copy holds and what he adds to it or takes from it himself.
LEMMA ArrayReplaced ==
    ASSUME OfflineInv, NEW m \in Reading, NEW at \in {"made", "removed"},
           making' = [making EXCEPT ![m] = [at |-> at, has |-> <<>>]],
           stored' \in Seq(MutEntries), Distinct(stored'),
           IdsOf(stored') \subseteq IdsOf(making[m].has) \cup {m},
           IdsOf(making[m].has) \ {m} \subseteq IdsOf(stored'),
           at = "made" => making[m].at = "adding" /\ m \in IdsOf(stored') /\ settled' = settled,
           at = "removed" => m \notin IdsOf(stored') /\ settled' = settled \cup {m},
           UNCHANGED <<online, sync, onServer, blind, raced, doubled, mishaps>>
    PROVE  OfflineInv'
<1>1. OfflineTypes /\ ArraysInOrder /\ UnqueuedNowhere /\ QueuedEverywhere /\ AppliedAccounts
  BY DEF OfflineInv
<1>2. m \in Mutations /\ making[m].at \in {"adding", "removing"} /\ [at |-> at, has |-> <<>>] \in Hands
  BY DEF Reading, Hands
<1>3. /\ making' \in [Mutations -> Hands] /\ making'[m].at = at /\ making'[m].has = <<>>
      /\ \A n \in Mutations : n # m => making'[n] = making[n]
  BY <1>1, <1>2 DEF OfflineTypes
<1>4. settled' \in SUBSET Mutations
  BY <1>1, <1>2 DEF OfflineTypes
<1>5. OfflineTypes'
  BY <1>1, <1>3, <1>4 DEF OfflineTypes
<1>6. Reading' = Reading \ {m}
  BY <1>3 DEF Reading
<1>7. (Syncing' <=> Syncing) /\ Taken' = Taken
  BY DEF Syncing, Taken, IdsOf
<1>8. ArraysInOrder'
  BY <1>1, <1>3, <1>6, <1>7, EmptyIds DEF ArraysInOrder
<1>9. \A n \in Mutations : Copied(n)' => Copied(n)
  BY <1>3, EmptyIds DEF Copied
<1>10. \A n \in IdsOf(making[m].has) : Copied(n)
  BY <1>2 DEF Copied
<1>11. UnqueuedNowhere'
  <2> SUFFICES ASSUME NEW n \in Mutations, making'[n].at \in {"new", "adding", "lost"}
               PROVE  n \notin (IdsOf(stored) \cup Taken)' /\ ~Copied(n)' /\ onServer'[n] <= blind'[n]
    BY DEF UnqueuedNowhere
  <2>1. n # m /\ making[n].at \in {"new", "adding", "lost"}
    BY <1>3
  <2>2. n \notin Taken /\ ~Copied(n) /\ onServer[n] <= blind[n]
    BY <1>1, <2>1 DEF UnqueuedNowhere
  <2>3. n \notin IdsOf(stored')
    BY <1>10, <2>1, <2>2
  <2> QED BY <1>7, <1>9, <2>2, <2>3
<1>12. QueuedEverywhere'
  <2> SUFFICES ASSUME NEW n \in Mutations \ raced'
               PROVE  /\ making'[n].at \in {"made", "removing"} /\ n \notin settled' =>
                           /\ n \in IdsOf(stored') /\ (Syncing' => n \in Taken')
                           /\ \A o \in Reading' : n \in IdsOf(making'[o].has)
                      /\ n \in Reading' => ~Syncing' /\ \A o \in Reading' : o = n
    BY DEF QueuedEverywhere, IdsOf
  <2>1. n \in Mutations \ raced
    OBVIOUS
  <2>2. ASSUME making'[n].at \in {"made", "removing"}, n \notin settled'
        PROVE  /\ n \in IdsOf(stored') /\ (Syncing' => n \in Taken')
               /\ \A o \in Reading' : n \in IdsOf(making'[o].has)
    <3>1. CASE n = m
      <4>1. at = "made" /\ m \in IdsOf(stored')
        BY <1>3, <2>2, <3>1
      <4>2. ~Syncing /\ Reading' = {}
        BY <1>1, <1>6, <2>1, <3>1 DEF QueuedEverywhere
      <4> QED BY <1>7, <3>1, <4>1, <4>2
    <3>2. CASE n # m
      <4>1. making[n].at \in {"made", "removing"} /\ n \notin settled
        BY <1>3, <2>2, <3>2
      <4>2. (Syncing => n \in Taken) /\ \A o \in Reading : n \in IdsOf(making[o].has)
        BY <1>1, <2>1, <4>1 DEF QueuedEverywhere
      <4>3. \A o \in Reading' : making'[o] = making[o] /\ o \in Reading
        BY <1>3, <1>6 DEF Reading
      <4> QED BY <1>7, <3>2, <4>2, <4>3
    <3> QED BY <3>1, <3>2
  <2>3. ASSUME n \in Reading' PROVE ~Syncing' /\ \A o \in Reading' : o = n
    BY <1>1, <1>6, <1>7, <2>1, <2>3 DEF QueuedEverywhere
  <2> QED BY <2>2, <2>3
<1>13. AppliedAccounts'
  <2> SUFFICES ASSUME NEW n \in Mutations \ doubled'
               PROVE  /\ onServer'[n] <= blind'[n] + 1
                      /\ Owed(n)' => onServer'[n] <= blind'[n]
                      /\ Copied(n)' => ~Syncing'
    BY DEF AppliedAccounts
  <2>1. ASSUME Owed(n)' PROVE onServer[n] <= blind[n]
    <3>1. Owed(n) \/ n \in IdsOf(stored')
      BY <1>9, <2>1 DEF Owed, IdsOf
    <3>2. CASE Owed(n)
      BY <1>1, <3>2 DEF AppliedAccounts
    <3>3. CASE n \in IdsOf(making[m].has)
      BY <1>1, <1>10, <3>3 DEF AppliedAccounts, Owed
    <3>4. CASE n = m /\ n \in IdsOf(stored')
      <4>1. making[m].at = "adding"
        BY <3>4
      <4> QED BY <1>1, <1>2, <3>4, <4>1 DEF UnqueuedNowhere
    <3> QED BY <3>1, <3>2, <3>3, <3>4
  <2> QED BY <1>1, <1>7, <1>9, <2>1 DEF AppliedAccounts
<1> QED BY <1>5, <1>8, <1>11, <1>12, <1>13 DEF OfflineInv

LEMMA EnqueueWritesKeeps ==
    ASSUME OfflineInv, NEW m \in Mutations, EnqueueWrites(m)
    PROVE  OfflineInv'
<1> DEFINE e == [id |-> m, attempts |-> 0]
<1>1. /\ making[m].at = "adding" /\ stored' = Append(making[m].has, e)
      /\ making' = [making EXCEPT ![m] = [at |-> "made", has |-> <<>>]]
      /\ UNCHANGED <<online, sync, onServer, blind, settled, raced, doubled, mishaps>>
  BY DEF EnqueueWrites
<1>2. e \in MutEntries /\ e.id = m
  BY OfflineAssumption DEF MutEntries
<1> HIDE DEF e
<1>3. m \in Reading /\ making[m].has \in Seq(MutEntries)
  BY <1>1, HandIs DEF Reading, OfflineInv
<1>4. Distinct(making[m].has) /\ m \notin IdsOf(making[m].has)
  BY <1>1 DEF OfflineInv, ArraysInOrder, UnqueuedNowhere, Copied
<1>5. stored' \in Seq(MutEntries) /\ IdsOf(stored') = IdsOf(making[m].has) \cup {m} /\ Distinct(stored')
  BY <1>1, <1>2, <1>3, <1>4, AppendIds
<1> QED BY <1>1, <1>3, <1>5, ArrayReplaced

LEMMA DequeueWritesKeeps ==
    ASSUME OfflineInv, NEW m \in Mutations, DequeueWrites(m)
    PROVE  OfflineInv'
<1> DEFINE has == making[m].has
<1>1. /\ making[m].at = "removing"
      /\ stored' = Filtered(has, {i \in DOMAIN has : has[i].id # m})
      /\ making' = [making EXCEPT ![m] = [at |-> "removed", has |-> <<>>]]
      /\ settled' = settled \cup {m}
      /\ UNCHANGED <<online, sync, onServer, blind, raced, doubled, mishaps>>
  BY DEF DequeueWrites
<1>2. m \in Reading /\ has \in Seq(MutEntries) /\ Distinct(has)
  BY <1>1, HandIs DEF Reading, OfflineInv, ArraysInOrder
<1> HIDE DEF has
<1>3. stored' \in Seq(MutEntries) /\ Distinct(stored') /\ IdsOf(stored') = IdsOf(has) \ {m}
  BY <1>1, <1>2, FilterIds
<1> QED BY <1>1, <1>2, <1>3, ArrayReplaced DEF has

\* Who is between his read and his write stops there, some or all of them at once; the
\* sync goes on, or ends with what it had learned forgotten.
LEMMA HandsEnd ==
    ASSUME OfflineInv, NEW gone \in SUBSET Mutations,
           making' = [n \in Mutations |-> IF n \in gone THEN LetGo(making[n]) ELSE making[n]],
           \/ UNCHANGED <<sync, blind>>
           \/ /\ \E a \in {"idle", "read"} : sync' = [NoSync EXCEPT !.at = a]
              /\ blind' = Unlearned,
           mishaps' \in 0 .. MaxMishaps,
           UNCHANGED <<stored, online, onServer, settled, raced, doubled>>
    PROVE  OfflineInv'
<1>1. OfflineTypes /\ ArraysInOrder /\ UnqueuedNowhere /\ QueuedEverywhere /\ AppliedAccounts
  BY DEF OfflineInv
<1>2. ASSUME NEW n \in Mutations
      PROVE  /\ LetGo(making[n]) \in Hands
             /\ making[n].at = "adding" => LetGo(making[n]).at = "lost" /\ LetGo(making[n]).has = <<>>
             /\ making[n].at = "removing" => LetGo(making[n]).at = "made" /\ LetGo(making[n]).has = <<>>
             /\ making[n].at \notin {"adding", "removing"} => LetGo(making[n]) = making[n]
  <2>1. making[n] \in Hands
    BY <1>1, HandIs
  <2> QED BY <2>1 DEF LetGo, Hands
<1>3. making' \in [Mutations -> Hands]
  BY <1>1, <1>2 DEF OfflineTypes
<1>4. \A n \in Mutations :
        /\ making'[n] = making[n] \/ (n \in Reading /\ making'[n].has = <<>> /\ making'[n].at \in {"lost", "made"})
        /\ making'[n].at \in {"new", "adding", "lost"} => making[n].at \in {"new", "adding", "lost"}
        /\ making'[n].at \in {"made", "removing"} => making[n].at \in {"made", "removing"}
  BY <1>2 DEF Reading
<1>5. /\ Reading' \subseteq Reading /\ \A n \in Reading' : making'[n] = making[n]
      /\ \A n \in Mutations : n \notin Reading' /\ n \in Reading => making'[n].has = <<>>
  BY <1>4 DEF Reading
<1>6. /\ sync' \in Syncs /\ (Syncing' => Syncing /\ sync' = sync)
      /\ sync' = sync \/ (sync'.todo = <<>> /\ sync'.left = <<>> /\ sync'.done = {} /\ ~Syncing')
  <2>1. CASE UNCHANGED <<sync, blind>>
    BY <1>1, <2>1 DEF OfflineTypes, Syncing
  <2>2. CASE \E a \in {"idle", "read"} : sync' = [NoSync EXCEPT !.at = a]
    <3>1. PICK a \in {"idle", "read"} : sync' = [NoSync EXCEPT !.at = a]
      BY <2>2
    <3>2. sync' \in Syncs /\ sync'.at = a /\ sync'.todo = <<>> /\ sync'.left = <<>> /\ sync'.done = {}
      BY <3>1, NoSyncIs
    <3> QED BY <3>2 DEF Syncing
  <2> QED BY <2>1, <2>2
<1>7. /\ blind' \in [Mutations -> Nat]
      /\ \A n \in Mutations : /\ blind'[n] \in {blind[n], onServer[n]}
                              /\ sync' # sync \/ blind' # blind => blind'[n] = IF n \in Taken THEN onServer[n] ELSE blind[n]
                              /\ n \notin Taken => blind'[n] = blind[n]
  BY <1>1 DEF OfflineTypes, Unlearned
<1>8. OfflineTypes'
  BY <1>1, <1>3, <1>6, <1>7 DEF OfflineTypes
<1>9. ArraysInOrder'
  <2>1. ASSUME NEW n \in Mutations PROVE Distinct(making'[n].has) /\ (n \notin Reading' => making'[n].has = <<>>)
    BY <1>1, <1>4, <1>5, EmptyIds DEF ArraysInOrder
  <2>2. /\ Distinct(sync'.todo) /\ Distinct(sync'.left) /\ IdsOf(sync'.todo) \cap IdsOf(sync'.left) = {}
        /\ ~Syncing' => sync'.todo = <<>> /\ sync'.left = <<>> /\ sync'.done = {}
    BY <1>1, <1>6, EmptyIds DEF ArraysInOrder, Syncing
  <2> QED BY <1>1, <2>1, <2>2 DEF ArraysInOrder, Distinct, IdsOf
<1>10. \A n \in Mutations : Copied(n)' => Copied(n)
  BY <1>4, EmptyIds DEF Copied
<1>11. Taken' \subseteq Taken /\ (Syncing' => Taken' = Taken) /\ IdsOf(stored)' = IdsOf(stored)
  BY <1>6, EmptyIds DEF Taken, IdsOf
<1>12. UnqueuedNowhere'
  <2> SUFFICES ASSUME NEW n \in Mutations, making'[n].at \in {"new", "adding", "lost"}
               PROVE  n \notin (IdsOf(stored) \cup Taken)' /\ ~Copied(n)' /\ onServer'[n] <= blind'[n]
    BY DEF UnqueuedNowhere
  <2>1. n \notin IdsOf(stored) \cup Taken /\ ~Copied(n) /\ onServer[n] <= blind[n]
    BY <1>1, <1>4 DEF UnqueuedNowhere
  <2> QED BY <1>7, <1>10, <1>11, <2>1
<1>13. QueuedEverywhere'
  <2> SUFFICES ASSUME NEW n \in Mutations \ raced'
               PROVE  /\ making'[n].at \in {"made", "removing"} /\ n \notin settled' =>
                           /\ n \in IdsOf(stored)' /\ (Syncing' => n \in Taken')
                           /\ \A o \in Reading' : n \in IdsOf(making'[o].has)
                      /\ n \in Reading' => ~Syncing' /\ \A o \in Reading' : o = n
    BY DEF QueuedEverywhere, IdsOf
  <2> QED BY <1>1, <1>4, <1>5, <1>6, <1>11 DEF QueuedEverywhere
<1>14. AppliedAccounts'
  <2> SUFFICES ASSUME NEW n \in Mutations \ doubled'
               PROVE  /\ onServer'[n] <= blind'[n] + 1
                      /\ Owed(n)' => onServer'[n] <= blind'[n]
                      /\ Copied(n)' => ~Syncing'
    BY DEF AppliedAccounts
  <2>1. /\ onServer[n] <= blind[n] + 1 /\ (Owed(n) => onServer[n] <= blind[n]) /\ (Copied(n) => ~Syncing)
        /\ onServer[n] \in Nat /\ blind[n] \in Nat
    BY <1>1 DEF AppliedAccounts, OfflineTypes
  <2>2. CASE UNCHANGED <<sync, blind>>
    <3>1. Owed(n)' => Owed(n)
      BY <1>10, <2>2 DEF Owed, Taken, IdsOf
    <3> QED BY <1>6, <1>10, <2>1, <2>2, <3>1
  <2>3. CASE blind' = Unlearned
    <3>1. blind'[n] = IF n \in Taken THEN onServer[n] ELSE blind[n]
      BY <2>3 DEF Unlearned
    <3>2. ASSUME Owed(n)', n \notin Taken PROVE Owed(n)
      <4>1. n \in IdsOf(stored)' \/ Copied(n)' \/ n \in Taken'
        BY <3>2 DEF Owed, Taken
      <4> QED BY <1>10, <1>11, <3>2, <4>1 DEF Owed
    <3> QED BY <1>6, <1>10, <2>1, <3>1, <3>2
  <2> QED BY <2>2, <2>3
<1> QED BY <1>8, <1>9, <1>12, <1>13, <1>14 DEF OfflineInv

LEMMA MishapIs == Mishap /\ OfflineTypes => mishaps' \in 0 .. MaxMishaps
BY OfflineAssumption DEF Mishap, OfflineTypes

LEMMA WriteRejectsKeeps ==
    ASSUME OfflineInv, NEW m \in Mutations, WriteRejects(m)
    PROVE  OfflineInv'
<1>1. /\ making' = [making EXCEPT ![m] = LetGo(@)]
      /\ mishaps' \in 0 .. MaxMishaps
      /\ UNCHANGED <<stored, online, sync, onServer, blind, settled, raced, doubled>>
  BY MishapIs DEF WriteRejects, OfflineInv
<1>2. making' = [n \in Mutations |-> IF n \in {m} THEN LetGo(making[n]) ELSE making[n]]
  BY <1>1 DEF OfflineInv, OfflineTypes
<1>3. {m} \in SUBSET Mutations
  OBVIOUS
<1> QED BY <1>1, <1>2, <1>3, HandsEnd

LEMMA SyncRejectsKeeps ==
    ASSUME OfflineInv, SyncRejects
    PROVE  OfflineInv'
<1>1. /\ sync' = NoSync /\ blind' = Unlearned /\ mishaps' \in 0 .. MaxMishaps
      /\ UNCHANGED <<stored, making, online, onServer, settled, raced, doubled>>
  BY MishapIs DEF SyncRejects, OfflineInv
<1>2. making' = [n \in Mutations |-> IF n \in {} THEN LetGo(making[n]) ELSE making[n]]
  BY <1>1 DEF OfflineInv, OfflineTypes
<1>3. sync' = [NoSync EXCEPT !.at = "idle"] /\ {} \in SUBSET Mutations
  BY <1>1 DEF NoSync
<1> QED BY <1>1, <1>2, <1>3, HandsEnd

LEMMA KillKeeps ==
    ASSUME OfflineInv, Kill
    PROVE  OfflineInv'
<1>1. /\ making' = [n \in Mutations |-> IF n \in Mutations THEN LetGo(making[n]) ELSE making[n]]
      /\ blind' = Unlearned /\ mishaps' \in 0 .. MaxMishaps
      /\ UNCHANGED <<stored, online, onServer, settled, raced, doubled>>
  BY MishapIs DEF Kill, OfflineInv
<1>2. \E a \in {"idle", "read"} : sync' = [NoSync EXCEPT !.at = a]
  BY DEF Kill
<1>3. Mutations \in SUBSET Mutations
  OBVIOUS
<1> QED BY <1>1, <1>2, <1>3, HandsEnd

\* The sync's state changes while it holds no entry, before or after it.
LEMMA ConnectivityKeeps ==
    ASSUME OfflineInv, Online \/ Offline
    PROVE  OfflineInv'
<1>1. UNCHANGED <<stored, making, onServer, blind, settled, raced, doubled, mishaps>> /\ online' \in BOOLEAN
  BY DEF Online, Offline
<1>2. sync' = sync \/ (~Syncing /\ sync' = [NoSync EXCEPT !.at = "read"])
  BY DEF Online, Offline, Syncing
<1>3. OfflineTypes /\ ArraysInOrder /\ UnqueuedNowhere /\ QueuedEverywhere /\ AppliedAccounts
  BY DEF OfflineInv
<1>4. /\ sync' \in Syncs /\ (Syncing' <=> Syncing)
      /\ sync'.todo = sync.todo /\ sync'.left = sync.left /\ sync'.done = sync.done
  <2>1. CASE sync' = sync
    BY <1>3, <2>1 DEF OfflineTypes, Syncing
  <2>2. CASE ~Syncing /\ sync' = [NoSync EXCEPT !.at = "read"]
    <3>1. sync' \in Syncs /\ sync'.at = "read" /\ sync'.todo = <<>> /\ sync'.left = <<>> /\ sync'.done = {}
      BY <2>2, NoSyncIs
    <3> QED BY <1>3, <2>2, <3>1 DEF Syncing, ArraysInOrder
  <2> QED BY <1>2, <2>1, <2>2
<1>5. OfflineTypes'
  BY <1>1, <1>3, <1>4 DEF OfflineTypes
<1> QED BY <1>1, <1>3, <1>4, <1>5, SameArrays DEF OfflineInv

LEMMA SyncReadsKeeps ==
    ASSUME OfflineInv, SyncReads
    PROVE  OfflineInv'
<1> DEFINE s == [sync EXCEPT !.at = "asking", !.todo = stored]
<1>1. /\ sync.at = "read" /\ UNCHANGED <<stored, making, online, onServer, blind, settled, mishaps>>
      /\ \/ sync' = NoSync /\ UNCHANGED <<raced, doubled>>
         \/ /\ sync' = s /\ raced' = raced \cup Reading
            /\ doubled' = doubled \cup UNION {IdsOf(making[m].has) : m \in Reading}
  BY DEF SyncReads
<1>2. OfflineTypes /\ ArraysInOrder /\ UnqueuedNowhere /\ QueuedEverywhere /\ AppliedAccounts
  BY DEF OfflineInv
<1>3. ~Syncing /\ sync.todo = <<>> /\ sync.left = <<>> /\ sync.done = {} /\ sync \in Syncs
  BY <1>1, <1>2 DEF Syncing, ArraysInOrder, OfflineTypes
<1>4. s \in Syncs /\ s.at = "asking" /\ s.todo = stored /\ s.left = <<>> /\ s.done = {}
  BY <1>2, <1>3 DEF Syncs, OfflineTypes
<1> HIDE DEF s
<1>5. CASE sync' = NoSync /\ UNCHANGED <<raced, doubled>>
  <2>1. NoSync = [NoSync EXCEPT !.at = "idle"]
    BY DEF NoSync
  <2>2. sync' \in Syncs /\ sync'.at = "idle" /\ sync'.todo = <<>> /\ sync'.left = <<>> /\ sync'.done = {}
    BY <1>5, <2>1, NoSyncIs
  <2>3. Syncing' <=> Syncing
    BY <1>3, <2>2 DEF Syncing
  <2>4. OfflineTypes'
    BY <1>1, <1>2, <1>5, <2>2 DEF OfflineTypes
  <2> QED BY <1>1, <1>2, <1>3, <1>5, <2>2, <2>3, <2>4, SameArrays DEF OfflineInv
<1>6. CASE /\ sync' = s /\ raced' = raced \cup Reading
           /\ doubled' = doubled \cup UNION {IdsOf(making[m].has) : m \in Reading}
  <2>1. Reading \in SUBSET Mutations /\ Reading' = Reading
    BY <1>1 DEF Reading
  <2>2. UNION {IdsOf(making[m].has) : m \in Reading} \in SUBSET Mutations
    <3>1. \A m \in Reading : IdsOf(making[m].has) \subseteq Mutations
      BY <1>2, <2>1, HandIs
    <3> QED BY <3>1
  <2>3. OfflineTypes'
    BY <1>1, <1>2, <1>4, <1>6, <2>1, <2>2 DEF OfflineTypes
  <2>4. /\ Syncing' /\ sync'.todo = stored /\ sync'.left = <<>> /\ sync'.done = {}
        /\ IdsOf(stored)' = IdsOf(stored) /\ Distinct(stored)' = Distinct(stored)
    BY <1>1, <1>4, <1>6 DEF Syncing, IdsOf, Distinct
  <2>5. Taken' = IdsOf(stored) /\ Taken = {}
    BY <1>1, <1>3, <2>4, EmptyIds DEF Taken
  <2>6. ArraysInOrder'
    BY <1>1, <1>2, <2>1, <2>4, EmptyIds DEF ArraysInOrder
  <2>7. \A n \in Mutations : /\ Copied(n)' <=> Copied(n)
                             /\ Copied(n) => n \in doubled'
    <3> SUFFICES ASSUME NEW n \in Mutations PROVE (Copied(n)' <=> Copied(n)) /\ (Copied(n) => n \in doubled')
      OBVIOUS
    <3>1. Copied(n)' <=> Copied(n)
      BY <1>1 DEF Copied
    <3>2. ASSUME Copied(n) PROVE n \in doubled'
      <4>1. PICK o \in Mutations : n \in IdsOf(making[o].has)
        BY <3>2 DEF Copied
      <4>2. o \in Reading
        BY <1>2, <4>1, EmptyIds DEF ArraysInOrder
      <4> QED BY <1>6, <4>1, <4>2
    <3> QED BY <3>1, <3>2
  <2>8. UnqueuedNowhere'
    <3> SUFFICES ASSUME NEW n \in Mutations, making'[n].at \in {"new", "adding", "lost"}
                 PROVE  n \notin (IdsOf(stored) \cup Taken)' /\ ~Copied(n)' /\ onServer'[n] <= blind'[n]
      BY DEF UnqueuedNowhere
    <3> QED BY <1>1, <1>2, <2>4, <2>5, <2>7 DEF UnqueuedNowhere
  <2>9. QueuedEverywhere'
    <3> SUFFICES ASSUME NEW n \in Mutations \ raced'
                 PROVE  /\ making'[n].at \in {"made", "removing"} /\ n \notin settled' =>
                             /\ n \in IdsOf(stored)' /\ (Syncing' => n \in Taken')
                             /\ \A o \in Reading' : n \in IdsOf(making'[o].has)
                        /\ n \in Reading' => ~Syncing' /\ \A o \in Reading' : o = n
      BY DEF QueuedEverywhere, IdsOf
    <3>1. n \in Mutations \ raced /\ n \notin Reading'
      BY <1>6, <2>1
    <3> QED BY <1>1, <1>2, <2>1, <2>4, <2>5, <3>1 DEF QueuedEverywhere
  <2>10. AppliedAccounts'
    <3> SUFFICES ASSUME NEW n \in Mutations \ doubled'
                 PROVE  /\ onServer'[n] <= blind'[n] + 1
                        /\ Owed(n)' => onServer'[n] <= blind'[n]
                        /\ Copied(n)' => ~Syncing'
      BY DEF AppliedAccounts
    <3>1. n \in Mutations \ doubled /\ ~Copied(n)'
      BY <1>6, <2>7
    <3>2. Owed(n)' => n \in IdsOf(stored)
      BY <2>4, <2>5, <3>1, EmptyIds DEF Owed
    <3>3. Owed(n)' => Owed(n)
      BY <2>5, <3>2 DEF Owed
    <3> QED BY <1>1, <1>2, <3>1, <3>3 DEF AppliedAccounts
  <2> QED BY <2>3, <2>6, <2>8, <2>9, <2>10 DEF OfflineInv
<1> QED BY <1>1, <1>5, <1>6

\* One entry of the sync is done, or kept and owes the backend nothing.
LEMMA EntryDone ==
    ASSUME OfflineInv, Syncing, sync.todo # <<>>,
           UNCHANGED <<stored, making, online, settled, raced, doubled, mishaps>>,
           onServer' \in [Mutations -> Nat], blind' \in [Mutations -> Nat],
           \A m \in Mutations \ {Entry.id} : onServer'[m] = onServer[m] /\ blind'[m] = blind[m],
           Entry.id \notin doubled => onServer'[Entry.id] <= blind'[Entry.id] + 1,
           \/ Done_
           \/ /\ \E e \in MutEntries : e.id = Entry.id /\ Kept(e)
              /\ Entry.id \notin doubled => onServer'[Entry.id] <= blind'[Entry.id]
    PROVE  OfflineInv'
<1> DEFINE x == Entry.id
<1>1. OfflineTypes /\ ArraysInOrder /\ UnqueuedNowhere /\ QueuedEverywhere /\ AppliedAccounts
  BY DEF OfflineInv
<1>2. sync \in Syncs /\ sync.todo \in Seq(MutEntries) /\ sync.left \in Seq(MutEntries) /\ sync.done \in SUBSET Mutations
  BY <1>1 DEF OfflineTypes, Syncs
<1>3. /\ Tail(sync.todo) \in Seq(MutEntries) /\ x \in Mutations /\ x \in IdsOf(sync.todo)
      /\ Distinct(Tail(sync.todo)) /\ IdsOf(Tail(sync.todo)) = IdsOf(sync.todo) \ {x}
  BY <1>1, <1>2, TailIds DEF Entry, ArraysInOrder
<1> HIDE DEF x
<1>4. x \notin IdsOf(sync.left) /\ Distinct(sync.left)
  BY <1>1, <1>3 DEF ArraysInOrder
<1>5. PICK q \in Seq(MutEntries), d \in SUBSET Mutations :
        /\ sync' = [sync EXCEPT !.at = "asking", !.todo = Tail(@), !.left = q, !.done = d]
        /\ Distinct(q)
        /\ \/ q = sync.left /\ d = sync.done \cup {x}
           \/ /\ IdsOf(q) = IdsOf(sync.left) \cup {x} /\ d = sync.done
              /\ x \notin doubled => onServer'[x] <= blind'[x]
  <2>1. CASE Done_
    <3>1. sync' = [sync EXCEPT !.at = "asking", !.todo = Tail(@), !.done = @ \cup {x}]
      BY <2>1 DEF Done_, x
    <3>2. sync' = [sync EXCEPT !.at = "asking", !.todo = Tail(@), !.left = sync.left, !.done = sync.done \cup {x}]
      BY <1>2, <3>1 DEF Syncs
    <3> QED BY <1>2, <1>3, <1>4, <3>2
  <2>2. CASE /\ \E e \in MutEntries : e.id = Entry.id /\ Kept(e)
             /\ Entry.id \notin doubled => onServer'[Entry.id] <= blind'[Entry.id]
    <3>1. PICK e \in MutEntries : e.id = x /\ Kept(e)
      BY <2>2 DEF x
    <3>2. /\ Append(sync.left, e) \in Seq(MutEntries)
          /\ IdsOf(Append(sync.left, e)) = IdsOf(sync.left) \cup {x}
          /\ Distinct(Append(sync.left, e))
      BY <1>2, <1>4, <3>1, AppendIds
    <3>3. sync' = [sync EXCEPT !.at = "asking", !.todo = Tail(@), !.left = Append(sync.left, e), !.done = sync.done]
      BY <1>2, <3>1 DEF Kept, Syncs
    <3> QED BY <1>2, <2>2, <3>2, <3>3 DEF x
  <2> QED BY <2>1, <2>2
<1>6. sync'.at = "asking" /\ sync'.todo = Tail(sync.todo) /\ sync'.left = q /\ sync'.done = d /\ sync' \in Syncs
  BY <1>2, <1>3, <1>5 DEF Syncs
<1>7. OfflineTypes'
  BY <1>1, <1>6 DEF OfflineTypes
<1>8. Syncing' /\ Reading' = Reading /\ IdsOf(stored)' = IdsOf(stored) /\ Distinct(stored)' = Distinct(stored)
  BY <1>6 DEF Syncing, Reading, IdsOf, Distinct
<1>9. Taken' = Taken
  <2>1. Taken' = IdsOf(Tail(sync.todo)) \cup IdsOf(q) \cup d
    BY <1>6 DEF Taken
  <2> QED BY <1>3, <1>5, <2>1 DEF Taken
<1>10. IdsOf(Tail(sync.todo)) \cap IdsOf(q) = {}
  BY <1>1, <1>3, <1>5 DEF ArraysInOrder
<1>11. ArraysInOrder'
  BY <1>1, <1>3, <1>5, <1>6, <1>8, <1>10 DEF ArraysInOrder
<1>12. \A n \in Mutations : Copied(n)' <=> Copied(n)
  BY DEF Copied
<1>13. x \in Taken
  BY <1>3 DEF Taken
<1>14. UnqueuedNowhere'
  <2> SUFFICES ASSUME NEW n \in Mutations, making'[n].at \in {"new", "adding", "lost"}
               PROVE  n \notin (IdsOf(stored) \cup Taken)' /\ ~Copied(n)' /\ onServer'[n] <= blind'[n]
    BY DEF UnqueuedNowhere
  <2>1. n \notin IdsOf(stored) \cup Taken /\ ~Copied(n) /\ onServer[n] <= blind[n]
    BY <1>1 DEF UnqueuedNowhere
  <2> QED BY <1>8, <1>9, <1>12, <1>13, <2>1 DEF x
<1>15. QueuedEverywhere'
  <2> SUFFICES ASSUME NEW n \in Mutations \ raced'
               PROVE  /\ making'[n].at \in {"made", "removing"} /\ n \notin settled' =>
                           /\ n \in IdsOf(stored)' /\ (Syncing' => n \in Taken')
                           /\ \A o \in Reading' : n \in IdsOf(making'[o].has)
                      /\ n \in Reading' => ~Syncing' /\ \A o \in Reading' : o = n
    BY DEF QueuedEverywhere, IdsOf
  <2> QED BY <1>1, <1>8, <1>9 DEF QueuedEverywhere
<1>16. AppliedAccounts'
  <2> SUFFICES ASSUME NEW n \in Mutations \ doubled'
               PROVE  /\ onServer'[n] <= blind'[n] + 1
                      /\ Owed(n)' => onServer'[n] <= blind'[n]
                      /\ Copied(n)' => ~Syncing'
    BY DEF AppliedAccounts
  <2>1. /\ onServer[n] <= blind[n] + 1 /\ (Owed(n) => onServer[n] <= blind[n]) /\ ~Copied(n)
    BY <1>1 DEF AppliedAccounts
  <2>2. CASE n # x
    <3>1. Owed(n)' => Owed(n)
      BY <1>3, <1>5, <1>6, <1>8, <1>9, <1>12, <2>2 DEF Owed
    <3> QED BY <1>12, <2>1, <2>2, <3>1 DEF x
  <2>3. CASE n = x
    <3>1. Owed(n)' => x \in IdsOf(q)
      BY <1>3, <1>6, <1>8, <1>9, <1>12, <1>13, <2>1, <2>3 DEF Owed
    <3>2. x \in IdsOf(q) => onServer'[x] <= blind'[x]
      BY <1>4, <1>5, <2>3
    <3> QED BY <1>12, <2>1, <2>3, <3>1, <3>2 DEF x
  <2> QED BY <2>2, <2>3
<1> QED BY <1>7, <1>11, <1>14, <1>15, <1>16 DEF OfflineInv

\* The entry that is tried again keeps its id and stays below the limit.
LEMMA AgainIs ==
    ASSUME OfflineInv, sync.todo # <<>>, Again
    PROVE  Done_ \/ \E e \in MutEntries : e.id = Entry.id /\ Kept(e)
<1>1. Entry \in MutEntries
  BY TailIds DEF OfflineInv, OfflineTypes, Syncs, Entry
<1>2. CASE Entry.attempts + 1 >= MaxSyncAttempts
  BY <1>2 DEF Again
<1>3. CASE ~(Entry.attempts + 1 >= MaxSyncAttempts)
  <2> DEFINE e == [Entry EXCEPT !.attempts = @ + 1]
  <2>1. Kept(e)
    BY <1>3 DEF Again
  <2>2. e \in MutEntries /\ e.id = Entry.id
    BY <1>1, <1>3, OfflineAssumption DEF MutEntries
  <2> HIDE DEF e
  <2> QED BY <2>1, <2>2
<1> QED BY <1>2, <1>3

\* The entry at the head of a sync has been applied as often as nobody learned it.
LEMMA EntryKnown ==
    ASSUME OfflineInv, Syncing, sync.todo # <<>>
    PROVE  /\ Entry.id \in Mutations /\ onServer[Entry.id] \in Nat /\ blind[Entry.id] \in Nat
           /\ Entry.id \notin doubled => onServer[Entry.id] <= blind[Entry.id]
<1>1. Entry.id \in Mutations /\ Entry.id \in IdsOf(sync.todo)
  BY TailIds DEF OfflineInv, OfflineTypes, Syncs, Entry
<1>2. Entry.id \notin doubled => onServer[Entry.id] <= blind[Entry.id]
  BY <1>1 DEF OfflineInv, AppliedAccounts, Owed
<1> QED BY <1>1, <1>2 DEF OfflineInv, OfflineTypes

LEMMA AppliedKeeps ==
    ASSUME OfflineInv, Applied
    PROVE  OfflineInv'
<1> DEFINE x == Entry.id
<1>1. /\ Syncing /\ sync.todo # <<>> /\ onServer' = [onServer EXCEPT ![x] = @ + 1]
      /\ \/ Done_ /\ UNCHANGED blind
         \/ Again /\ blind' = [blind EXCEPT ![x] = @ + 1]
      /\ UNCHANGED <<stored, making, online, settled, raced, doubled, mishaps>>
  BY DEF Applied, Busy, Syncing
<1>2. /\ x \in Mutations /\ onServer[x] \in Nat /\ blind[x] \in Nat
      /\ x \notin doubled => onServer[x] <= blind[x]
  BY <1>1, EntryKnown
<1>3. onServer \in [Mutations -> Nat] /\ blind \in [Mutations -> Nat]
  BY DEF OfflineInv, OfflineTypes
<1> HIDE DEF x
<1>4. /\ onServer' \in [Mutations -> Nat] /\ onServer'[x] = onServer[x] + 1
      /\ \A m \in Mutations \ {x} : onServer'[m] = onServer[m]
  BY <1>1, <1>2, <1>3
<1>5. /\ blind' \in [Mutations -> Nat] /\ blind'[x] \in {blind[x], blind[x] + 1}
      /\ \A m \in Mutations \ {x} : blind'[m] = blind[m]
  BY <1>1, <1>2, <1>3
<1>6. x \notin doubled => onServer'[x] <= blind'[x] + 1
  BY <1>2, <1>4, <1>5
<1>7. \/ Done_
      \/ /\ \E e \in MutEntries : e.id = Entry.id /\ Kept(e)
         /\ x \notin doubled => onServer'[x] <= blind'[x]
  <2>1. CASE Again /\ blind' = [blind EXCEPT ![x] = @ + 1]
    <3>1. blind'[x] = blind[x] + 1
      BY <1>2, <1>3, <2>1
    <3>2. x \notin doubled => onServer'[x] <= blind'[x]
      BY <1>2, <1>4, <3>1
    <3> QED BY <1>1, <2>1, <3>2, AgainIs
  <2> QED BY <1>1, <2>1
<1> QED BY <1>1, <1>4, <1>5, <1>6, <1>7, EntryDone DEF x

LEMMA RefusedKeeps ==
    ASSUME OfflineInv, Refused
    PROVE  OfflineInv'
<1>1. /\ Syncing /\ sync.todo # <<>> /\ Again
      /\ UNCHANGED <<stored, making, online, onServer, blind, settled, raced, doubled, mishaps>>
  BY DEF Refused, Busy, Syncing
<1>2. /\ onServer[Entry.id] \in Nat /\ blind[Entry.id] \in Nat
      /\ Entry.id \notin doubled => onServer[Entry.id] <= blind[Entry.id]
  BY <1>1, EntryKnown
<1>3. Entry.id \notin doubled =>
        onServer'[Entry.id] <= blind'[Entry.id] + 1 /\ onServer'[Entry.id] <= blind'[Entry.id]
  BY <1>1, <1>2
<1>4. onServer' \in [Mutations -> Nat] /\ blind' \in [Mutations -> Nat]
  BY <1>1 DEF OfflineInv, OfflineTypes
<1> QED BY <1>1, <1>3, <1>4, AgainIs, EntryDone

LEMMA ConflictKeeps ==
    ASSUME OfflineInv, Conflict
    PROVE  OfflineInv'
<1>1. /\ sync.at = "asking" /\ Syncing /\ sync.todo # <<>>
      /\ Done_ \/ sync' = [sync EXCEPT !.at = "retrying"]
      /\ UNCHANGED <<stored, making, online, onServer, blind, settled, raced, doubled, mishaps>>
  BY DEF Conflict, Busy, Syncing
<1>2. CASE Done_
  <2>1. /\ onServer[Entry.id] \in Nat /\ blind[Entry.id] \in Nat
        /\ Entry.id \notin doubled => onServer[Entry.id] <= blind[Entry.id]
    BY <1>1, EntryKnown
  <2>2. Entry.id \notin doubled => onServer'[Entry.id] <= blind'[Entry.id] + 1
    BY <1>1, <2>1
  <2>3. onServer' \in [Mutations -> Nat] /\ blind' \in [Mutations -> Nat]
    BY <1>1 DEF OfflineInv, OfflineTypes
  <2> QED BY <1>1, <1>2, <2>2, <2>3, EntryDone
<1>3. CASE sync' = [sync EXCEPT !.at = "retrying"]
  <2>1. sync \in Syncs
    BY DEF OfflineInv, OfflineTypes
  <2>2. /\ sync' \in Syncs /\ sync'.at = "retrying"
        /\ sync'.todo = sync.todo /\ sync'.left = sync.left /\ sync'.done = sync.done
    BY <1>3, <2>1 DEF Syncs
  <2>3. Syncing' <=> Syncing
    BY <1>1, <2>2 DEF Syncing
  <2>4. OfflineTypes'
    BY <1>1, <2>2 DEF OfflineInv, OfflineTypes
  <2> QED BY <1>1, <2>2, <2>3, <2>4, SameArrays
<1> QED BY <1>1, <1>2, <1>3

LEMMA SyncWritesKeeps ==
    ASSUME OfflineInv, SyncWrites
    PROVE  OfflineInv'
<1>1. /\ Syncing /\ sync.todo = <<>> /\ stored' = sync.left /\ sync' = NoSync
      /\ settled' = settled \cup sync.done
      /\ UNCHANGED <<making, online, onServer, blind, raced, doubled, mishaps>>
  BY DEF SyncWrites, AllAsked, Syncing
<1>2. OfflineTypes /\ ArraysInOrder /\ UnqueuedNowhere /\ QueuedEverywhere /\ AppliedAccounts
  BY DEF OfflineInv
<1>3. sync' \in Syncs /\ ~Syncing' /\ sync'.todo = <<>> /\ sync'.left = <<>> /\ sync'.done = {}
  <2>1. NoSync = [NoSync EXCEPT !.at = "idle"]
    BY DEF NoSync
  <2>2. sync' \in Syncs /\ sync'.at = "idle" /\ sync'.todo = <<>> /\ sync'.left = <<>> /\ sync'.done = {}
    BY <1>1, <2>1, NoSyncIs
  <2> QED BY <2>2 DEF Syncing
<1>4. OfflineTypes'
  BY <1>1, <1>2, <1>3 DEF OfflineTypes, Syncs
<1>5. Reading' = Reading /\ Reading \in SUBSET Mutations
  BY <1>1 DEF Reading
<1>6. /\ Taken = IdsOf(sync.left) \cup sync.done /\ Taken' = {} /\ IdsOf(stored)' = IdsOf(sync.left)
      /\ Distinct(stored)' = Distinct(sync.left)
  BY <1>1, <1>3, EmptyIds DEF Taken, IdsOf, Distinct
<1>7. \A n \in Mutations : Copied(n)' <=> Copied(n)
  BY <1>1 DEF Copied
<1>8. ArraysInOrder'
  BY <1>1, <1>2, <1>3, <1>5, <1>6, EmptyIds DEF ArraysInOrder
<1>9. UnqueuedNowhere'
  <2> SUFFICES ASSUME NEW n \in Mutations, making'[n].at \in {"new", "adding", "lost"}
               PROVE  n \notin (IdsOf(stored) \cup Taken)' /\ ~Copied(n)' /\ onServer'[n] <= blind'[n]
    BY DEF UnqueuedNowhere
  <2> QED BY <1>1, <1>2, <1>6, <1>7 DEF UnqueuedNowhere
<1>10. QueuedEverywhere'
  <2> SUFFICES ASSUME NEW n \in Mutations \ raced'
               PROVE  /\ making'[n].at \in {"made", "removing"} /\ n \notin settled' =>
                           /\ n \in IdsOf(stored)' /\ (Syncing' => n \in Taken')
                           /\ \A o \in Reading' : n \in IdsOf(making'[o].has)
                      /\ n \in Reading' => ~Syncing' /\ \A o \in Reading' : o = n
    BY DEF QueuedEverywhere, IdsOf
  <2> QED BY <1>1, <1>2, <1>3, <1>5, <1>6 DEF QueuedEverywhere
<1>11. AppliedAccounts'
  <2> SUFFICES ASSUME NEW n \in Mutations \ doubled'
               PROVE  /\ onServer'[n] <= blind'[n] + 1
                      /\ Owed(n)' => onServer'[n] <= blind'[n]
                      /\ Copied(n)' => ~Syncing'
    BY DEF AppliedAccounts
  <2>1. Owed(n)' => Owed(n)
    BY <1>3, <1>6, <1>7, EmptyIds DEF Owed
  <2> QED BY <1>1, <1>2, <1>3, <1>7, <2>1 DEF AppliedAccounts
<1> QED BY <1>4, <1>8, <1>9, <1>10, <1>11 DEF OfflineInv

\* Every action keeps the invariant.
LEMMA OfflineInvStep ==
    OfflineInv /\ [OfflineNext]_offlineVars => OfflineInv'
<1> SUFFICES ASSUME OfflineInv, [OfflineNext]_offlineVars PROVE OfflineInv'
  OBVIOUS
<1>1. ASSUME NEW m \in Mutations, EnqueueReads(m) PROVE OfflineInv'
  BY <1>1, ReadsKeeps DEF EnqueueReads
<1>2. ASSUME NEW m \in Mutations, EnqueueWrites(m) PROVE OfflineInv'
  BY <1>2, EnqueueWritesKeeps
<1>3. ASSUME NEW m \in Mutations, DequeueReads(m) PROVE OfflineInv'
  BY <1>3, ReadsKeeps DEF DequeueReads
<1>4. ASSUME NEW m \in Mutations, DequeueWrites(m) PROVE OfflineInv'
  BY <1>4, DequeueWritesKeeps
<1>5. ASSUME NEW m \in Mutations, WriteRejects(m) PROVE OfflineInv'
  BY <1>5, WriteRejectsKeeps
<1>6. CASE Online \/ Offline
  BY <1>6, ConnectivityKeeps
<1>7. CASE SyncStep
  BY <1>7, SyncReadsKeeps, AppliedKeeps, RefusedKeeps, ConflictKeeps, SyncWritesKeeps DEF SyncStep
<1>8. CASE SyncRejects
  BY <1>8, SyncRejectsKeeps
<1>9. CASE Kill
  BY <1>9, KillKeeps
<1>10. CASE UNCHANGED offlineVars
  <2>1. /\ UNCHANGED <<stored, making, online, sync, onServer, blind, settled, raced, doubled, mishaps>>
    BY <1>10 DEF offlineVars
  <2>2. OfflineTypes' /\ (Syncing' <=> Syncing)
    BY <2>1 DEF OfflineInv, OfflineTypes, Syncing
  <2> QED BY <2>1, <2>2, SameArrays
<1> QED BY <1>1, <1>2, <1>3, <1>4, <1>5, <1>6, <1>7, <1>8, <1>9, <1>10 DEF OfflineNext

LEMMA OfflineInvKeeps ==
    OfflineInv => OfflineWritesKept
<1> SUFFICES ASSUME OfflineInv PROVE OfflineWritesKept
  OBVIOUS
<1>1. OfflineTypes /\ QueuedEverywhere /\ AppliedAccounts
  BY DEF OfflineInv
<1>2. \A i \in DOMAIN stored : stored[i] \in MutEntries
  BY <1>1 DEF OfflineTypes
<1>3. \A m \in Mutations : making[m] \in Hands
  BY <1>1 DEF OfflineTypes
<1>4. OfflineTypeOK
  BY <1>1, <1>2, <1>3 DEF OfflineTypeOK, OfflineTypes, MutEntries, Hands, Syncs
<1>5. QueuedKept
  BY <1>1 DEF QueuedKept, QueuedEverywhere
<1>6. AppliedOnceUnlessBlind
  BY <1>1 DEF AppliedOnceUnlessBlind, AppliedAccounts
<1> QED BY <1>4, <1>5, <1>6 DEF OfflineWritesKept

\* What the user was told is queued stays in the array until it is synced, dropped or removed, and
\* the backend applies it once, and once more per answer that was lost or sync that ended before it
\* wrote the array, through killed apps and rejected writes; only a mutation whose own enqueue or
\* dequeue overlapped another read-modify-write may be missing, and only one such a caller had read
\* while a sync had it may come back (offline.ts:138-175, 235-300), for any number of mutations,
\* attempts and mishaps.
THEOREM OfflineWritesAreKept == OfflineSpec => []OfflineWritesKept
<1>1. OfflineInit => OfflineInv
  BY OfflineInvInit
<1>2. OfflineInv /\ [OfflineNext]_offlineVars => OfflineInv'
  BY OfflineInvStep
<1>3. OfflineInv => OfflineWritesKept
  BY OfflineInvKeeps
<1> QED BY <1>1, <1>2, <1>3, PTL DEF OfflineSpec

-----------------------------------------------------------------------------
(* The event feeds. *)

PollRecord == [state : {"idle", "asked", "answered"}, from : Nat, page : Seq(Events)]

FeedTypes ==
  /\ FeedTypeOK /\ poll \in [Polls -> PollRecord]
  /\ seen \in Seq(Events) /\ handled \in Seq(Events)

\* The node shows whole ledgers
WholeLedgers == chain \in 1 .. Len(LedgerOf) - 1 => LedgerOf[chain] # LedgerOf[chain + 1]

\* A page holds the events from its start ledger on, in order and without a gap
PageWhole(r) ==
  /\ Ascending(r.page)
  /\ \A i \in DOMAIN r.page : LedgerOf[r.page[i]] >= r.from /\ r.page[i] <= chain
  /\ \A e \in Events : r.page # <<>> /\ LedgerOf[e] >= r.from /\ e <= r.page[Len(r.page)]
       => InSeq(e, r.page)

\* An event the feed may be past
Met(e) == InSeq(e, handled) \/ LedgerOf[e] \in cut \/ e \in unreadable
MetBefore(n) == \A e \in Events : LedgerOf[e] < n => Met(e)

PollsSound ==
  /\ MetBefore(lastLedger)
  /\ \A p \in Polls : poll[p].state # "idle" => MetBefore(poll[p].from)
  /\ \A p \in Polls : poll[p].state = "answered" => PageWhole(poll[p])

\* What was handled is remembered or was evicted, and what lies before it was met
Remembers ==
  /\ \A i \in DOMAIN seen : InSeq(seen[i], handled)
  /\ \A i \in DOMAIN handled : InSeq(handled[i], seen) \/ handled[i] \in evicted
  /\ \A e \in Events : \A i \in DOMAIN handled : e < handled[i] => Met(e)

\* A subscription has one poll, gives up after its failures and is late once
OneAtATime ==
  /\ ~stopped => reconnects <= MaxReconnects
  /\ kind = "listener" => reconnects = 0 /\ late = 0
  /\ kind = "subscribe" =>
       /\ \A p, q \in Polls : poll[p].state # "idle" /\ poll[q].state # "idle" => p = q
       /\ ~stopped => late = 0
       /\ late > 0 => \A p \in Polls : poll[p].state = "idle"
  /\ late <= 1

FeedInv == FeedTypes /\ WholeLedgers /\ PollsSound /\ Remembers /\ InOrderOnce /\ OneAtATime

LEMMA FeedLedgers ==
    /\ Len(LedgerOf) \in Nat /\ Events = 1 .. Len(LedgerOf) /\ Events \subseteq Nat
    /\ \A e \in Events : LedgerOf[e] \in Nat /\ LedgerOf[e] > 0
    /\ \A d, e \in Events : d <= e => LedgerOf[d] <= LedgerOf[e]
<1>1. Len(LedgerOf) \in Nat /\ Events = 1 .. Len(LedgerOf) /\ Events \subseteq Nat
  BY FeedAssumption DEF Events
<1>2. \A e \in Events : LedgerOf[e] \in Nat /\ LedgerOf[e] > 0
  BY FeedAssumption DEF Events
<1> QED BY <1>1, <1>2, FeedAssumption

\* The page the node returns.
LEMMA ServedIs ==
    ASSUME NEW from \in Nat, chain \in 0 .. Len(LedgerOf), NEW r, r.page = Page(from), r.from = from
    PROVE  Page(from) \in Seq(Events) /\ Len(Page(from)) <= PageLimit /\ PageWhole(r)
<1> DEFINE p == Page(from)
           id == [e \in 1 .. chain |-> e]
           J == {e \in 1 .. chain : LedgerOf[e] >= from}
           all == Filtered(id, J)
           n == IF Len(all) < PageLimit THEN Len(all) ELSE PageLimit
<1>1. 1 .. chain \subseteq Events /\ chain \in Nat
  BY FeedLedgers
<1>2. id \in Seq(Events) /\ DOMAIN id = 1 .. chain /\ Ascending(id) /\ \A e \in 1 .. chain : id[e] = e
  BY <1>1 DEF Ascending
<1>3. /\ all \in Seq(Events) /\ Ascending(all)
      /\ \A j \in DOMAIN all : \E i \in J : all[j] = id[i]
      /\ \A i \in J : InSeq(id[i], all)
  <2>1. J \in SUBSET DOMAIN id
    BY <1>2
  <2> HIDE DEF id, J
  <2> QED BY <1>2, <2>1, ChosenIs, FeedLedgers
<1>4. p = SubSeq(all, 1, n)
  BY DEF Page, From
<1>5. (\A j \in DOMAIN all : all[j] \in J) /\ \A e \in J : InSeq(e, all)
  BY <1>2, <1>3
<1> HIDE DEF all, id, p
<1>6. DOMAIN all = 1 .. Len(all) /\ Len(all) \in Nat
  BY <1>3
<1>7. n \in 0 .. Len(all) /\ n <= PageLimit
  BY <1>6, FeedAssumption
<1> HIDE DEF n
<1>8. p \in Seq(Events) /\ Len(p) = n /\ DOMAIN p = 1 .. n /\ \A i \in 1 .. n : p[i] = all[i]
  BY <1>3, <1>4, <1>6, <1>7
<1>9. Ascending(p)
  BY <1>3, <1>6, <1>7, <1>8 DEF Ascending
<1>10. \A i \in DOMAIN p : LedgerOf[p[i]] >= from /\ p[i] <= chain
  BY <1>1, <1>5, <1>6, <1>7, <1>8
<1>11. ASSUME NEW e \in Events, p # <<>>, LedgerOf[e] >= from, e <= p[Len(p)]
       PROVE  InSeq(e, p)
  <2>1. n > 0 /\ n \in DOMAIN p /\ n \in DOMAIN all /\ p[n] = all[n]
    BY <1>6, <1>7, <1>8, <1>11
  <2>2. p[n] \in J /\ p[n] \in Nat /\ e \in Nat /\ e > 0
    BY <1>1, <1>5, <2>1, FeedLedgers
  <2>3. e \in J
    BY <1>1, <1>8, <1>11, <2>2
  <2>4. PICK k \in DOMAIN all : all[k] = e
    BY <1>5, <2>3 DEF InSeq
  <2>5. k <= n
    <3>1. ~(n < k)
      <4>1. n < k => all[n] < all[k]
        BY <1>3, <2>1, <2>4 DEF Ascending
      <4> QED BY <1>8, <1>11, <2>1, <2>2, <2>4, <4>1
    <3> QED BY <1>6, <1>7, <2>4, <3>1
  <2>6. k \in 1 .. n
    BY <1>6, <2>4, <2>5
  <2> QED BY <1>8, <2>4, <2>6 DEF InSeq
<1> QED BY <1>7, <1>8, <1>9, <1>10, <1>11 DEF PageWhole, p

\* What is new of a page: its readable events that are not remembered, in order.
LEMMA FreshIs ==
    ASSUME NEW p \in Seq(Events), Ascending(p), seen \in Seq(Events)
    PROVE  /\ Fresh(p) \in Seq(Events) /\ Ascending(Fresh(p))
           /\ \A j \in DOMAIN Fresh(p) : /\ InSeq(Fresh(p)[j], p) /\ Fresh(p)[j] \notin unreadable
                                         /\ ~InSeq(Fresh(p)[j], seen)
           /\ \A e : InSeq(e, p) => InSeq(e, Fresh(p)) \/ e \in unreadable \/ InSeq(e, seen)
<1> DEFINE J == {i \in DOMAIN p : p[i] \notin unreadable /\ ~Contains(seen, p[i])}
           b == Fresh(p)
<1>1. /\ b \in Seq(Events) /\ Ascending(b)
      /\ \A j \in DOMAIN b : \E i \in J : b[j] = p[i]
      /\ \A i \in J : InSeq(p[i], b)
  <2>1. J \in SUBSET DOMAIN p /\ b = Filtered(p, J)
    BY DEF Fresh
  <2> HIDE DEF J, b
  <2> QED BY <2>1, ChosenIs, FeedLedgers
<1>2. \A e : Contains(seen, e) <=> InSeq(e, seen)
  <2>1. DOMAIN seen = 1 .. Len(seen)
    OBVIOUS
  <2> QED BY <2>1 DEF Contains, InSeq
<1> HIDE DEF b
<1>3. ASSUME NEW j \in DOMAIN b PROVE InSeq(b[j], p) /\ b[j] \notin unreadable /\ ~InSeq(b[j], seen)
  <2>1. PICK i \in J : b[j] = p[i]
    BY <1>1
  <2> QED BY <1>2, <2>1 DEF InSeq
<1>4. ASSUME NEW e, InSeq(e, p) PROVE InSeq(e, b) \/ e \in unreadable \/ InSeq(e, seen)
  <2>1. PICK i \in DOMAIN p : p[i] = e
    BY <1>4 DEF InSeq
  <2>2. CASE i \in J
    BY <1>1, <2>1, <2>2
  <2>3. CASE i \notin J
    BY <1>2, <2>1, <2>3
  <2> QED BY <2>2, <2>3
<1> QED BY <1>1, <1>3, <1>4 DEF b

\* A concatenation holds what its parts hold, the first part first.
LEMMA JoinIs ==
    ASSUME NEW S, NEW s \in Seq(S), NEW t \in Seq(S)
    PROVE  /\ s \o t \in Seq(S) /\ Len(s \o t) = Len(s) + Len(t)
           /\ \A i \in DOMAIN s : i \in DOMAIN (s \o t) /\ (s \o t)[i] = s[i]
           /\ \A i \in DOMAIN t : Len(s) + i \in DOMAIN (s \o t) /\ (s \o t)[Len(s) + i] = t[i]
           /\ \A i \in DOMAIN (s \o t) : i \in DOMAIN s \/ \E j \in DOMAIN t : i = Len(s) + j
           /\ \A e : InSeq(e, s \o t) <=> InSeq(e, s) \/ InSeq(e, t)
<1> DEFINE a == Len(s)  b == Len(t)  u == s \o t
<1>1. a \in Nat /\ b \in Nat /\ DOMAIN s = 1 .. a /\ DOMAIN t = 1 .. b
  OBVIOUS
<1>2. /\ u \in Seq(S) /\ Len(u) = a + b /\ DOMAIN u = 1 .. a + b
      /\ \A i \in 1 .. a : u[i] = s[i]
      /\ \A i \in a + 1 .. a + b : u[i] = t[i - a]
  OBVIOUS
<1> HIDE DEF a, b, u
<1>3. \A i \in DOMAIN s : i \in DOMAIN u /\ u[i] = s[i]
  BY <1>1, <1>2
<1>4. \A i \in DOMAIN t : a + i \in DOMAIN u /\ u[a + i] = t[i]
  <2> SUFFICES ASSUME NEW i \in 1 .. b PROVE a + i \in DOMAIN u /\ u[a + i] = t[i]
    BY <1>1
  <2>1. a + i \in a + 1 .. a + b /\ a + i \in 1 .. a + b /\ (a + i) - a = i
    BY <1>1
  <2> QED BY <1>2, <2>1
<1>5. \A i \in DOMAIN u : i \in DOMAIN s \/ \E j \in DOMAIN t : i = a + j
  <2> SUFFICES ASSUME NEW i \in 1 .. a + b, i \notin 1 .. a PROVE \E j \in 1 .. b : i = a + j
    BY <1>1, <1>2
  <2>1. i - a \in 1 .. b /\ i = a + (i - a)
    BY <1>1
  <2> QED BY <2>1
<1>6. \A e : InSeq(e, u) <=> InSeq(e, s) \/ InSeq(e, t)
  BY <1>3, <1>4, <1>5 DEF InSeq
<1> QED BY <1>2, <1>3, <1>4, <1>5, <1>6 DEF a, b, u

\* BoundedSeenSet.add: what is in the set and the batch is remembered or evicted.
LEMMA RememberIs ==
    ASSUME seen \in Seq(Events), IsInjective(seen), evicted \subseteq Events,
           NEW t \in Seq(Events), Ascending(t), \A i \in DOMAIN t : ~InSeq(t[i], seen), Remember(t)
    PROVE  /\ seen' \in Seq(Events) /\ Len(seen') <= MaxSeen /\ IsInjective(seen)'
           /\ evicted' \subseteq Events /\ evicted \subseteq evicted'
           /\ \A i \in DOMAIN seen' : InSeq(seen'[i], seen) \/ InSeq(seen'[i], t)
           /\ \A e : InSeq(e, seen) \/ InSeq(e, t) => InSeq(e, seen') \/ e \in evicted'
<1> DEFINE all == seen \o t
           drop == IF Len(all) > MaxSeen THEN Len(all) - MaxSeen ELSE 0
           n == Len(all) - drop
<1>1. /\ all \in Seq(Events) /\ Len(all) = Len(seen) + Len(t)
      /\ \A i \in DOMAIN seen : i \in DOMAIN all /\ all[i] = seen[i]
      /\ \A i \in DOMAIN t : Len(seen) + i \in DOMAIN all /\ all[Len(seen) + i] = t[i]
      /\ \A i \in DOMAIN all : i \in DOMAIN seen \/ \E j \in DOMAIN t : i = Len(seen) + j
      /\ \A e : InSeq(e, all) <=> InSeq(e, seen) \/ InSeq(e, t)
  BY JoinIs
<1>2. seen' = SubSeq(all, drop + 1, Len(all)) /\ evicted' = evicted \cup ToSet(SubSeq(all, 1, drop))
  BY DEF Remember
<1>3. /\ DOMAIN t = 1 .. Len(t) /\ Len(t) \in Nat /\ DOMAIN seen = 1 .. Len(seen) /\ Len(seen) \in Nat
      /\ \A i \in DOMAIN t : t[i] \in Nat
  BY FeedLedgers
<1>4. IsInjective(all)
  <2> SUFFICES ASSUME NEW i \in DOMAIN all, NEW j \in DOMAIN all, all[i] = all[j] PROVE i = j
    BY DEF IsInjective
  <2> HIDE DEF all
  <2>1. CASE i \in DOMAIN seen /\ j \in DOMAIN seen
    BY <1>1, <2>1 DEF IsInjective
  <2>2. CASE i \in DOMAIN seen /\ j \notin DOMAIN seen
    <3>1. PICK k \in DOMAIN t : j = Len(seen) + k
      BY <1>1, <2>2
    <3>2. InSeq(t[k], seen)
      BY <1>1, <2>2, <3>1 DEF InSeq
    <3> QED BY <3>2
  <2>3. CASE i \notin DOMAIN seen /\ j \in DOMAIN seen
    <3>1. PICK k \in DOMAIN t : i = Len(seen) + k
      BY <1>1, <2>3
    <3>2. InSeq(t[k], seen)
      BY <1>1, <2>3, <3>1 DEF InSeq
    <3> QED BY <3>2
  <2>4. CASE i \notin DOMAIN seen /\ j \notin DOMAIN seen
    <3>1. PICK k \in DOMAIN t : i = Len(seen) + k
      BY <1>1, <2>4
    <3>2. PICK m \in DOMAIN t : j = Len(seen) + m
      BY <1>1, <2>4
    <3>3. t[k] = t[m]
      BY <1>1, <3>1, <3>2
    <3>4. ~(k < m) /\ ~(m < k)
      BY <1>3, <3>3 DEF Ascending
    <3> QED BY <1>3, <3>1, <3>2, <3>4
  <2> QED BY <2>1, <2>2, <2>3, <2>4
<1> HIDE DEF all
<1>5. Len(all) \in Nat /\ DOMAIN all = 1 .. Len(all) /\ \A i \in DOMAIN all : all[i] \in Events
  BY <1>1
<1>6. drop \in 0 .. Len(all) /\ n \in 0 .. MaxSeen /\ n <= Len(all)
  BY <1>5, FeedAssumption
<1>7. n = Len(all) - drop
  OBVIOUS
<1> HIDE DEF drop, n
<1>8. /\ seen' \in Seq(Events) /\ Len(seen') = n /\ DOMAIN seen' = 1 .. n
      /\ \A i \in 1 .. n : seen'[i] = all[i + drop]
  <2>1. SubSeq(all, drop + 1, Len(all)) \in Seq(Events) /\ Len(SubSeq(all, drop + 1, Len(all))) = n
    BY <1>1, <1>5, <1>6, <1>7
  <2>2. \A i \in 1 .. n : SubSeq(all, drop + 1, Len(all))[i] = all[i + drop]
    BY <1>1, <1>5, <1>6, <1>7
  <2> QED BY <1>2, <2>1, <2>2
<1>9. \A i \in 1 .. n : i + drop \in DOMAIN all
  BY <1>5, <1>6, <1>7
<1>10. IsInjective(seen')
  <2> SUFFICES ASSUME NEW i \in 1 .. n, NEW j \in 1 .. n, seen'[i] = seen'[j] PROVE i = j
    BY <1>8 DEF IsInjective
  <2>1. i + drop = j + drop
    BY <1>4, <1>8, <1>9 DEF IsInjective
  <2> QED BY <1>6, <2>1
<1>11. ToSet(SubSeq(all, 1, drop)) = {all[i] : i \in 1 .. drop}
  <2>1. DOMAIN SubSeq(all, 1, drop) = 1 .. drop
    BY <1>1, <1>5, <1>6
  <2>2. \A i \in 1 .. drop : SubSeq(all, 1, drop)[i] = all[i]
    BY <1>1, <1>5, <1>6
  <2> QED BY <2>1, <2>2 DEF ToSet
<1>12. evicted' \subseteq Events /\ evicted \subseteq evicted'
  BY <1>2, <1>5, <1>6, <1>11
<1>13. \A i \in DOMAIN seen' : InSeq(seen'[i], seen) \/ InSeq(seen'[i], t)
  <2> SUFFICES ASSUME NEW i \in 1 .. n PROVE InSeq(seen'[i], all)
    BY <1>1, <1>8
  <2> QED BY <1>8, <1>9 DEF InSeq
<1>14. ASSUME NEW e, InSeq(e, seen) \/ InSeq(e, t) PROVE InSeq(e, seen') \/ e \in evicted'
  <2>1. PICK i \in DOMAIN all : all[i] = e
    BY <1>1, <1>14 DEF InSeq
  <2>2. CASE i \in 1 .. drop
    BY <1>2, <1>11, <2>1, <2>2
  <2>3. CASE i \notin 1 .. drop
    <3>1. i - drop \in 1 .. n /\ (i - drop) + drop = i
      BY <1>5, <1>6, <1>7, <2>3
    <3> QED BY <1>8, <2>1, <3>1 DEF InSeq
  <2> QED BY <2>2, <2>3
<1> QED BY <1>6, <1>8, <1>10, <1>12, <1>13, <1>14 DEF IsInjective


LEMMA HandledIs ==
    ASSUME handled \in Seq(Events), NEW t \in Seq(Events), handled' = handled \o t
    PROVE  /\ handled' \in Seq(Events)
           /\ \A i \in DOMAIN handled : i \in DOMAIN handled' /\ handled'[i] = handled[i]
           /\ \A i \in DOMAIN t : Len(handled) + i \in DOMAIN handled' /\ handled'[Len(handled) + i] = t[i]
           /\ \A i \in DOMAIN handled' : i \in DOMAIN handled \/ \E j \in DOMAIN t : i = Len(handled) + j
           /\ \A e : InSeq(e, handled') <=> InSeq(e, handled) \/ InSeq(e, t)
<1> DEFINE h == handled \o t
<1>1. /\ h \in Seq(Events)
      /\ \A i \in DOMAIN handled : i \in DOMAIN h /\ h[i] = handled[i]
      /\ \A i \in DOMAIN t : Len(handled) + i \in DOMAIN h /\ h[Len(handled) + i] = t[i]
      /\ \A i \in DOMAIN h : i \in DOMAIN handled \/ \E j \in DOMAIN t : i = Len(handled) + j
      /\ \A e : InSeq(e, h) <=> InSeq(e, handled) \/ InSeq(e, t)
  BY JoinIs
<1>2. handled' = h
  OBVIOUS
<1> HIDE DEF h
<1> QED BY <1>1, <1>2

\* The handler takes the first n new events of a page.
LEMMA TakenIs ==
    ASSUME FeedInv, NEW p \in Polls, poll[p].state = "answered",
           NEW n \in 1 .. Len(Fresh(poll[p].page)), NEW t, t = SubSeq(Fresh(poll[p].page), 1, n),
           Remember(t), handled' = handled \o t, cut \subseteq cut', UNCHANGED unreadable
    PROVE  /\ seen' \in Seq(Events) /\ handled' \in Seq(Events) /\ Len(seen') <= MaxSeen /\ IsInjective(seen)'
           /\ evicted' \subseteq Events /\ ToSet(t) \subseteq Events
           /\ Remembers' /\ InOrderOnce' /\ \A e \in Events : Met(e) => Met(e)'
           /\ \A e : InSeq(e, t) => InSeq(e, handled')
<1> DEFINE g == poll[p].page  b == Fresh(g)  f == poll[p].from
<1>1. /\ g \in Seq(Events) /\ f \in Nat /\ Ascending(g) /\ MetBefore(f)
      /\ \A i \in DOMAIN g : LedgerOf[g[i]] >= f
      /\ \A e \in Events : g # <<>> /\ LedgerOf[e] >= f /\ e <= g[Len(g)] => InSeq(e, g)
  BY DEF FeedInv, FeedTypes, PollRecord, PollsSound, PageWhole
<1>2. /\ seen \in Seq(Events) /\ handled \in Seq(Events) /\ IsInjective(seen) /\ evicted \subseteq Events
      /\ Remembers /\ InOrderOnce
  BY DEF FeedInv, FeedTypes, FeedTypeOK
<1>3. /\ b \in Seq(Events) /\ Ascending(b)
      /\ \A j \in DOMAIN b : InSeq(b[j], g) /\ b[j] \notin unreadable /\ ~InSeq(b[j], seen)
      /\ \A e : InSeq(e, g) => InSeq(e, b) \/ e \in unreadable \/ InSeq(e, seen)
  BY <1>1, <1>2, FreshIs
<1>4. t = SubSeq(b, 1, n) /\ n \in 1 .. Len(b)
  OBVIOUS
<1> HIDE DEF b, g, f
<1>5. /\ t \in Seq(Events) /\ Len(t) = n /\ DOMAIN t = 1 .. n /\ DOMAIN b = 1 .. Len(b) /\ Len(b) \in Nat
      /\ \A i \in 1 .. n : t[i] = b[i] /\ i \in DOMAIN b
  <2>1. Len(b) \in Nat /\ DOMAIN b = 1 .. Len(b) /\ n \in Nat /\ n <= Len(b)
    BY <1>3, <1>4
  <2> QED BY <1>3, <1>4, <2>1
<1>6. Ascending(t) /\ \A i \in DOMAIN t : /\ t[i] \in Events /\ InSeq(t[i], g)
                                          /\ t[i] \notin unreadable /\ ~InSeq(t[i], seen)
  <2>1. Ascending(t)
    BY <1>3, <1>5 DEF Ascending
  <2>2. \A i \in DOMAIN t : i \in DOMAIN b /\ t[i] = b[i]
    BY <1>5
  <2>3. \A i \in DOMAIN b : b[i] \in Events
    BY <1>3
  <2> QED BY <1>3, <2>1, <2>2, <2>3
<1>7. /\ seen' \in Seq(Events) /\ Len(seen') <= MaxSeen /\ IsInjective(seen)'
      /\ evicted' \subseteq Events /\ evicted \subseteq evicted'
      /\ \A i \in DOMAIN seen' : InSeq(seen'[i], seen) \/ InSeq(seen'[i], t)
      /\ \A e : InSeq(e, seen) \/ InSeq(e, t) => InSeq(e, seen') \/ e \in evicted'
  BY <1>2, <1>5, <1>6, RememberIs
<1>8. /\ handled' \in Seq(Events)
      /\ \A i \in DOMAIN handled : i \in DOMAIN handled' /\ handled'[i] = handled[i]
      /\ \A i \in DOMAIN t : Len(handled) + i \in DOMAIN handled' /\ handled'[Len(handled) + i] = t[i]
      /\ \A i \in DOMAIN handled' : i \in DOMAIN handled \/ \E j \in DOMAIN t : i = Len(handled) + j
      /\ \A e : InSeq(e, handled') <=> InSeq(e, handled) \/ InSeq(e, t)
  BY <1>2, <1>5, HandledIs
<1>9. \A e : Met(e) => InSeq(e, handled') \/ LedgerOf[e] \in cut' \/ e \in unreadable'
  BY <1>8 DEF Met
<1>10. /\ \A i \in DOMAIN seen' : InSeq(seen'[i], handled')
       /\ \A i \in DOMAIN handled' : InSeq(handled'[i], seen') \/ handled'[i] \in evicted'
  <2>1. \A e : InSeq(e, seen) => InSeq(e, handled)
    BY <1>2 DEF Remembers, InSeq
  <2>2. \A e : InSeq(e, handled) => InSeq(e, seen) \/ e \in evicted
    BY <1>2 DEF Remembers, InSeq
  <2>3. ASSUME NEW i \in DOMAIN handled' PROVE InSeq(handled'[i], seen') \/ handled'[i] \in evicted'
    <3>1. InSeq(handled'[i], handled')
      BY DEF InSeq
    <3> QED BY <1>7, <1>8, <2>2, <3>1
  <2> QED BY <1>7, <1>8, <2>1, <2>3
<1>11. ASSUME NEW e \in Events, NEW i \in DOMAIN handled', e < handled'[i]
       PROVE  InSeq(e, handled') \/ LedgerOf[e] \in cut' \/ e \in unreadable'
  <2>1. CASE i \in DOMAIN handled
    <3>1. Met(e)
      BY <1>2, <1>8, <1>11, <2>1 DEF Remembers
    <3> QED BY <1>9, <3>1
  <2>2. CASE i \notin DOMAIN handled
    <3>1. PICK k \in DOMAIN t : i = Len(handled) + k
      BY <1>8, <2>2
    <3>2. e < t[k] /\ t[k] = b[k] /\ k \in 1 .. n /\ k \in DOMAIN b
      BY <1>5, <1>8, <1>11, <3>1
    <3>3. CASE LedgerOf[e] < f
      <4>1. Met(e)
        BY <1>1, <3>3 DEF MetBefore
      <4> QED BY <1>9, <4>1
    <3>4. CASE LedgerOf[e] >= f
      <4>1. PICK m \in DOMAIN g : g[m] = t[k]
        BY <1>6 DEF InSeq
      <4>2. DOMAIN g = 1 .. Len(g) /\ Len(g) \in Nat /\ Len(g) \in DOMAIN g /\ g # <<>>
        BY <1>1, <4>1
      <4>3. g[m] \in Nat /\ g[Len(g)] \in Nat /\ e \in Nat
        <5>1. g[m] \in Events /\ g[Len(g)] \in Events
          BY <1>1, <4>2
        <5> QED BY <5>1, FeedLedgers
      <4>4. g[m] <= g[Len(g)]
        <5>1. m = Len(g) \/ m < Len(g)
          BY <4>2
        <5>2. m < Len(g) => g[m] < g[Len(g)]
          BY <1>1, <4>2 DEF Ascending
        <5> QED BY <4>3, <5>1, <5>2
      <4>5. InSeq(e, g)
        <5>1. e <= g[Len(g)]
          BY <3>2, <4>1, <4>3, <4>4
        <5> QED BY <1>1, <3>4, <4>2, <5>1
      <4>6. CASE e \in unreadable
        BY <4>6
      <4>7. CASE InSeq(e, seen)
        <5>1. InSeq(e, handled)
          BY <1>2, <4>7 DEF Remembers, InSeq
        <5> QED BY <1>8, <5>1
      <4>8. CASE InSeq(e, b)
        <5>1. PICK j \in DOMAIN b : b[j] = e
          BY <4>8 DEF InSeq
        <5>2. b[j] \in Nat /\ b[k] \in Nat /\ b[j] < b[k]
          BY <3>2, <4>1, <4>3, <5>1
        <5>3. ~(k < j) /\ j # k
          BY <1>3, <3>2, <5>1, <5>2 DEF Ascending
        <5>4. j \in 1 .. n
          BY <1>5, <3>2, <5>1, <5>3
        <5>5. InSeq(e, t)
          BY <1>5, <5>1, <5>4 DEF InSeq
        <5> QED BY <1>8, <5>5
      <4> QED BY <1>3, <4>5, <4>6, <4>7, <4>8
    <3>5. LedgerOf[e] \in Nat
      BY FeedLedgers
    <3> QED BY <1>1, <3>3, <3>4, <3>5
  <2> QED BY <2>1, <2>2
<1>12. Remembers'
  BY <1>10, <1>11 DEF Remembers, Met, Events
<1>13. ASSUME evicted' = {}, NEW i \in DOMAIN handled', NEW j \in DOMAIN handled', i < j
       PROVE  /\ handled'[i] # handled'[j]
              /\ handled'[i] < handled'[j] \/ LedgerOf[handled'[j]] \in cut'
  <2>1. evicted = {} /\ Len(handled) \in Nat /\ DOMAIN handled = 1 .. Len(handled)
    BY <1>2, <1>7, <1>13
  <2>2. CASE j \in DOMAIN handled
    <3>1. i \in DOMAIN handled
      <4>1. i \in Nat /\ i > 0
        BY <1>8
      <4> QED BY <1>13, <2>1, <2>2, <4>1
    <3> QED BY <1>2, <1>8, <1>13, <2>1, <2>2, <3>1 DEF InOrderOnce
  <2>3. CASE j \notin DOMAIN handled /\ i \in DOMAIN handled
    <3>1. PICK k \in DOMAIN t : j = Len(handled) + k
      BY <1>8, <2>3
    <3>2. handled'[j] = t[k] /\ handled'[i] = handled[i] /\ t[k] \in Nat /\ handled[i] \in Nat /\ t[k] \in Events
      <4>1. handled'[j] = t[k] /\ handled'[i] = handled[i]
        BY <1>8, <2>3, <3>1
      <4>2. t[k] \in Events /\ handled[i] \in Events
        BY <1>2, <1>6, <2>3
      <4> QED BY <4>1, <4>2, FeedLedgers
    <3>3. ~InSeq(t[k], handled)
      <4>1. ASSUME InSeq(t[k], handled) PROVE InSeq(t[k], seen)
        <5>1. PICK a \in DOMAIN handled : handled[a] = t[k]
          BY <4>1 DEF InSeq
        <5>2. InSeq(handled[a], seen)
          BY <1>2, <2>1 DEF Remembers
        <5> QED BY <5>1, <5>2
      <4> QED BY <1>6, <4>1
    <3>4. t[k] # handled[i]
      BY <2>3, <3>3 DEF InSeq
    <3>5. t[k] < handled[i] => LedgerOf[t[k]] \in cut
      BY <1>2, <1>6, <2>3, <3>2, <3>3 DEF Remembers, Met
    <3>6. handled[i] < t[k] \/ LedgerOf[t[k]] \in cut'
      BY <3>2, <3>4, <3>5
    <3> QED BY <3>2, <3>4, <3>6, Zenon
  <2>4. CASE j \notin DOMAIN handled /\ i \notin DOMAIN handled
    <3>1. PICK k \in DOMAIN t : j = Len(handled) + k
      BY <1>8, <2>4
    <3>2. PICK m \in DOMAIN t : i = Len(handled) + m
      BY <1>8, <2>4
    <3>3. m < k /\ handled'[j] = t[k] /\ handled'[i] = t[m]
      <4>1. handled'[j] = t[k] /\ handled'[i] = t[m]
        BY <1>8, <3>1, <3>2
      <4>2. m < k
        BY <1>5, <1>13, <2>1, <3>1, <3>2
      <4> QED BY <4>1, <4>2
    <3>4. t[m] < t[k] /\ t[m] \in Nat /\ t[k] \in Nat
      <4>1. t[m] < t[k] /\ t[m] \in Events /\ t[k] \in Events
        BY <1>6, <3>3 DEF Ascending
      <4> QED BY <4>1, FeedLedgers
    <3>5. t[m] # t[k]
      BY <3>4
    <3> QED BY <3>3, <3>4, <3>5, Zenon
  <2> QED BY <2>2, <2>3, <2>4
<1>14. InOrderOnce'
  BY <1>13 DEF InOrderOnce
<1>15. ToSet(t) \subseteq Events
  BY <1>5, <1>6 DEF ToSet
<1>16. \A e \in Events : Met(e) => Met(e)'
  BY <1>9 DEF Met
<1> QED BY <1>7, <1>8, <1>12, <1>14, <1>15, <1>16


feedHistory == <<handled, seen, evicted, cut, thrown, unreadable, kind>>

LEMMA HistoryKept ==
    ASSUME FeedInv, UNCHANGED feedHistory
    PROVE  Remembers' /\ InOrderOnce' /\ \A e \in Events : Met(e) => Met(e)'
<1>1. UNCHANGED <<handled, seen, evicted, cut, unreadable>>
  BY DEF feedHistory
<1>2. \A e \in Events : Met(e) => Met(e)'
  BY <1>1 DEF Met
<1>3. Remembers'
  BY <1>1 DEF FeedInv, Remembers, Met, Events
<1>4. InOrderOnce'
  BY <1>1 DEF FeedInv, InOrderOnce
<1> QED BY <1>2, <1>3, <1>4

\* What a step with one poll's record does to the polls.
LEMMA PollMoves ==
    ASSUME FeedInv, NEW p \in Polls, NEW r \in PollRecord, poll' = [poll EXCEPT ![p] = r],
           Len(r.page) <= PageLimit, chain' = chain, lastLedger' \in Nat,
           \A e \in Events : Met(e) => Met(e)', MetBefore(lastLedger)',
           r.state # "idle" => MetBefore(r.from), r.state = "answered" => PageWhole(r)
    PROVE  /\ poll' \in [Polls -> PollRecord] /\ PollsSound' /\ WholeLedgers'
           /\ poll'[p] = r /\ \A q \in Polls \ {p} : poll'[q] = poll[q]
           /\ \A q \in Polls : /\ poll'[q].state \in {"idle", "asked", "answered"}
                               /\ poll'[q].page \in Seq(Events) /\ Len(poll'[q].page) <= PageLimit
<1>1. poll \in [Polls -> PollRecord] /\ PollsSound /\ WholeLedgers /\ \A q \in Polls : Len(poll[q].page) <= PageLimit
  BY DEF FeedInv, FeedTypes, FeedTypeOK
<1>2. /\ poll' \in [Polls -> PollRecord] /\ poll'[p] = r
      /\ \A q \in Polls \ {p} : poll'[q] = poll[q]
  BY <1>1
<1>3. \A q \in Polls : /\ poll'[q].state \in {"idle", "asked", "answered"}
                       /\ poll'[q].page \in Seq(Events) /\ Len(poll'[q].page) <= PageLimit
  BY <1>1, <1>2 DEF PollRecord
<1>4. WholeLedgers'
  BY <1>1 DEF WholeLedgers
<1>5. \A q \in Polls : poll'[q].state # "idle" => MetBefore(poll'[q].from)
  BY <1>1, <1>2 DEF PollsSound
<1>6. \A q \in Polls : poll'[q].state # "idle" => MetBefore(poll[q].from)'
  BY <1>5 DEF MetBefore, Events
<1>7. \A q \in Polls : poll'[q].state = "answered" => PageWhole(poll'[q])
  BY <1>1, <1>2 DEF PollsSound
<1>8. \A q \in Polls : poll'[q].state = "answered" => PageWhole(poll[q])'
  BY <1>7 DEF PageWhole, Events, Ascending, InSeq
<1>9. PollsSound'
  BY <1>6, <1>8 DEF PollsSound
<1> QED BY <1>2, <1>3, <1>4, <1>9

NoPollIs == /\ NoPoll \in PollRecord /\ NoPoll.state = "idle" /\ NoPoll.from = 0 /\ Len(NoPoll.page) = 0

LEMMA NoPollFacts == NoPollIs
  BY DEF NoPollIs, NoPoll, PollRecord

LEMMA FeedInvInit == FeedInit => FeedInv
<1> SUFFICES ASSUME FeedInit PROVE FeedInv
  OBVIOUS
<1>1. poll = [p \in Polls |-> NoPoll] /\ NoPollIs
  BY NoPollFacts DEF FeedInit
<1>2. \A p \in Polls : poll[p] = NoPoll /\ poll[p].state = "idle" /\ poll[p].page \in Seq(Events) /\ Len(poll[p].page) = 0
  BY <1>1 DEF NoPollIs, PollRecord
<1>3. poll \in [Polls -> PollRecord]
  BY <1>1 DEF NoPollIs
<1>4. /\ kind \in {"subscribe", "listener"} /\ unreadable \subseteq Events /\ chain \in 0 .. Len(LedgerOf)
      /\ lastLedger \in Nat /\ seen = <<>> /\ handled = <<>>
      /\ stopped \in BOOLEAN /\ evicted \cup thrown \subseteq Events
  <2>1. kind \in {"subscribe", "listener"} /\ unreadable \subseteq Events
    BY FeedAssumption DEF FeedInit
  <2>2. chain \in 0 .. Len(LedgerOf) /\ lastLedger \in Nat
    BY FeedLedgers DEF FeedInit
  <2> QED BY <2>1, <2>2 DEF FeedInit
<1>5. reconnects \in 0 .. MaxReconnects + 1 /\ starts \in 1 .. MaxStarts /\ feedFaults \in 0 .. MaxFeedFaults /\ late \in Nat
  BY FeedAssumption DEF FeedInit
<1>6. Len(seen) <= MaxSeen /\ IsInjective(seen) /\ seen \in Seq(Events) /\ handled \in Seq(Events)
  BY <1>4, FeedAssumption DEF IsInjective
<1>7. FeedTypes
  <2>1. \A p \in Polls : Len(poll[p].page) <= PageLimit
    BY <1>2, FeedAssumption
  <2>2. \A p \in Polls : poll[p].state \in {"idle", "asked", "answered"}
    BY <1>2
  <2> QED BY <1>2, <1>3, <1>4, <1>5, <1>6, <2>1, <2>2 DEF FeedTypes, FeedTypeOK
<1>8. PollsSound
  <2>1. MetBefore(0)
    BY FeedLedgers DEF MetBefore
  <2>2. lastLedger = 0
    BY DEF FeedInit
  <2> QED BY <1>2, <2>1, <2>2 DEF PollsSound
<1>9. Remembers /\ InOrderOnce /\ WholeLedgers
  BY <1>4 DEF Remembers, InOrderOnce, WholeLedgers, FeedInit
<1>10. OneAtATime
  BY <1>2, FeedAssumption DEF OneAtATime, FeedInit
<1> QED BY <1>7, <1>8, <1>9, <1>10 DEF FeedInv

LEMMA CloseKeeps ==
    ASSUME FeedInv, Close PROVE FeedInv'
<1>1. /\ UNCHANGED <<kind, unreadable, poll, lastLedger, seen, stopped, reconnects, starts,
                     feedFaults, handled, evicted, cut, thrown, late>>
      /\ \E n \in chain + 1 .. Len(LedgerOf) :
           (n < Len(LedgerOf) => LedgerOf[n + 1] # LedgerOf[n]) /\ chain' = n
  BY DEF Close
<1>2. PICK n \in chain + 1 .. Len(LedgerOf) :
        (n < Len(LedgerOf) => LedgerOf[n + 1] # LedgerOf[n]) /\ chain' = n
  BY <1>1
<1>3. chain \in Nat /\ Len(LedgerOf) \in Nat /\ chain' \in 0 .. Len(LedgerOf) /\ chain <= chain'
  BY <1>2, FeedLedgers DEF FeedInv, FeedTypes, FeedTypeOK
<1>4. WholeLedgers'
  BY <1>2, <1>3 DEF WholeLedgers
<1>5. FeedTypes'
  BY <1>1, <1>3 DEF FeedInv, FeedTypes, FeedTypeOK, IsInjective, PollRecord, Events
<1>6. Remembers' /\ InOrderOnce' /\ \A e \in Events : Met(e) => Met(e)'
  BY <1>1, HistoryKept DEF feedHistory
<1>7. ASSUME NEW p \in Polls, poll[p].state = "answered" PROVE PageWhole(poll[p])'
  <2>1. poll[p].page \in Seq(Events) /\ PageWhole(poll[p])
    BY <1>7 DEF FeedInv, FeedTypes, PollRecord, PollsSound
  <2>2. \A i \in DOMAIN poll[p].page : poll[p].page[i] \in Nat
    BY <2>1, FeedLedgers
  <2>3. \A i \in DOMAIN poll[p].page : poll[p].page[i] <= chain'
    BY <1>3, <2>1, <2>2 DEF PageWhole
  <2> QED BY <1>1, <2>1, <2>3 DEF PageWhole, Events, Ascending, InSeq
<1>8. PollsSound'
  <2>1. PollsSound
    BY DEF FeedInv
  <2>2. MetBefore(lastLedger)' /\ \A p \in Polls : poll[p].state # "idle" => MetBefore(poll[p].from)'
    BY <1>1, <1>6, <2>1 DEF PollsSound, MetBefore, Events
  <2> QED BY <1>1, <1>7, <2>2 DEF PollsSound
<1>9. OneAtATime'
  BY <1>1 DEF FeedInv, OneAtATime
<1> QED BY <1>4, <1>5, <1>6, <1>8, <1>9 DEF FeedInv

LEMMA StartPollKeeps ==
    ASSUME FeedInv, NEW p \in Polls, StartPoll(p) PROVE FeedInv'
<1> DEFINE r == [state |-> "asked", from |-> lastLedger, page |-> <<>>]
<1>1. /\ UNCHANGED <<kind, unreadable, chain, lastLedger, seen, stopped, reconnects, starts,
                     feedFaults, handled, evicted, cut, thrown, late>>
      /\ poll' = [poll EXCEPT ![p] = r] /\ ~stopped
      /\ kind = "subscribe" => \A q \in Polls : poll[q].state = "idle"
  BY DEF StartPoll
<1>2. lastLedger \in Nat /\ MetBefore(lastLedger)
  BY DEF FeedInv, FeedTypes, FeedTypeOK, PollsSound
<1>3. r \in PollRecord /\ r.state = "asked" /\ r.from = lastLedger /\ Len(r.page) <= PageLimit
  <2>1. r \in PollRecord /\ r.state = "asked" /\ r.from = lastLedger /\ r.page = <<>>
    BY <1>2 DEF PollRecord
  <2> QED BY <2>1, FeedAssumption
<1> HIDE DEF r
<1>4. Remembers' /\ InOrderOnce' /\ \A e \in Events : Met(e) => Met(e)'
  BY <1>1, HistoryKept DEF feedHistory
<1>5. MetBefore(lastLedger)'
  BY <1>1, <1>2, <1>4 DEF MetBefore, Events
<1>6. /\ poll' \in [Polls -> PollRecord] /\ PollsSound' /\ WholeLedgers'
      /\ poll'[p] = r /\ \A q \in Polls \ {p} : poll'[q] = poll[q]
      /\ \A q \in Polls : /\ poll'[q].state \in {"idle", "asked", "answered"}
                          /\ poll'[q].page \in Seq(Events) /\ Len(poll'[q].page) <= PageLimit
  <2>1. r.state # "idle" => MetBefore(r.from)
    BY <1>2, <1>3
  <2>2. r.state # "answered" /\ chain' = chain /\ lastLedger' \in Nat
    BY <1>1, <1>2, <1>3
  <2> QED BY <1>1, <1>3, <1>4, <1>5, <2>1, <2>2, PollMoves
<1>7. FeedTypes'
  BY <1>1, <1>6 DEF FeedInv, FeedTypes, FeedTypeOK, IsInjective, Events
<1>8. OneAtATime'
  <2>1. kind' = "subscribe" => \A q \in Polls : poll'[q].state # "idle" => q = p
    BY <1>1, <1>6
  <2>2. kind = "subscribe" => late = 0
    BY <1>1 DEF FeedInv, OneAtATime
  <2>3. kind' = "subscribe" => \A a, b \in Polls : poll'[a].state # "idle" /\ poll'[b].state # "idle" => a = b
    BY <2>1
  <2> QED BY <1>1, <2>2, <2>3 DEF FeedInv, OneAtATime
<1> QED BY <1>4, <1>6, <1>7, <1>8 DEF FeedInv

LEMMA ServeKeeps ==
    ASSUME FeedInv, NEW p \in Polls, Serve(p) PROVE FeedInv'
<1> DEFINE r == [poll[p] EXCEPT !.state = "answered", !.page = Page(poll[p].from)]
<1>1. /\ UNCHANGED <<kind, unreadable, chain, lastLedger, seen, stopped, reconnects, starts,
                     feedFaults, handled, evicted, cut, thrown, late>>
      /\ poll[p].state = "asked"
  BY DEF Serve
<1>2. poll \in [Polls -> PollRecord] /\ poll[p] \in PollRecord /\ chain \in 0 .. Len(LedgerOf) /\ lastLedger \in Nat
      /\ MetBefore(lastLedger) /\ MetBefore(poll[p].from)
  BY <1>1 DEF FeedInv, FeedTypes, FeedTypeOK, PollsSound
<1>3. poll' = [poll EXCEPT ![p] = r]
  BY <1>2 DEF Serve, PollRecord
<1>4. poll[p].from \in Nat /\ r.page = Page(poll[p].from) /\ r.from = poll[p].from /\ r.state = "answered"
  BY <1>2 DEF PollRecord
<1>5. Page(poll[p].from) \in Seq(Events) /\ Len(Page(poll[p].from)) <= PageLimit /\ PageWhole(r)
  <2> HIDE DEF r
  <2> QED BY <1>2, <1>4, ServedIs
<1>6. r \in PollRecord
  BY <1>2, <1>5 DEF PollRecord
<1> HIDE DEF r
<1>7. Remembers' /\ InOrderOnce' /\ \A e \in Events : Met(e) => Met(e)'
  BY <1>1, HistoryKept DEF feedHistory
<1>8. MetBefore(lastLedger)'
  BY <1>1, <1>2, <1>7 DEF MetBefore, Events
<1>9. /\ poll' \in [Polls -> PollRecord] /\ PollsSound' /\ WholeLedgers'
      /\ poll'[p] = r /\ \A q \in Polls \ {p} : poll'[q] = poll[q]
      /\ \A q \in Polls : /\ poll'[q].state \in {"idle", "asked", "answered"}
                          /\ poll'[q].page \in Seq(Events) /\ Len(poll'[q].page) <= PageLimit
  <2>1. MetBefore(r.from) /\ Len(r.page) <= PageLimit /\ chain' = chain /\ lastLedger' \in Nat
    BY <1>1, <1>2, <1>4, <1>5
  <2> QED BY <1>3, <1>5, <1>6, <1>7, <1>8, <2>1, PollMoves
<1>10. FeedTypes'
  BY <1>1, <1>9 DEF FeedInv, FeedTypes, FeedTypeOK, IsInjective, Events
<1>11. OneAtATime'
  <2>1. \A q \in Polls : poll'[q].state # "idle" <=> poll[q].state # "idle"
    BY <1>1, <1>4, <1>9
  <2> QED BY <1>1, <2>1 DEF FeedInv, OneAtATime
<1> QED BY <1>7, <1>9, <1>10, <1>11 DEF FeedInv


\* A poll ends: with an answer, a failed request or a handler that throws.
LEMMA PollEnds ==
    ASSUME FeedInv, NEW p \in Polls, poll[p].state # "idle", kind' = kind,
           poll'[p] = NoPoll, \A q \in Polls \ {p} : poll'[q] = poll[q],
           \/ late' = late \/ late' = IF stopped /\ kind = "subscribe" THEN late + 1 ELSE late,
           Failed \/ (stopped' = stopped /\ reconnects' = IF kind = "subscribe" THEN 0 ELSE reconnects)
    PROVE  OneAtATime' /\ reconnects' \in 0 .. MaxReconnects + 1 /\ stopped' \in BOOLEAN /\ late' \in Nat
<1>1. /\ kind \in {"subscribe", "listener"} /\ stopped \in BOOLEAN /\ reconnects \in 0 .. MaxReconnects + 1
      /\ late \in Nat /\ OneAtATime /\ MaxReconnects \in Nat
  BY FeedAssumption DEF FeedInv, FeedTypes, FeedTypeOK
<1>2. kind = "subscribe" => late = 0 /\ \A q \in Polls : poll'[q].state = "idle"
  <2>1. NoPoll.state = "idle"
    BY DEF NoPoll
  <2>2. kind = "subscribe" => ~(late > 0)
    BY <1>1 DEF OneAtATime
  <2>3. kind = "subscribe" => \A q \in Polls \ {p} : poll[q].state = "idle"
    BY <1>1 DEF OneAtATime
  <2> QED BY <1>1, <2>1, <2>2, <2>3
<1>3. CASE Failed
  <2>1. CASE kind = "listener" \/ stopped
    <3>1. reconnects' = reconnects /\ (stopped' <=> stopped) /\ stopped' \in BOOLEAN
      BY <1>1, <1>3, <2>1 DEF Failed
    <3>2. late' \in Nat /\ late' <= 1 /\ (~stopped => late' = late)
      BY <1>1, <1>2 DEF OneAtATime
    <3>3. kind = "listener" => late' = late
      BY <1>1
    <3> QED BY <1>1, <1>2, <3>1, <3>2, <3>3 DEF OneAtATime
  <2>2. CASE ~(kind = "listener" \/ stopped)
    <3>1. reconnects' = reconnects + 1 /\ (stopped' <=> reconnects + 1 > MaxReconnects) /\ stopped' \in BOOLEAN
      <4>1. reconnects' = reconnects + 1 /\ stopped' = (reconnects + 1 > MaxReconnects)
        BY <1>3, <2>2, Zenon DEF Failed
      <4>2. CASE reconnects + 1 > MaxReconnects
        <5>1. stopped' = TRUE
          BY <4>1, <4>2
        <5> QED BY <4>1, <4>2, <5>1
      <4>3. CASE ~(reconnects + 1 > MaxReconnects)
        <5> DEFINE X == reconnects + 1 > MaxReconnects
        <5>0. X = FALSE
          BY <4>3
        <5>1. stopped' = FALSE
          <6> HIDE DEF X
          <6>1. stopped' = X
            BY <4>1 DEF X
          <6> QED BY <5>0, <6>1, Zenon
        <5> QED BY <4>1, <4>3, <5>1
      <4> QED BY <4>2, <4>3
    <3>2. late' = 0 /\ reconnects <= MaxReconnects /\ kind = "subscribe"
      BY <1>1, <1>2, <2>2 DEF OneAtATime
    <3> QED BY <1>1, <1>2, <3>1, <3>2 DEF OneAtATime
  <2> QED BY <2>1, <2>2
<1>4. CASE stopped' = stopped /\ reconnects' = IF kind = "subscribe" THEN 0 ELSE reconnects
  <2>1. late' \in Nat /\ late' <= 1 /\ (~stopped => late' = late) /\ (kind = "listener" => late' = late)
    BY <1>1, <1>2 DEF OneAtATime
  <2>2. reconnects' \in 0 .. MaxReconnects + 1 /\ (kind = "subscribe" => reconnects' = 0)
        /\ (kind = "listener" => reconnects' = reconnects) /\ (stopped' <=> stopped) /\ stopped' \in BOOLEAN
    BY <1>1, <1>4
  <2> QED BY <1>1, <1>2, <2>1, <2>2 DEF OneAtATime
<1> QED BY <1>3, <1>4

LEMMA PollFailsKeeps ==
    ASSUME FeedInv, NEW p \in Polls, PollFails(p) PROVE FeedInv'
<1>1. /\ UNCHANGED <<kind, unreadable, chain, lastLedger, seen, starts, handled, evicted, cut, thrown, late>>
      /\ poll[p].state = "asked" /\ poll' = [poll EXCEPT ![p] = NoPoll] /\ Failed
      /\ feedFaults < MaxFeedFaults /\ feedFaults' = feedFaults + 1
  BY DEF PollFails
<1>2. Remembers' /\ InOrderOnce' /\ \A e \in Events : Met(e) => Met(e)'
  BY <1>1, HistoryKept DEF feedHistory
<1>3. MetBefore(lastLedger)' /\ lastLedger' \in Nat
  BY <1>1, <1>2 DEF FeedInv, FeedTypes, FeedTypeOK, PollsSound, MetBefore, Events
<1>4. /\ poll' \in [Polls -> PollRecord] /\ PollsSound' /\ WholeLedgers'
      /\ poll'[p] = NoPoll /\ \A q \in Polls \ {p} : poll'[q] = poll[q]
      /\ \A q \in Polls : /\ poll'[q].state \in {"idle", "asked", "answered"}
                          /\ poll'[q].page \in Seq(Events) /\ Len(poll'[q].page) <= PageLimit
  <2>1. Len(NoPoll.page) <= PageLimit /\ NoPoll \in PollRecord /\ NoPoll.state = "idle"
    BY NoPollFacts, FeedAssumption DEF NoPollIs
  <2> QED BY <1>1, <1>2, <1>3, <2>1, PollMoves
<1>5. OneAtATime' /\ reconnects' \in 0 .. MaxReconnects + 1 /\ stopped' \in BOOLEAN /\ late' \in Nat
  BY <1>1, <1>4, PollEnds
<1>6. feedFaults' \in 0 .. MaxFeedFaults
  BY <1>1, FeedAssumption DEF FeedInv, FeedTypes, FeedTypeOK
<1>7. FeedTypes'
  BY <1>1, <1>4, <1>5, <1>6 DEF FeedInv, FeedTypes, FeedTypeOK, IsInjective, Events
<1> QED BY <1>2, <1>4, <1>5, <1>7 DEF FeedInv

\* Ledgers of events that lie between two equal ones are equal to them.
LEMMA Squeeze ==
    ASSUME NEW a \in Nat, NEW b \in Nat, NEW c \in Nat, NEW d \in Nat,
           a <= b, b <= c, c <= d, d <= a
    PROVE  b = a /\ c = a
OBVIOUS

\* The ledger after the newest event of a batch: nothing before it is missed but for a cut.
LEMMA AdvanceMeets ==
    ASSUME FeedInv, NEW p \in Polls, poll[p].state = "answered", Fresh(poll[p].page) # <<>>,
           Advance(Fresh(poll[p].page)), NoteCut(poll[p].page), UNCHANGED <<unreadable, chain>>,
           \A e \in Events : Met(e) => Met(e)', \A e : InSeq(e, Fresh(poll[p].page)) => InSeq(e, handled')
    PROVE  lastLedger' \in Nat /\ MetBefore(lastLedger)' /\ cut \subseteq cut'
<1> DEFINE g == poll[p].page  b == Fresh(g)  f == poll[p].from  u == g[Len(g)]  l == b[Len(b)]
<1>1. /\ g \in Seq(Events) /\ f \in Nat /\ Ascending(g) /\ MetBefore(f)
      /\ \A i \in DOMAIN g : LedgerOf[g[i]] >= f /\ g[i] <= chain
      /\ \A e \in Events : g # <<>> /\ LedgerOf[e] >= f /\ e <= g[Len(g)] => InSeq(e, g)
  BY DEF FeedInv, FeedTypes, PollRecord, PollsSound, PageWhole
<1>2. seen \in Seq(Events) /\ chain \in 0 .. Len(LedgerOf) /\ WholeLedgers /\ \A e : InSeq(e, seen) => InSeq(e, handled)
  BY DEF FeedInv, FeedTypes, FeedTypeOK, Remembers, InSeq
<1>3. /\ b \in Seq(Events) /\ Ascending(b)
      /\ \A j \in DOMAIN b : InSeq(b[j], g) /\ b[j] \notin unreadable /\ ~InSeq(b[j], seen)
      /\ \A e : InSeq(e, g) => InSeq(e, b) \/ e \in unreadable \/ InSeq(e, seen)
  BY <1>1, <1>2, FreshIs
<1>4. lastLedger' = LedgerOf[l] + 1
  BY DEF Advance, Last
<1>5. cut' = IF u < chain /\ LedgerOf[u + 1] = LedgerOf[u] THEN cut \cup {LedgerOf[u]} ELSE cut
  BY DEF NoteCut, Last
<1>6. b # <<>> /\ \A e : InSeq(e, b) => InSeq(e, handled')
  OBVIOUS
<1> HIDE DEF b, g, f
<1>7. Len(b) \in DOMAIN b /\ l \in Events
  BY <1>3, <1>6
<1>8. PICK m \in DOMAIN g : g[m] = l
  BY <1>3, <1>7 DEF InSeq
<1>9. DOMAIN g = 1 .. Len(g) /\ Len(g) \in Nat /\ Len(g) \in DOMAIN g /\ g # <<>> /\ u \in Events /\ u <= chain
  BY <1>1, <1>8
<1> HIDE DEF u, l
<1>10. /\ l \in Nat /\ u \in Nat /\ chain \in Nat /\ chain <= Len(LedgerOf) /\ Len(LedgerOf) \in Nat
       /\ LedgerOf[l] \in Nat /\ LedgerOf[u] \in Nat /\ u > 0
  BY <1>2, <1>7, <1>9, FeedLedgers
<1>11. l <= u
  <2>1. m = Len(g) \/ m < Len(g)
    BY <1>9
  <2>2. m < Len(g) => g[m] < g[Len(g)]
    BY <1>1, <1>9 DEF Ascending
  <2> QED BY <1>8, <1>10, <2>1, <2>2 DEF u
<1>12. LedgerOf[l] <= LedgerOf[u]
  BY <1>7, <1>9, <1>11, FeedLedgers
<1>13. cut \subseteq cut' /\ lastLedger' \in Nat
  BY <1>4, <1>5, <1>10
<1>14. ASSUME NEW e \in Events, LedgerOf[e] < lastLedger'
       PROVE  Met(e)'
  <2>1. LedgerOf[e] \in Nat /\ LedgerOf[e] <= LedgerOf[l] /\ e \in Nat
    BY <1>4, <1>10, <1>14, FeedLedgers
  <2>2. CASE LedgerOf[e] < f
    BY <1>1, <2>2 DEF MetBefore
  <2>3. CASE LedgerOf[e] >= f /\ e <= u
    <3>1. InSeq(e, g)
      BY <1>1, <1>9, <2>3 DEF u
    <3>2. CASE InSeq(e, b)
      BY <1>6, <3>2 DEF Met
    <3>3. CASE e \in unreadable
      BY <3>3 DEF Met
    <3>4. CASE InSeq(e, seen)
      <4>1. Met(e)
        BY <1>2, <3>4 DEF Met
      <4> QED BY <4>1
    <3> QED BY <1>3, <3>1, <3>2, <3>3, <3>4
  <2>4. CASE u < e
    <3>1. u <= e /\ u + 1 <= e /\ u + 1 \in Events /\ u <= u + 1
      BY <1>10, <2>1, <2>4, FeedLedgers
    <3>2. LedgerOf[u] <= LedgerOf[u + 1] /\ LedgerOf[u + 1] <= LedgerOf[e] /\ LedgerOf[u + 1] \in Nat
      BY <1>9, <3>1, FeedLedgers
    <3>3. LedgerOf[u + 1] = LedgerOf[u] /\ LedgerOf[e] = LedgerOf[u]
      <4>1. LedgerOf[e] <= LedgerOf[l]
        BY <2>1
      <4> QED BY <1>10, <1>12, <2>1, <3>2, <4>1, Squeeze
    <3>4. u # chain
      <4>1. u + 1 <= Len(LedgerOf)
        BY <3>1, FeedLedgers
      <4>2. u = chain => chain \in 1 .. Len(LedgerOf) - 1
        BY <1>10, <4>1
      <4> QED BY <1>2, <3>3, <4>2 DEF WholeLedgers
    <3>5. u < chain
      BY <1>9, <1>10, <3>4
    <3>6. LedgerOf[e] \in cut'
      BY <1>5, <3>3, <3>5
    <3> QED BY <3>6 DEF Met
  <2> QED BY <1>1, <1>10, <2>1, <2>2, <2>3, <2>4
<1>15. MetBefore(lastLedger)'
  BY <1>14 DEF MetBefore, Events
<1> QED BY <1>13, <1>15


LEMMA DeliverKeeps ==
    ASSUME FeedInv, NEW p \in Polls, Deliver(p) PROVE FeedInv'
<1> DEFINE g == poll[p].page  b == Fresh(g)
<1>1. /\ UNCHANGED <<kind, unreadable, chain, stopped, starts, feedFaults, thrown>>
      /\ poll[p].state = "answered" /\ poll' = [poll EXCEPT ![p] = NoPoll]
      /\ reconnects' = IF kind = "subscribe" THEN 0 ELSE reconnects
      /\ \/ b = <<>> /\ UNCHANGED <<lastLedger, seen, handled, evicted, cut, late>>
         \/ /\ b # <<>> /\ Remember(b) /\ Advance(b) /\ NoteCut(g) /\ handled' = handled \o b
            /\ late' = IF stopped /\ kind = "subscribe" THEN late + 1 ELSE late
  BY DEF Deliver
<1>2. /\ seen' \in Seq(Events) /\ handled' \in Seq(Events) /\ Len(seen') <= MaxSeen /\ IsInjective(seen)'
      /\ evicted' \subseteq Events /\ Remembers' /\ InOrderOnce' /\ \A e \in Events : Met(e) => Met(e)'
      /\ lastLedger' \in Nat /\ MetBefore(lastLedger)'
  <2>1. CASE b = <<>>
    <3>1. UNCHANGED <<lastLedger, seen, handled, evicted, cut, late>>
      BY <1>1, <2>1
    <3>2. Remembers' /\ InOrderOnce' /\ \A e \in Events : Met(e) => Met(e)'
      BY <1>1, <3>1, HistoryKept DEF feedHistory
    <3> QED BY <3>1, <3>2 DEF FeedInv, FeedTypes, FeedTypeOK, IsInjective, PollsSound, MetBefore, Events
  <2>2. CASE b # <<>>
    <3>1. Remember(b) /\ Advance(b) /\ NoteCut(g) /\ handled' = handled \o b
      BY <1>1, <2>2
    <3>2. b \in Seq(Events) /\ cut \subseteq cut'
      <4>1. g \in Seq(Events) /\ Ascending(g) /\ seen \in Seq(Events)
        BY <1>1 DEF FeedInv, FeedTypes, PollRecord, PollsSound, PageWhole
      <4>2. b \in Seq(Events)
        BY <4>1, FreshIs
      <4>3. cut \subseteq cut'
        BY <3>1 DEF NoteCut
      <4> QED BY <4>2, <4>3
    <3> DEFINE n == Len(b)
    <3>3. n \in 1 .. Len(b) /\ b = SubSeq(b, 1, n)
      <4> HIDE DEF b
      <4>1. Len(b) \in Nat /\ Len(b) > 0
        BY <2>2, <3>2
      <4>2. SubSeq(b, 1, Len(b)) = b
        BY <3>2
      <4> QED BY <4>1, <4>2
    <3>4. /\ seen' \in Seq(Events) /\ handled' \in Seq(Events) /\ Len(seen') <= MaxSeen /\ IsInjective(seen)'
          /\ evicted' \subseteq Events
          /\ Remembers' /\ InOrderOnce' /\ \A e \in Events : Met(e) => Met(e)'
          /\ \A e : InSeq(e, b) => InSeq(e, handled')
      <4> HIDE DEF n
      <4> QED BY <1>1, <3>1, <3>2, <3>3, TakenIs
    <3>5. lastLedger' \in Nat /\ MetBefore(lastLedger)'
      BY <1>1, <2>2, <3>1, <3>4, AdvanceMeets
    <3> QED BY <3>4, <3>5
  <2> QED BY <2>1, <2>2
<1>3. /\ poll' \in [Polls -> PollRecord] /\ PollsSound' /\ WholeLedgers'
      /\ poll'[p] = NoPoll /\ \A q \in Polls \ {p} : poll'[q] = poll[q]
      /\ \A q \in Polls : /\ poll'[q].state \in {"idle", "asked", "answered"}
                          /\ poll'[q].page \in Seq(Events) /\ Len(poll'[q].page) <= PageLimit
  <2>1. Len(NoPoll.page) <= PageLimit /\ NoPoll \in PollRecord /\ NoPoll.state = "idle"
    BY NoPollFacts, FeedAssumption DEF NoPollIs
  <2> QED BY <1>1, <1>2, <2>1, PollMoves
<1>4. OneAtATime' /\ reconnects' \in 0 .. MaxReconnects + 1 /\ stopped' \in BOOLEAN /\ late' \in Nat
  <2>1. late' = late \/ late' = IF stopped /\ kind = "subscribe" THEN late + 1 ELSE late
    BY <1>1
  <2> QED BY <1>1, <1>3, <2>1, PollEnds
<1> HIDE DEF b, g
<1>5. FeedTypes'
  BY <1>1, <1>2, <1>3, <1>4 DEF FeedInv, FeedTypes, FeedTypeOK
<1> QED BY <1>2, <1>3, <1>4, <1>5 DEF FeedInv

LEMMA HandlerThrowsKeeps ==
    ASSUME FeedInv, NEW p \in Polls, HandlerThrows(p) PROVE FeedInv'
<1> DEFINE g == poll[p].page  b == Fresh(g)
<1>1. /\ UNCHANGED <<kind, unreadable, chain, lastLedger, starts, cut>>
      /\ poll[p].state = "answered" /\ poll' = [poll EXCEPT ![p] = NoPoll] /\ b # <<>>
      /\ feedFaults < MaxFeedFaults /\ feedFaults' = feedFaults + 1 /\ Failed
      /\ late' = IF stopped /\ kind = "subscribe" THEN late + 1 ELSE late
  BY DEF HandlerThrows
<1>2. PICK m \in DOMAIN b :
        LET taken == IF kind = "subscribe" THEN SubSeq(b, 1, m) ELSE b IN
        /\ Remember(taken) /\ handled' = handled \o taken /\ thrown' = thrown \cup ToSet(taken)
  BY DEF HandlerThrows
<1>3. b \in Seq(Events) /\ Len(b) \in Nat /\ Len(b) > 0 /\ DOMAIN b = 1 .. Len(b) /\ SubSeq(b, 1, Len(b)) = b
  <2>1. g \in Seq(Events) /\ Ascending(g) /\ seen \in Seq(Events)
    BY <1>1 DEF FeedInv, FeedTypes, PollRecord, PollsSound, PageWhole
  <2>2. b \in Seq(Events)
    BY <2>1, FreshIs
  <2> HIDE DEF b
  <2>3. Len(b) \in Nat /\ Len(b) > 0 /\ DOMAIN b = 1 .. Len(b)
    BY <1>1, <2>2
  <2>4. SubSeq(b, 1, Len(b)) = b
    BY <2>2
  <2> QED BY <2>2, <2>3, <2>4
<1>4. PICK n \in 1 .. Len(b) : /\ Remember(SubSeq(b, 1, n)) /\ handled' = handled \o SubSeq(b, 1, n)
                               /\ thrown' = thrown \cup ToSet(SubSeq(b, 1, n))
  <2> HIDE DEF b
  <2>1. CASE kind = "subscribe"
    <3>1. Remember(SubSeq(b, 1, m)) /\ handled' = handled \o SubSeq(b, 1, m) /\ thrown' = thrown \cup ToSet(SubSeq(b, 1, m))
      BY <1>2, <2>1
    <3> QED BY <1>3, <3>1
  <2>2. CASE kind # "subscribe"
    <3>1. Remember(b) /\ handled' = handled \o b /\ thrown' = thrown \cup ToSet(b)
      BY <1>2, <2>2
    <3>2. Len(b) \in 1 .. Len(b)
      BY <1>3
    <3> QED BY <1>3, <3>1, <3>2
  <2> QED BY <2>1, <2>2
<1>5. /\ seen' \in Seq(Events) /\ handled' \in Seq(Events) /\ Len(seen') <= MaxSeen /\ IsInjective(seen)'
      /\ evicted' \subseteq Events /\ ToSet(SubSeq(b, 1, n)) \subseteq Events
      /\ Remembers' /\ InOrderOnce' /\ \A e \in Events : Met(e) => Met(e)'
  <2>1. cut \subseteq cut'
    BY <1>1
  <2> QED BY <1>1, <1>4, <2>1, TakenIs
<1>6. lastLedger' \in Nat /\ MetBefore(lastLedger)' /\ thrown' \subseteq Events
  BY <1>1, <1>4, <1>5 DEF FeedInv, FeedTypes, FeedTypeOK, PollsSound, MetBefore, Events
<1>7. /\ poll' \in [Polls -> PollRecord] /\ PollsSound' /\ WholeLedgers'
      /\ poll'[p] = NoPoll /\ \A q \in Polls \ {p} : poll'[q] = poll[q]
      /\ \A q \in Polls : /\ poll'[q].state \in {"idle", "asked", "answered"}
                          /\ poll'[q].page \in Seq(Events) /\ Len(poll'[q].page) <= PageLimit
  <2>1. Len(NoPoll.page) <= PageLimit /\ NoPoll \in PollRecord /\ NoPoll.state = "idle"
    BY NoPollFacts, FeedAssumption DEF NoPollIs
  <2> QED BY <1>1, <1>5, <1>6, <2>1, PollMoves
<1>8. OneAtATime' /\ reconnects' \in 0 .. MaxReconnects + 1 /\ stopped' \in BOOLEAN /\ late' \in Nat
  BY <1>1, <1>7, PollEnds
<1>9. feedFaults' \in 0 .. MaxFeedFaults
  BY <1>1, FeedAssumption DEF FeedInv, FeedTypes, FeedTypeOK
<1> HIDE DEF b, g
<1>10. FeedTypes'
  BY <1>1, <1>5, <1>6, <1>7, <1>8, <1>9 DEF FeedInv, FeedTypes, FeedTypeOK
<1> QED BY <1>5, <1>7, <1>8, <1>10 DEF FeedInv

\* stop, start and steps of other parts of the program.
LEMMA StopKeeps ==
    ASSUME FeedInv, Stop \/ Restart \/ UNCHANGED feedVars PROVE FeedInv'
<1>1. UNCHANGED <<kind, unreadable, chain, poll, lastLedger, seen, reconnects,
                  feedFaults, handled, evicted, cut, thrown, late>>
  BY DEF Stop, Restart, feedVars
<1>2. Remembers' /\ InOrderOnce' /\ \A e \in Events : Met(e) => Met(e)'
  BY <1>1, HistoryKept DEF feedHistory
<1>3. starts' \in 1 .. MaxStarts
  BY FeedAssumption DEF FeedInv, FeedTypes, FeedTypeOK, Stop, Restart, feedVars
<1>4. stopped' \in BOOLEAN
  BY DEF FeedInv, FeedTypes, FeedTypeOK, Stop, Restart, feedVars
<1>5. FeedTypes' /\ WholeLedgers'
  BY <1>1, <1>3, <1>4 DEF FeedInv, FeedTypes, FeedTypeOK, IsInjective, PollRecord, Events, WholeLedgers
<1>6. PollsSound'
  <2>1. PollsSound
    BY DEF FeedInv
  <2>2. MetBefore(lastLedger)' /\ \A p \in Polls : poll[p].state # "idle" => MetBefore(poll[p].from)'
    BY <1>1, <1>2, <2>1 DEF PollsSound, MetBefore, Events
  <2>3. \A p \in Polls : poll[p].state = "answered" => PageWhole(poll[p])'
    BY <1>1, <2>1 DEF PollsSound, PageWhole, Events, Ascending, InSeq
  <2> QED BY <1>1, <2>2, <2>3 DEF PollsSound
<1>7. OneAtATime'
  <2>1. OneAtATime /\ kind \in {"subscribe", "listener"} /\ MaxReconnects \in Nat
    BY FeedAssumption DEF FeedInv, FeedTypes, FeedTypeOK
  <2>2. kind = "subscribe" => (stopped => stopped')
    BY DEF Stop, Restart, feedVars
  <2> QED BY <1>1, <2>1, <2>2 DEF OneAtATime
<1> QED BY <1>2, <1>5, <1>6, <1>7 DEF FeedInv

\* The handler is given no event twice, and one after a later one only where a page ended
\* inside its ledger, the start ledger passes an event only so, and a subscription that was
\* ended delivers one batch more at the most, through overlapping polls, failed requests and
\* handlers that throw (events.ts).
THEOREM FeedsDeliverOnce == FeedSpec => []FeedDeliversOnce
<1>1. FeedInv /\ [FeedNext]_feedVars => FeedInv'
  <2> SUFFICES ASSUME FeedInv, [FeedNext]_feedVars PROVE FeedInv'
    OBVIOUS
  <2>1. ASSUME NEW p \in Polls, FeedStep(p) \/ PollFails(p) \/ HandlerThrows(p) PROVE FeedInv'
    BY <2>1, StartPollKeeps, ServeKeeps, DeliverKeeps, PollFailsKeeps, HandlerThrowsKeeps DEF FeedStep
  <2> QED BY <2>1, CloseKeeps, StopKeeps DEF FeedNext
<1>2. FeedInv => FeedDeliversOnce
  <2> SUFFICES ASSUME FeedInv PROVE FeedDeliversOnce
    OBVIOUS
  <2>1. FeedTypeOK /\ InOrderOnce /\ OneBatchAfterStop
    BY DEF FeedInv, FeedTypes, OneAtATime, OneBatchAfterStop
  <2>2. \A e : InSeq(e, handled) => Contains(handled, e)
    <3>1. DOMAIN handled = 1 .. Len(handled)
      BY DEF FeedInv, FeedTypes
    <3> QED BY <3>1 DEF InSeq, Contains
  <2>3. 1 .. chain \subseteq Events
    BY FeedLedgers DEF FeedInv, FeedTypes, FeedTypeOK
  <2>4. SkippedOnlyAtCut
    BY <2>2, <2>3 DEF FeedInv, PollsSound, MetBefore, Met, SkippedOnlyAtCut
  <2> QED BY <2>1, <2>4 DEF FeedDeliversOnce
<1> QED BY <1>1, <1>2, FeedInvInit, PTL DEF FeedSpec
==============================================================================
