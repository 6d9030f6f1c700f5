---------------------------- MODULE RequestProofs ----------------------------
(***************************************************************************)
(* Proofs about what the server keeps between requests: the credential     *)
(* store, the API keys, the tenant registry and the OAuth server.  Each    *)
(* part holds a map in memory, a file written by renaming a snapshot over  *)
(* it, and requests that wait between the two; each inductive invariant    *)
(* relates the three copies (memory, snapshots, file) by the order in      *)
(* which they were taken.  The last part is about the gate that requests   *)
(* pass before any of them: deduplication, limits and the daily quota.     *)
(***************************************************************************)
EXTENDS CredentialStore, ApiKeys, TenantRegistry, OAuthService, RequestGate,
        SelectionTheorems, FiniteSetTheorems, TLAPS

-----------------------------------------------------------------------------
(* The credential store *)

StorePCs == {"idle", "wait", "read", "load", "change", "renamed", "event", "done"}
StoreAnswers == {"none", "ok", "duplicate", "missing", "conflict", "error", "lost"}
MaybeRead == Snapshots \cup {Unread}
StoreCall == [pc : StorePCs, op : Ops \cup {"none"}, on : Creds, expects : 0 .. MaxVersion,
              has : MaybeRead, out : StoreAnswers]
JobCall == [pc : {"idle", "load", "index", "dispatch", "renamed", "done"}, has : MaybeRead]

StoreShape ==
  /\ file \in Snapshots /\ cached \in MaybeRead
  /\ request \in [Requests -> StoreCall]
  /\ reader \in [Readers -> MaybeRead] /\ job \in [Jobs -> JobCall]
  /\ issued \subseteq Requests /\ crossed \in BOOLEAN
  /\ storeFaults \in 0 .. MaxStoreFaults /\ reads \in 0 .. MaxReads

InLock == {"wait", "read", "load", "change", "renamed", "event"}
Holding == InLock \ {"wait"}

\* The chain holds the requests under way, once each, and only its head works
LockInOrder ==
  /\ lock \in Seq(Requests)
  /\ \A i, k \in 1 .. Len(lock) : lock[i] = lock[k] => i = k
  /\ \A r \in Requests : request[r].pc \in InLock <=> \E i \in 1 .. Len(lock) : lock[i] = r
  /\ \A r \in Requests : request[r].pc \in Holding => Len(lock) > 0 /\ lock[1] = r

CallsInStep ==
  \A r \in Requests :
    /\ request[r].has = Unread <=> request[r].pc \notin {"load", "change"}
    /\ request[r].out # "none" => request[r].pc = "done"
    /\ request[r].pc # "idle" => request[r].op \in Ops
    /\ r \in issued => request[r].out = "ok"

JobsInStep == \A j \in Jobs : job[j].has = Unread <=> job[j].pc \notin {"load", "index", "dispatch"}

\* A change is kept in a credential that exists
WellFormed(s) == \A c \in Creds : s[c].by # {} => s[c].status # "absent"

\* Two copies tell the same changes, and where there are any the same version
Agree(s, t) == \A c \in Creds : /\ s[c].by = t[c].by
                                /\ s[c].by # {} => s[c].version = t[c].version

Sound(s) == s # Unread => WellFormed(s) /\ (~crossed => Agree(s, file))

SnapshotsSound ==
  /\ WellFormed(file)
  /\ \A q \in Readers : Sound(reader[q])
  /\ \A j \in Jobs : Sound(job[j].has)
  /\ \A r \in Requests : Sound(request[r].has)
  /\ cached # Unread =>
       /\ WellFormed(cached)
       /\ ~crossed => Agree(cached, file) \/ \E r \in Requests : request[r].pc = "renamed"

Applied(r) == request[r].pc \in {"renamed", "event"} \/ request[r].out = "ok"
Counted(r) == Applied(r) /\ request[r].op = "update" /\ request[r].expects # AnyVersion

ChangesInFile ==
  ~crossed =>
    /\ \A r \in Requests : Applied(r) => r \in file[request[r].on].by
    /\ \A r \in Requests : Counted(r) => file[request[r].on].version > request[r].expects
    /\ \A r, s \in Requests :
         r # s /\ Counted(r) /\ Counted(s) /\ request[r].on = request[s].on
         => request[r].expects # request[s].expects

StoreInv == StoreShape /\ LockInOrder /\ CallsInStep /\ JobsInStep /\ SnapshotsSound /\ ChangesInFile

-----------------------------------------------------------------------------
\* No snapshot is a function on the empty set.
LEMMA UnreadIsNone == Unread \notin Snapshots
<1>1. DOMAIN Unread = {}
  BY DEF Unread
<1> QED BY <1>1, StoreAssumption DEF Snapshots

\* One request moves; the others stay as they are.
OnlyRequest(r) ==
  request' \in [Requests -> StoreCall] /\ \A s \in Requests \ {r} : request'[s] = request[s]
SameAsked(r) == /\ request'[r].op = request[r].op /\ request'[r].on = request[r].on
                /\ request'[r].expects = request[r].expects
CallTo(r, pc, has, out) ==
  request' = [request EXCEPT ![r] = [request[r] EXCEPT !.pc = pc, !.has = has, !.out = out]]

LEMMA CallMoves ==
    ASSUME StoreShape, NEW r \in Requests, NEW pc \in StorePCs, NEW has \in MaybeRead,
           NEW out \in StoreAnswers, CallTo(r, pc, has, out)
    PROVE  /\ OnlyRequest(r) /\ SameAsked(r) /\ request'[r].pc = pc
           /\ request'[r].has = has /\ request'[r].out = out
<1> DEFINE y == [request[r] EXCEPT !.pc = pc, !.has = has, !.out = out]
<1>1. request[r] \in StoreCall /\ request \in [Requests -> StoreCall]
  BY DEF StoreShape
<1>2. /\ y \in StoreCall /\ y.pc = pc /\ y.has = has /\ y.out = out
      /\ y.op = request[r].op /\ y.on = request[r].on /\ y.expects = request[r].expects
  BY <1>1 DEF StoreCall
<1>3. request' = [request EXCEPT ![r] = y]
  BY DEF CallTo
<1> HIDE DEF y
<1> QED BY <1>1, <1>2, <1>3 DEF OnlyRequest, SameAsked

LEMMA GotoMoves ==
    ASSUME StoreShape, NEW r \in Requests, NEW pc \in StorePCs, Goto(r, pc)
    PROVE  /\ OnlyRequest(r) /\ SameAsked(r) /\ request'[r].pc = pc
           /\ request'[r].has = request[r].has /\ request'[r].out = request[r].out
<1>1. request[r] \in StoreCall /\ request \in [Requests -> StoreCall]
  BY DEF StoreShape
<1>2. CallTo(r, pc, request[r].has, request[r].out)
  BY <1>1 DEF Goto, CallTo, StoreCall
<1>3. request[r].has \in MaybeRead /\ request[r].out \in StoreAnswers
  BY <1>1 DEF StoreCall
<1> QED BY <1>2, <1>3, CallMoves

LEMMA FinishMoves ==
    ASSUME StoreShape, NEW r \in Requests, NEW out \in StoreAnswers, Finish(r, out)
    PROVE  /\ OnlyRequest(r) /\ SameAsked(r) /\ request'[r].pc = "done"
           /\ request'[r].has = Unread /\ request'[r].out = out /\ lock' = Tail(lock)
<1>1. request[r] \in StoreCall /\ request \in [Requests -> StoreCall]
  BY DEF StoreShape
<1>2. CallTo(r, "done", Unread, out)
  BY <1>1 DEF Finish, CallTo, StoreCall
<1>3. Unread \in MaybeRead /\ "done" \in StorePCs
  BY DEF MaybeRead, StorePCs
<1> QED BY <1>2, <1>3, CallMoves DEF Finish

-----------------------------------------------------------------------------
(* The lock *)
LEMMA LockStays ==
    ASSUME LockInOrder, NEW r \in Requests, OnlyRequest(r), lock' = lock,
           request'[r].pc \in InLock <=> request[r].pc \in InLock,
           request'[r].pc \in Holding => Len(lock) > 0 /\ lock[1] = r
    PROVE  LockInOrder'
  BY DEF LockInOrder, OnlyRequest

LEMMA LockJoined ==
    ASSUME LockInOrder, NEW r \in Requests, OnlyRequest(r), lock' = Append(lock, r),
           request[r].pc = "idle", request'[r].pc = "wait"
    PROVE  LockInOrder'
<1>1. \A i \in 1 .. Len(lock) : lock[i] # r
  BY DEF LockInOrder, InLock
<1>2. /\ lock' \in Seq(Requests) /\ Len(lock') = Len(lock) + 1 /\ lock'[Len(lock) + 1] = r
      /\ \A i \in 1 .. Len(lock) : lock'[i] = lock[i]
      /\ Len(lock) \in Nat
  BY DEF LockInOrder
<1>3. \A i, k \in 1 .. Len(lock') : lock'[i] = lock'[k] => i = k
  BY <1>1, <1>2 DEF LockInOrder
<1>4. ASSUME NEW s \in Requests
      PROVE  request'[s].pc \in InLock <=> \E i \in 1 .. Len(lock') : lock'[i] = s
  <2>1. CASE s = r
    BY <1>2, <2>1 DEF InLock
  <2>2. CASE s # r
    <3>1. request'[s].pc = request[s].pc
      BY <2>2 DEF OnlyRequest
    <3>2. (\E i \in 1 .. Len(lock') : lock'[i] = s) <=> \E i \in 1 .. Len(lock) : lock[i] = s
      BY <1>2, <2>2
    <3> QED BY <3>1, <3>2 DEF LockInOrder
  <2> QED BY <2>1, <2>2
<1>5. ASSUME NEW s \in Requests, request'[s].pc \in Holding
      PROVE  Len(lock') > 0 /\ lock'[1] = s
  <2>1. s # r /\ request[s].pc \in Holding
    BY <1>5 DEF OnlyRequest, Holding
  <2> QED BY <1>2, <2>1 DEF LockInOrder
<1> QED BY <1>2, <1>3, <1>4, <1>5 DEF LockInOrder

LEMMA LockLeft ==
    ASSUME LockInOrder, NEW r \in Requests, OnlyRequest(r), lock' = Tail(lock),
           request[r].pc \in Holding, request'[r].pc = "done"
    PROVE  LockInOrder'
<1>1. Len(lock) > 0 /\ lock[1] = r /\ lock \in Seq(Requests) /\ Len(lock) \in Nat
  BY DEF LockInOrder
<1>2. /\ lock' \in Seq(Requests) /\ Len(lock') = Len(lock) - 1
      /\ \A i \in 1 .. Len(lock) - 1 : lock'[i] = lock[i + 1]
  BY <1>1
<1>3. \A i \in 2 .. Len(lock) : lock[i] # r
  BY <1>1 DEF LockInOrder
<1>4. \A i, k \in 1 .. Len(lock') : lock'[i] = lock'[k] => i = k
  <2> SUFFICES ASSUME NEW i \in 1 .. Len(lock'), NEW k \in 1 .. Len(lock'), lock'[i] = lock'[k]
               PROVE  i = k
    OBVIOUS
  <2>1. lock[i + 1] = lock[k + 1] /\ i + 1 \in 1 .. Len(lock) /\ k + 1 \in 1 .. Len(lock)
    BY <1>1, <1>2
  <2>2. i + 1 = k + 1
    BY <2>1 DEF LockInOrder
  <2> QED BY <2>2
<1>5. ASSUME NEW s \in Requests
      PROVE  request'[s].pc \in InLock <=> \E i \in 1 .. Len(lock') : lock'[i] = s
  <2>1. CASE s = r
    <3>1. ~ \E i \in 1 .. Len(lock') : lock'[i] = s
      <4> SUFFICES ASSUME NEW i \in 1 .. Len(lock') PROVE lock'[i] # s
        OBVIOUS
      <4>1. lock'[i] = lock[i + 1] /\ i + 1 \in 2 .. Len(lock)
        BY <1>1, <1>2
      <4> QED BY <1>3, <2>1, <4>1
    <3> QED BY <2>1, <3>1 DEF InLock
  <2>2. CASE s # r
    <3>1. request'[s].pc = request[s].pc
      BY <2>2 DEF OnlyRequest
    <3>2. ASSUME NEW i \in 1 .. Len(lock'), lock'[i] = s
          PROVE  \E k \in 1 .. Len(lock) : lock[k] = s
      <4>1. lock[i + 1] = s /\ i + 1 \in 1 .. Len(lock)
        BY <1>1, <1>2, <3>2
      <4> QED BY <4>1
    <3>3. ASSUME NEW k \in 1 .. Len(lock), lock[k] = s
          PROVE  \E i \in 1 .. Len(lock') : lock'[i] = s
      <4>1. k # 1
        BY <1>1, <2>2, <3>3
      <4>2. k - 1 \in 1 .. Len(lock') /\ lock'[k - 1] = s
        <5>1. k - 1 \in 1 .. Len(lock) - 1 /\ (k - 1) + 1 = k
          BY <1>1, <4>1
        <5> QED BY <1>2, <3>3, <5>1
      <4> QED BY <4>2
    <3> QED BY <3>1, <3>2, <3>3 DEF LockInOrder
  <2> QED BY <2>1, <2>2
<1>6. \A s \in Requests : request'[s].pc \notin Holding
  <2>1. \A s \in Requests : s # r => request[s].pc \notin Holding
    BY <1>1 DEF LockInOrder
  <2> QED BY <2>1 DEF OnlyRequest, Holding, InLock
<1> QED BY <1>2, <1>4, <1>5, <1>6 DEF LockInOrder

\* Nobody else works while a request holds the lock.
LEMMA LockExcludes ==
    ASSUME LockInOrder, NEW r \in Requests, request[r].pc \in Holding,
           NEW s \in Requests, s # r
    PROVE  request[s].pc \notin Holding
  BY DEF LockInOrder

-----------------------------------------------------------------------------
(* The steps of a request *)

\* A request that moves without touching the file keeps everything, if what it now
\* holds and what it caches is sound.
LEMMA QuietCall ==
    ASSUME StoreInv, NEW r \in Requests, OnlyRequest(r), LockInOrder', JobsInStep,
           UNCHANGED <<file, reader, job, crossed, reads>>,
           cached' \in MaybeRead, storeFaults' \in 0 .. MaxStoreFaults,
           request[r].pc # "done",
           request'[r].has = Unread <=> request'[r].pc \notin {"load", "change"},
           Sound(request'[r].has),
           request'[r].out # "none" => request'[r].pc = "done",
           request'[r].op \in Ops,
           Applied(r)' => Applied(r) /\ SameAsked(r),
           issued' \subseteq issued \cup {r}, r \in issued' => request'[r].out = "ok",
           \/ Sound(cached')
           \/ cached' = cached /\ (request[r].pc = "renamed" => request'[r].pc = "renamed")
    PROVE  StoreInv'
<1> USE DEF StoreInv
<1>1. StoreShape'
  BY DEF StoreShape, OnlyRequest
<1>2. \A s \in Requests : s # r => request'[s] = request[s]
  BY DEF OnlyRequest
<1>3. r \notin issued
  BY DEF CallsInStep
<1>4. CallsInStep'
  BY <1>2, <1>3 DEF CallsInStep
<1>5. JobsInStep'
  BY DEF JobsInStep
<1>6. \A x : Sound(x)' <=> Sound(x)
  BY DEF Sound
<1>7. WellFormed(file)' /\ (\A q \in Readers : Sound(reader[q])') /\ (\A j \in Jobs : Sound(job[j].has)')
  BY DEF Sound, SnapshotsSound, WellFormed
<1>8. ASSUME NEW s \in Requests PROVE Sound(request[s].has)'
  <2>1. Sound(request'[s].has)
    BY <1>2 DEF SnapshotsSound
  <2> QED BY <2>1 DEF Sound
<1>9. ASSUME cached' # Unread
      PROVE  /\ WellFormed(cached)'
             /\ ~crossed' => Agree(cached, file)' \/ \E s \in Requests : request'[s].pc = "renamed"
  <2>1. CASE Sound(cached')
    BY <1>9, <2>1 DEF Sound, WellFormed, Agree
  <2>2. CASE cached' = cached /\ (request[r].pc = "renamed" => request'[r].pc = "renamed")
    <3>1. WellFormed(cached) /\ (~crossed => Agree(cached, file) \/ \E s \in Requests : request[s].pc = "renamed")
      BY <1>9, <2>2 DEF SnapshotsSound
    <3>2. \A s \in Requests : request[s].pc = "renamed" => request'[s].pc = "renamed"
      BY <1>2, <2>2
    <3>3. WellFormed(cached)' /\ (Agree(cached, file) => Agree(cached, file)')
      BY <2>2, <3>1 DEF WellFormed, Agree
    <3> QED BY <3>1, <3>2, <3>3
  <2> QED BY <2>1, <2>2
<1>10. SnapshotsSound'
  BY <1>7, <1>8, <1>9 DEF SnapshotsSound
<1>11. \A s \in Requests : Applied(s)' => Applied(s) /\ SameAsked(s)
  BY <1>2 DEF Applied, SameAsked
<1>12. \A s \in Requests : Counted(s)' => Counted(s) /\ SameAsked(s)
  BY <1>11 DEF Counted, SameAsked
<1>13. ChangesInFile'
  BY <1>11, <1>12 DEF ChangesInFile, SameAsked
<1> QED BY <1>1, <1>4, <1>5, <1>10, <1>13

LEMMA ArriveKeeps ==
    ASSUME StoreInv, NEW r \in Requests, Arrive(r)
    PROVE  StoreInv'
<1>1. PICK o \in Ops, c \in Creds, v \in 0 .. MaxVersion :
        request' = [request EXCEPT ![r].pc = "wait", ![r].op = o, ![r].on = c, ![r].expects = v]
  BY DEF Arrive
<1>2. /\ request[r] \in StoreCall /\ request \in [Requests -> StoreCall] /\ StoreShape
      /\ request[r].pc = "idle" /\ lock' = Append(lock, r) /\ LockInOrder /\ CallsInStep
      /\ UNCHANGED <<file, cached, reader, job, issued, crossed, storeFaults, reads>>
  BY DEF StoreInv, StoreShape, Arrive
<1> DEFINE y == [request[r] EXCEPT !.pc = "wait", !.op = o, !.on = c, !.expects = v]
<1>3. /\ y \in StoreCall /\ y.pc = "wait" /\ y.op = o /\ y.has = request[r].has
      /\ y.out = request[r].out
  BY <1>2 DEF StoreCall, StorePCs
<1>4. request' = [request EXCEPT ![r] = y]
  BY <1>1, <1>2
<1> HIDE DEF y
<1>5. /\ OnlyRequest(r) /\ request'[r].pc = "wait" /\ request'[r].op \in Ops
      /\ request'[r].has = request[r].has /\ request'[r].out = request[r].out
  BY <1>2, <1>3, <1>4 DEF OnlyRequest
<1>6. request[r].has = Unread /\ request[r].out = "none" /\ r \notin issued
  BY <1>2 DEF CallsInStep
<1>7. LockInOrder'
  BY <1>2, <1>5, LockJoined
<1>8. ~Applied(r)' /\ Sound(request'[r].has)
  BY <1>5, <1>6 DEF Applied, Sound
<1>9. cached' \in MaybeRead /\ storeFaults' \in 0 .. MaxStoreFaults /\ JobsInStep
  BY <1>2 DEF StoreShape, StoreInv
<1> QED BY <1>2, <1>5, <1>6, <1>7, <1>8, <1>9, QuietCall

LEMMA AcquireKeeps ==
    ASSUME StoreInv, NEW r \in Requests, Acquire(r)
    PROVE  StoreInv'
<1>1. /\ StoreShape /\ request[r].pc = "wait" /\ Head(lock) = r /\ LockInOrder /\ CallsInStep
      /\ UNCHANGED <<file, cached, lock, reader, job, issued, crossed, storeFaults, reads>>
  BY DEF StoreInv, Acquire
<1>2. /\ OnlyRequest(r) /\ SameAsked(r) /\ request'[r].pc = "read"
      /\ request'[r].has = request[r].has /\ request'[r].out = request[r].out
  <2>1. "read" \in StorePCs
    BY DEF StorePCs
  <2> QED BY <1>1, <2>1, GotoMoves DEF Acquire
<1>3. Len(lock) > 0 /\ lock[1] = r
  <2>1. PICK i \in 1 .. Len(lock) : lock[i] = r
    BY <1>1 DEF LockInOrder, InLock
  <2>2. lock \in Seq(Requests) /\ Len(lock) > 0
    BY <1>1, <2>1 DEF LockInOrder
  <2> QED BY <1>1, <2>2
<1>4. LockInOrder'
  BY <1>1, <1>2, <1>3, LockStays DEF InLock
<1>5. request[r].has = Unread /\ request[r].out = "none" /\ r \notin issued /\ request[r].op \in Ops
  BY <1>1 DEF CallsInStep
<1>6. ~Applied(r)' /\ Sound(request'[r].has)
  BY <1>2, <1>5 DEF Applied, Sound
<1>7. cached' \in MaybeRead /\ storeFaults' \in 0 .. MaxStoreFaults /\ JobsInStep
  BY <1>1 DEF StoreShape, StoreInv
<1> QED BY <1>1, <1>2, <1>4, <1>5, <1>6, <1>7, QuietCall DEF SameAsked

\* Under the lock no other request is between its rename and the end of its cache entry.
LEMMA ReadInLockKeeps ==
    ASSUME StoreInv, NEW r \in Requests, ReadInLock(r)
    PROVE  StoreInv'
<1>1. /\ StoreShape /\ request[r].pc = "read" /\ LockInOrder /\ CallsInStep /\ SnapshotsSound
      /\ UNCHANGED <<file, cached, lock, reader, job, issued, crossed, storeFaults, reads>>
  BY DEF StoreInv, ReadInLock
<1>2. request[r] \in StoreCall /\ request \in [Requests -> StoreCall]
  BY <1>1 DEF StoreShape
<1>3. PICK pc \in {"load", "change"}, has \in Snapshots :
        /\ CallTo(r, pc, has, request[r].out)
        /\ has = IF cached # Unread THEN cached ELSE file
  <2>1. CASE cached # Unread
    <3>1. CallTo(r, "change", cached, request[r].out)
      BY <1>2, <2>1 DEF ReadInLock, CallTo, StoreCall
    <3>2. cached \in Snapshots
      BY <1>1, <2>1 DEF StoreShape, MaybeRead
    <3> QED BY <2>1, <3>1, <3>2
  <2>2. CASE cached = Unread
    <3>1. CallTo(r, "load", file, request[r].out)
      BY <1>2, <2>2 DEF ReadInLock, CallTo, StoreCall
    <3>2. file \in Snapshots
      BY <1>1 DEF StoreShape
    <3> QED BY <2>2, <3>1, <3>2
  <2> QED BY <2>1, <2>2
<1>4. /\ OnlyRequest(r) /\ SameAsked(r) /\ request'[r].pc = pc
      /\ request'[r].has = has /\ request'[r].out = request[r].out
  <2>1. pc \in StorePCs /\ has \in MaybeRead /\ request[r].out \in StoreAnswers
    BY <1>2 DEF StorePCs, MaybeRead, StoreCall
  <2> QED BY <1>1, <1>3, <2>1, CallMoves
<1>5. LockInOrder'
  <2>1. Len(lock) > 0 /\ lock[1] = r
    BY <1>1 DEF LockInOrder, Holding, InLock
  <2> QED BY <1>1, <1>4, <2>1, LockStays DEF InLock
<1>6. has # Unread
  BY UnreadIsNone
<1>7. Sound(has)
  <2>1. CASE cached # Unread
    <3>1. ~ \E s \in Requests : request[s].pc = "renamed"
      BY <1>1, LockExcludes DEF Holding, InLock
    <3> QED BY <1>1, <1>3, <2>1, <3>1 DEF SnapshotsSound, Sound
  <2>2. CASE cached = Unread
    <3>1. has = file /\ WellFormed(file)
      BY <1>1, <1>3, <2>2 DEF SnapshotsSound
    <3> QED BY <3>1 DEF Sound, Agree
  <2> QED BY <2>1, <2>2
<1>8. request[r].out = "none" /\ r \notin issued /\ request[r].op \in Ops
  BY <1>1 DEF CallsInStep
<1>9. ~Applied(r)'
  BY <1>4, <1>8 DEF Applied
<1>10. cached' \in MaybeRead /\ storeFaults' \in 0 .. MaxStoreFaults /\ JobsInStep
  BY <1>1 DEF StoreShape, StoreInv
<1> QED BY <1>1, <1>4, <1>5, <1>6, <1>7, <1>8, <1>9, <1>10, QuietCall DEF SameAsked

LEMMA LoadInLockKeeps ==
    ASSUME StoreInv, NEW r \in Requests, LoadInLock(r)
    PROVE  StoreInv'
<1>1. /\ StoreShape /\ request[r].pc = "load" /\ LockInOrder /\ CallsInStep /\ SnapshotsSound
      /\ UNCHANGED <<file, lock, reader, job, issued, crossed, storeFaults, reads>>
      /\ cached' = request[r].has
  BY DEF StoreInv, LoadInLock
<1>2. /\ OnlyRequest(r) /\ SameAsked(r) /\ request'[r].pc = "change"
      /\ request'[r].has = request[r].has /\ request'[r].out = request[r].out
  <2>1. "change" \in StorePCs
    BY DEF StorePCs
  <2> QED BY <1>1, <2>1, GotoMoves DEF LoadInLock
<1>3. LockInOrder'
  <2>1. Len(lock) > 0 /\ lock[1] = r
    BY <1>1 DEF LockInOrder, Holding, InLock
  <2> QED BY <1>1, <1>2, <2>1, LockStays DEF InLock
<1>4. request[r].out = "none" /\ r \notin issued /\ request[r].op \in Ops /\ request[r].has # Unread
  BY <1>1 DEF CallsInStep
<1>5. ~Applied(r)' /\ Sound(request'[r].has) /\ Sound(cached')
  BY <1>1, <1>2, <1>4 DEF Applied, SnapshotsSound
<1>6. cached' \in MaybeRead /\ storeFaults' \in 0 .. MaxStoreFaults /\ JobsInStep
  BY <1>1 DEF StoreShape, StoreInv, StoreCall
<1> QED BY <1>1, <1>2, <1>3, <1>4, <1>5, <1>6, QuietCall DEF SameAsked

\* Refusals, failed writes and the end of a change let the next request in.
LEMMA FinishKeeps ==
    ASSUME StoreInv, NEW r \in Requests, NEW out \in StoreAnswers \ {"none"}, Finish(r, out),
           request[r].pc \in {"change", "event"}, out = "ok" => request[r].pc = "event",
           UNCHANGED <<file, cached, reader, job, crossed, reads>>,
           storeFaults' \in 0 .. MaxStoreFaults,
           issued' \subseteq issued \cup {r}, r \in issued' => r \in issued \/ out = "ok"
    PROVE  StoreInv'
<1>1. StoreShape /\ LockInOrder /\ CallsInStep /\ SnapshotsSound /\ JobsInStep
  BY DEF StoreInv
<1>2. /\ OnlyRequest(r) /\ SameAsked(r) /\ request'[r].pc = "done"
      /\ request'[r].has = Unread /\ request'[r].out = out /\ lock' = Tail(lock)
  BY <1>1, FinishMoves
<1>3. LockInOrder'
  BY <1>1, <1>2, LockLeft DEF InLock, Holding
<1>4. request[r].op \in Ops /\ r \notin issued
  BY <1>1 DEF CallsInStep
<1>5. (Applied(r)' => Applied(r) /\ SameAsked(r)) /\ Sound(request'[r].has)
  BY <1>2 DEF Applied, Sound
<1>6. cached' \in MaybeRead
  BY <1>1 DEF StoreShape
<1> QED BY <1>1, <1>2, <1>3, <1>4, <1>5, <1>6, QuietCall DEF SameAsked

LEMMA RefusalAnswers ==
    ASSUME NEW r, NEW s
    PROVE  Refusal(r, s) \in {"duplicate", "missing", "conflict", "none"}
  BY DEF Refusal

LEMMA RefuseKeeps ==
    ASSUME StoreInv, NEW r \in Requests, Refuse(r)
    PROVE  StoreInv'
<1>1. /\ request[r].pc = "change" /\ Refusal(r, request[r].has) # "none"
      /\ Finish(r, Refusal(r, request[r].has))
      /\ UNCHANGED <<file, cached, reader, job, issued, crossed, storeFaults, reads>>
  BY DEF Refuse
<1>2. PICK out \in {"duplicate", "missing", "conflict"} : out = Refusal(r, request[r].has)
  BY <1>1, RefusalAnswers
<1>3. out \in StoreAnswers \ {"none"} /\ Finish(r, out)
  BY <1>1, <1>2 DEF StoreAnswers
<1>4. storeFaults' \in 0 .. MaxStoreFaults
  BY <1>1 DEF StoreInv, StoreShape
<1> QED BY <1>1, <1>2, <1>3, <1>4, FinishKeeps

LEMMA WriteFailsKeeps ==
    ASSUME StoreInv, NEW r \in Requests, WriteFails(r)
    PROVE  StoreInv'
<1>1. /\ request[r].pc = "change" /\ Finish(r, "error") /\ "error" \in StoreAnswers \ {"none"}
      /\ UNCHANGED <<file, cached, reader, job, issued, crossed, reads>>
  BY DEF WriteFails, StoreAnswers
<1>2. storeFaults' \in 0 .. MaxStoreFaults
  BY StoreAssumption DEF StoreInv, StoreShape, WriteFails
<1> QED BY <1>1, <1>2, FinishKeeps

LEMMA AppendEventKeeps ==
    ASSUME StoreInv, NEW r \in Requests, AppendEvent(r)
    PROVE  StoreInv'
<1>1. /\ request[r].pc = "event" /\ Finish(r, "ok") /\ "ok" \in StoreAnswers \ {"none"}
      /\ UNCHANGED <<file, cached, reader, job, crossed, storeFaults, reads>>
      /\ issued' \subseteq issued \cup {r}
  BY DEF AppendEvent, StoreAnswers
<1>2. storeFaults' \in 0 .. MaxStoreFaults
  BY <1>1 DEF StoreInv, StoreShape
<1> QED BY <1>1, <1>2, FinishKeeps

LEMMA DropCacheKeeps ==
    ASSUME StoreInv, NEW r \in Requests, DropCache(r)
    PROVE  StoreInv'
<1>1. /\ StoreShape /\ request[r].pc = "renamed" /\ LockInOrder /\ CallsInStep /\ cached' = Unread
      /\ UNCHANGED <<file, lock, reader, job, issued, crossed, storeFaults, reads>>
  BY DEF StoreInv, DropCache
<1>2. /\ OnlyRequest(r) /\ SameAsked(r) /\ request'[r].pc = "event"
      /\ request'[r].has = request[r].has /\ request'[r].out = request[r].out
  <2>1. "event" \in StorePCs
    BY DEF StorePCs
  <2> QED BY <1>1, <2>1, GotoMoves DEF DropCache
<1>3. LockInOrder'
  <2>1. Len(lock) > 0 /\ lock[1] = r
    BY <1>1 DEF LockInOrder, Holding, InLock
  <2> QED BY <1>1, <1>2, <2>1, LockStays DEF InLock
<1>4. request[r].out = "none" /\ r \notin issued /\ request[r].op \in Ops /\ request[r].has = Unread
  BY <1>1 DEF CallsInStep
<1>5. Applied(r) /\ Sound(request'[r].has) /\ Sound(cached')
  BY <1>1, <1>2, <1>4 DEF Applied, Sound
<1>6. cached' \in MaybeRead /\ storeFaults' \in 0 .. MaxStoreFaults /\ JobsInStep
  BY <1>1 DEF StoreShape, StoreInv, MaybeRead
<1> QED BY <1>1, <1>2, <1>3, <1>4, <1>5, <1>6, QuietCall DEF SameAsked

-----------------------------------------------------------------------------
(* The write *)

LEMMA SuspensionSet ==
    ASSUME NEW x \in Record, NEW b \in BOOLEAN
    PROVE  LET y == [x EXCEPT !.suspended = b]
           IN  /\ y \in Record /\ y.by = x.by /\ y.status = x.status /\ y.version = x.version
<1>1. [x EXCEPT !.suspended = b] \in Record
  BY Zenon DEF Record
<1> QED BY <1>1 DEF Record

\* What a change that is not refused does to its credential, and only to it.
LEMMA ChangedAdds ==
    ASSUME NEW r \in Requests, request[r] \in StoreCall, request[r].op \in Ops,
           NEW snap \in Snapshots, WellFormed(snap), Refusal(r, snap) = "none"
    PROVE  LET c == request[r].on
               n == Changed(r, snap)
           IN  /\ n \in Snapshots /\ WellFormed(n) /\ c \in Creds
               /\ \A d \in Creds : d # c => n[d] = snap[d]
               /\ n[c].by = snap[c].by \cup {r}
               /\ snap[c].by # {} => n[c].version >= snap[c].version
               /\ request[r].op = "update" =>
                    /\ n[c].version = snap[c].version + 1
                    /\ request[r].expects \in {AnyVersion, snap[c].version}
<1> DEFINE c == request[r].on
<1> DEFINE o == CASE request[r].op = "create"  -> Fresh
                  [] request[r].op = "revoke"  -> Revoked(snap[c])
                  [] request[r].op = "suspend" -> Suspended(snap[c])
                  [] request[r].op = "renew"   -> Renewed(snap[c])
                  [] request[r].op = "update"  -> Updated(snap[c])
<1> DEFINE x == [o EXCEPT !.by = @ \cup {r}]
<1>1. c \in Creds /\ snap[c] \in Record /\ snap[c].version \in Nat
  BY DEF StoreCall, Snapshots, Record
<1>2. Fresh \in Record /\ Fresh.by = {} /\ Fresh.status = "active"
  BY DEF Fresh, Absent, Record
<1>3. IF request[r].op = "create" THEN snap[c].status = "absent" ELSE snap[c].status # "absent"
  BY DEF Refusal
<1>4. request[r].op = "create" => snap[c].by = {}
  BY <1>1, <1>3 DEF WellFormed
<1>5. /\ o \in Record /\ o.by = snap[c].by /\ o.status # "absent"
      /\ request[r].op # "create" => o.version >= snap[c].version
      /\ request[r].op = "update" => o.version = snap[c].version + 1
  <2>1. CASE request[r].op = "create"
    BY <1>2, <1>4, <2>1
  <2>2. CASE request[r].op = "revoke"
    <3>1. o = Revoked(snap[c])
      BY <2>2
    <3> HIDE DEF o
    <3> QED BY <1>1, <1>3, <2>2, <3>1 DEF Revoked, Record
  <2>3. CASE request[r].op = "suspend"
    <3>1. o = Suspended(snap[c])
      BY <2>3
    <3> HIDE DEF o
    <3>2. o \in Record /\ o.by = snap[c].by /\ o.status = snap[c].status /\ o.version = snap[c].version
      BY <1>1, <3>1, SuspensionSet DEF Suspended
    <3> QED BY <1>1, <1>3, <2>3, <3>2
  <2>4. CASE request[r].op = "renew"
    <3>1. o = Renewed(snap[c])
      BY <2>4
    <3> HIDE DEF o
    <3>2. o \in Record /\ o.by = snap[c].by /\ o.status = snap[c].status /\ o.version = snap[c].version
      BY <1>1, <3>1, SuspensionSet DEF Renewed
    <3> QED BY <1>1, <1>3, <2>4, <3>2
  <2>5. CASE request[r].op = "update"
    <3>1. o = Updated(snap[c])
      BY <2>5
    <3> HIDE DEF o
    <3>2. o = [snap[c] EXCEPT !.version = snap[c].version + 1]
      BY <3>1 DEF Updated
    <3> HIDE DEF c
    <3>3. o \in Record
      BY <1>1, <3>2 DEF Record
    <3>4. o.by = snap[c].by /\ o.status = snap[c].status /\ o.version = snap[c].version + 1
      BY <1>1, <3>2 DEF Record
    <3> QED BY <1>1, <1>3, <2>5, <3>3, <3>4
  <2> QED BY <2>1, <2>2, <2>3, <2>4, <2>5 DEF Ops
<1>6. Changed(r, snap) = [snap EXCEPT ![c] = x]
  BY DEF Changed
<1> HIDE DEF o
<1>7. x \in Record /\ x.by = snap[c].by \cup {r} /\ x.status # "absent" /\ x.version = o.version
  BY <1>5 DEF Record
<1> HIDE DEF x
<1>8. /\ Changed(r, snap) \in Snapshots /\ Changed(r, snap)[c] = x
      /\ \A d \in Creds : d # c => Changed(r, snap)[d] = snap[d]
  BY <1>1, <1>6, <1>7 DEF Snapshots
<1>9. WellFormed(Changed(r, snap))
  BY <1>7, <1>8 DEF WellFormed
<1>10. request[r].op = "update" => request[r].expects \in {AnyVersion, snap[c].version}
  BY <1>3 DEF Refusal
<1> QED BY <1>1, <1>4, <1>5, <1>7, <1>8, <1>9, <1>10

LEMMA RenameKeeps ==
    ASSUME StoreInv, NEW e \in Requests, Rename(e)
    PROVE  StoreInv'
<1> USE DEF StoreInv
<1>1. /\ request[e].pc = "change" /\ Refusal(e, request[e].has) = "none"
      /\ file' = Changed(e, request[e].has)
      /\ crossed' = (crossed \/ HeldOutside(Jobs))
      /\ UNCHANGED <<cached, lock, reader, job, issued, storeFaults, reads>>
  BY DEF Rename
<1>2. request[e] \in StoreCall /\ request \in [Requests -> StoreCall]
  BY DEF StoreShape
<1>3. /\ request[e].has # Unread /\ request[e].out = "none" /\ request[e].op \in Ops
      /\ e \notin issued
  BY <1>1 DEF CallsInStep
<1> DEFINE snap == request[e].has
           c0 == request[e].on
<1>4. snap \in Snapshots /\ WellFormed(snap) /\ (~crossed => Agree(snap, file))
  BY <1>2, <1>3 DEF StoreCall, MaybeRead, SnapshotsSound, Sound
<1>5. /\ file' \in Snapshots /\ WellFormed(file') /\ c0 \in Creds
      /\ \A d \in Creds : d # c0 => file'[d] = snap[d]
      /\ file'[c0].by = snap[c0].by \cup {e}
      /\ snap[c0].by # {} => file'[c0].version >= snap[c0].version
      /\ request[e].op = "update" =>
           /\ file'[c0].version = snap[c0].version + 1
           /\ request[e].expects \in {AnyVersion, snap[c0].version}
  BY <1>1, <1>2, <1>3, <1>4, ChangedAdds
<1>6. /\ OnlyRequest(e) /\ SameAsked(e) /\ request'[e].pc = "renamed"
      /\ request'[e].has = Unread /\ request'[e].out = "none"
  <2>1. CallTo(e, "renamed", Unread, request[e].out)
    BY <1>2 DEF Rename, CallTo, StoreCall
  <2>2. "renamed" \in StorePCs /\ Unread \in MaybeRead /\ request[e].out \in StoreAnswers
    BY <1>2 DEF StorePCs, MaybeRead, StoreCall
  <2> QED BY <1>3, <2>1, <2>2, CallMoves
<1>7. StoreShape'
  BY <1>1, <1>5, <1>6 DEF StoreShape, OnlyRequest, HeldOutside
<1>8. LockInOrder'
  <2>1. Len(lock) > 0 /\ lock[1] = e
    BY <1>1 DEF LockInOrder, Holding, InLock
  <2> QED BY <1>1, <1>6, <2>1, LockStays DEF InLock
<1>9. CallsInStep' /\ JobsInStep'
  BY <1>1, <1>3, <1>6 DEF CallsInStep, OnlyRequest, SameAsked, JobsInStep
<1>10. \A s \in Requests : s # e => request'[s] = request[s] /\ request[s].has = Unread
  <2>1. \A s \in Requests : s # e => request[s].pc \notin Holding
    BY <1>1, LockExcludes DEF Holding, InLock
  <2> QED BY <1>6, <2>1 DEF OnlyRequest, Holding, InLock, CallsInStep
<1>11. \A x : WellFormed(x)' <=> WellFormed(x)
  BY DEF WellFormed
<1>12. SnapshotsSound'
  <2>1. WellFormed(file)'
    BY <1>5 DEF WellFormed
  <2>2. \A s \in Requests : Sound(request[s].has)'
    BY <1>6, <1>10 DEF Sound
  <2>3. ASSUME NEW q \in Readers PROVE Sound(reader[q])'
    <3>1. reader'[q] # Unread => crossed'
      BY <1>1 DEF HeldOutside
    <3>2. reader'[q] # Unread => WellFormed(reader[q])
      BY <1>1 DEF SnapshotsSound, Sound
    <3>3. reader'[q] = reader[q]
      BY <1>1
    <3> QED BY <3>1, <3>2, <3>3 DEF Sound, WellFormed
  <2>4. ASSUME NEW j \in Jobs PROVE Sound(job[j].has)'
    <3>1. job'[j].has # Unread => crossed'
      BY <1>1 DEF HeldOutside
    <3>2. job'[j].has # Unread => WellFormed(job[j].has)
      BY <1>1 DEF SnapshotsSound, Sound
    <3>3. job'[j].has = job[j].has
      BY <1>1
    <3> QED BY <3>1, <3>2, <3>3 DEF Sound, WellFormed
  <2>5. cached' # Unread => WellFormed(cached)' /\ \E r \in Requests : request'[r].pc = "renamed"
    BY <1>1, <1>6 DEF SnapshotsSound, WellFormed
  <2> QED BY <2>1, <2>2, <2>3, <2>4, <2>5 DEF SnapshotsSound
<1>13. ChangesInFile'
  <2> SUFFICES ASSUME ~crossed'
               PROVE  /\ \A r \in Requests : Applied(r)' => r \in file'[request'[r].on].by
                      /\ \A r \in Requests : Counted(r)' => file'[request'[r].on].version > request'[r].expects
                      /\ \A r, s \in Requests :
                           r # s /\ Counted(r)' /\ Counted(s)' /\ request'[r].on = request'[s].on
                           => request'[r].expects # request'[s].expects
    BY DEF ChangesInFile
  <2>1. ~crossed /\ Agree(snap, file)
    BY <1>1, <1>4
  <2>2. ASSUME NEW r \in Requests, r # e, Applied(r)'
        PROVE  /\ Applied(r) /\ request'[r] = request[r] /\ request[r].on \in Creds
               /\ r \in file[request[r].on].by /\ r \in snap[request[r].on].by
    <3>1. Applied(r) /\ request'[r] = request[r]
      BY <1>10, <2>2 DEF Applied
    <3>2. request[r].on \in Creds
      BY <1>2 DEF StoreShape, StoreCall
    <3>3. r \in file[request[r].on].by
      BY <2>1, <3>1 DEF ChangesInFile
    <3> QED BY <2>1, <3>1, <3>2, <3>3 DEF Agree
  <2>3. ASSUME NEW r \in Requests, r # e, Counted(r)'
        PROVE  /\ Counted(r) /\ request'[r] = request[r] /\ request[r].on \in Creds
               /\ request[r].expects \in Nat /\ snap[request[r].on].version \in Nat
               /\ snap[request[r].on].version > request[r].expects
               /\ snap[request[r].on].by # {}
    <3>1. Counted(r) /\ request'[r] = request[r] /\ request[r].on \in Creds
          /\ r \in snap[request[r].on].by
      BY <2>2, <2>3 DEF Counted
    <3>2. file[request[r].on].version > request[r].expects
      BY <2>1, <3>1 DEF ChangesInFile
    <3>3. snap[request[r].on].version = file[request[r].on].version
      BY <2>1, <3>1 DEF Agree
    <3>4. request[r].expects \in Nat /\ snap[request[r].on].version \in Nat
      BY <1>2, <1>4, <3>1, StoreAssumption DEF StoreCall, Snapshots, Record
    <3> QED BY <3>1, <3>2, <3>3, <3>4
  <2>4. Counted(e)' => /\ request[e].op = "update" /\ snap[c0].version = request[e].expects
                       /\ snap[c0].version \in Nat /\ file'[c0].version = snap[c0].version + 1
    BY <1>4, <1>5, <1>6 DEF Counted, SameAsked, Snapshots, Record
  <2>5. ASSUME NEW r \in Requests, Applied(r)'
        PROVE  r \in file'[request'[r].on].by
    <3>1. CASE r = e
      BY <1>5, <1>6, <3>1 DEF SameAsked
    <3>2. CASE r # e
      BY <1>5, <2>2, <2>5, <3>2
    <3> QED BY <3>1, <3>2
  <2>6. ASSUME NEW r \in Requests, Counted(r)'
        PROVE  file'[request'[r].on].version > request'[r].expects
    <3>1. CASE r = e
      BY <1>6, <2>4, <2>6, <3>1 DEF SameAsked
    <3>2. CASE r # e
      <4>1. /\ request'[r] = request[r] /\ request[r].on \in Creds
            /\ request[r].expects \in Nat /\ snap[request[r].on].version \in Nat
            /\ snap[request[r].on].version > request[r].expects
            /\ snap[request[r].on].by # {}
        BY <2>3, <2>6, <3>2
      <4>2. file'[request[r].on].version \in Nat
        BY <1>5, <4>1 DEF Snapshots, Record
      <4> HIDE DEF snap, c0
      <4>3. file'[request[r].on].version >= snap[request[r].on].version
        <5>1. CASE request[r].on = c0
          BY <1>5, <4>1, <5>1
        <5>2. CASE request[r].on # c0
          <6>1. file'[request[r].on] = snap[request[r].on]
            BY <1>5, <4>1, <5>2
          <6> QED BY <4>1, <6>1
        <5> QED BY <5>1, <5>2
      <4> QED BY <4>1, <4>2, <4>3
    <3> QED BY <3>1, <3>2
  <2>7. ASSUME NEW r \in Requests, r # e, Counted(r)', Counted(e)', request'[r].on = request'[e].on
        PROVE  request'[r].expects # request'[e].expects
    <3>1. /\ request'[r] = request[r] /\ request[r].expects \in Nat
          /\ snap[request[r].on].version > request[r].expects
      BY <2>3, <2>7
    <3>2. request'[e].expects = request[e].expects /\ request[r].on = c0
      BY <1>6, <2>7, <3>1 DEF SameAsked
    <3>3. snap[c0].version = request[e].expects /\ snap[c0].version \in Nat
      BY <2>4, <2>7
    <3> HIDE DEF snap, c0
    <3> QED BY <3>1, <3>2, <3>3
  <2>8. ASSUME NEW r \in Requests, NEW s \in Requests, r # s, r # e, s # e, Counted(r)', Counted(s)',
               request'[r].on = request'[s].on
        PROVE  request'[r].expects # request'[s].expects
    BY <2>1, <2>3, <2>8 DEF ChangesInFile
  <2> QED BY <2>5, <2>6, <2>7, <2>8
<1> QED BY <1>7, <1>8, <1>9, <1>12, <1>13

-----------------------------------------------------------------------------
(* Readers, the cache and the expiry job *)

\* A step that leaves the requests and the file alone keeps everything, if what is
\* cached and held afterwards is sound.
LEMMA QuietActors ==
    ASSUME StoreInv, UNCHANGED <<file, lock, request, issued, storeFaults>>,
           crossed => crossed', crossed' \in BOOLEAN, reads' \in 0 .. MaxReads,
           cached' \in MaybeRead, reader' \in [Readers -> MaybeRead], job' \in [Jobs -> JobCall],
           JobsInStep', cached' = cached \/ Sound(cached)',
           \A q \in Readers : Sound(reader[q])', \A j \in Jobs : Sound(job[j].has)'
    PROVE  StoreInv'
<1> USE DEF StoreInv
<1>1. StoreShape' /\ LockInOrder' /\ CallsInStep'
  BY DEF StoreShape, LockInOrder, CallsInStep
<1>2. \A r \in Requests : Sound(request[r].has)'
  BY DEF SnapshotsSound, Sound, WellFormed, Agree
<1>3. WellFormed(file)'
  BY DEF SnapshotsSound, WellFormed
<1>4. ASSUME cached' # Unread
      PROVE  /\ WellFormed(cached)'
             /\ ~crossed' => Agree(cached, file)' \/ \E r \in Requests : request'[r].pc = "renamed"
  <2>1. CASE Sound(cached)'
    BY <1>4, <2>1 DEF Sound
  <2>2. CASE cached' = cached
    BY <1>4, <2>2 DEF SnapshotsSound, WellFormed, Agree
  <2> QED BY <2>1, <2>2
<1>5. SnapshotsSound'
  BY <1>2, <1>3, <1>4 DEF SnapshotsSound
<1>6. ChangesInFile'
  BY DEF ChangesInFile, Applied, Counted
<1> QED BY <1>1, <1>5, <1>6

LEMMA StartReadKeeps ==
    ASSUME StoreInv, NEW e \in Readers, StartRead(e)
    PROVE  StoreInv'
<1>1. /\ reader' = [reader EXCEPT ![e] = file] /\ reads' = reads + 1 /\ reads < MaxReads
      /\ UNCHANGED <<file, cached, lock, request, job, issued, crossed, storeFaults>>
  BY DEF StartRead
<1>2. reader' \in [Readers -> MaybeRead] /\ reads' \in 0 .. MaxReads
  BY <1>1, StoreAssumption DEF StoreInv, StoreShape, MaybeRead
<1>3. ASSUME NEW q \in Readers PROVE Sound(reader[q])'
  <2>1. reader'[q] = IF q = e THEN file ELSE reader[q]
    BY <1>1 DEF StoreInv, StoreShape
  <2>2. WellFormed(file) /\ Agree(file, file) /\ Sound(reader[q])
    BY DEF StoreInv, SnapshotsSound, Agree
  <2> QED BY <1>1, <2>1, <2>2 DEF Sound, WellFormed, Agree
<1>4. \A j \in Jobs : Sound(job[j].has)'
  BY <1>1 DEF StoreInv, SnapshotsSound, Sound, WellFormed, Agree
<1>5. cached' \in MaybeRead /\ job' \in [Jobs -> JobCall] /\ crossed' \in BOOLEAN /\ JobsInStep'
  BY <1>1 DEF StoreInv, StoreShape, JobsInStep
<1> QED BY <1>1, <1>2, <1>3, <1>4, <1>5, QuietActors

LEMMA FinishReadKeeps ==
    ASSUME StoreInv, NEW e \in Readers, FinishRead(e)
    PROVE  StoreInv'
<1>1. /\ reader' = [reader EXCEPT ![e] = Unread] /\ cached' = reader[e]
      /\ UNCHANGED <<file, lock, request, job, issued, crossed, storeFaults, reads>>
  BY DEF FinishRead
<1>2. reader' \in [Readers -> MaybeRead] /\ reads' \in 0 .. MaxReads /\ cached' \in MaybeRead
  BY <1>1 DEF StoreInv, StoreShape, MaybeRead
<1>3. ASSUME NEW q \in Readers PROVE Sound(reader[q])'
  <2>1. reader'[q] = IF q = e THEN Unread ELSE reader[q]
    BY <1>1 DEF StoreInv, StoreShape
  <2>2. Sound(reader[q])
    BY DEF StoreInv, SnapshotsSound
  <2> QED BY <1>1, <2>1, <2>2 DEF Sound, WellFormed, Agree
<1>4. \A j \in Jobs : Sound(job[j].has)'
  BY <1>1 DEF StoreInv, SnapshotsSound, Sound, WellFormed, Agree
<1>5. Sound(cached)'
  <2>1. Sound(reader[e])
    BY DEF StoreInv, SnapshotsSound
  <2> QED BY <1>1, <2>1 DEF Sound, WellFormed, Agree
<1>6. job' \in [Jobs -> JobCall] /\ crossed' \in BOOLEAN /\ JobsInStep'
  BY <1>1 DEF StoreInv, StoreShape, JobsInStep
<1> QED BY <1>1, <1>2, <1>3, <1>4, <1>5, <1>6, QuietActors

LEMMA CacheExpiresKeeps ==
    ASSUME StoreInv, CacheExpires
    PROVE  StoreInv'
<1>1. cached' = Unread /\ UNCHANGED <<file, lock, request, reader, job, issued, crossed, storeFaults, reads>>
  BY DEF CacheExpires
<1>2. /\ \A q \in Readers : Sound(reader[q])'
      /\ \A j \in Jobs : Sound(job[j].has)'
      /\ Sound(cached)'
  BY <1>1 DEF StoreInv, SnapshotsSound, Sound, WellFormed, Agree
<1>3. /\ job' \in [Jobs -> JobCall] /\ reader' \in [Readers -> MaybeRead] /\ crossed' \in BOOLEAN
      /\ JobsInStep' /\ cached' \in MaybeRead /\ reads' \in 0 .. MaxReads
  BY <1>1 DEF StoreInv, StoreShape, JobsInStep, MaybeRead
<1> QED BY <1>1, <1>2, <1>3, QuietActors

\* One run of the job moves.
LEMMA JobMoves ==
    ASSUME StoreInv, NEW e \in Jobs, NEW x \in JobCall, job' = [job EXCEPT ![e] = x],
           x.has = Unread <=> x.pc \notin {"load", "index", "dispatch"},
           file' = file, crossed => crossed', reader' = reader,
           x.has # Unread => WellFormed(x.has) /\ (~crossed' => Agree(x.has, file))
    PROVE  /\ job' \in [Jobs -> JobCall] /\ JobsInStep'
           /\ \A q \in Readers : Sound(reader[q])'
           /\ \A j \in Jobs : Sound(job[j].has)'
<1>1. job \in [Jobs -> JobCall]
  BY DEF StoreInv, StoreShape
<1>2. job' \in [Jobs -> JobCall] /\ \A j \in Jobs : job'[j] = IF j = e THEN x ELSE job[j]
  BY <1>1
<1>3. JobsInStep'
  BY <1>2 DEF StoreInv, JobsInStep
<1>4. \A q \in Readers : Sound(reader[q])'
  BY DEF StoreInv, SnapshotsSound, Sound, WellFormed, Agree
<1>5. ASSUME NEW j \in Jobs PROVE Sound(job[j].has)'
  <2>1. CASE j = e
    BY <1>2, <2>1 DEF Sound, WellFormed, Agree
  <2>2. CASE j # e
    BY <1>2, <2>2 DEF StoreInv, SnapshotsSound, Sound, WellFormed, Agree
  <2> QED BY <2>1, <2>2
<1> QED BY <1>2, <1>3, <1>4, <1>5

\* A cache entry that is not the file's content is recorded when the job takes it.
LEMMA JobReadsKeeps ==
    ASSUME StoreInv, NEW e \in Jobs, JobReads(e)
    PROVE  StoreInv'
<1>1. PICK pc \in {"index", "load"}, has \in Snapshots :
        /\ job' = [job EXCEPT ![e] = [pc |-> pc, has |-> has]]
        /\ has = IF cached # Unread THEN cached ELSE file
  <2>1. cached # Unread => cached \in Snapshots
    BY DEF StoreInv, StoreShape, MaybeRead
  <2>2. file \in Snapshots
    BY DEF StoreInv, StoreShape
  <2> QED BY <2>1, <2>2 DEF JobReads
<1>2. /\ crossed' = (crossed \/ cached \notin {Unread, file})
      /\ UNCHANGED <<file, cached, lock, request, reader, issued, storeFaults, reads>>
  BY DEF JobReads
<1>3. WellFormed(has) /\ (~crossed' => has = file)
  BY <1>1, <1>2 DEF StoreInv, SnapshotsSound
<1>4. Agree(file, file) /\ has # Unread
  BY UnreadIsNone DEF Agree
<1>5. [pc |-> pc, has |-> has] \in JobCall
  BY DEF JobCall, MaybeRead
<1>6. /\ job' \in [Jobs -> JobCall] /\ JobsInStep'
      /\ \A q \in Readers : Sound(reader[q])'
      /\ \A j \in Jobs : Sound(job[j].has)'
  BY <1>1, <1>2, <1>3, <1>4, <1>5, JobMoves
<1>7. /\ reader' \in [Readers -> MaybeRead] /\ crossed' \in BOOLEAN /\ (crossed => crossed')
      /\ cached' \in MaybeRead /\ reads' \in 0 .. MaxReads
  BY <1>2 DEF StoreInv, StoreShape
<1> QED BY <1>2, <1>6, <1>7, QuietActors

LEMMA JobLoadsKeeps ==
    ASSUME StoreInv, NEW e \in Jobs, JobLoads(e)
    PROVE  StoreInv'
<1>1. job[e] \in JobCall /\ job[e].pc = "load" /\ job[e].has # Unread /\ Sound(job[e].has)
  BY DEF StoreInv, StoreShape, JobLoads, JobsInStep, SnapshotsSound
<1>2. /\ cached' = job[e].has /\ job' = [job EXCEPT ![e] = [pc |-> "index", has |-> job[e].has]]
      /\ UNCHANGED <<file, lock, request, reader, issued, crossed, storeFaults, reads>>
  <2>1. [job[e] EXCEPT !.pc = "index"] = [pc |-> "index", has |-> job[e].has]
    BY <1>1 DEF JobCall
  <2>2. job' = [job EXCEPT ![e] = [job[e] EXCEPT !.pc = "index"]]
    BY DEF JobLoads, StoreInv, StoreShape
  <2> QED BY <2>1, <2>2 DEF JobLoads
<1>3. [pc |-> "index", has |-> job[e].has] \in JobCall
  BY <1>1 DEF JobCall
<1>4. /\ job' \in [Jobs -> JobCall] /\ JobsInStep'
      /\ \A q \in Readers : Sound(reader[q])'
      /\ \A j \in Jobs : Sound(job[j].has)'
  BY <1>1, <1>2, <1>3, JobMoves DEF Sound
<1>5. Sound(cached)'
  BY <1>1, <1>2 DEF Sound, WellFormed, Agree
<1>6. /\ reader' \in [Readers -> MaybeRead] /\ crossed' \in BOOLEAN
      /\ cached' \in MaybeRead /\ reads' \in 0 .. MaxReads
  BY <1>1, <1>2 DEF StoreInv, StoreShape, JobCall
<1> QED BY <1>2, <1>4, <1>5, <1>6, QuietActors

\* Only absent credentials are added, so no change is touched.
LEMMA JobIndexesKeeps ==
    ASSUME StoreInv, NEW e \in Jobs, JobIndexes(e)
    PROVE  StoreInv'
<1>1. job[e] \in JobCall /\ job[e].pc = "index" /\ job[e].has # Unread /\ Sound(job[e].has)
  BY DEF StoreInv, StoreShape, JobIndexes, JobsInStep, SnapshotsSound
<1>2. job[e].has \in Snapshots
  BY <1>1 DEF JobCall, MaybeRead
<1>3. PICK seen \in SUBSET Reported :
        job' = [job EXCEPT ![e] =
         [pc |-> "dispatch",
          has |-> [c \in Creds |-> IF c \in seen /\ job[e].has[c].status = "absent"
                                   THEN Fresh ELSE job[e].has[c]]]]
  BY DEF JobIndexes, StoreInv, StoreShape
<1> DEFINE n == [c \in Creds |-> IF c \in seen /\ job[e].has[c].status = "absent"
                                 THEN Fresh ELSE job[e].has[c]]
<1>4. Fresh \in Record /\ Fresh.by = {}
  BY DEF Fresh, Absent, Record
<1>5. n \in Snapshots
  BY <1>2, <1>4 DEF Snapshots
<1>6. \A c \in Creds : n[c] = job[e].has[c] \/ (n[c].by = {} /\ job[e].has[c].by = {})
  BY <1>1, <1>4 DEF Sound, WellFormed
<1>7. job' = [job EXCEPT ![e] = [pc |-> "dispatch", has |-> n]]
  BY <1>3
<1> HIDE DEF n
<1>8. WellFormed(n) /\ (~crossed => Agree(n, file)) /\ n # Unread
  <2>1. WellFormed(n)
    BY <1>1, <1>6 DEF Sound, WellFormed
  <2>2. ~crossed => Agree(n, file)
    BY <1>1, <1>6 DEF Sound, Agree
  <2> QED BY <1>5, <2>1, <2>2, UnreadIsNone
<1>9. UNCHANGED <<file, cached, lock, request, reader, issued, crossed, storeFaults, reads>>
  BY DEF JobIndexes
<1>10. [pc |-> "dispatch", has |-> n] \in JobCall
  BY <1>5 DEF JobCall, MaybeRead
<1>11. /\ job' \in [Jobs -> JobCall] /\ JobsInStep'
       /\ \A q \in Readers : Sound(reader[q])'
       /\ \A j \in Jobs : Sound(job[j].has)'
  BY <1>7, <1>8, <1>9, <1>10, JobMoves
<1>12. /\ reader' \in [Readers -> MaybeRead] /\ crossed' \in BOOLEAN
       /\ cached' \in MaybeRead /\ reads' \in 0 .. MaxReads
  BY <1>9 DEF StoreInv, StoreShape
<1> QED BY <1>9, <1>11, <1>12, QuietActors

LEMMA JobDropsCacheKeeps ==
    ASSUME StoreInv, NEW e \in Jobs, JobDropsCache(e)
    PROVE  StoreInv'
<1>1. /\ cached' = Unread /\ job' = [job EXCEPT ![e] = [pc |-> "done", has |-> Unread]]
      /\ UNCHANGED <<file, lock, request, reader, issued, crossed, storeFaults, reads>>
  BY DEF JobDropsCache
<1>2. [pc |-> "done", has |-> Unread] \in JobCall
  BY DEF JobCall, MaybeRead
<1>3. /\ job' \in [Jobs -> JobCall] /\ JobsInStep'
      /\ \A q \in Readers : Sound(reader[q])'
      /\ \A j \in Jobs : Sound(job[j].has)'
  BY <1>1, <1>2, JobMoves
<1>4. Sound(cached)'
  BY <1>1 DEF Sound
<1>5. /\ reader' \in [Readers -> MaybeRead] /\ crossed' \in BOOLEAN
      /\ cached' \in MaybeRead /\ reads' \in 0 .. MaxReads
  BY <1>1 DEF StoreInv, StoreShape, MaybeRead
<1> QED BY <1>1, <1>3, <1>4, <1>5, QuietActors

LEMMA NotificationSet ==
    ASSUME NEW x \in Record, NEW b \in BOOLEAN
    PROVE  LET y == [x EXCEPT !.notified = b]
           IN  /\ y \in Record /\ y.by = x.by /\ y.status = x.status /\ y.version = x.version
<1>1. [x EXCEPT !.notified = b] \in Record
  BY Zenon DEF Record
<1> QED BY <1>1 DEF Record

\* The job writes back what it read: without an overlap, the changes that are in the file.
LEMMA JobWritesKeeps ==
    ASSUME StoreInv, NEW e \in Jobs, JobWrites(e)
    PROVE  StoreInv'
<1>1. job[e] \in JobCall /\ job[e].pc = "dispatch" /\ job[e].has # Unread /\ Sound(job[e].has)
  BY DEF StoreInv, StoreShape, JobWrites, JobsInStep, SnapshotsSound
<1>2. job[e].has \in Snapshots
  BY <1>1 DEF JobCall, MaybeRead
<1>3. PICK told \in SUBSET Creds :
        file' = [c \in Creds |-> [job[e].has[c] EXCEPT !.notified = job[e].has[c].notified \/ c \in told]]
  BY DEF JobWrites
<1>4. /\ file' \in Snapshots
      /\ \A c \in Creds : /\ file'[c].by = job[e].has[c].by /\ file'[c].status = job[e].has[c].status
                          /\ file'[c].version = job[e].has[c].version
  <2> DEFINE has == job[e].has
  <2>1. ASSUME NEW c \in Creds
        PROVE  /\ file'[c] \in Record /\ file'[c].by = has[c].by
               /\ file'[c].status = has[c].status /\ file'[c].version = has[c].version
    <3>1. PICK b \in BOOLEAN : b = (has[c].notified \/ c \in told)
      OBVIOUS
    <3>2. file'[c] = [has[c] EXCEPT !.notified = b]
      BY <1>3, <3>1
    <3>3. has[c] \in Record
      BY <1>2 DEF Snapshots
    <3> QED BY <3>2, <3>3, NotificationSet
  <2>2. DOMAIN file' = Creds /\ file' = [c \in Creds |-> file'[c]]
    BY <1>3
  <2> QED BY <2>1, <2>2 DEF Snapshots
<1>5. /\ job' = [job EXCEPT ![e] = [pc |-> "renamed", has |-> Unread]]
      /\ crossed' = (crossed \/ HeldOutside(Jobs \ {e}) \/ \E r \in Requests : request[r].has # Unread)
      /\ UNCHANGED <<cached, lock, request, reader, issued, storeFaults, reads>>
  BY DEF JobWrites
<1>6. /\ job' \in [Jobs -> JobCall] /\ job'[e] = [pc |-> "renamed", has |-> Unread]
      /\ \A j \in Jobs : j # e => job'[j] = job[j]
  <2>1. [pc |-> "renamed", has |-> Unread] \in JobCall
    BY DEF JobCall, MaybeRead
  <2> QED BY <1>5, <2>1 DEF StoreInv, StoreShape
<1>7. WellFormed(file) /\ WellFormed(file') /\ (~crossed => Agree(file', file) /\ Agree(file, file'))
  <2>1. WellFormed(file')
    BY <1>1, <1>4 DEF Sound, WellFormed
  <2>2. ASSUME ~crossed PROVE Agree(file', file) /\ Agree(file, file')
    <3>1. Agree(job[e].has, file)
      BY <1>1, <2>2 DEF Sound
    <3> QED BY <1>4, <3>1 DEF Agree
  <2> QED BY <2>1, <2>2 DEF StoreInv, SnapshotsSound
<1>8. StoreShape' /\ LockInOrder' /\ CallsInStep'
  <2>1. crossed' \in BOOLEAN
    BY <1>5 DEF HeldOutside
  <2>2. StoreShape'
    BY <1>4, <1>5, <1>6, <2>1 DEF StoreInv, StoreShape
  <2>3. LockInOrder'
    BY <1>5 DEF StoreInv, LockInOrder
  <2>4. CallsInStep'
    BY <1>5 DEF StoreInv, CallsInStep
  <2> QED BY <2>2, <2>3, <2>4
<1>9. JobsInStep'
  BY <1>6 DEF StoreInv, JobsInStep
<1>10. SnapshotsSound'
  <2>1. WellFormed(file)'
    BY <1>7 DEF WellFormed
  <2>2. ASSUME NEW q \in Readers PROVE Sound(reader[q])'
    <3>1. reader'[q] # Unread => crossed' /\ WellFormed(reader[q])
      BY <1>5 DEF HeldOutside, StoreInv, SnapshotsSound, Sound
    <3> QED BY <1>5, <3>1 DEF Sound, WellFormed
  <2>3. ASSUME NEW j \in Jobs PROVE Sound(job[j].has)'
    <3>1. CASE j = e
      BY <1>6, <3>1 DEF Sound
    <3>2. CASE j # e
      <4>1. job[j].has # Unread => crossed' /\ WellFormed(job[j].has)
        BY <1>5, <3>2 DEF HeldOutside, StoreInv, SnapshotsSound, Sound
      <4> QED BY <1>6, <3>2, <4>1 DEF Sound, WellFormed
    <3> QED BY <3>1, <3>2
  <2>4. ASSUME NEW r \in Requests PROVE Sound(request[r].has)'
    <3>1. request[r].has # Unread => crossed' /\ WellFormed(request[r].has)
      BY <1>5 DEF StoreInv, SnapshotsSound, Sound
    <3> QED BY <1>5, <3>1 DEF Sound, WellFormed
  <2>5. ASSUME cached' # Unread
        PROVE  /\ WellFormed(cached)'
               /\ ~crossed' => Agree(cached, file)' \/ \E r \in Requests : request'[r].pc = "renamed"
    <3>1. /\ WellFormed(cached)
          /\ ~crossed => Agree(cached, file) \/ \E r \in Requests : request[r].pc = "renamed"
      BY <1>5, <2>5 DEF StoreInv, SnapshotsSound
    <3>2. ~crossed /\ Agree(cached, file) => Agree(cached, file')
      BY <1>7 DEF Agree
    <3> QED BY <1>5, <3>1, <3>2 DEF WellFormed, Agree
  <2> QED BY <2>1, <2>2, <2>3, <2>4, <2>5 DEF SnapshotsSound
<1>11. ChangesInFile'
  <2> SUFFICES ASSUME ~crossed'
               PROVE  /\ \A r \in Requests : Applied(r) => r \in file'[request[r].on].by
                      /\ \A r \in Requests : Counted(r) => file'[request[r].on].version > request[r].expects
                      /\ \A r, s \in Requests :
                           r # s /\ Counted(r) /\ Counted(s) /\ request[r].on = request[s].on
                           => request[r].expects # request[s].expects
    BY <1>5 DEF ChangesInFile, Applied, Counted
  <2>1. ~crossed /\ ChangesInFile
    BY <1>5 DEF StoreInv
  <2>2. ASSUME NEW r \in Requests, Applied(r)
        PROVE  /\ r \in file'[request[r].on].by
               /\ file'[request[r].on].version = file[request[r].on].version
    <3>1. r \in file[request[r].on].by
      BY <2>1, <2>2 DEF ChangesInFile
    <3>2. request[r].on \in Creds
      BY DEF StoreInv, StoreShape, StoreCall
    <3> QED BY <1>7, <2>1, <3>1, <3>2 DEF Agree
  <2>3. ASSUME NEW r \in Requests, Counted(r)
        PROVE  file'[request[r].on].version > request[r].expects
    BY <2>1, <2>2, <2>3 DEF ChangesInFile, Counted
  <2> QED BY <2>1, <2>2, <2>3 DEF ChangesInFile
<1> QED BY <1>8, <1>9, <1>10, <1>11 DEF StoreInv

\* A restart ends every request and forgets every snapshot.
LEMMA RestartKeeps ==
    ASSUME StoreInv, Restart
    PROVE  StoreInv'
<1> USE DEF StoreInv
<1>1. /\ cached' = Unread /\ lock' = <<>> /\ reader' = [q \in Readers |-> Unread]
      /\ job' = [j \in Jobs |-> IF job[j].pc = "idle" THEN Jobless ELSE [pc |-> "done", has |-> Unread]]
      /\ UNCHANGED <<file, issued, crossed, reads>>
      /\ storeFaults' \in 0 .. MaxStoreFaults
  <2>1. storeFaults < MaxStoreFaults /\ storeFaults' = storeFaults + 1
    BY DEF Restart
  <2>2. storeFaults \in 0 .. MaxStoreFaults
    BY DEF StoreShape
  <2>3. storeFaults' \in 0 .. MaxStoreFaults
    BY <2>1, <2>2, StoreAssumption
  <2> QED BY <2>3 DEF Restart
<1>2. ASSUME NEW r \in Requests
      PROVE  /\ request'[r] \in StoreCall /\ request'[r].pc \in {"idle", "done"}
             /\ request'[r].has = Unread
             /\ request'[r].op = request[r].op /\ request'[r].on = request[r].on
             /\ request'[r].expects = request[r].expects
             /\ request'[r].out = "ok" => request[r].out = "ok"
             /\ request'[r].out # "none" => request'[r].pc = "done"
             /\ request'[r].pc # "idle" => request'[r].op \in Ops
             /\ r \in issued => request'[r].out = "ok"
  <2>1. request[r] \in StoreCall
    BY DEF StoreShape
  <2>2. CASE request[r].pc \in {"idle", "done"}
    <3>1. request'[r] = request[r]
      BY <2>2 DEF Restart
    <3> QED BY <2>1, <2>2, <3>1 DEF CallsInStep
  <2>3. CASE request[r].pc \notin {"idle", "done"}
    <3>1. request'[r] = [request[r] EXCEPT !.pc = "done", !.out = "lost", !.has = Unread]
      BY <2>3 DEF Restart
    <3>2. r \notin issued /\ request[r].op \in Ops
      BY <2>3 DEF CallsInStep
    <3>3. Unread \in MaybeRead /\ "done" \in StorePCs /\ "lost" \in StoreAnswers
      BY DEF MaybeRead, StorePCs, StoreAnswers
    <3> QED BY <2>1, <3>1, <3>2, <3>3 DEF StoreCall
  <2> QED BY <2>2, <2>3
<1>3. request' \in [Requests -> StoreCall]
  <2>1. DOMAIN request' = Requests /\ request' = [r \in Requests |-> request'[r]]
    BY DEF Restart
  <2> QED BY <1>2, <2>1
<1>4. \A j \in Jobs : job'[j] \in JobCall /\ job'[j].has = Unread /\ job'[j].pc \in {"idle", "done"}
  BY <1>1 DEF Jobless, JobCall, MaybeRead
<1>5. StoreShape'
  <2>1. job' \in [Jobs -> JobCall]
    BY <1>1, <1>4
  <2> QED BY <1>1, <1>3, <2>1 DEF StoreShape, MaybeRead
<1>6. LockInOrder'
  BY <1>1, <1>2 DEF LockInOrder, Holding, InLock
<1>7. CallsInStep' /\ JobsInStep'
  BY <1>1, <1>2, <1>4 DEF CallsInStep, JobsInStep
<1>8. SnapshotsSound'
  BY <1>1, <1>2, <1>4 DEF SnapshotsSound, Sound, WellFormed
<1>9. \A r \in Requests : (Applied(r)' => Applied(r)) /\ (Counted(r)' => Counted(r))
  BY <1>2 DEF Applied, Counted
<1>10. ChangesInFile'
  BY <1>1, <1>2, <1>9 DEF ChangesInFile
<1> QED BY <1>5, <1>6, <1>7, <1>8, <1>10

LEMMA StoreStarts ==
    ASSUME StoreInit
    PROVE  StoreInv
<1>1. Absent \in Record /\ Fresh \in Record /\ Absent.by = {} /\ Fresh.by = {}
  BY DEF Absent, Fresh, Record
<1>2. Idle \in StoreCall /\ Idle.pc = "idle" /\ Idle.has = Unread /\ Idle.out = "none"
  BY StoreAssumption DEF Idle, StoreCall, StorePCs, StoreAnswers, MaybeRead, AnyVersion
<1>3. Jobless \in JobCall /\ Jobless.pc = "idle" /\ Jobless.has = Unread
  BY DEF Jobless, JobCall, MaybeRead
<1>4. StoreShape
  <2>1. file \in Snapshots
    BY <1>1 DEF StoreInit, Snapshots
  <2>2. request \in [Requests -> StoreCall] /\ job \in [Jobs -> JobCall]
    BY <1>2, <1>3 DEF StoreInit
  <2>3. cached \in MaybeRead /\ reader \in [Readers -> MaybeRead]
    BY DEF StoreInit, MaybeRead
  <2>4. storeFaults \in 0 .. MaxStoreFaults /\ reads \in 0 .. MaxReads
    BY StoreAssumption DEF StoreInit
  <2>5. issued \subseteq Requests /\ crossed \in BOOLEAN
    BY DEF StoreInit
  <2> QED BY <2>1, <2>2, <2>3, <2>4, <2>5 DEF StoreShape
<1>5. LockInOrder
  BY <1>2 DEF StoreInit, LockInOrder, InLock, Holding
<1>6. CallsInStep /\ JobsInStep
  BY <1>2, <1>3 DEF StoreInit, CallsInStep, JobsInStep
<1>7. SnapshotsSound
  <2>1. WellFormed(file)
    BY <1>1 DEF StoreInit, WellFormed
  <2> QED BY <1>2, <1>3, <2>1 DEF StoreInit, SnapshotsSound, Sound
<1>8. ChangesInFile
  BY <1>2 DEF StoreInit, ChangesInFile, Applied, Counted
<1> QED BY <1>4, <1>5, <1>6, <1>7, <1>8 DEF StoreInv

LEMMA StoreSteps ==
    ASSUME StoreInv, [StoreNext]_storeVars
    PROVE  StoreInv'
<1>1. CASE UNCHANGED storeVars
  <2>1. UNCHANGED <<file, cached, lock, request, reader, job, issued, crossed, storeFaults, reads>>
    BY <1>1 DEF storeVars
  <2>2. StoreShape' /\ LockInOrder'
    BY <2>1 DEF StoreInv, StoreShape, LockInOrder
  <2>3. CallsInStep' /\ JobsInStep'
    BY <2>1 DEF StoreInv, CallsInStep, JobsInStep
  <2>4. SnapshotsSound'
    BY <2>1 DEF StoreInv, SnapshotsSound, Sound, WellFormed, Agree
  <2>5. ChangesInFile'
    BY <2>1 DEF StoreInv, ChangesInFile, Applied, Counted
  <2> QED BY <2>2, <2>3, <2>4, <2>5 DEF StoreInv
<1>2. ASSUME NEW r \in Requests, Arrive(r) \/ RequestStep(r)
      PROVE  StoreInv'
  BY <1>2, ArriveKeeps, AcquireKeeps, ReadInLockKeeps, LoadInLockKeeps, RefuseKeeps, RenameKeeps,
     WriteFailsKeeps, DropCacheKeeps, AppendEventKeeps DEF RequestStep
<1>3. ASSUME NEW q \in Readers, StartRead(q) \/ FinishRead(q)
      PROVE  StoreInv'
  BY <1>3, StartReadKeeps, FinishReadKeeps
<1>4. ASSUME NEW j \in Jobs, JobStep(j)
      PROVE  StoreInv'
  BY <1>4, JobReadsKeeps, JobLoadsKeeps, JobIndexesKeeps, JobWritesKeeps, JobDropsCacheKeeps DEF JobStep
<1> QED BY <1>1, <1>2, <1>3, <1>4, CacheExpiresKeeps, RestartKeeps DEF StoreNext

LEMMA StoreInvKeeps ==
    ASSUME StoreInv
    PROVE  StoreKeepsChanges
<1>1. StoreTypeOK
  <2>1. DOMAIN lock = 1 .. Len(lock)
    BY DEF StoreInv, LockInOrder
  <2>2. \A i \in DOMAIN lock : lock[i] \in Requests
    BY <2>1 DEF StoreInv, LockInOrder
  <2>3. \A i, k \in DOMAIN lock : lock[i] = lock[k] => i = k
    BY <2>1 DEF StoreInv, LockInOrder
  <2>4. ASSUME NEW r \in Requests
        PROVE  /\ request[r].pc \in {"idle", "wait", "read", "load", "change", "renamed", "event", "done"}
               /\ request[r].op \in Ops \cup {"none"} /\ request[r].on \in Creds
               /\ request[r].expects \in 0 .. MaxVersion
               /\ (request[r].has = Unread \/ request[r].has \in Snapshots)
    BY DEF StoreInv, StoreShape, StoreCall, StorePCs, MaybeRead
  <2>5. \A j \in Jobs : job[j].pc \in {"idle", "load", "index", "dispatch", "renamed", "done"}
    BY DEF StoreInv, StoreShape, JobCall
  <2> QED BY <2>2, <2>3, <2>4, <2>5 DEF StoreInv, StoreShape, StoreTypeOK, MaybeRead
<1>2. LostOnlyByOverlap
  BY DEF StoreInv, ChangesInFile, Applied, LostOnlyByOverlap, ConfirmedChangesKept
<1>3. OneUpdatePerVersion
  BY DEF StoreInv, ChangesInFile, Applied, Counted, OneUpdatePerVersion
<1>4. EventsFollowWrites
  <2>1. \A r \in issued : r \in Requests /\ Applied(r)
    BY DEF StoreInv, StoreShape, CallsInStep, Applied
  <2> QED BY <2>1 DEF StoreInv, ChangesInFile, EventsFollowWrites
<1> QED BY <1>1, <1>2, <1>3, <1>4 DEF StoreKeepsChanges

\* A change confirmed to its client stays in the file through failed writes and restarts, one
\* of the updates sent for a version is accepted and an event stands for a write that was made,
\* unless a snapshot taken without the lock overlapped a write (storage.js:394-460, 464-716;
\* expiry.js:298): for any credentials, requests, readers, runs of the job and bounds.
THEOREM StoreKeepsAllChanges == StoreSpec => []StoreKeepsChanges
<1>1. StoreInit => StoreInv
  BY StoreStarts
<1>2. StoreInv /\ [StoreNext]_storeVars => StoreInv'
  BY StoreSteps
<1>3. StoreInv => StoreKeepsChanges
  BY StoreInvKeeps
<1> QED BY <1>1, <1>2, <1>3, PTL DEF StoreSpec

-----------------------------------------------------------------------------
(* The API keys *)

KeyStages == {"new", "loading", "ready", "mkdir", "rename", "done"}
KeyAnswers == {"none", "ok", "refused", "failed", "lost"}
KeyCall == [at : KeyStages, kind : Kinds, key : Keys, has : KeyMaps, stamp : Nat,
            out : KeyAnswers, secret : Nat]

KeyTypes ==
  /\ keys \in KeyMaps /\ keyFile \in [map : KeyMaps, stamp : Nat] /\ stamp \in Nat
  /\ loaded \in BOOLEAN /\ reloaded \in BOOLEAN /\ reordered \in BOOLEAN
  /\ blind \in BOOLEAN /\ overwritten \in BOOLEAN /\ keyClock \in Nat
  /\ caller \in [Callers -> KeyCall]

\* What an operation asks of the record of its key
Wants(kind, x) == IF kind \in {"revoke", "delete"} THEN x.status # "active"
                  ELSE x.status = "active"
Changer(c) == caller[c].kind # "validate" /\ Untouched(c) /\ ~reloaded /\ ~overwritten
Settled(c) == Changer(c) /\ caller[c].at = "done" /\ caller[c].out = "ok" /\ ~reordered

Ordered ==
  /\ \A c \in Callers :
       /\ caller[c].at \in {"ready", "mkdir", "rename"} => loaded
       /\ caller[c].out = "ok" =>
            \/ caller[c].at = "done"
            \/ caller[c].at \in {"mkdir", "rename"} /\ caller[c].kind = "validate"
       /\ caller[c].at = "rename" => caller[c].stamp <= stamp
       /\ caller[c].at \in {"mkdir", "rename"} => ~blind \/ overwritten
  /\ keyFile.stamp <= stamp /\ (blind => loaded)
  /\ ~loaded \/ (blind /\ ~overwritten) => keys = [k \in Keys |-> NoKey]

\* A snapshot as young as the last change is the map in memory
Current ==
  \A d \in Callers :
    caller[d].at = "rename" /\ caller[d].stamp = stamp /\ ~reloaded /\ ~overwritten
    => caller[d].has = keys

InMemory ==
  \A c \in Callers :
    (Changer(c) /\ caller[c].at \in {"mkdir", "rename"}) \/ (Settled(c) /\ loaded /\ ~blind)
    => Wants(caller[c].kind, keys[caller[c].key])

InSnapshots ==
  \A c, d \in Callers :
    /\ Changer(c) /\ caller[c].at = "rename"
    /\ caller[d].at = "rename" /\ caller[d].stamp >= caller[c].stamp
    => Wants(caller[c].kind, caller[d].has[caller[c].key])

InFile ==
  \A c \in Callers : Settled(c) =>
    /\ Wants(caller[c].kind, keyFile.map[caller[c].key])
    /\ \A d \in Callers :
         \/ caller[d].at = "rename" /\ caller[d].stamp >= keyFile.stamp
         \/ caller[d].at = "loading" /\ (~loaded \/ blind)
         => Wants(caller[c].kind, caller[d].has[caller[c].key])

KeysInv == KeyTypes /\ Ordered /\ Current /\ InMemory /\ InSnapshots /\ InFile

-----------------------------------------------------------------------------
\* One caller moves: what it asked for is fixed once it has asked, and from
\* "ready" on it never counts as not having come yet.
Moved(c) ==
  /\ caller' \in [Callers -> KeyCall] /\ \A d \in Callers \ {c} : caller'[d] = caller[d]
  /\ caller[c].at # "new" => caller'[c].kind = caller[c].kind /\ caller'[c].key = caller[c].key
  /\ caller[c].at \notin {"new", "loading"} => caller'[c].at \notin {"new", "loading"}

LEMMA StayedUntouched ==
    ASSUME NEW e \in Callers, Moved(e), NEW c \in Callers, caller[c].at # "new", Untouched(c)'
    PROVE  Untouched(c) /\ caller'[c].kind = caller[c].kind /\ caller'[c].key = caller[c].key
<1>1. caller'[c].kind = caller[c].kind /\ caller'[c].key = caller[c].key
  BY DEF Moved
<1>2. ASSUME NEW d \in Callers, d # c, caller[d].key = caller[c].key,
             caller[d].kind # "validate", caller[d].at \notin {"new", "loading"}
      PROVE  FALSE
  <2>1. caller'[d].kind = caller[d].kind /\ caller'[d].key = caller[d].key
        /\ caller'[d].at \notin {"new", "loading"}
    BY <1>2 DEF Moved
  <2> QED BY <1>1, <1>2, <2>1 DEF Untouched
<1> QED BY <1>1, <1>2 DEF Untouched

LEMMA OneCaller ==
    ASSUME caller \in [Callers -> KeyCall], NEW c \in Callers, NEW x \in KeyCall,
           caller' = [caller EXCEPT ![c] = x]
    PROVE  /\ caller' \in [Callers -> KeyCall] /\ caller'[c] = x
           /\ \A d \in Callers \ {c} : caller'[d] = caller[d]
  OBVIOUS

LEMMA AskKeyMoves ==
    ASSUME KeyTypes, NEW c \in Callers, AskKey(c)
    PROVE  /\ Moved(c) /\ caller'[c].out = caller[c].out
           /\ caller'[c].at = IF loaded THEN "ready" ELSE "loading"
           /\ ~loaded => caller'[c].has = keyFile.map
<1>1. PICK kind \in Kinds, k \in Keys, s \in {1} \cup {keys[x].secret : x \in Keys} :
        /\ kind # "validate" => s = 1
        /\ caller' = [caller EXCEPT ![c].at = IF loaded THEN "ready" ELSE "loading",
                                    ![c].kind = kind, ![c].key = k, ![c].secret = s,
                                    ![c].has = IF loaded THEN @ ELSE keyFile.map]
  BY DEF AskKey
<1>2. s \in Nat
  BY DEF KeyTypes, KeyMaps, KeyRecord
<1> DEFINE y == [caller[c] EXCEPT !.at = IF loaded THEN "ready" ELSE "loading", !.kind = kind,
                   !.key = k, !.secret = s,
                   !.has = IF loaded THEN caller[c].has ELSE keyFile.map]
<1>3. caller[c] \in KeyCall
  BY DEF KeyTypes
<1>4. /\ y \in KeyCall /\ y.out = caller[c].out /\ y.at = IF loaded THEN "ready" ELSE "loading"
      /\ ~loaded => y.has = keyFile.map
  BY <1>2, <1>3 DEF KeyCall, KeyStages, KeyTypes
<1>5. caller' = [caller EXCEPT ![c] = y]
  BY <1>1 DEF KeyTypes
<1> HIDE DEF y
<1>6. caller[c].at = "new"
  BY DEF AskKey
<1> QED BY <1>4, <1>5, <1>6, OneCaller DEF Moved, KeyTypes

\* A step that leaves the map, the file and the snapshots to be renamed alone.
LEMMA QuietKeyStep ==
    ASSUME KeysInv, NEW e \in Callers, Moved(e),
           UNCHANGED <<keys, loaded, keyFile, stamp, reloaded, reordered, blind, overwritten, keyClock>>,
           caller'[e].at \in {"loading", "ready", "done"}, caller'[e].at = "ready" => loaded,
           caller'[e].at = "loading" => caller'[e].has = keyFile.map,
           caller'[e].out = "ok" => caller'[e].at = "done" /\ caller'[e].kind = "validate"
    PROVE  KeysInv'
<1> USE DEF KeysInv
<1>1. KeyTypes'
  BY DEF KeyTypes, Moved
<1>2. Ordered'
  <2>1. \A c \in Callers : caller'[c].at \in {"mkdir", "rename"} => caller'[c] = caller[c]
    BY DEF Moved
  <2>2. \A c \in Callers : caller'[c].at = "rename" => caller'[c].stamp <= stamp'
    BY <2>1 DEF Ordered
  <2>3. \A c \in Callers : caller'[c].at \in {"mkdir", "rename"} => ~blind' \/ overwritten'
    BY <2>1 DEF Ordered
  <2>4. \A c \in Callers : caller'[c].at \in {"ready", "mkdir", "rename"} => loaded'
    BY DEF Ordered, Moved
  <2>5. \A c \in Callers : caller'[c].out = "ok" =>
          \/ caller'[c].at = "done"
          \/ caller'[c].at \in {"mkdir", "rename"} /\ caller'[c].kind = "validate"
    BY DEF Ordered, Moved
  <2> QED BY <2>2, <2>3, <2>4, <2>5 DEF Ordered
<1>3. Current'
  BY DEF Current, Moved
<1>4. ASSUME NEW c \in Callers, Changer(c)', caller'[c].at \in {"mkdir", "rename"} \/ Settled(c)'
      PROVE  c # e /\ caller'[c] = caller[c] /\ Changer(c) /\ (Settled(c)' => Settled(c))
  <2>1. c # e
    BY <1>4 DEF Changer, Settled
  <2>2. caller'[c] = caller[c] /\ caller[c].at # "new"
    BY <1>4, <2>1 DEF Moved, Settled
  <2>3. Changer(c)
    BY <1>4, <2>2, StayedUntouched DEF Changer
  <2> QED BY <2>1, <2>2, <2>3 DEF Settled
<1>5. \A d \in Callers : caller'[d].at = "rename" => caller'[d] = caller[d]
  BY DEF Moved
<1>6. InMemory'
  BY <1>4 DEF InMemory, Settled
<1>7. InSnapshots'
  BY <1>4, <1>5 DEF InSnapshots
<1>8. InFile'
  <2> SUFFICES ASSUME NEW c \in Callers, Settled(c)'
               PROVE  /\ Wants(caller'[c].kind, keyFile'.map[caller'[c].key])
                      /\ \A d \in Callers :
                           \/ caller'[d].at = "rename" /\ caller'[d].stamp >= keyFile'.stamp
                           \/ caller'[d].at = "loading" /\ (~loaded' \/ blind')
                           => Wants(caller'[c].kind, caller'[d].has[caller'[c].key])
    BY DEF InFile
  <2>1. caller'[c] = caller[c] /\ Settled(c)
    BY <1>4 DEF Settled
  <2>2. Wants(caller'[c].kind, keyFile'.map[caller'[c].key])
    BY <2>1 DEF InFile
  <2>3. ASSUME NEW d \in Callers, caller'[d].at = "loading", ~loaded \/ blind
        PROVE  Wants(caller'[c].kind, caller'[d].has[caller'[c].key])
    <3>1. CASE d = e
      BY <2>2, <2>3, <3>1
    <3>2. CASE d # e
      BY <2>1, <2>3, <3>2 DEF InFile, Moved
    <3> QED BY <3>1, <3>2
  <2> QED BY <1>5, <2>1, <2>2, <2>3 DEF InFile
<1> QED BY <1>1, <1>2, <1>3, <1>6, <1>7, <1>8

LEMMA AskKeyKeeps ==
    ASSUME KeysInv, NEW c \in Callers, AskKey(c)
    PROVE  KeysInv'
<1>1. /\ Moved(c) /\ caller'[c].out = caller[c].out
      /\ caller'[c].at = IF loaded THEN "ready" ELSE "loading"
      /\ ~loaded => caller'[c].has = keyFile.map
  BY AskKeyMoves DEF KeysInv
<1>2. /\ caller[c].out # "ok"
      /\ UNCHANGED <<keys, loaded, keyFile, stamp, reloaded, reordered, blind, overwritten, keyClock>>
  BY DEF AskKey, KeysInv, Ordered, keyBounds
<1> QED BY <1>1, <1>2, QuietKeyStep

\* The other steps of a caller change its stage, and with it some of the rest.
KeyStep(c, at, has, n, out) ==
  caller' = [caller EXCEPT ![c] = [caller[c] EXCEPT !.at = at, !.has = has, !.stamp = n,
                                                    !.out = out]]

LEMMA KeyStepMoves ==
    ASSUME KeyTypes, NEW c \in Callers, caller[c].at # "new", NEW at \in KeyStages \ {"new", "loading"},
           NEW has \in KeyMaps, NEW n \in Nat, NEW out \in KeyAnswers,
           KeyStep(c, at, has, n, out)
    PROVE  /\ Moved(c) /\ caller'[c].at = at /\ caller'[c].has = has
           /\ caller'[c].stamp = n /\ caller'[c].out = out
           /\ caller'[c].kind = caller[c].kind /\ caller'[c].key = caller[c].key
<1> DEFINE y == [caller[c] EXCEPT !.at = at, !.has = has, !.stamp = n, !.out = out]
<1>1. caller[c] \in KeyCall
  BY DEF KeyTypes
<1>2. /\ y \in KeyCall /\ y.at = at /\ y.has = has /\ y.stamp = n /\ y.out = out
      /\ y.kind = caller[c].kind /\ y.key = caller[c].key
  BY <1>1 DEF KeyCall
<1> HIDE DEF y
<1>3. caller' = [caller EXCEPT ![c] = y]
  BY DEF KeyStep, y
<1> QED BY <1>2, <1>3, OneCaller DEF Moved, KeyTypes

LEMMA RefuseKeyKeeps ==
    ASSUME KeysInv, NEW c \in Callers, RefuseKey(c) \/ PersistFails(c)
    PROVE  KeysInv'
<1>1. /\ caller[c] \in KeyCall /\ caller[c].at \in {"ready", "rename"} /\ KeyTypes
      /\ caller \in [Callers -> KeyCall]
  BY DEF KeysInv, KeyTypes, RefuseKey, PersistFails
<1>2. \E out \in KeyAnswers :
        /\ out = "ok" => caller[c].kind = "validate"
        /\ KeyStep(c, "done", caller[c].has, caller[c].stamp, out)
  <2>1. CASE RefuseKey(c)
    <3>1. KeyStep(c, "done", caller[c].has, caller[c].stamp, "refused")
      BY <1>1, <2>1 DEF RefuseKey, KeyCall, KeyStep
    <3> QED BY <3>1 DEF KeyAnswers
  <2>2. CASE PersistFails(c) /\ caller[c].kind = "validate"
    <3>1. KeyStep(c, "done", caller[c].has, caller[c].stamp, caller[c].out)
      BY <1>1, <2>2 DEF PersistFails, KeyCall, KeyStep
    <3>2. caller[c].out \in KeyAnswers
      BY <1>1 DEF KeyCall
    <3> QED BY <2>2, <3>1, <3>2
  <2>3. CASE PersistFails(c) /\ caller[c].kind # "validate"
    <3>1. KeyStep(c, "done", caller[c].has, caller[c].stamp, "failed")
      BY <1>1, <2>3 DEF PersistFails, KeyCall, KeyStep
    <3> QED BY <3>1 DEF KeyAnswers
  <2> QED BY <2>1, <2>2, <2>3
<1>3. PICK out \in KeyAnswers :
        /\ out = "ok" => caller[c].kind = "validate"
        /\ KeyStep(c, "done", caller[c].has, caller[c].stamp, out)
  BY <1>2
<1>4. UNCHANGED <<keys, loaded, keyFile, stamp, reloaded, reordered, blind, overwritten, keyClock>>
  BY DEF RefuseKey, PersistFails, keyBounds
<1>5. /\ Moved(c) /\ caller'[c].at = "done" /\ caller'[c].out = out
      /\ caller'[c].kind = caller[c].kind
  <2>1. /\ caller[c].at # "new" /\ "done" \in KeyStages \ {"new", "loading"}
        /\ caller[c].has \in KeyMaps /\ caller[c].stamp \in Nat
    BY <1>1 DEF KeyCall, KeyStages
  <2> QED BY <1>1, <1>3, <2>1, KeyStepMoves
<1> QED BY <1>3, <1>4, <1>5, QuietKeyStep

\* Another load ended first: either nothing has changed since, or the load is recorded.
LEMMA LoadKeeps ==
    ASSUME KeysInv, NEW e \in Callers, Load(e)
    PROVE  KeysInv'
<1> USE DEF KeysInv
<1>1. caller[e] \in KeyCall /\ caller[e].at = "loading"
  BY DEF KeyTypes, Load
<1>2. KeyStep(e, "ready", caller[e].has, caller[e].stamp, caller[e].out)
  BY <1>1 DEF Load, KeyCall, KeyTypes, KeyStep
<1>3. /\ Moved(e) /\ caller'[e].at = "ready" /\ caller'[e].out = caller[e].out
  <2>1. /\ caller[e].at # "new" /\ "ready" \in KeyStages \ {"new", "loading"}
        /\ caller[e].has \in KeyMaps /\ caller[e].stamp \in Nat
        /\ caller[e].out \in KeyAnswers
    BY <1>1 DEF KeyCall, KeyStages
  <2> QED BY <1>2, <2>1, KeyStepMoves
<1>4. /\ UNCHANGED <<keyFile, stamp, reordered, overwritten, keyClock>> /\ loaded' = TRUE
      /\ keys' = caller[e].has /\ blind' = FALSE /\ reloaded' \in BOOLEAN /\ keys' \in KeyMaps
      /\ ~reloaded' => ~reloaded /\ (loaded /\ ~blind => keys' = keys)
  BY <1>1 DEF Load, KeyTypes, KeyCall, keyBounds
<1>5. KeyTypes'
  BY <1>3, <1>4 DEF KeyTypes, Moved
<1>6. caller[e].out # "ok"
  BY <1>1 DEF Ordered
<1>7. Ordered'
  BY <1>3, <1>4, <1>6 DEF Ordered, Moved
<1>8. \A d \in Callers :
        caller'[d].at = "rename" => caller'[d] = caller[d] /\ loaded /\ (~blind \/ overwritten)
  BY <1>3 DEF Moved, Ordered
<1>9. Current'
  BY <1>4, <1>8 DEF Current
<1>10. ASSUME NEW c \in Callers, Changer(c)', caller'[c].at \in {"mkdir", "rename"} \/ Settled(c)'
       PROVE  caller'[c] = caller[c] /\ Changer(c) /\ (Settled(c)' => Settled(c))
  <2>1. c # e
    BY <1>3, <1>10 DEF Settled
  <2>2. caller'[c] = caller[c] /\ caller[c].at # "new"
    BY <1>3, <1>10, <2>1 DEF Moved, Settled
  <2>3. Changer(c)
    BY <1>3, <1>4, <1>10, <2>2, StayedUntouched DEF Changer
  <2> QED BY <1>4, <2>2, <2>3 DEF Settled
<1>11. InMemory'
  <2> SUFFICES ASSUME NEW c \in Callers, Changer(c)',
                      caller'[c].at \in {"mkdir", "rename"} \/ Settled(c)'
               PROVE  Wants(caller'[c].kind, keys'[caller'[c].key])
    BY DEF InMemory, Settled
  <2>1. caller'[c] = caller[c] /\ Changer(c) /\ (Settled(c)' => Settled(c)) /\ ~reloaded'
    BY <1>10 DEF Changer
  <2>2. CASE loaded /\ ~blind
    BY <1>4, <2>1, <2>2 DEF InMemory
  <2>3. CASE ~loaded \/ blind
    <3>1. Settled(c)
      BY <2>1, <2>3 DEF Ordered, Changer
    <3> QED BY <1>1, <1>4, <2>1, <2>3, <3>1 DEF InFile
  <2> QED BY <2>2, <2>3
<1>12. InSnapshots'
  BY <1>8, <1>10 DEF InSnapshots
<1>13. InFile'
  BY <1>4, <1>8, <1>10 DEF InFile, Settled
<1> QED BY <1>5, <1>7, <1>9, <1>11, <1>12, <1>13

\* A load that fails hides the file from this process; what a later load has read stays right.
LEMMA LoadFailsKeeps ==
    ASSUME KeysInv, NEW e \in Callers, LoadFails(e)
    PROVE  KeysInv'
<1> USE DEF KeysInv
<1>1. caller[e] \in KeyCall /\ caller[e].at = "loading"
  BY DEF KeyTypes, LoadFails
<1>2. KeyStep(e, "ready", caller[e].has, caller[e].stamp, caller[e].out)
  BY <1>1 DEF LoadFails, KeyCall, KeyTypes, KeyStep
<1>3. /\ Moved(e) /\ caller'[e].at = "ready" /\ caller'[e].out = caller[e].out
  <2>1. /\ caller[e].at # "new" /\ "ready" \in KeyStages \ {"new", "loading"}
        /\ caller[e].has \in KeyMaps /\ caller[e].stamp \in Nat
        /\ caller[e].out \in KeyAnswers
    BY <1>1 DEF KeyCall, KeyStages
  <2> QED BY <1>2, <2>1, KeyStepMoves
<1>4. /\ UNCHANGED <<keys, keyFile, stamp, reloaded, reordered, overwritten, keyClock>>
      /\ loaded' = TRUE /\ (blind' <=> blind \/ ~loaded) /\ blind' \in BOOLEAN
  BY DEF LoadFails, KeyTypes
<1>5. KeyTypes'
  BY <1>3, <1>4 DEF KeyTypes, Moved
<1>6. caller[e].out # "ok"
  BY <1>1 DEF Ordered
<1>7. \A d \in Callers : caller'[d].at \in {"mkdir", "rename", "done"} =>
        caller'[d] = caller[d] /\ (caller[d].at # "done" => loaded /\ (~blind \/ overwritten))
  BY <1>3 DEF Moved, Ordered
<1>8. Ordered'
  <2>1. \A c \in Callers : caller'[c].at = "rename" => caller'[c].stamp <= stamp'
    BY <1>4, <1>7 DEF Ordered
  <2>2. \A c \in Callers : caller'[c].at \in {"mkdir", "rename"} => ~blind' \/ overwritten'
    BY <1>4, <1>7
  <2>3. \A c \in Callers : caller'[c].out = "ok" =>
          \/ caller'[c].at = "done"
          \/ caller'[c].at \in {"mkdir", "rename"} /\ caller'[c].kind = "validate"
    BY <1>3, <1>6 DEF Ordered, Moved
  <2> QED BY <1>4, <2>1, <2>2, <2>3 DEF Ordered
<1>9. Current'
  BY <1>4, <1>7 DEF Current
<1>10. ASSUME NEW c \in Callers, Changer(c)', caller'[c].at \in {"mkdir", "rename"} \/ Settled(c)'
       PROVE  caller'[c] = caller[c] /\ Changer(c) /\ (Settled(c)' => Settled(c))
  <2>1. c # e
    BY <1>3, <1>10 DEF Settled
  <2>2. caller'[c] = caller[c] /\ caller[c].at # "new"
    BY <1>3, <1>10, <2>1 DEF Moved, Settled
  <2>3. Changer(c)
    BY <1>3, <1>4, <1>10, <2>2, StayedUntouched DEF Changer
  <2> QED BY <1>4, <2>2, <2>3 DEF Settled
<1>11. InMemory'
  <2> SUFFICES ASSUME NEW c \in Callers, Changer(c)',
                      caller'[c].at \in {"mkdir", "rename"} \/ (Settled(c)' /\ ~blind')
               PROVE  Wants(caller'[c].kind, keys'[caller'[c].key])
    BY DEF InMemory, Settled
  <2>1. caller'[c] = caller[c] /\ Changer(c) /\ (Settled(c)' => Settled(c))
    BY <1>10
  <2>2. caller[c].at \in {"mkdir", "rename"} \/ (Settled(c) /\ loaded /\ ~blind)
    BY <1>4, <2>1
  <2> QED BY <1>4, <2>1, <2>2 DEF InMemory
<1>12. InSnapshots'
  BY <1>7, <1>10 DEF InSnapshots
<1>13. InFile'
  <2> SUFFICES ASSUME NEW c \in Callers, Settled(c)'
               PROVE  /\ Wants(caller'[c].kind, keyFile'.map[caller'[c].key])
                      /\ \A d \in Callers :
                           \/ caller'[d].at = "rename" /\ caller'[d].stamp >= keyFile'.stamp
                           \/ caller'[d].at = "loading" /\ (~loaded' \/ blind')
                           => Wants(caller'[c].kind, caller'[d].has[caller'[c].key])
    BY DEF InFile
  <2>1. caller'[c] = caller[c] /\ Settled(c)
    BY <1>10 DEF Settled
  <2>2. \A d \in Callers : caller'[d].at = "loading" => caller'[d] = caller[d]
    BY <1>3 DEF Moved
  <2> QED BY <1>4, <1>7, <2>1, <2>2 DEF InFile
<1> QED BY <1>5, <1>8, <1>9, <1>11, <1>12, <1>13

\* An operation changes the record of its own key; only a validation is alone with
\* another operation of that key.
LEMMA ApplyKeeps ==
    ASSUME KeysInv, NEW e \in Callers, Apply(e)
    PROVE  KeysInv'
<1> USE DEF KeysInv
<1> DEFINE out == IF caller[e].kind = "validate" THEN "ok" ELSE caller[e].out
<1>1. caller[e] \in KeyCall /\ caller[e].at = "ready" /\ loaded
  BY DEF KeyTypes, Apply, Ordered
<1>2. KeyStep(e, "mkdir", caller[e].has, caller[e].stamp, out)
  BY <1>1 DEF Apply, KeyCall, KeyTypes, KeyStep
<1>3. /\ Moved(e) /\ caller'[e].at = "mkdir" /\ caller'[e].out = out
      /\ caller'[e].kind = caller[e].kind /\ caller'[e].key = caller[e].key
  <2>1. /\ caller[e].at # "new" /\ "mkdir" \in KeyStages \ {"new", "loading"}
        /\ caller[e].has \in KeyMaps /\ caller[e].stamp \in Nat
        /\ out \in KeyAnswers
    BY <1>1 DEF KeyCall, KeyStages, KeyAnswers
  <2>2. PICK o \in KeyAnswers : o = out
    BY <2>1
  <2>3. KeyStep(e, "mkdir", caller[e].has, caller[e].stamp, o)
    BY <1>2, <2>2
  <2>4. /\ Moved(e) /\ caller'[e].at = "mkdir" /\ caller'[e].out = o
        /\ caller'[e].kind = caller[e].kind /\ caller'[e].key = caller[e].key
    BY <2>1, <2>3, KeyStepMoves
  <2> QED BY <2>2, <2>4
<1>0. PICK n \in {0, 1} : keys' = [keys EXCEPT ![caller[e].key] = Effect(e, n)]
  BY DEF Apply
<1>4. /\ UNCHANGED <<loaded, keyFile, reordered, reloaded, blind, keyClock>> /\ stamp' = stamp + 1
      /\ keys' = [keys EXCEPT ![caller[e].key] = Effect(e, n)]
      /\ (overwritten' <=> overwritten \/ blind) /\ overwritten' \in BOOLEAN
  BY <1>0 DEF Apply, keyBounds, KeyTypes
<1>5. Effect(e, n) \in KeyRecord /\ caller[e].key \in Keys
  <2>1. keys[caller[e].key] \in KeyRecord /\ caller[e].key \in Keys
    BY <1>1 DEF KeyTypes, KeyCall, KeyMaps
  <2>2. keyClock \in Nat /\ stamp \in Nat /\ n \in Nat
    BY DEF KeyTypes
  <2> QED BY <1>1, <2>1, <2>2 DEF Effect, IssueKey, RotateKey, RevokeKey, DeleteKey, NoKey, KeyRecord,
                            Kinds, KeyCall, Term
<1>6. keys' \in KeyMaps
  BY <1>4, <1>5 DEF KeyTypes, KeyMaps
<1>7. KeyTypes'
  BY <1>3, <1>4, <1>6 DEF KeyTypes, Moved
<1>8. caller[e].out # "ok" /\ (out = "ok" => caller[e].kind = "validate")
  BY <1>1 DEF Ordered
<1>9. Ordered'
  <2> HIDE DEF out
  <2>1. \A c \in Callers : caller'[c].at = "rename" => caller'[c] = caller[c]
    BY <1>3 DEF Moved
  <2>2. \A c \in Callers : caller[c].stamp \in Nat
    BY DEF KeyTypes, KeyCall
  <2>3. keyFile.stamp \in Nat /\ stamp \in Nat
    BY DEF KeyTypes
  <2>4. \A c \in Callers : caller'[c].at = "rename" => caller'[c].stamp <= stamp'
    BY <1>4, <2>1, <2>2, <2>3 DEF Ordered
  <2>5. keyFile'.stamp <= stamp'
    BY <1>4, <2>3 DEF Ordered
  <2>6. \A c \in Callers : caller'[c].out = "ok" =>
            \/ caller'[c].at = "done"
            \/ caller'[c].at \in {"mkdir", "rename"} /\ caller'[c].kind = "validate"
    BY <1>3, <1>8 DEF Ordered, Moved
  <2>7. \A c \in Callers : caller'[c].at \in {"mkdir", "rename"} => ~blind' \/ overwritten'
    BY <1>4
  <2>8. ~loaded' \/ (blind' /\ ~overwritten') => keys' = [k \in Keys |-> NoKey]
    BY <1>1, <1>4
  <2> QED BY <1>1, <1>4, <2>4, <2>5, <2>6, <2>7, <2>8 DEF Ordered
<1>10. \A d \in Callers : caller'[d].at = "rename" =>
         caller'[d] = caller[d] /\ caller[d].stamp \in Nat /\ caller[d].stamp <= stamp
  BY <1>3 DEF Moved, Ordered, KeyTypes, KeyCall
<1>11. Current'
  BY <1>4, <1>10 DEF Current, KeyTypes
<1>12. ASSUME NEW c \in Callers, c # e, Changer(c)',
              caller'[c].at \in {"mkdir", "rename"} \/ Settled(c)'
       PROVE  /\ caller'[c] = caller[c] /\ Changer(c) /\ (Settled(c)' => Settled(c))
              /\ keys'[caller[c].key] = keys[caller[c].key]
  <2>1. caller'[c] = caller[c] /\ caller[c].at # "new"
    BY <1>3, <1>12 DEF Moved, Settled
  <2>2. Changer(c)
    BY <1>3, <1>4, <1>12, <2>1, StayedUntouched DEF Changer
  <2>3. caller[c].key \in Keys
    BY DEF KeyTypes, KeyCall
  <2>4. caller[e].key = caller[c].key => caller[e].kind = "validate"
    BY <1>1, <1>12, <2>2 DEF Changer, Untouched
  <2>5. caller[e].kind = "validate" => Effect(e, n) = keys[caller[e].key]
    BY DEF Effect
  <2>6. keys'[caller[c].key] = keys[caller[c].key]
    BY <1>4, <2>3, <2>4, <2>5 DEF KeyTypes, KeyMaps
  <2> QED BY <1>4, <2>1, <2>2, <2>6 DEF Settled
<1>13. caller[e].kind # "validate" => Wants(caller[e].kind, keys'[caller[e].key])
  <2>1. keys'[caller[e].key] = Effect(e, n)
    BY <1>4, <1>5 DEF KeyTypes, KeyMaps
  <2>2. keys[caller[e].key] \in KeyRecord /\ caller[e].kind \in Kinds
    BY <1>1 DEF KeyTypes, KeyCall, KeyMaps
  <2> QED BY <2>1, <2>2 DEF Wants, Effect, IssueKey, RotateKey, RevokeKey, DeleteKey, NoKey,
                            KeyRecord, Kinds
<1>14. InMemory'
  <2> SUFFICES ASSUME NEW c \in Callers, Changer(c)',
                      caller'[c].at \in {"mkdir", "rename"} \/ (Settled(c)' /\ ~blind')
               PROVE  Wants(caller'[c].kind, keys'[caller'[c].key])
    BY DEF InMemory, Settled
  <2>1. CASE c = e
    BY <1>3, <1>13, <2>1 DEF Changer
  <2>2. CASE c # e
    BY <1>1, <1>4, <1>12, <2>2 DEF InMemory
  <2> QED BY <2>1, <2>2
<1>15. InSnapshots'
  BY <1>3, <1>10, <1>12 DEF InSnapshots
<1>16. InFile'
  <2> SUFFICES ASSUME NEW c \in Callers, Settled(c)'
               PROVE  /\ Wants(caller'[c].kind, keyFile'.map[caller'[c].key])
                      /\ \A d \in Callers :
                           \/ caller'[d].at = "rename" /\ caller'[d].stamp >= keyFile'.stamp
                           \/ caller'[d].at = "loading" /\ (~loaded' \/ blind')
                           => Wants(caller'[c].kind, caller'[d].has[caller'[c].key])
    BY DEF InFile
  <2>1. c # e /\ caller'[c] = caller[c] /\ Settled(c)
    BY <1>3, <1>12 DEF Settled
  <2>2. \A d \in Callers : caller'[d].at = "loading" => caller'[d] = caller[d]
    BY <1>3 DEF Moved
  <2> QED BY <1>4, <1>10, <2>1, <2>2 DEF InFile
<1> QED BY <1>7, <1>9, <1>11, <1>14, <1>15, <1>16

LEMMA ChangerStays ==
    ASSUME NEW e \in Callers, Moved(e), reloaded => reloaded', reordered => reordered',
           overwritten => overwritten',
           NEW c \in Callers, caller[c].at # "new", Changer(c)'
    PROVE  /\ Changer(c) /\ caller'[c].kind = caller[c].kind /\ caller'[c].key = caller[c].key
           /\ c # e => caller'[c] = caller[c] /\ (Settled(c)' => Settled(c))
<1>1. Untouched(c) /\ caller'[c].kind = caller[c].kind /\ caller'[c].key = caller[c].key
  BY StayedUntouched DEF Changer
<1>2. Changer(c)
  BY <1>1 DEF Changer
<1>3. c # e => caller'[c] = caller[c]
  BY DEF Moved
<1> QED BY <1>1, <1>2, <1>3 DEF Settled

\* A snapshot taken now is the map in memory, and as young as any other.
LEMMA SerialiseKeeps ==
    ASSUME KeysInv, NEW e \in Callers, Serialise(e)
    PROVE  KeysInv'
<1> USE DEF KeysInv
<1>1. /\ caller[e] \in KeyCall /\ caller[e].at = "mkdir" /\ loaded /\ KeyTypes
      /\ keys \in KeyMaps /\ stamp \in Nat
  BY DEF KeyTypes, Serialise, Ordered
<1>2. KeyStep(e, "rename", keys, stamp, caller[e].out)
  BY <1>1 DEF Serialise, KeyCall, KeyTypes, KeyStep
<1>3. /\ Moved(e) /\ caller'[e].at = "rename" /\ caller'[e].out = caller[e].out
      /\ caller'[e].has = keys /\ caller'[e].stamp = stamp
      /\ caller'[e].kind = caller[e].kind /\ caller'[e].key = caller[e].key
  <2>1. /\ caller[e].at # "new" /\ "rename" \in KeyStages \ {"new", "loading"}
        /\ caller[e].out \in KeyAnswers
    BY <1>1 DEF KeyCall, KeyStages
  <2> QED BY <1>1, <1>2, <2>1, KeyStepMoves
<1>4. UNCHANGED <<keys, loaded, keyFile, stamp, reordered, reloaded, blind, overwritten, keyClock>>
  BY DEF Serialise, keyBounds
<1>0. ~blind \/ overwritten
  BY <1>1 DEF Ordered
<1>5. KeyTypes'
  BY <1>3, <1>4 DEF KeyTypes, Moved
<1>6. Ordered'
  BY <1>1, <1>3, <1>4 DEF Ordered, Moved
<1>7. Current'
  BY <1>3, <1>4 DEF Current, Moved
<1>8. ASSUME NEW c \in Callers, Changer(c)', caller'[c].at \in {"mkdir", "rename"} \/ Settled(c)'
      PROVE  /\ Changer(c) /\ caller'[c].kind = caller[c].kind /\ caller'[c].key = caller[c].key
             /\ c # e => caller'[c] = caller[c]
             /\ Settled(c)' => Settled(c) /\ c # e
             /\ Wants(caller[c].kind, keys[caller[c].key])
  <2>1. caller[c].at # "new"
    BY <1>1, <1>3, <1>8 DEF Moved, Settled
  <2>2. /\ Changer(c) /\ caller'[c].kind = caller[c].kind /\ caller'[c].key = caller[c].key
        /\ c # e => caller'[c] = caller[c] /\ (Settled(c)' => Settled(c))
    BY <1>3, <1>4, <1>8, <2>1, ChangerStays
  <2>3. Settled(c)' => c # e
    BY <1>3 DEF Settled
  <2>4. caller[c].at \in {"mkdir", "rename"} \/ Settled(c)
    BY <1>1, <1>8, <2>2
  <2> QED BY <1>0, <1>1, <2>2, <2>3, <2>4 DEF InMemory, Changer
<1>9. InMemory'
  BY <1>4, <1>8 DEF InMemory, Settled
<1>10. InSnapshots'
  <2> SUFFICES ASSUME NEW c \in Callers, NEW d \in Callers, Changer(c)', caller'[c].at = "rename",
                      caller'[d].at = "rename", caller'[d].stamp >= caller'[c].stamp
               PROVE  Wants(caller'[c].kind, caller'[d].has[caller'[c].key])
    BY DEF InSnapshots
  <2>1. CASE d = e
    BY <1>3, <1>8, <2>1
  <2>2. CASE d # e /\ c # e
    BY <1>3, <1>8, <2>2 DEF InSnapshots, Moved
  <2>3. CASE d # e /\ c = e
    <3>1. caller'[d] = caller[d] /\ caller[d].at = "rename" /\ caller[d].stamp \in Nat
      BY <1>3, <2>3 DEF Moved, KeyTypes, KeyCall
    <3>2. caller[d].stamp = stamp
      BY <1>1, <1>3, <2>3, <3>1 DEF Ordered
    <3>3. caller[d].has = keys
      BY <1>8, <2>3, <3>1, <3>2 DEF Current, Changer
    <3> QED BY <1>8, <3>1, <3>3
  <2> QED BY <2>1, <2>2, <2>3
<1>11. InFile'
  <2> SUFFICES ASSUME NEW c \in Callers, Settled(c)'
               PROVE  /\ Wants(caller'[c].kind, keyFile'.map[caller'[c].key])
                      /\ \A d \in Callers :
                           \/ caller'[d].at = "rename" /\ caller'[d].stamp >= keyFile'.stamp
                           \/ caller'[d].at = "loading" /\ (~loaded' \/ blind')
                           => Wants(caller'[c].kind, caller'[d].has[caller'[c].key])
    BY DEF InFile
  <2>1. caller'[c] = caller[c] /\ Settled(c) /\ Wants(caller[c].kind, keys[caller[c].key])
    BY <1>8 DEF Settled
  <2>2. Wants(caller'[c].kind, keyFile'.map[caller'[c].key])
    BY <1>4, <2>1 DEF InFile
  <2>3. ASSUME NEW d \in Callers, caller'[d].at = "rename", caller'[d].stamp >= keyFile'.stamp
        PROVE  Wants(caller'[c].kind, caller'[d].has[caller'[c].key])
    <3>1. CASE d = e
      BY <1>3, <2>1, <3>1
    <3>2. CASE d # e
      BY <1>3, <1>4, <2>1, <2>3, <3>2 DEF InFile, Moved
    <3> QED BY <3>1, <3>2
  <2>4. ~blind'
    BY <1>0, <1>4, <2>1 DEF Settled, Changer
  <2> QED BY <1>1, <1>4, <2>2, <2>3, <2>4
<1> QED BY <1>5, <1>6, <1>7, <1>9, <1>10, <1>11

\* A snapshot older than the file is recorded; a younger one holds every change that
\* is settled, and the one its own caller asked for.
LEMMA RenamedKeeps ==
    ASSUME KeysInv, NEW e \in Callers, Renamed(e)
    PROVE  KeysInv'
<1> USE DEF KeysInv
<1>1. /\ caller[e] \in KeyCall /\ caller[e].at = "rename" /\ loaded /\ KeyTypes
      /\ caller[e].has \in KeyMaps /\ caller[e].stamp \in Nat /\ caller[e].stamp <= stamp
  BY DEF KeyTypes, Renamed, Ordered, KeyCall
<1>2. KeyStep(e, "done", caller[e].has, caller[e].stamp, "ok")
  BY <1>1 DEF Renamed, KeyCall, KeyTypes, KeyStep
<1>3. /\ Moved(e) /\ caller'[e].at = "done" /\ caller'[e].out = "ok"
      /\ caller'[e].has = caller[e].has /\ caller'[e].stamp = caller[e].stamp
      /\ caller'[e].kind = caller[e].kind /\ caller'[e].key = caller[e].key
  <2>1. /\ caller[e].at # "new" /\ "done" \in KeyStages \ {"new", "loading"}
        /\ "ok" \in KeyAnswers
    BY <1>1 DEF KeyStages, KeyAnswers
  <2> QED BY <1>1, <1>2, <2>1, KeyStepMoves
<1>4. /\ UNCHANGED <<keys, loaded, stamp, reloaded, blind, overwritten, keyClock>>
      /\ keyFile' = [map |-> caller[e].has, stamp |-> caller[e].stamp]
      /\ reordered' = (reordered \/ caller[e].stamp < keyFile.stamp)
  BY DEF Renamed, keyBounds
<1>0. ~blind \/ overwritten
  BY <1>1 DEF Ordered
<1>5. KeyTypes'
  BY <1>1, <1>3, <1>4 DEF KeyTypes, Moved
<1>6. Ordered'
  BY <1>1, <1>3, <1>4 DEF Ordered, Moved
<1>7. \A d \in Callers : caller'[d].at \in {"rename", "mkdir", "loading"} => caller'[d] = caller[d]
  BY <1>3 DEF Moved
<1>8. Current'
  BY <1>4, <1>7 DEF Current
<1>9. ASSUME NEW c \in Callers, Changer(c)', caller'[c].at \in {"mkdir", "rename"} \/ Settled(c)'
      PROVE  /\ Changer(c) /\ caller'[c].kind = caller[c].kind /\ caller'[c].key = caller[c].key
             /\ c # e => caller'[c] = caller[c]
             /\ Settled(c)' => c = e \/ Settled(c)
  <2>1. caller[c].at # "new"
    BY <1>1, <1>3, <1>9 DEF Moved, Settled
  <2> QED BY <1>3, <1>4, <1>9, <2>1, ChangerStays
<1>10. InMemory'
  <2> SUFFICES ASSUME NEW c \in Callers, Changer(c)',
                      caller'[c].at \in {"mkdir", "rename"} \/ Settled(c)'
               PROVE  Wants(caller'[c].kind, keys'[caller'[c].key])
    BY DEF InMemory, Settled
  <2>1. /\ Changer(c) /\ caller'[c].kind = caller[c].kind /\ caller'[c].key = caller[c].key
        /\ c # e => caller'[c] = caller[c]
        /\ Settled(c)' => c = e \/ Settled(c)
    BY <1>9
  <2>2. caller[c].at \in {"mkdir", "rename"} \/ Settled(c)
    BY <1>1, <2>1
  <2> QED BY <1>0, <1>1, <1>4, <2>1, <2>2 DEF InMemory, Changer
<1>11. InSnapshots'
  BY <1>7, <1>9 DEF InSnapshots
<1>12. InFile'
  <2> SUFFICES ASSUME NEW c \in Callers, Settled(c)'
               PROVE  /\ Wants(caller'[c].kind, keyFile'.map[caller'[c].key])
                      /\ \A d \in Callers :
                           caller'[d].at = "rename" /\ caller'[d].stamp >= keyFile'.stamp
                           => Wants(caller'[c].kind, caller'[d].has[caller'[c].key])
    BY <1>0, <1>1, <1>4 DEF InFile, Settled, Changer
  <2>1. /\ Changer(c) /\ caller'[c].kind = caller[c].kind /\ caller'[c].key = caller[c].key
        /\ c = e \/ Settled(c)
    BY <1>9 DEF Settled
  <2>2. /\ caller[e].stamp >= keyFile.stamp /\ keyFile.stamp \in Nat
        /\ keyFile'.stamp = caller[e].stamp /\ keyFile'.map = caller[e].has
    <3>1. ~reordered'
      BY DEF Settled
    <3>2. ~(caller[e].stamp < keyFile.stamp)
      BY <1>4, <3>1
    <3>3. keyFile.stamp \in Nat
      BY DEF KeyTypes
    <3> QED BY <1>1, <1>4, <3>2, <3>3
  <2>3. ASSUME NEW d \in Callers, caller[d].at = "rename", caller[d].stamp >= caller[e].stamp
        PROVE  Wants(caller[c].kind, caller[d].has[caller[c].key])
    <3>1. CASE c = e
      BY <1>1, <2>1, <2>3, <3>1 DEF InSnapshots
    <3>2. CASE Settled(c)
      <4>1. caller[d].stamp \in Nat
        BY DEF KeyTypes, KeyCall
      <4>2. caller[d].stamp >= keyFile.stamp
        BY <1>1, <2>2, <2>3, <4>1
      <4> QED BY <2>3, <3>2, <4>2 DEF InFile
    <3> QED BY <2>1, <3>1, <3>2
  <2>4. Wants(caller[c].kind, keyFile'.map[caller[c].key])
    BY <1>1, <2>2, <2>3
  <2> QED BY <1>7, <2>1, <2>2, <2>3, <2>4
<1> QED BY <1>5, <1>6, <1>8, <1>10, <1>11, <1>12

\* A restart cuts off every call that is under way; one that is not settled then never is.
LEMMA RestartKeysKeeps ==
    ASSUME KeysInv, RestartKeys
    PROVE  KeysInv'
<1> USE DEF KeysInv
<1>1. /\ UNCHANGED <<keyFile, stamp, reloaded, reordered, overwritten, keyClock>> /\ ~loaded'
      /\ loaded' \in BOOLEAN /\ keys' = [k \in Keys |-> NoKey] /\ blind' = FALSE
  BY DEF RestartKeys
<1>2. ASSUME NEW c \in Callers
      PROVE  /\ caller'[c] \in KeyCall /\ caller'[c].at \in {"new", "done"}
             /\ caller'[c].kind = caller[c].kind /\ caller'[c].key = caller[c].key
             /\ caller'[c].out = "ok" => caller[c].out = "ok"
             /\ caller'[c].at = "new" <=> caller[c].at = "new"
             /\ caller[c].at = "done" => caller'[c] = caller[c]
             /\ caller'[c].out = "ok" => caller'[c].at = "done"
  <2>1. caller[c] \in KeyCall
    BY DEF KeyTypes
  <2>2. caller'[c] = IF caller[c].at \in {"new", "done"} THEN caller[c]
          ELSE [caller[c] EXCEPT !.at = "done", !.out = IF caller[c].out = "ok" THEN "ok" ELSE "lost"]
    BY <2>1 DEF RestartKeys, KeyCall
  <2> QED BY <2>1, <2>2 DEF KeyCall, KeyStages, KeyAnswers, Ordered
<1>3. KeyTypes'
  <2>1. DOMAIN caller' = Callers /\ caller' = [c \in Callers |-> caller'[c]]
    BY DEF RestartKeys
  <2>2. caller' \in [Callers -> KeyCall]
    BY <1>2, <2>1
  <2>3. NoKey \in KeyRecord
    BY DEF NoKey, KeyRecord
  <2> QED BY <1>1, <2>2, <2>3 DEF KeyTypes, KeyMaps
<1>4. Ordered'
  BY <1>1, <1>2 DEF Ordered
<1>5. Current' /\ InSnapshots'
  BY <1>2 DEF Current, InSnapshots
<1>6. InMemory'
  BY <1>1, <1>2 DEF InMemory
<1>7. ASSUME NEW c \in Callers, Settled(c)'
      PROVE  Settled(c)
  <2>1. caller[c].kind # "validate" /\ caller[c].out = "ok" /\ ~reloaded /\ ~reordered /\ ~overwritten
    BY <1>1, <1>2, <1>7 DEF Settled, Changer
  <2>2. caller[c].at = "done"
    BY <2>1 DEF Ordered
  <2>3. ASSUME NEW d \in Callers, d # c, caller[d].key = caller[c].key,
               caller[d].kind # "validate", caller[d].at \notin {"new", "loading"}
        PROVE  FALSE
    BY <1>2, <1>7, <2>3 DEF Settled, Changer, Untouched
  <2> QED BY <2>1, <2>2, <2>3 DEF Settled, Changer, Untouched
<1>8. InFile'
  BY <1>1, <1>2, <1>7 DEF InFile
<1> QED BY <1>3, <1>4, <1>5, <1>6, <1>8

LEMMA KeysStart ==
    ASSUME KeysInit
    PROVE  KeysInv
<1>1. Resting \in KeyCall /\ Resting.at = "new" /\ Resting.out = "none"
  BY KeysAssumption DEF Resting, KeyCall, KeyStages, Kinds, KeyMaps, KeyRecord, NoKey, KeyAnswers
<1>2. \A c \in Callers : caller[c] = Resting
  BY DEF KeysInit
<1>3. KeyTypes
  <2>1. NoKey \in KeyRecord /\ 
        [status : {"active", "revoked"}, secret : {1}, until : {0, 1}] \subseteq KeyRecord
    BY DEF NoKey, KeyRecord
  <2>2. PICK m \in [Keys -> {NoKey} \cup [status : {"active", "revoked"}, secret : {1},
                                          until : {0, 1}]] :
          keyFile = [map |-> m, stamp |-> 0]
    BY DEF KeysInit
  <2>3. m \in KeyMaps
    BY <2>1 DEF KeyMaps
  <2>4. keys \in KeyMaps
    BY <2>1 DEF KeysInit, KeyMaps
  <2>5. caller \in [Callers -> KeyCall]
    BY <1>1 DEF KeysInit
  <2> QED BY <2>2, <2>3, <2>4, <2>5 DEF KeysInit, KeyTypes
<1>4. Ordered
  BY <1>1, <1>2 DEF KeysInit, Ordered
<1>5. Current /\ InMemory /\ InSnapshots /\ InFile
  BY <1>1, <1>2 DEF Current, InMemory, InSnapshots, InFile, Settled
<1> QED BY <1>3, <1>4, <1>5 DEF KeysInv

LEMMA KeysStep ==
    ASSUME KeysInv, [KeysNext]_keyVars
    PROVE  KeysInv'
<1>1. CASE UNCHANGED keyVars
  BY <1>1 DEF keyVars, KeysInv, KeyTypes, Ordered, Current, InMemory, InSnapshots, InFile, Settled,
              Changer, Untouched
<1>2. ASSUME NEW c \in Callers, CallerStep(c)
      PROVE  KeysInv'
  BY <1>2, AskKeyKeeps, LoadKeeps, LoadFailsKeeps, RefuseKeyKeeps, ApplyKeeps, SerialiseKeeps, RenamedKeeps
     DEF CallerStep
<1>3. CASE KeyTick
  <2>1. UNCHANGED <<keys, loaded, keyFile, stamp, caller, reloaded, reordered, blind, overwritten>>
    BY <1>3 DEF KeyTick
  <2>2. keyClock' \in Nat
    BY <1>3 DEF KeyTick, KeysInv, KeyTypes
  <2> QED BY <2>1, <2>2 DEF KeysInv, KeyTypes, Ordered, Current, InMemory, InSnapshots, InFile, Settled,
                            Changer, Untouched
<1> QED BY <1>1, <1>2, <1>3, RestartKeysKeeps DEF KeysNext

LEMMA KeysInvEnforces ==
    ASSUME KeysInv
    PROVE  KeysEnforced
<1>1. KeysTypeOK
  BY DEF KeysInv, KeyTypes, Ordered, KeysTypeOK, KeyCall, KeyStages, KeyAnswers
<1>2. ASSUME NEW c \in Callers, caller[c].kind # "validate", caller[c].out = "ok", Untouched(c),
             ~reloaded, ~reordered, ~overwritten
      PROVE  /\ loaded /\ ~blind => Wants(caller[c].kind, keys[caller[c].key])
             /\ Wants(caller[c].kind, keyFile.map[caller[c].key])
  <2>1. Settled(c)
    BY <1>2 DEF Settled, Changer, KeysInv, Ordered
  <2> QED BY <2>1 DEF KeysInv, InMemory, InFile
<1>3. \A c \in Callers : ~loaded \/ (blind /\ ~overwritten) => keys[caller[c].key].status # "active"
  BY DEF KeysInv, KeyTypes, KeyCall, Ordered, NoKey
<1>4. RemovalEnforced
  BY <1>2, <1>3 DEF RemovalEnforced, Confirmed, Wants
<1>5. GrantEnforced
  BY <1>2 DEF GrantEnforced, Confirmed, Wants
<1> QED BY <1>1, <1>4, <1>5 DEF KeysEnforced

\* A revoked, deleted or rotated key stops working and an issued one works, in memory and in
\* the file, through failed reads, failed writes and restarts, unless two loads or two
\* renames crossed or a process that could not read the file changed a key
\* (api-keys.js:27-68, 121-270): for any keys, callers and bounds.
THEOREM KeysAreEnforced == KeysSpec => []KeysEnforced
<1>1. KeysInit => KeysInv
  BY KeysStart
<1>2. KeysInv /\ [KeysNext]_keyVars => KeysInv'
  BY KeysStep
<1>3. KeysInv => KeysEnforced
  BY KeysInvEnforces
<1> QED BY <1>1, <1>2, <1>3, PTL DEF KeysSpec

-----------------------------------------------------------------------------
(* The tenant registry *)

TenantSubs == {a.sub : a \in Asks} \cup Ids \cup {"none"}
TenantRecords == [sub : TenantSubs, claimed : BOOLEAN, rev : Nat]
TenantMaps == [Ids -> TenantRecords]
AdminStages == {"new", "init", "loaded", "bootsave", "bootwrite", "ready", "save", "writing",
                "ok", "refused", "cut"}
AdminCalls == [at : AdminStages, kind : {"none", "create", "update", "edit", "delete"}, id : Ids,
               sub : TenantSubs, has : TenantMaps, want : TenantRecords]

TenantTypes ==
  /\ tenants \in TenantMaps /\ booted \in BOOLEAN
  /\ tenantFile \in [kind : {"missing", "torn", "whole"}, map : TenantMaps]
  /\ admin \in [Admins -> AdminCalls]
  /\ lateLoad \in BOOLEAN /\ crossedSaves \in BOOLEAN /\ wiped \in BOOLEAN
  /\ tenantRestarts \in Nat /\ tenantFaults \in Nat
  /\ \A r \in Admins : admin[r].at # "new" => admin[r].kind # "none"

Whole == tenantFile.kind = "whole"
JustDefault == [EmptyMap EXCEPT !["default"] = DefaultTenant]
Nobody(stages) == \A r \in Admins : admin[r].at \notin stages
Good == ~crossedSaves /\ ~wiped /\ tenantFaults = 0

HasDefault(m) == m["default"] # NoTenant
FromFile(m) == m = EmptyMap \/ HasDefault(m)

\* What is in the map before init() has ended
Booting ==
  ~booted =>
    /\ Nobody({"ready", "save", "writing"})
    /\ tenantRestarts = 0 => Nobody({"ok"})
    /\ tenants \in {EmptyMap, JustDefault}
    /\ \A r \in Admins : admin[r].at = "loaded" => FromFile(admin[r].has)
    /\ ~wiped /\ Whole =>
         /\ tenants = EmptyMap /\ Nobody({"bootsave", "bootwrite"})
         /\ \A r \in Admins : admin[r].at = "loaded" => admin[r].has = tenantFile.map
    /\ ~wiped /\ ~Whole =>
         /\ \A r \in Admins : admin[r].at = "loaded" => admin[r].has = EmptyMap
         /\ tenantFaults = 0 => Nobody({"ok"}) \/ Nobody({"loaded", "bootsave", "bootwrite"})

NeverMissing == tenantFile.kind = "missing" /\ tenantFaults = 0 => Nobody({"ok"})

DefaultKept ==
  /\ booted \/ ~Nobody({"bootsave", "bootwrite"}) => HasDefault(tenants)
  /\ Whole => HasDefault(tenantFile.map)
  /\ \A r \in Writing : HasDefault(admin[r].has)

\* A tenant that never asked for its subdomain has its id; two that asked for one share
\* it only as the id of one of them
OneHolder(m) ==
  /\ \A t \in Ids : m[t] = NoTenant \/ m[t].claimed \/ m[t].sub = t
  /\ \A t, u \in Ids : t # u /\ m[t].claimed /\ m[u].claimed /\ m[t].sub = m[u].sub
                       => m[t].sub \in {t, u}
HoldersKept ==
  ~lateLoad => /\ OneHolder(tenants) /\ (Whole => OneHolder(tenantFile.map))
               /\ \A r \in Writing : OneHolder(admin[r].has)
               /\ \A r \in Admins : admin[r].at = "loaded" => OneHolder(admin[r].has)

OneWriter == ~crossedSaves => \A q, r \in Writing : q = r

Lasting(r) == Alone(r) /\ ~lateLoad
HasChange(r, m) == m[admin[r].id] = admin[r].want
InForce(r) ==
  /\ admin[r].at \in {"save", "writing"} => HasChange(r, tenants)
  /\ admin[r].at = "writing" => HasChange(r, admin[r].has)
  /\ admin[r].at = "ok" /\ booted /\ (tenantRestarts = 0 \/ Good) => HasChange(r, tenants)
  /\ admin[r].at = "ok" /\ Good => /\ Whole => HasChange(r, tenantFile.map)
                                   /\ \A q \in Writing : HasChange(r, admin[q].has)
ChangesInForce ==
  \A r \in Admins : Lasting(r) /\ admin[r].at \in {"save", "writing", "ok"} => InForce(r)

TenantInv == /\ TenantTypes /\ Booting /\ NeverMissing /\ DefaultKept /\ HoldersKept /\ OneWriter
             /\ ChangesInForce

-----------------------------------------------------------------------------
\* One request moves; what it asks is fixed once it has come, and a change it has
\* made is never unmade by its own steps.
Far == {"save", "writing", "ok", "cut"}
AdminMoves(e) ==
  /\ admin' \in [Admins -> AdminCalls] /\ \A q \in Admins \ {e} : admin'[q] = admin[q]
  /\ admin[e].at # "new" => /\ admin'[e].id = admin[e].id /\ admin'[e].kind = admin[e].kind
                            /\ admin'[e].sub = admin[e].sub
  /\ admin[e].at \in Far => admin'[e].at \in Far
  /\ admin'[e].at # "new" /\ admin'[e].kind # "none"
AdminTo(e, at, has, want) ==
  admin' = [admin EXCEPT ![e] = [admin[e] EXCEPT !.at = at, !.has = has, !.want = want]]

LEMMA AdminStep ==
    ASSUME TenantTypes, NEW e \in Admins, admin[e].at # "new", NEW at \in AdminStages \ {"new"},
           NEW has \in TenantMaps, NEW want \in TenantRecords, AdminTo(e, at, has, want),
           admin[e].at \in Far => at \in Far
    PROVE  /\ AdminMoves(e) /\ admin'[e].at = at /\ admin'[e].has = has /\ admin'[e].want = want
           /\ admin'[e].id = admin[e].id
<1> DEFINE y == [admin[e] EXCEPT !.at = at, !.has = has, !.want = want]
<1>1. admin[e] \in AdminCalls /\ admin \in [Admins -> AdminCalls] /\ admin[e].kind # "none"
  BY DEF TenantTypes
<1>2. /\ y \in AdminCalls /\ y.at = at /\ y.has = has /\ y.want = want
      /\ y.id = admin[e].id /\ y.kind = admin[e].kind /\ y.sub = admin[e].sub
  BY <1>1 DEF AdminCalls
<1>3. admin' = [admin EXCEPT ![e] = y]
  BY DEF AdminTo
<1> HIDE DEF y
<1> QED BY <1>1, <1>2, <1>3 DEF AdminMoves

LEMMA StageMoves ==
    ASSUME TenantTypes, NEW e \in Admins, admin[e].at # "new", NEW at \in AdminStages \ {"new"},
           Stage(e, at), admin[e].at \in Far => at \in Far
    PROVE  /\ AdminMoves(e) /\ admin'[e].at = at /\ admin'[e].has = admin[e].has
           /\ admin'[e].want = admin[e].want /\ admin'[e].id = admin[e].id
<1>1. admin[e] \in AdminCalls /\ admin \in [Admins -> AdminCalls]
  BY DEF TenantTypes
<1>2. AdminTo(e, at, admin[e].has, admin[e].want)
  BY <1>1 DEF Stage, AdminTo, AdminCalls
<1>3. admin[e].has \in TenantMaps /\ admin[e].want \in TenantRecords
  BY <1>1 DEF AdminCalls
<1> QED BY <1>2, <1>3, AdminStep

LEMMA AloneBefore ==
    ASSUME NEW e \in Admins, AdminMoves(e), NEW c \in Admins, admin[c].at # "new", Alone(c)'
    PROVE  Alone(c)
<1>1. admin'[c].id = admin[c].id
  BY DEF AdminMoves
<1>2. ASSUME NEW q \in Admins, q # c, admin[q].id = admin[c].id, admin[q].at \in Far
      PROVE  FALSE
  <2>1. admin'[q].id = admin[q].id /\ admin'[q].at \in Far
    BY <1>2 DEF AdminMoves, Far
  <2> QED BY <1>1, <1>2, <2>1 DEF Alone, Far
<1> QED BY <1>2 DEF Alone, Far

LEMMA TenantRecordsKnown ==
  /\ NoTenant \in TenantRecords /\ DefaultTenant \in TenantRecords /\ EmptyMap \in TenantMaps
  /\ JustDefault \in TenantMaps /\ "default" \in Ids /\ DefaultTenant # NoTenant
  /\ \A t \in Ids : JustDefault[t] = IF t = "default" THEN DefaultTenant ELSE NoTenant
  /\ OneHolder(EmptyMap) /\ OneHolder(JustDefault)
<1>1. "default" \in Ids /\ "none" \in TenantSubs /\ "default" \in TenantSubs
  BY DEF Ids, TenantSubs
<1>2. NoTenant \in TenantRecords /\ DefaultTenant \in TenantRecords
  BY <1>1 DEF NoTenant, DefaultTenant, TenantRecords
<1>3. DefaultTenant # NoTenant
  BY DEF NoTenant, DefaultTenant
<1>4. EmptyMap \in TenantMaps
  BY <1>2 DEF EmptyMap, TenantMaps
<1>5. \A t \in Ids : JustDefault[t] = IF t = "default" THEN DefaultTenant ELSE NoTenant
  BY <1>1 DEF JustDefault, EmptyMap
<1>6. JustDefault \in TenantMaps
  BY <1>1, <1>2, <1>4 DEF JustDefault, TenantMaps
<1>7. NoTenant.claimed = FALSE /\ DefaultTenant.claimed = TRUE
  BY DEF NoTenant, DefaultTenant
<1>8. OneHolder(EmptyMap)
  BY <1>7 DEF OneHolder, EmptyMap
<1>9. OneHolder(JustDefault)
  BY <1>5, <1>7 DEF OneHolder
<1> QED BY <1>1, <1>2, <1>3, <1>4, <1>5, <1>6, <1>8, <1>9

\* A request that has not come as far as changing the map.
LEMMA QuietAdmin ==
    ASSUME TenantInv, NEW e \in Admins, AdminMoves(e),
           admin[e].at \in {"new", "init", "ready"},
           admin'[e].at \in {"init", "ready", "loaded", "refused"},
           admin'[e].at = "ready" => booted,
           admin'[e].at = "loaded" =>
             \/ /\ admin'[e].has = IF Whole THEN tenantFile.map ELSE EmptyMap
                /\ tenantFile.kind = "torn" => wiped'
             \/ admin'[e].has = EmptyMap /\ wiped',
           UNCHANGED <<tenants, booted, tenantFile, lateLoad, crossedSaves, tenantRestarts>>,
           tenantFaults' \in Nat, tenantFaults' = 0 => tenantFaults = 0,
           wiped => wiped', wiped' \in BOOLEAN
    PROVE  TenantInv'
<1> USE DEF TenantInv
<1>1. TenantTypes'
  BY DEF TenantTypes, AdminMoves
<1>2. \A q \in Admins : q # e => admin'[q] = admin[q]
  BY DEF AdminMoves
<1>3. Writing' = Writing /\ \A q \in Writing : admin'[q] = admin[q]
  BY <1>2 DEF Writing
<1>4. Nobody({"ok"}) => Nobody({"ok"})'
  BY <1>2 DEF Nobody
<1>5. ASSUME ~booted PROVE Booting'
  <2>1. Nobody({"ready", "save", "writing"})'
    BY <1>2, <1>5 DEF Booting, Nobody
  <2>2. tenantRestarts = 0 => Nobody({"ok"})'
    BY <1>4, <1>5 DEF Booting
  <2>3. tenants \in {EmptyMap, JustDefault}
    BY <1>5 DEF Booting
  <2>4. \A r \in Admins : admin'[r].at = "loaded" => FromFile(admin'[r].has)
    BY <1>2, <1>5 DEF Booting, FromFile, DefaultKept
  <2>5. ASSUME ~wiped', Whole
        PROVE  /\ tenants = EmptyMap /\ Nobody({"bootsave", "bootwrite"})'
               /\ \A r \in Admins : admin'[r].at = "loaded" => admin'[r].has = tenantFile.map
    BY <1>2, <1>5, <2>5 DEF Booting, Nobody
  <2>6. ASSUME ~wiped', ~Whole
        PROVE  /\ \A r \in Admins : admin'[r].at = "loaded" => admin'[r].has = EmptyMap
               /\ tenantFaults' = 0 =>
                    Nobody({"ok"})' \/ Nobody({"loaded", "bootsave", "bootwrite"})'
    <3>1. \A r \in Admins : admin'[r].at = "loaded" => admin'[r].has = EmptyMap
      BY <1>2, <1>5, <2>6 DEF Booting
    <3>2. ASSUME tenantFaults' = 0, ~Nobody({"ok"})'
          PROVE  Nobody({"loaded", "bootsave", "bootwrite"})'
      <4>1. ~Nobody({"ok"})
        BY <1>4, <3>2
      <4>2. Nobody({"loaded", "bootsave", "bootwrite"})
        BY <1>5, <2>6, <3>2, <4>1 DEF Booting
      <4>3. tenantFile.kind = "torn"
        BY <2>6, <3>2, <4>1 DEF NeverMissing, TenantTypes, Whole
      <4>4. admin'[e].at # "loaded"
        BY <2>6, <4>3
      <4> QED BY <1>2, <4>2, <4>4 DEF Nobody
    <3> QED BY <3>1, <3>2
  <2>7. Whole' <=> Whole
    BY DEF Whole
  <2> QED BY <1>5, <2>1, <2>2, <2>3, <2>4, <2>5, <2>6, <2>7 DEF Booting
<1>6. Booting'
  BY <1>5 DEF Booting
<1>7. NeverMissing'
  BY <1>4 DEF NeverMissing
<1>8. Nobody({"bootsave", "bootwrite"}) => Nobody({"bootsave", "bootwrite"})'
  BY <1>2 DEF Nobody
<1>9. DefaultKept'
  BY <1>3, <1>8 DEF DefaultKept, HasDefault, Whole
<1>10. HoldersKept' /\ OneWriter'
  <2>1. OneWriter'
    BY <1>3 DEF OneWriter
  <2>2. ASSUME ~lateLoad' PROVE \A r \in Admins : admin'[r].at = "loaded" => OneHolder(admin'[r].has)
    <3>1. /\ Whole => OneHolder(tenantFile.map)
          /\ \A r \in Admins : admin[r].at = "loaded" => OneHolder(admin[r].has)
      BY <2>2 DEF HoldersKept
    <3> QED BY <1>2, <3>1, TenantRecordsKnown
  <2>3. ASSUME ~lateLoad'
        PROVE  /\ OneHolder(tenants') /\ (Whole' => OneHolder(tenantFile'.map))
               /\ \A r \in Writing' : OneHolder(admin'[r].has)
    BY <1>3, <2>3 DEF HoldersKept, Whole
  <2> QED BY <2>1, <2>2, <2>3 DEF HoldersKept
<1>11. ChangesInForce'
  <2> SUFFICES ASSUME NEW c \in Admins, Lasting(c)', admin'[c].at \in {"save", "writing", "ok"}
               PROVE  InForce(c)'
    BY DEF ChangesInForce
  <2>1. admin'[c] = admin[c] /\ admin[c].at # "new"
    BY <1>2
  <2>2. Lasting(c)
    BY <2>1, AloneBefore DEF Lasting
  <2>3. Good' => Good
    BY DEF Good
  <2>4. InForce(c)
    BY <2>1, <2>2 DEF ChangesInForce
  <2> QED BY <1>3, <2>1, <2>3, <2>4 DEF InForce, HasChange, Whole
<1> QED BY <1>1, <1>6, <1>7, <1>9, <1>10, <1>11

LEMMA AskTenantKeeps ==
    ASSUME TenantInv, NEW e \in Admins, Ask(e)
    PROVE  TenantInv'
<1>1. PICK a \in Asks : admin' = [admin EXCEPT ![e] =
        [at |-> IF booted THEN "ready" ELSE "init", kind |-> a.kind, id |-> a.id, sub |-> a.sub,
         has |-> EmptyMap, want |-> NoTenant]]
  BY DEF Ask
<1> DEFINE y == [at |-> IF booted THEN "ready" ELSE "init", kind |-> a.kind, id |-> a.id, sub |-> a.sub,
                 has |-> EmptyMap, want |-> NoTenant]
<1>2. a.kind \in {"create", "update", "edit", "delete"} /\ a.id \in Ids /\ a.sub \in TenantSubs
  BY TenantsAssumption DEF Ids, TenantSubs
<1>3. y \in AdminCalls /\ y.at = (IF booted THEN "ready" ELSE "init") /\ y.kind # "none"
  BY <1>2, TenantRecordsKnown DEF AdminCalls, AdminStages
<1>4. admin' = [admin EXCEPT ![e] = y]
  BY <1>1
<1> HIDE DEF y
<1>5. /\ admin[e].at = "new" /\ admin \in [Admins -> AdminCalls]
      /\ UNCHANGED <<tenants, booted, tenantFile, lateLoad, crossedSaves, wiped, tenantRestarts, tenantFaults>>
      /\ wiped \in BOOLEAN /\ tenantFaults \in Nat
  BY DEF Ask, tenantHistory, tenantBounds, TenantInv, TenantTypes
<1>6. /\ admin' \in [Admins -> AdminCalls] /\ admin'[e] = y
      /\ \A q \in Admins \ {e} : admin'[q] = admin[q]
  BY <1>3, <1>4, <1>5
<1>7. AdminMoves(e)
  BY <1>3, <1>5, <1>6 DEF AdminMoves, Far
<1> QED BY <1>3, <1>5, <1>6, <1>7, QuietAdmin

LEMMA InitReadsKeeps ==
    ASSUME TenantInv, NEW e \in Admins, InitReads(e)
    PROVE  TenantInv'
<1>1. /\ admin[e].at = "init" /\ wiped' = (wiped \/ tenantFile.kind = "torn")
      /\ UNCHANGED <<tenants, booted, tenantFile, lateLoad, crossedSaves, tenantRestarts, tenantFaults>>
  BY DEF InitReads, tenantBounds
<1>2. admin[e] \in AdminCalls /\ admin \in [Admins -> AdminCalls] /\ TenantTypes
  BY DEF TenantInv, TenantTypes
<1>3. PICK has \in TenantMaps : has = IF Whole THEN tenantFile.map ELSE EmptyMap
  BY <1>2, TenantRecordsKnown DEF TenantTypes
<1>4. AdminTo(e, "loaded", has, admin[e].want)
  BY <1>2, <1>3 DEF InitReads, AdminTo, AdminCalls, Whole
<1>5. AdminMoves(e) /\ admin'[e].at = "loaded" /\ admin'[e].has = has
  <2>1. "loaded" \in AdminStages \ {"new"} /\ admin[e].want \in TenantRecords
    BY <1>2 DEF AdminStages, AdminCalls
  <2> QED BY <1>1, <1>2, <1>4, <2>1, AdminStep DEF Far
<1>6. wiped' \in BOOLEAN /\ tenantFaults' \in Nat
  BY <1>1, <1>2 DEF TenantTypes
<1> QED BY <1>1, <1>3, <1>5, <1>6, QuietAdmin

LEMMA InitReadFailsKeeps ==
    ASSUME TenantInv, NEW e \in Admins, InitReadFails(e)
    PROVE  TenantInv'
<1>1. /\ admin[e].at = "init" /\ wiped' = TRUE /\ tenantFaults' = tenantFaults + 1
      /\ UNCHANGED <<tenants, booted, tenantFile, lateLoad, crossedSaves, tenantRestarts>>
  BY DEF InitReadFails
<1>2. admin[e] \in AdminCalls /\ admin \in [Admins -> AdminCalls] /\ TenantTypes
  BY DEF TenantInv, TenantTypes
<1>3. AdminTo(e, "loaded", EmptyMap, admin[e].want)
  BY <1>2 DEF InitReadFails, AdminTo, AdminCalls
<1>4. AdminMoves(e) /\ admin'[e].at = "loaded" /\ admin'[e].has = EmptyMap
  <2>1. "loaded" \in AdminStages \ {"new"} /\ admin[e].want \in TenantRecords
    BY <1>2 DEF AdminStages, AdminCalls
  <2> QED BY <1>1, <1>2, <1>3, <2>1, AdminStep, TenantRecordsKnown DEF Far
<1>5. tenantFaults' \in Nat /\ tenantFaults' # 0
  BY <1>1, <1>2 DEF TenantTypes
<1> QED BY <1>1, <1>4, <1>5, QuietAdmin

LEMMA RefuseActKeeps ==
    ASSUME TenantInv, NEW e \in Admins, Act(e), ~Allowed(e)
    PROVE  TenantInv'
<1>1. /\ admin[e].at = "ready" /\ Stage(e, "refused") /\ TenantTypes /\ wiped \in BOOLEAN
      /\ tenantFaults \in Nat
      /\ UNCHANGED <<tenants, booted, tenantFile, lateLoad, crossedSaves, wiped, tenantRestarts, tenantFaults>>
  BY DEF Act, tenantHistory, tenantBounds, TenantInv, TenantTypes
<1>2. AdminMoves(e) /\ admin'[e].at = "refused"
  <2>1. "refused" \in AdminStages \ {"new"}
    BY DEF AdminStages
  <2> QED BY <1>1, <2>1, StageMoves DEF Far
<1> QED BY <1>1, <1>2, QuietAdmin

\* The first init() to merge finds the map empty or holding the default tenant; what the
\* file holds then comes into force.  A later one is recorded.
LEMMA InitMergesKeeps ==
    ASSUME TenantInv, NEW e \in Admins, InitMerges(e)
    PROVE  TenantInv'
<1> USE DEF TenantInv
<1>1. /\ admin[e].at = "loaded" /\ lateLoad' = (lateLoad \/ booted) /\ TenantTypes
      /\ UNCHANGED <<tenantFile, crossedSaves, wiped, tenantRestarts, tenantFaults>>
  BY DEF InitMerges, tenantBounds
<1>2. admin[e] \in AdminCalls /\ admin[e].has \in TenantMaps /\ tenants \in TenantMaps
  BY DEF TenantTypes, AdminCalls
<1> DEFINE m == Merged(admin[e].has)
<1>3. m \in TenantMaps /\ \A t \in Ids : m[t] = IF admin[e].has[t] # NoTenant THEN admin[e].has[t] ELSE tenants[t]
  BY <1>2 DEF Merged, TenantMaps
<1>4. IF m["default"] = NoTenant
        THEN tenants' = [m EXCEPT !["default"] = DefaultTenant] /\ Stage(e, "bootsave") /\ booted' = booted
        ELSE tenants' = m /\ Stage(e, "ready") /\ booted' = TRUE
  BY DEF InitMerges
<1> HIDE DEF m
<1>5. PICK at \in {"bootsave", "ready"} :
        /\ Stage(e, at) /\ (booted => booted') /\ (at = "ready" => booted') /\ booted' \in BOOLEAN
        /\ at = IF m["default"] = NoTenant THEN "bootsave" ELSE "ready"
        /\ at = "bootsave" => booted' = booted
  BY <1>4 DEF TenantTypes
<1>6. AdminMoves(e) /\ admin'[e].at = at
  <2>1. at \in AdminStages \ {"new"}
    BY DEF AdminStages
  <2> QED BY <1>1, <1>5, <2>1, StageMoves DEF Far
<1>7. tenants' \in TenantMaps /\ HasDefault(tenants')
  <2>1. CASE m["default"] = NoTenant
    BY <1>3, <1>4, <2>1, TenantRecordsKnown DEF TenantMaps, HasDefault
  <2>2. CASE m["default"] # NoTenant
    BY <1>3, <1>4, <2>2 DEF HasDefault
  <2> QED BY <2>1, <2>2
<1>8. TenantTypes'
  BY <1>1, <1>5, <1>6, <1>7 DEF TenantTypes, AdminMoves
<1>9. \A q \in Admins : q # e => admin'[q] = admin[q]
  BY <1>6 DEF AdminMoves
<1>10. Writing' = Writing /\ \A q \in Writing : admin'[q] = admin[q]
  BY <1>1, <1>6, <1>9 DEF Writing
<1>11. NeverMissing' /\ OneWriter' /\ (Nobody({"ok"}) <=> Nobody({"ok"})')
  <2>1. Nobody({"ok"}) <=> Nobody({"ok"})'
    BY <1>1, <1>6, <1>9 DEF Nobody
  <2> QED BY <1>1, <1>10, <2>1 DEF NeverMissing, OneWriter
<1>12. DefaultKept'
  BY <1>1, <1>7, <1>10 DEF DefaultKept, HasDefault, Whole
<1>13. CASE booted
  <2>1. booted' /\ lateLoad'
    BY <1>1, <1>5, <1>13
  <2> QED BY <1>8, <1>11, <1>12, <2>1 DEF Booting, HoldersKept, ChangesInForce, Lasting
<1>14. CASE ~booted
  <2>1. /\ FromFile(admin[e].has) /\ tenants \in {EmptyMap, JustDefault}
        /\ Nobody({"ready", "save", "writing"})
        /\ tenantRestarts = 0 => Nobody({"ok"})
    BY <1>1, <1>14 DEF Booting
  <2>2. ~Nobody({"loaded", "bootsave", "bootwrite"})
    BY <1>1 DEF Nobody
  <2>3. ~wiped /\ tenantFaults = 0 /\ ~Whole => Nobody({"ok"})
    BY <1>14, <2>2 DEF Booting
  <2>4. ~wiped /\ Whole => admin[e].has = tenantFile.map /\ HasDefault(admin[e].has)
    BY <1>1, <1>14 DEF Booting, DefaultKept
  <2>5. CASE HasDefault(admin[e].has)
    <3>1. m = admin[e].has
      <4>1. \A t \in Ids : m[t] = admin[e].has[t]
        BY <1>3, <2>1, <2>5, TenantRecordsKnown DEF EmptyMap, HasDefault
      <4> QED BY <1>2, <1>3, <4>1 DEF TenantMaps
    <3>2. tenants' = admin[e].has /\ booted'
      BY <1>4, <2>5, <3>1 DEF HasDefault
    <3>3. HoldersKept'
      <4>1. ASSUME ~lateLoad'
            PROVE  /\ \A r \in Writing' : OneHolder(admin'[r].has)
                   /\ \A r \in Admins : admin'[r].at = "loaded" => OneHolder(admin'[r].has)
        BY <1>1, <1>6, <1>9, <1>10, <4>1 DEF HoldersKept
      <4>2. ASSUME ~lateLoad' PROVE OneHolder(tenants') /\ (Whole' => OneHolder(tenantFile'.map))
        BY <1>1, <3>2, <4>2 DEF HoldersKept, Whole
      <4> QED BY <4>1, <4>2 DEF HoldersKept
    <3>4. ChangesInForce'
      <4> SUFFICES ASSUME NEW c \in Admins, Lasting(c)', admin'[c].at \in {"save", "writing", "ok"}
                   PROVE  InForce(c)'
        BY DEF ChangesInForce
      <4>1. c # e /\ admin'[c] = admin[c] /\ admin[c].at = "ok"
        BY <1>5, <1>6, <1>9, <2>1 DEF Nobody
      <4>2. tenantRestarts # 0 /\ (Good => Whole)
        BY <2>1, <2>3, <4>1 DEF Nobody, Good
      <4>3. Lasting(c)
        BY <1>1, <1>6, <4>1, AloneBefore DEF Lasting
      <4>4. InForce(c)
        BY <4>1, <4>3 DEF ChangesInForce
      <4>5. (Good' <=> Good) /\ (Whole' <=> Whole)
        BY <1>1 DEF Good, Whole
      <4>6. Good => HasChange(c, tenantFile.map) /\ tenants' = tenantFile.map
        BY <2>4, <3>2, <4>1, <4>2, <4>4 DEF InForce, Good
      <4> QED BY <1>1, <1>10, <4>1, <4>2, <4>4, <4>5, <4>6 DEF InForce, HasChange
    <3> QED BY <1>8, <1>11, <1>12, <3>2, <3>3, <3>4 DEF Booting
  <2>6. CASE ~HasDefault(admin[e].has)
    <3>1. admin[e].has = EmptyMap /\ (~wiped => ~Whole)
      BY <2>1, <2>4, <2>6 DEF FromFile
    <3>2. m = tenants
      <4>1. \A t \in Ids : m[t] = tenants[t]
        BY <1>3, <3>1 DEF EmptyMap
      <4> QED BY <1>2, <1>3, <4>1 DEF TenantMaps
    <3>3. tenants' = JustDefault
      <4>1. CASE tenants = EmptyMap
        <5>1. m["default"] = NoTenant
          BY <3>2, <4>1, TenantRecordsKnown DEF EmptyMap
        <5> QED BY <1>4, <3>2, <4>1, <5>1 DEF JustDefault
      <4>2. CASE tenants = JustDefault
        <5>1. m["default"] # NoTenant
          BY <3>2, <4>2, TenantRecordsKnown
        <5> QED BY <1>4, <3>2, <4>2, <5>1
      <4> QED BY <2>1, <4>1, <4>2
    <3>4. Booting'
      <4> SUFFICES ASSUME ~booted' PROVE Booting'
        BY DEF Booting
      <4>1. Nobody({"ready", "save", "writing"})'
        BY <1>5, <1>6, <1>9, <2>1 DEF Nobody
      <4>2. \A r \in Admins : admin'[r].at = "loaded" => FromFile(admin'[r].has)
        BY <1>5, <1>6, <1>9, <1>14 DEF Booting
      <4>3. ~wiped => \A r \in Admins : admin'[r].at = "loaded" => admin'[r].has = EmptyMap
        BY <1>5, <1>6, <1>9, <1>14, <3>1 DEF Booting
      <4>4. Whole' <=> Whole
        BY <1>1 DEF Whole
      <4> QED BY <1>1, <1>11, <2>1, <2>3, <3>1, <3>3, <4>1, <4>2, <4>3, <4>4 DEF Booting
    <3>5. HoldersKept'
      <4>1. ASSUME ~lateLoad'
            PROVE  /\ \A r \in Writing' : OneHolder(admin'[r].has)
                   /\ \A r \in Admins : admin'[r].at = "loaded" => OneHolder(admin'[r].has)
        BY <1>1, <1>5, <1>6, <1>9, <1>10, <4>1 DEF HoldersKept
      <4>2. ASSUME ~lateLoad' PROVE Whole' => OneHolder(tenantFile'.map)
        BY <1>1, <4>2 DEF HoldersKept, Whole
      <4>3. OneHolder(tenants')
        BY <3>3, TenantRecordsKnown
      <4> QED BY <4>1, <4>2, <4>3 DEF HoldersKept
    <3>6. ChangesInForce'
      <4> SUFFICES ASSUME NEW c \in Admins, Lasting(c)', admin'[c].at \in {"save", "writing", "ok"}
                   PROVE  InForce(c)'
        BY DEF ChangesInForce
      <4>1. c # e /\ admin'[c] = admin[c] /\ admin[c].at = "ok"
        BY <1>5, <1>6, <1>9, <2>1 DEF Nobody
      <4>2. tenantRestarts' # 0 /\ ~Good'
        BY <1>1, <2>1, <2>3, <3>1, <4>1 DEF Nobody, Good
      <4> QED BY <4>1, <4>2 DEF InForce
    <3> QED BY <1>8, <1>11, <1>12, <3>4, <3>5, <3>6
  <2> QED BY <2>5, <2>6
<1> QED BY <1>13, <1>14

LEMMA CreatedTenant ==
    ASSUME NEW id \in Ids, NEW sub \in TenantSubs
    PROVE  /\ CreateTenant(id, sub) \in TenantRecords
           /\ CreateTenant(id, sub).claimed => Given(sub) /\ CreateTenant(id, sub).sub = sub
           /\ CreateTenant(id, sub).claimed \/ CreateTenant(id, sub).sub = id
<1>1. id \in TenantSubs
  BY DEF TenantSubs
<1>2. CASE Given(sub)
  BY <1>2 DEF CreateTenant, TenantRecords
<1>3. CASE ~Given(sub)
  BY <1>1, <1>3 DEF CreateTenant, TenantRecords
<1> QED BY <1>2, <1>3

LEMMA UpdatedTenant ==
    ASSUME NEW t \in TenantRecords, t # NoTenant, NEW sub \in TenantSubs
    PROVE  /\ UpdateTenant(t, sub) \in TenantRecords /\ UpdateTenant(t, sub) # NoTenant
           /\ \/ UpdateTenant(t, sub) = t
              \/ Given(sub) /\ UpdateTenant(t, sub).sub = sub /\ UpdateTenant(t, sub).claimed
<1>1. CASE Given(sub)
  <2>1. UpdateTenant(t, sub) = [t EXCEPT !.sub = sub, !.claimed = TRUE]
    BY <1>1 DEF UpdateTenant
  <2>2. [t EXCEPT !.sub = sub, !.claimed = TRUE] \in TenantRecords
    BY Zenon DEF TenantRecords
  <2>3. UpdateTenant(t, sub).sub = sub /\ UpdateTenant(t, sub).claimed
    BY <2>1 DEF TenantRecords
  <2>4. NoTenant.sub = "none" /\ sub # "none"
    BY <1>1 DEF NoTenant, Given
  <2> QED BY <1>1, <2>1, <2>2, <2>3, <2>4
<1>2. CASE ~Given(sub)
  BY <1>2 DEF UpdateTenant
<1> QED BY <1>1, <1>2

LEMMA EditedTenant ==
    ASSUME NEW t \in TenantRecords
    PROVE  /\ EditTenant(t) \in TenantRecords /\ EditTenant(t) # NoTenant
           /\ EditTenant(t).sub = t.sub /\ EditTenant(t).claimed = t.claimed
<1>1. EditTenant(t) = [t EXCEPT !.rev = t.rev + 1] /\ t.rev \in Nat
  BY DEF EditTenant, TenantRecords
<1>2. t.rev + 1 \in Nat /\ t.rev + 1 # 0
  BY <1>1
<1>3. [t EXCEPT !.rev = t.rev + 1] \in TenantRecords
  BY <1>2, Zenon DEF TenantRecords
<1>4. EditTenant(t).sub = t.sub /\ EditTenant(t).claimed = t.claimed /\ EditTenant(t).rev = t.rev + 1
  BY <1>1 DEF TenantRecords
<1>5. NoTenant.rev = 0
  BY DEF NoTenant
<1> QED BY <1>1, <1>2, <1>3, <1>4, <1>5

\* An operation that is allowed leaves the default tenant in place and claims no
\* subdomain that another tenant has, unless its tenant has it already.
LEMMA AllowedChange ==
    ASSUME TenantTypes, NEW e \in Admins, admin[e].at = "ready", Allowed(e)
    PROVE  LET x == ChangedTenant(e)
               id == admin[e].id
           IN  /\ x \in TenantRecords /\ id \in Ids
               /\ id = "default" /\ HasDefault(tenants) => x # NoTenant
               /\ x.claimed => \/ x.sub = tenants[id].sub /\ tenants[id] # NoTenant
                               \/ \A t \in Ids : tenants[t].sub # x.sub
               /\ \/ x = NoTenant \/ x.claimed \/ x.sub = id
                  \/ /\ tenants[id] # NoTenant
                     /\ x.sub = tenants[id].sub /\ x.claimed = tenants[id].claimed
<1> DEFINE x == ChangedTenant(e)
           id == admin[e].id
           sub == admin[e].sub
<1>1. /\ id \in Ids /\ sub \in TenantSubs /\ tenants[id] \in TenantRecords
      /\ admin[e].kind \in {"create", "update", "edit", "delete"}
  BY DEF TenantTypes, AdminCalls, TenantMaps
<1>2. Given(sub) /\ Holder(sub) = {} => \A t \in Ids : tenants[t].sub # sub
  BY DEF Holder
<1>3. CASE admin[e].kind = "create"
  <2>1. x = CreateTenant(id, sub) /\ tenants[id] = NoTenant /\ Holder(sub) = {}
    BY <1>3 DEF ChangedTenant, Allowed
  <2>2. x \in TenantRecords /\ (x.claimed => Given(sub) /\ x.sub = sub) /\ (x.claimed \/ x.sub = id)
    BY <1>1, <2>1, CreatedTenant
  <2> HIDE DEF x, id, sub
  <2> QED BY <1>1, <1>2, <2>1, <2>2 DEF HasDefault, x, id
<1>4. CASE admin[e].kind = "update"
  <2>1. /\ x = UpdateTenant(tenants[id], sub) /\ tenants[id] # NoTenant
        /\ sub = tenants[id].sub \/ Holder(sub) = {}
    BY <1>4 DEF ChangedTenant, Allowed
  <2>2. /\ x \in TenantRecords /\ x # NoTenant
        /\ x = tenants[id] \/ (Given(sub) /\ x.sub = sub /\ x.claimed)
    BY <1>1, <2>1, UpdatedTenant
  <2> HIDE DEF x, id, sub
  <2> QED BY <1>1, <1>2, <2>1, <2>2 DEF x, id
<1>5. CASE admin[e].kind = "edit"
  <2>1. x = EditTenant(tenants[id]) /\ tenants[id] # NoTenant
    BY <1>5 DEF ChangedTenant, Allowed
  <2>2. x \in TenantRecords /\ x # NoTenant /\ x.sub = tenants[id].sub /\ x.claimed = tenants[id].claimed
    BY <1>1, <2>1, EditedTenant
  <2> HIDE DEF x, id, sub
  <2> QED BY <1>1, <2>1, <2>2 DEF x, id
<1>6. CASE admin[e].kind = "delete"
  <2>1. x = NoTenant /\ id # "default"
    BY <1>6 DEF ChangedTenant, Allowed
  <2>2. NoTenant.claimed = FALSE /\ NoTenant \in TenantRecords
    BY TenantRecordsKnown DEF NoTenant
  <2> HIDE DEF x, id, sub
  <2> QED BY <1>1, <2>1, <2>2 DEF x, id
<1> QED BY <1>1, <1>3, <1>4, <1>5, <1>6

LEMMA ActKeeps ==
    ASSUME TenantInv, NEW e \in Admins, Act(e), Allowed(e)
    PROVE  TenantInv'
<1> USE DEF TenantInv
<1> DEFINE x == ChangedTenant(e)
           id == admin[e].id
<1>1. /\ admin[e].at = "ready" /\ TenantTypes /\ tenants' = [tenants EXCEPT ![id] = x]
      /\ UNCHANGED <<booted, tenantFile, lateLoad, crossedSaves, wiped, tenantRestarts, tenantFaults>>
      /\ admin[e] \in AdminCalls /\ admin \in [Admins -> AdminCalls] /\ tenants \in TenantMaps
  BY DEF Act, tenantBounds, tenantHistory, TenantTypes
<1>2. booted
  BY <1>1 DEF Booting, Nobody
<1>3. /\ x \in TenantRecords /\ id \in Ids
      /\ id = "default" /\ HasDefault(tenants) => x # NoTenant
      /\ x.claimed => \/ x.sub = tenants[id].sub /\ tenants[id] # NoTenant
                      \/ \A t \in Ids : tenants[t].sub # x.sub
      /\ \/ x = NoTenant \/ x.claimed \/ x.sub = id
         \/ /\ tenants[id] # NoTenant
            /\ x.sub = tenants[id].sub /\ x.claimed = tenants[id].claimed
  BY <1>1, AllowedChange
<1>4. AdminTo(e, "save", admin[e].has, x)
  BY <1>1 DEF Act, AdminTo, AdminCalls
<1>5. PICK w \in TenantRecords : w = x
  BY <1>3
<1>6. AdminTo(e, "save", admin[e].has, w)
  BY <1>4, <1>5
<1> HIDE DEF x
<1>7. AdminMoves(e) /\ admin'[e].at = "save" /\ admin'[e].want = w /\ admin'[e].id = id
  <2>1. "save" \in AdminStages \ {"new"} /\ admin[e].has \in TenantMaps
    BY <1>1 DEF AdminStages, AdminCalls
  <2> QED BY <1>1, <1>6, <2>1, AdminStep DEF Far
<1> HIDE DEF id
<1>8. tenants' \in TenantMaps /\ \A t \in Ids : tenants'[t] = IF t = id THEN x ELSE tenants[t]
  BY <1>1, <1>3 DEF TenantMaps
<1>9. TenantTypes'
  BY <1>1, <1>7, <1>8 DEF TenantTypes, AdminMoves
<1>10. \A q \in Admins : q # e => admin'[q] = admin[q]
  BY <1>7 DEF AdminMoves
<1>11. Writing' = Writing /\ \A q \in Writing : admin'[q] = admin[q]
  BY <1>1, <1>7, <1>10 DEF Writing
<1>12. NeverMissing' /\ OneWriter'
  BY <1>1, <1>7, <1>10, <1>11 DEF NeverMissing, OneWriter, Nobody
<1>13. DefaultKept'
  <2>1. HasDefault(tenants)
    BY <1>2 DEF DefaultKept
  <2>2. HasDefault(tenants')
    BY <1>3, <1>8, <2>1, TenantRecordsKnown DEF HasDefault
  <2>3. \A r \in Writing' : HasDefault(admin'[r].has)
    BY <1>11 DEF DefaultKept
  <2> QED BY <1>1, <2>2, <2>3 DEF DefaultKept, Whole
<1>14. HoldersKept'
  <2>1. ASSUME ~lateLoad'
        PROVE  /\ \A r \in Writing' : OneHolder(admin'[r].has)
               /\ \A r \in Admins : admin'[r].at = "loaded" => OneHolder(admin'[r].has)
    BY <1>1, <1>7, <1>10, <1>11, <2>1 DEF HoldersKept
  <2>2. ASSUME ~lateLoad' PROVE OneHolder(tenants')
    <3>1. /\ \A t \in Ids : tenants[t] = NoTenant \/ tenants[t].claimed \/ tenants[t].sub = t
          /\ \A t, u \in Ids : t # u /\ tenants[t].claimed /\ tenants[u].claimed
                               /\ tenants[t].sub = tenants[u].sub => tenants[t].sub \in {t, u}
      BY <1>1, <2>2 DEF HoldersKept, OneHolder
    <3>2. \A t \in Ids : tenants'[t] = NoTenant \/ tenants'[t].claimed \/ tenants'[t].sub = t
      BY <1>3, <1>8, <3>1
    <3>3. ASSUME x.claimed, NEW u \in Ids, u # id, tenants[u].claimed, x.sub = tenants[u].sub
          PROVE  x.sub \in {id, u}
      <4>1. x.sub = tenants[id].sub /\ tenants[id] # NoTenant
        BY <1>3, <3>3
      <4> QED BY <1>3, <3>1, <3>3, <4>1
    <3>4. ASSUME NEW t \in Ids, NEW u \in Ids, t # u, tenants'[t].claimed, tenants'[u].claimed,
                 tenants'[t].sub = tenants'[u].sub
          PROVE  tenants'[t].sub \in {t, u}
      <4>1. CASE t # id /\ u # id
        BY <1>8, <3>1, <3>4, <4>1
      <4>2. CASE t = id
        BY <1>8, <3>3, <3>4, <4>2
      <4>3. CASE u = id
        BY <1>8, <3>3, <3>4, <4>3
      <4> QED BY <4>1, <4>2, <4>3
    <3> QED BY <3>2, <3>4 DEF OneHolder
  <2>3. ASSUME ~lateLoad', Whole' PROVE OneHolder(tenantFile'.map)
    BY <1>1, <2>3 DEF HoldersKept, Whole
  <2> QED BY <2>1, <2>2, <2>3 DEF HoldersKept
<1>15. ChangesInForce'
  <2> SUFFICES ASSUME NEW c \in Admins, Lasting(c)', admin'[c].at \in {"save", "writing", "ok"}
               PROVE  InForce(c)'
    BY DEF ChangesInForce
  <2>1. CASE c = e
    <3>1. HasChange(e, tenants)'
      BY <1>3, <1>5, <1>7, <1>8 DEF HasChange
    <3> QED BY <1>7, <2>1, <3>1 DEF InForce
  <2>2. CASE c # e
    <3>1. admin'[c] = admin[c] /\ admin[c].at # "new" /\ admin[c].id \in Ids
      BY <1>1, <1>10, <2>2 DEF AdminCalls
    <3>2. Lasting(c)
      BY <1>1, <1>7, <3>1, AloneBefore DEF Lasting
    <3>3. InForce(c)
      BY <3>1, <3>2 DEF ChangesInForce
    <3>4. admin[c].id # id
      BY <1>7, <2>2, <3>1 DEF Lasting, Alone
    <3>5. tenants'[admin[c].id] = tenants[admin[c].id]
      BY <1>8, <3>1, <3>4
    <3>6. Good' <=> Good
      BY <1>1 DEF Good
    <3> QED BY <1>1, <1>11, <3>1, <3>3, <3>5, <3>6 DEF InForce, HasChange, Whole
  <2> QED BY <2>1, <2>2
<1>16. Booting'
  BY <1>1, <1>2 DEF Booting
<1> QED BY <1>9, <1>12, <1>13, <1>14, <1>15, <1>16

-----------------------------------------------------------------------------
(* _save *)

LEMMA SaveBeginsKeeps ==
    ASSUME TenantInv, NEW e \in Admins, SaveBegins(e)
    PROVE  TenantInv'
<1> USE DEF TenantInv
<1>1. /\ admin[e].at \in {"save", "bootsave"} /\ TenantTypes
      /\ tenantFile' = [kind |-> "torn", map |-> EmptyMap]
      /\ crossedSaves' = (crossedSaves \/ Writing # {})
      /\ UNCHANGED <<tenants, booted, lateLoad, wiped, tenantRestarts, tenantFaults>>
      /\ admin[e] \in AdminCalls /\ admin \in [Admins -> AdminCalls] /\ tenants \in TenantMaps
  BY DEF SaveBegins, tenantBounds, TenantTypes
<1>2. PICK at \in {"writing", "bootwrite"} :
        /\ AdminTo(e, at, tenants, admin[e].want)
        /\ at = "writing" <=> admin[e].at = "save"
  <2>1. CASE admin[e].at = "save"
    <3>1. AdminTo(e, "writing", tenants, admin[e].want)
      BY <1>1, <2>1 DEF SaveBegins, AdminTo, AdminCalls
    <3> QED BY <2>1, <3>1
  <2>2. CASE admin[e].at = "bootsave"
    <3>1. AdminTo(e, "bootwrite", tenants, admin[e].want)
      BY <1>1, <2>2 DEF SaveBegins, AdminTo, AdminCalls
    <3> QED BY <2>2, <3>1
  <2> QED BY <1>1, <2>1, <2>2
<1>3. /\ AdminMoves(e) /\ admin'[e].at = at /\ admin'[e].has = tenants
      /\ admin'[e].want = admin[e].want /\ admin'[e].id = admin[e].id
  <2>1. at \in AdminStages \ {"new"} /\ admin[e].want \in TenantRecords
    BY <1>1 DEF AdminStages, AdminCalls
  <2> QED BY <1>1, <1>2, <2>1, AdminStep DEF Far
<1>4. \A q \in Admins : q # e => admin'[q] = admin[q]
  BY <1>3 DEF AdminMoves
<1>5. /\ Writing' = Writing \cup {e} /\ e \notin Writing /\ crossedSaves' \in BOOLEAN
      /\ ~crossedSaves' => Writing = {} /\ ~crossedSaves
  BY <1>1, <1>3, <1>4 DEF Writing
<1>6. TenantTypes'
  BY <1>1, <1>3, <1>5, TenantRecordsKnown DEF TenantTypes, AdminMoves
<1>7. ~Whole' /\ NeverMissing'
  BY <1>1 DEF Whole, NeverMissing
<1>8. ~booted => /\ ~wiped => ~Whole
                 /\ admin[e].at = "bootsave"
                 /\ tenantRestarts = 0 \/ (tenantFaults = 0 /\ ~wiped) => Nobody({"ok"})
  BY <1>1 DEF Booting, Nobody
<1>9. Booting'
  <2> SUFFICES ASSUME ~booted PROVE Booting'
    BY <1>1 DEF Booting
  <2>1. Nobody({"ready", "save", "writing"})'
    BY <1>2, <1>3, <1>4, <1>8 DEF Booting, Nobody
  <2>2. Nobody({"ok"}) => Nobody({"ok"})'
    BY <1>3, <1>4 DEF Nobody
  <2>3. \A r \in Admins : admin'[r].at = "loaded" =>
          FromFile(admin'[r].has) /\ (~wiped => admin'[r].has = EmptyMap)
    BY <1>3, <1>4, <1>8 DEF Booting
  <2>4. tenants \in {EmptyMap, JustDefault}
    BY <1>8 DEF Booting
  <2> QED BY <1>1, <1>7, <1>8, <2>1, <2>2, <2>3, <2>4 DEF Booting
<1>10. DefaultKept'
  <2>1. HasDefault(tenants)
    BY <1>1, <1>8 DEF DefaultKept, Nobody
  <2>2. HasDefault(tenants')
    BY <1>1, <2>1
  <2>3. \A r \in Writing' : HasDefault(admin'[r].has)
    BY <1>3, <1>4, <1>5, <2>1 DEF DefaultKept, Writing
  <2> QED BY <1>7, <2>2, <2>3 DEF DefaultKept
<1>11. HoldersKept'
  <2>1. ASSUME ~lateLoad'
        PROVE  /\ OneHolder(tenants') /\ \A r \in Writing' : OneHolder(admin'[r].has)
               /\ \A r \in Admins : admin'[r].at = "loaded" => OneHolder(admin'[r].has)
    BY <1>1, <1>3, <1>4, <1>5, <2>1 DEF HoldersKept, Writing
  <2> QED BY <1>7, <2>1 DEF HoldersKept
<1>12. OneWriter'
  BY <1>5 DEF OneWriter
<1>13. Good' => Good /\ Writing' = {e}
  BY <1>1, <1>5 DEF Good
<1>14. ChangesInForce'
  <2> SUFFICES ASSUME NEW c \in Admins, Lasting(c)', admin'[c].at \in {"save", "writing", "ok"}
               PROVE  InForce(c)'
    BY DEF ChangesInForce
  <2>1. admin[c].at # "new"
    BY <1>1, <1>4
  <2>2. Lasting(c)
    BY <1>1, <1>3, <2>1, AloneBefore DEF Lasting
  <2>3. CASE c = e
    <3>1. admin'[e].at = "writing" /\ admin[e].at = "save"
      BY <1>2, <1>3, <2>3
    <3>2. HasChange(e, tenants)
      BY <2>2, <2>3, <3>1 DEF ChangesInForce, InForce
    <3> QED BY <1>1, <1>3, <2>3, <3>1, <3>2 DEF InForce, HasChange
  <2>4. CASE c # e
    <3>1. admin'[c] = admin[c]
      BY <1>4, <2>4
    <3>2. InForce(c)
      BY <2>2, <3>1 DEF ChangesInForce
    <3>3. admin[c].at = "ok" /\ Good' => tenants[admin[c].id] = admin[c].want
      <4> SUFFICES ASSUME admin[c].at = "ok", Good' PROVE tenants[admin[c].id] = admin[c].want
        OBVIOUS
      <4>1. booted
        BY <1>8, <1>13 DEF Good, Nobody
      <4> QED BY <1>13, <3>2, <4>1 DEF InForce, HasChange
    <3> QED BY <1>1, <1>3, <1>7, <1>13, <3>1, <3>2, <3>3 DEF InForce, HasChange
  <2> QED BY <2>3, <2>4
<1> QED BY <1>6, <1>7, <1>9, <1>10, <1>11, <1>12, <1>14

\* The end of a save: its caller goes on, and init() has ended.
LEMMA SavedMoves ==
    ASSUME TenantInv, NEW e \in Admins, Saved(e),
           admin[e].at \in {"save", "bootsave", "writing", "bootwrite"}
    PROVE  /\ AdminMoves(e) /\ admin'[e].has = admin[e].has /\ admin'[e].want = admin[e].want
           /\ admin'[e].id = admin[e].id /\ booted' = TRUE
           /\ IF admin[e].at \in {"save", "writing"} THEN admin'[e].at = "ok" ELSE admin'[e].at = "ready"
<1>1. PICK at \in {"ok", "ready"} :
        Stage(e, at) /\ at = IF admin[e].at \in {"save", "writing"} THEN "ok" ELSE "ready"
  BY DEF Saved
<1>2. /\ AdminMoves(e) /\ admin'[e].has = admin[e].has /\ admin'[e].want = admin[e].want
      /\ admin'[e].id = admin[e].id /\ admin'[e].at = at
  <2>1. at \in AdminStages \ {"new"} /\ TenantTypes
    BY DEF AdminStages, TenantInv
  <2> QED BY <1>1, <2>1, StageMoves DEF Far
<1>3. booted' = TRUE
  <2>1. CASE admin[e].at \in {"save", "writing"}
    <3>1. booted' = booted /\ booted
      BY <2>1 DEF Saved, TenantInv, Booting, Nobody
    <3> QED BY <3>1 DEF TenantInv, TenantTypes
  <2>2. CASE admin[e].at \notin {"save", "writing"}
    BY <2>2 DEF Saved
  <2> QED BY <2>1, <2>2
<1> QED BY <1>1, <1>2, <1>3

\* What is in force for the others while e's save ends.
LEMMA SavedOthers ==
    ASSUME TenantInv, NEW e \in Admins, Saved(e),
           admin[e].at \in {"save", "bootsave", "writing", "bootwrite"},
           NEW c \in Admins, c # e, Lasting(c)', lateLoad' = lateLoad,
           admin'[c].at \in {"save", "writing", "ok"}
    PROVE  /\ admin'[c] = admin[c] /\ InForce(c)
           /\ admin[c].at = "ok" /\ (tenantRestarts = 0 \/ Good) => HasChange(c, tenants)
<1>1. AdminMoves(e)
  BY SavedMoves
<1>2. admin'[c] = admin[c] /\ admin[c].at # "new"
  BY <1>1 DEF AdminMoves
<1>3. Lasting(c)
  BY <1>1, <1>2, AloneBefore DEF Lasting
<1>4. InForce(c)
  BY <1>2, <1>3 DEF TenantInv, ChangesInForce
<1>5. ASSUME admin[c].at = "ok", tenantRestarts = 0 \/ Good PROVE booted
  BY <1>5 DEF TenantInv, Booting, Nobody, Good
<1> QED BY <1>2, <1>4, <1>5 DEF InForce

LEMMA SaveEndsKeeps ==
    ASSUME TenantInv, NEW e \in Admins, SaveEnds(e)
    PROVE  TenantInv'
<1> USE DEF TenantInv
<1>1. /\ e \in Writing /\ Saved(e) /\ admin[e].at \in {"writing", "bootwrite"}
      /\ UNCHANGED <<tenants, lateLoad, crossedSaves, wiped, tenantRestarts, tenantFaults>>
      /\ \/ tenantFile' = [kind |-> "whole", map |-> admin[e].has]
         \/ Writing # {e} /\ tenantFile' = [kind |-> "torn", map |-> EmptyMap]
  BY DEF SaveEnds, tenantHistory, tenantBounds, Writing
<1>2. /\ AdminMoves(e) /\ admin'[e].has = admin[e].has /\ admin'[e].want = admin[e].want
      /\ admin'[e].id = admin[e].id /\ booted' = TRUE
      /\ IF admin[e].at = "writing" THEN admin'[e].at = "ok" ELSE admin'[e].at = "ready"
  BY <1>1, SavedMoves
<1>3. \A q \in Admins : q # e => admin'[q] = admin[q]
  BY <1>2 DEF AdminMoves
<1>4. Writing' = Writing \ {e} /\ \A q \in Writing' : admin'[q] = admin[q]
  BY <1>1, <1>2, <1>3 DEF Writing
<1>5. TenantTypes'
  <2>1. admin[e].has \in TenantMaps
    BY <1>1 DEF TenantTypes, AdminCalls
  <2>2. tenantFile' \in [kind : {"missing", "torn", "whole"}, map : TenantMaps]
    BY <1>1, <2>1, TenantRecordsKnown
  <2> QED BY <1>1, <1>2, <2>2 DEF TenantTypes, AdminMoves
<1>6. Booting' /\ NeverMissing' /\ OneWriter'
  BY <1>1, <1>2, <1>4 DEF Booting, NeverMissing, OneWriter
<1>7. Whole' => tenantFile'.map = admin[e].has
  BY <1>1 DEF Whole
<1>8. DefaultKept'
  <2>1. HasDefault(tenants)
    BY <1>1 DEF DefaultKept, Nobody, Booting
  <2>2. Whole' => HasDefault(tenantFile'.map)
    BY <1>1, <1>7 DEF DefaultKept
  <2>3. \A r \in Writing' : HasDefault(admin'[r].has)
    BY <1>4 DEF DefaultKept
  <2> QED BY <1>1, <2>1, <2>2, <2>3 DEF DefaultKept
<1>9. HoldersKept'
  <2>1. ASSUME ~lateLoad'
        PROVE  /\ OneHolder(tenants') /\ (Whole' => OneHolder(tenantFile'.map))
               /\ \A r \in Writing' : OneHolder(admin'[r].has)
               /\ \A r \in Admins : admin'[r].at = "loaded" => OneHolder(admin'[r].has)
    BY <1>1, <1>2, <1>3, <1>4, <1>7, <2>1 DEF HoldersKept
  <2> QED BY <2>1 DEF HoldersKept
<1>10. Good' => /\ Good /\ Writing = {e} /\ Writing' = {}
  BY <1>1, <1>4 DEF Good, OneWriter
<1>11. ChangesInForce'
  <2> SUFFICES ASSUME NEW c \in Admins, Lasting(c)', admin'[c].at \in {"save", "writing", "ok"}
               PROVE  InForce(c)'
    BY DEF ChangesInForce
  <2>1. CASE c = e
    <3>1. admin'[e].at = "ok" /\ admin[e].at = "writing"
      BY <1>1, <1>2, <2>1
    <3>2. Lasting(e)
      BY <1>1, <1>2, <2>1, <3>1, AloneBefore DEF Lasting
    <3>3. HasChange(e, tenants) /\ HasChange(e, admin[e].has)
      BY <3>1, <3>2 DEF ChangesInForce, InForce
    <3> QED BY <1>1, <1>2, <1>7, <1>10, <2>1, <3>1, <3>3 DEF InForce, HasChange
  <2>2. CASE c # e
    <3>1. /\ admin'[c] = admin[c] /\ InForce(c)
          /\ admin[c].at = "ok" /\ (tenantRestarts = 0 \/ Good) => HasChange(c, tenants)
      BY <1>1, <2>2, SavedOthers
    <3> QED BY <1>1, <1>7, <1>10, <3>1 DEF InForce, HasChange
  <2> QED BY <2>1, <2>2
<1> QED BY <1>5, <1>6, <1>8, <1>9, <1>11

\* A save that fails is told to nobody, and recorded.
LEMMA SaveFailsKeeps ==
    ASSUME TenantInv, NEW e \in Admins, SaveFails(e)
    PROVE  TenantInv'
<1> USE DEF TenantInv
<1>1. /\ admin[e].at \in {"save", "bootsave", "writing", "bootwrite"} /\ Saved(e)
      /\ tenantFaults' = tenantFaults + 1
      /\ UNCHANGED <<tenants, tenantFile, lateLoad, crossedSaves, wiped, tenantRestarts>>
  BY DEF SaveFails, tenantHistory
<1>2. /\ AdminMoves(e) /\ admin'[e].has = admin[e].has /\ admin'[e].want = admin[e].want
      /\ admin'[e].id = admin[e].id /\ booted' = TRUE
      /\ IF admin[e].at \in {"save", "writing"} THEN admin'[e].at = "ok" ELSE admin'[e].at = "ready"
  BY <1>1, SavedMoves
<1>3. \A q \in Admins : q # e => admin'[q] = admin[q]
  BY <1>2 DEF AdminMoves
<1>4. Writing' = Writing \ {e} /\ \A q \in Writing' : admin'[q] = admin[q]
  BY <1>2, <1>3 DEF Writing
<1>5. tenantFaults' \in Nat /\ tenantFaults' # 0
  BY <1>1 DEF TenantTypes
<1>6. TenantTypes'
  BY <1>1, <1>2, <1>5 DEF TenantTypes, AdminMoves
<1>7. Booting' /\ NeverMissing' /\ OneWriter' /\ ~Good'
  BY <1>1, <1>2, <1>4, <1>5 DEF Booting, NeverMissing, OneWriter, Good
<1>8. DefaultKept'
  <2>1. HasDefault(tenants)
    BY <1>1 DEF DefaultKept, Nobody, Booting
  <2>2. \A r \in Writing' : HasDefault(admin'[r].has)
    BY <1>4 DEF DefaultKept
  <2> QED BY <1>1, <2>1, <2>2 DEF DefaultKept, Whole
<1>9. HoldersKept'
  <2>1. ASSUME ~lateLoad'
        PROVE  /\ OneHolder(tenants') /\ (Whole' => OneHolder(tenantFile'.map))
               /\ \A r \in Writing' : OneHolder(admin'[r].has)
               /\ \A r \in Admins : admin'[r].at = "loaded" => OneHolder(admin'[r].has)
    BY <1>1, <1>2, <1>3, <1>4, <2>1 DEF HoldersKept, Whole
  <2> QED BY <2>1 DEF HoldersKept
<1>10. ChangesInForce'
  <2> SUFFICES ASSUME NEW c \in Admins, Lasting(c)', admin'[c].at \in {"save", "writing", "ok"}
               PROVE  InForce(c)'
    BY DEF ChangesInForce
  <2>1. CASE c = e
    <3>1. admin'[e].at = "ok" /\ admin[e].at \in {"save", "writing"}
      BY <1>1, <1>2, <2>1
    <3>2. Lasting(e)
      BY <1>1, <1>2, <2>1, <3>1, AloneBefore DEF Lasting
    <3>3. HasChange(e, tenants)
      BY <3>1, <3>2 DEF ChangesInForce, InForce
    <3> QED BY <1>1, <1>2, <1>7, <2>1, <3>1, <3>3 DEF InForce, HasChange
  <2>2. CASE c # e
    <3>1. /\ admin'[c] = admin[c] /\ InForce(c)
          /\ admin[c].at = "ok" /\ (tenantRestarts = 0 \/ Good) => HasChange(c, tenants)
      BY <1>1, <2>2, SavedOthers
    <3> QED BY <1>1, <1>7, <3>1 DEF InForce, HasChange
  <2> QED BY <2>1, <2>2
<1> QED BY <1>6, <1>7, <1>8, <1>9, <1>10

\* A restart forgets the map and cuts off what is under way; the file stays.
LEMMA TenantRestartKeeps ==
    ASSUME TenantInv, TenantRestart
    PROVE  TenantInv'
<1> USE DEF TenantInv
<1>1. /\ tenantRestarts' = tenantRestarts + 1 /\ tenants' = EmptyMap /\ booted' = FALSE
      /\ UNCHANGED <<tenantFile, lateLoad, crossedSaves, wiped, tenantFaults>>
  BY DEF TenantRestart, tenantHistory
<1>2. ASSUME NEW r \in Admins
      PROVE  /\ admin'[r] \in AdminCalls /\ admin'[r].at \in {"new", "ok", "refused", "cut"}
             /\ admin'[r].id = admin[r].id /\ admin'[r].want = admin[r].want
             /\ admin'[r].kind = admin[r].kind
             /\ admin'[r].at # "cut" => admin'[r] = admin[r]
             /\ admin[r].at \in {"ok", "new"} => admin'[r] = admin[r]
             /\ admin[r].at \in Far => admin'[r].at \in Far
             /\ admin'[r].at # "new" => admin'[r].kind # "none"
  <2>1. admin[r] \in AdminCalls /\ (admin[r].at # "new" => admin[r].kind # "none")
    BY DEF TenantTypes
  <2>2. CASE admin[r].at \in {"new", "ok", "refused"}
    <3>1. admin'[r] = admin[r]
      BY <2>2 DEF TenantRestart
    <3> QED BY <2>1, <2>2, <3>1
  <2>3. CASE admin[r].at \notin {"new", "ok", "refused"}
    <3>1. admin'[r] = [admin[r] EXCEPT !.at = "cut"]
      BY <2>3 DEF TenantRestart
    <3> QED BY <2>1, <2>3, <3>1 DEF AdminCalls, AdminStages, Far
  <2> QED BY <2>2, <2>3
<1>3. TenantTypes'
  <2>1. admin' = [r \in Admins |-> admin'[r]]
    BY DEF TenantRestart
  <2>2. admin' \in [Admins -> AdminCalls]
    BY <1>2, <2>1
  <2>3. \A r \in Admins : admin'[r].at # "new" => admin'[r].kind # "none"
    BY <1>2
  <2>4. tenants' \in TenantMaps /\ booted' \in BOOLEAN
    BY <1>1, TenantRecordsKnown
  <2>5. tenantRestarts' \in Nat
    BY <1>1 DEF TenantTypes
  <2> QED BY <1>1, <2>2, <2>3, <2>4, <2>5 DEF TenantTypes
<1>4. /\ Nobody({"ready", "save", "writing"})' /\ Nobody({"loaded", "bootsave", "bootwrite"})'
      /\ Nobody({"bootsave", "bootwrite"})' /\ Writing' = {}
  BY <1>2 DEF Nobody, Writing
<1>5. Nobody({"ok"}) => Nobody({"ok"})'
  BY <1>2 DEF Nobody
<1>6. tenantRestarts' # 0
  BY <1>1 DEF TenantTypes
<1>7. Booting'
  <2>1. \A r \in Admins : admin'[r].at # "loaded"
    BY <1>4 DEF Nobody
  <2> QED BY <1>1, <1>4, <1>6, <2>1 DEF Booting
<1>8. NeverMissing' /\ OneWriter'
  BY <1>1, <1>4, <1>5 DEF NeverMissing, OneWriter
<1>9. DefaultKept'
  BY <1>1, <1>4 DEF DefaultKept, Whole
<1>10. HoldersKept'
  <2>1. OneHolder(tenants')
    BY <1>1, TenantRecordsKnown
  <2>2. \A r \in Admins : admin'[r].at # "loaded"
    BY <1>2
  <2>3. ~lateLoad' /\ Whole' => OneHolder(tenantFile'.map)
    BY <1>1 DEF HoldersKept, Whole
  <2> QED BY <1>4, <2>1, <2>2, <2>3 DEF HoldersKept
<1>11. ChangesInForce'
  <2> SUFFICES ASSUME NEW c \in Admins, Lasting(c)', admin'[c].at \in {"save", "writing", "ok"}
               PROVE  InForce(c)'
    BY DEF ChangesInForce
  <2>1. admin'[c] = admin[c] /\ admin[c].at = "ok"
    BY <1>2
  <2>2. Alone(c)
    <3>1. ASSUME NEW q \in Admins, q # c, admin[q].id = admin[c].id, admin[q].at \in Far
          PROVE  FALSE
      BY <1>2, <3>1 DEF Lasting, Alone, Far
    <3> QED BY <3>1 DEF Alone, Far
  <2>3. InForce(c)
    BY <1>1, <2>1, <2>2 DEF ChangesInForce, Lasting
  <2>4. Good' <=> Good
    BY <1>1 DEF Good
  <2> QED BY <1>1, <1>4, <2>1, <2>3, <2>4 DEF InForce, HasChange, Whole
<1> QED BY <1>3, <1>7, <1>8, <1>9, <1>10, <1>11

LEMMA TenantsStart ==
    ASSUME TenantInit
    PROVE  TenantInv
<1>1. Unsent \in AdminCalls /\ Unsent.at = "new"
  BY TenantRecordsKnown DEF Unsent, AdminCalls, AdminStages, TenantSubs
<1>2. \A r \in Admins : admin[r] = Unsent
  BY DEF TenantInit
<1>3. /\ tenants = EmptyMap /\ booted = FALSE /\ lateLoad = FALSE /\ crossedSaves = FALSE
      /\ wiped = FALSE /\ tenantRestarts = 0 /\ tenantFaults = 0
  BY DEF TenantInit
<1> DEFINE Before(S, c, s) == [t \in Ids |->
             IF t = "default" THEN DefaultTenant
             ELSE IF t = c /\ c \in S THEN [sub |-> s, claimed |-> TRUE, rev |-> 0]
             ELSE IF t \in S THEN [sub |-> t, claimed |-> FALSE, rev |-> 0] ELSE NoTenant]
<1>4. \/ tenantFile = [kind |-> "missing", map |-> EmptyMap]
      \/ \E S \in SUBSET Tenants, c \in Tenants, s \in Tenants \ {"default"} :
           tenantFile = [kind |-> "whole", map |-> Before(S, c, s)]
  BY DEF TenantInit
<1>5. NoTenant.claimed = FALSE /\ DefaultTenant.sub = "default"
  BY DEF NoTenant, DefaultTenant
<1>6. ASSUME NEW S \in SUBSET Tenants, NEW c \in Tenants, NEW s \in Tenants \ {"default"}
      PROVE  LET m == Before(S, c, s) IN m \in TenantMaps /\ HasDefault(m) /\ OneHolder(m)
  <2> DEFINE m == Before(S, c, s)
  <2>1. ASSUME NEW t \in Ids
        PROVE  /\ m[t] \in TenantRecords
               /\ t = "default" => m[t] = DefaultTenant
               /\ t # "default" /\ t = c /\ c \in S => m[t].claimed /\ m[t].sub = s
               /\ t # "default" /\ ~(t = c /\ c \in S) => m[t].claimed = FALSE
               /\ m[t] = NoTenant \/ m[t].claimed \/ m[t].sub = t
    <3>1. t \in TenantSubs /\ s \in TenantSubs
      BY DEF TenantSubs, Ids
    <3>2. /\ [sub |-> t, claimed |-> FALSE, rev |-> 0] \in TenantRecords
          /\ [sub |-> s, claimed |-> TRUE, rev |-> 0] \in TenantRecords
      BY <3>1 DEF TenantRecords
    <3>3. DefaultTenant.claimed = TRUE
      BY DEF DefaultTenant
    <3> QED BY <1>5, <3>2, <3>3, TenantRecordsKnown
  <2>2. m \in TenantMaps
    BY <2>1 DEF TenantMaps
  <2> HIDE DEF m
  <2>3. HasDefault(m)
    BY <2>1, TenantRecordsKnown DEF HasDefault
  <2>4. OneHolder(m)
    <3> SUFFICES ASSUME NEW t \in Ids, NEW u \in Ids, t # u, m[t].claimed, m[u].claimed,
                        m[t].sub = m[u].sub
                 PROVE  FALSE
      BY <2>1 DEF OneHolder
    <3> QED BY <1>5, <2>1
  <2> QED BY <2>2, <2>3, <2>4 DEF m
<1> HIDE DEF Before
<1>7. /\ tenantFile \in [kind : {"missing", "torn", "whole"}, map : TenantMaps]
      /\ Whole => HasDefault(tenantFile.map) /\ OneHolder(tenantFile.map)
  BY <1>4, <1>6, TenantRecordsKnown DEF Whole
<1>8. TenantTypes
  <2>1. admin \in [Admins -> AdminCalls]
    BY <1>1 DEF TenantInit
  <2>2. \A r \in Admins : admin[r].at # "new" => admin[r].kind # "none"
    BY <1>1, <1>2
  <2>3. tenants \in TenantMaps
    BY <1>3, TenantRecordsKnown
  <2> QED BY <1>3, <1>7, <2>1, <2>2, <2>3 DEF TenantTypes
<1>9. \A stages : "new" \notin stages => Nobody(stages)
  BY <1>1, <1>2 DEF Nobody
<1>10. Writing = {}
  BY <1>1, <1>2 DEF Writing
<1>11. Booting /\ NeverMissing /\ OneWriter /\ \A r \in Admins : admin[r].at # "loaded"
  BY <1>1, <1>2, <1>3, <1>9, <1>10 DEF Booting, NeverMissing, OneWriter
<1>12. DefaultKept
  BY <1>3, <1>7, <1>9, <1>10 DEF DefaultKept
<1>13. HoldersKept
  <2>1. OneHolder(tenants)
    BY <1>3, TenantRecordsKnown
  <2> QED BY <1>7, <1>10, <1>11, <2>1 DEF HoldersKept
<1>14. ChangesInForce
  BY <1>1, <1>2 DEF ChangesInForce
<1> QED BY <1>8, <1>11, <1>12, <1>13, <1>14 DEF TenantInv

LEMMA TenantSteps ==
    ASSUME TenantInv, [TenantNext]_tenantVars
    PROVE  TenantInv'
<1>1. CASE UNCHANGED tenantVars
  <2>1. UNCHANGED <<tenants, booted, tenantFile, admin, lateLoad, crossedSaves, wiped,
                    tenantRestarts, tenantFaults>>
    BY <1>1 DEF tenantVars
  <2>2. TenantTypes' /\ Booting' /\ NeverMissing'
    BY <2>1 DEF TenantInv, TenantTypes, Booting, NeverMissing, Nobody, Whole, FromFile
  <2>3. DefaultKept' /\ OneWriter'
    BY <2>1 DEF TenantInv, DefaultKept, OneWriter, Nobody, Whole, Writing, HasDefault
  <2>4. HoldersKept'
    BY <2>1 DEF TenantInv, HoldersKept, Whole, Writing
  <2>5. ChangesInForce'
    BY <2>1 DEF TenantInv, ChangesInForce, InForce, HasChange, Lasting, Alone, Good, Whole, Writing
  <2> QED BY <2>2, <2>3, <2>4, <2>5 DEF TenantInv
<1>2. ASSUME NEW r \in Admins, Ask(r) \/ InitReads(r) \/ InitReadFails(r) \/ InitMerges(r) \/ Act(r)
      PROVE  TenantInv'
  BY <1>2, AskTenantKeeps, InitReadsKeeps, InitReadFailsKeeps, InitMergesKeeps, ActKeeps, RefuseActKeeps
<1>3. ASSUME NEW r \in Admins, SaveBegins(r) \/ SaveEnds(r) \/ SaveFails(r)
      PROVE  TenantInv'
  BY <1>3, SaveBeginsKeeps, SaveEndsKeeps, SaveFailsKeeps
<1> QED BY <1>1, <1>2, <1>3, TenantRestartKeeps DEF TenantNext

LEMMA TenantInvForce ==
    ASSUME TenantInv
    PROVE  TenantsInForce
<1>1. TenantTypeOK
  <2>1. \A t \in Ids : /\ tenants[t].sub \in {a.sub : a \in Asks} \cup Ids \cup {"none"}
                       /\ tenants[t].claimed \in BOOLEAN /\ tenants[t].rev \in Nat
    BY DEF TenantInv, TenantTypes, TenantMaps, TenantRecords, TenantSubs
  <2> QED BY <2>1 DEF TenantInv, TenantTypes, TenantTypeOK, AdminCalls, AdminStages
<1>2. ClaimedOnce
  BY DEF TenantInv, HoldersKept, OneHolder, ClaimedOnce
<1>3. ConfirmedInForce
  <2> SUFFICES ASSUME NEW r \in Admins, booted, admin[r].at = "ok", Alone(r), ~lateLoad,
                      tenantRestarts = 0 \/ ~(crossedSaves \/ wiped \/ tenantFaults > 0)
               PROVE  tenants[admin[r].id] = admin[r].want
    BY DEF ConfirmedInForce
  <2>1. tenantRestarts = 0 \/ Good
    BY DEF TenantInv, TenantTypes, Good
  <2>2. InForce(r)
    BY DEF TenantInv, ChangesInForce, Lasting
  <2> QED BY <2>1, <2>2 DEF InForce, HasChange
<1> QED BY <1>1, <1>2, <1>3 DEF TenantsInForce

\* A subdomain asked for has one holder, beside the tenant of that id, and a change answered
\* with success is in force, through restarts too unless the recorded faults happened
\* (tenant-registry.js:129-143, 182-190, 216-223, 266-271): for any tenants, requests and bounds.
THEOREM TenantsStayInForce == TenantSpec => []TenantsInForce
<1>1. TenantInit => TenantInv
  BY TenantsStart
<1>2. TenantInv /\ [TenantNext]_tenantVars => TenantInv'
  BY TenantSteps
<1>3. TenantInv => TenantsInForce
  BY TenantInvForce
<1> QED BY <1>1, <1>2, <1>3, PTL DEF TenantSpec

-----------------------------------------------------------------------------
(* The OAuth server *)

\* What a record of a token or a code can be: its scope is within what its client
\* registered and the approver holds
KnownClients == Clients \cup {NewClient}
IssuedTokens == {x \in [client : KnownClients, scope : SUBSET OwnerScope, revoked : BOOLEAN] :
                   x.scope \subseteq ClientScope[x.client]}
TokenMaps == [Tokens -> IssuedTokens \cup {NoToken}]
IssuedCodes == {x \in [client : KnownClients, scope : SUBSET OwnerScope] :
                  x.scope \subseteq ClientScope[x.client]}
AuthSnapshots == [clients : SUBSET KnownClients, tokens : TokenMaps, change : Nat]
AuthStages == {"new", "loading", "read", "ready", "mkdir", "rename", "done"}
AuthAnswers == {"none", "ok", "refused", "failed", "lost"}
AuthAsks == {asked[c] : asked \in Scenarios, c \in AuthCalls}
AuthRequest == [at : AuthStages, ask : AuthAsks, has : AuthSnapshots, out : AuthAnswers,
                granted : BOOLEAN]

AuthTypes ==
  /\ clients \subseteq KnownClients /\ codes \in [AuthCalls -> IssuedCodes \cup {NoCode}]
  /\ tokens \in TokenMaps /\ authLoaded \in BOOLEAN
  /\ authFile \in AuthSnapshots /\ change \in Nat
  /\ req \in [AuthCalls -> AuthRequest]
  /\ expired \subseteq Tokens /\ leaned \subseteq Tokens
  /\ authLate \in BOOLEAN /\ authCrossed \in BOOLEAN /\ authBlind \in BOOLEAN

\* What exists in f exists in g; what is revoked in f is revoked in g
Kept(f, g) == \A t \in Tokens : f[t] # NoToken => g[t] # NoToken
Dead(f, g) == \A t \in Tokens : f[t].revoked => g[t].revoked
Within(late, f, g) == Kept(f, g) /\ (~late => Dead(f, g))

Granting(c) == req[c].ask.kind \in {"code", "refresh"}
Persisting(c) == req[c].at \in {"mkdir", "rename"}

\* A token exists only when its issuer was granted it
Granted == {c \in AuthCalls : req[c].granted}
IssuedBy(S, t) == t[2] = "old" \/ t[2] \in S
GrantedIn(S, f) == \A t \in Tokens : f[t] # NoToken => IssuedBy(S, t)

\* A request works on a loaded memory, is granted a pair only once it persists it, and
\* presents a token that was issued
RequestsInStep ==
  /\ \A c \in AuthCalls :
       /\ req[c].at = "ready" \/ Persisting(c) => authLoaded
       /\ req[c].out = "ok" => req[c].at = "done"
       /\ req[c].granted => Granting(c) /\ (Persisting(c) \/ req[c].at = "done")
       /\ Granting(c) /\ (Persisting(c) \/ req[c].out = "ok") => req[c].granted
       /\ req[c].at # "new" /\ req[c].ask.kind \in {"refresh", "revoke", "check"} =>
            IssuedBy(Granted, req[c].ask.arg)
  /\ ~authLoaded => tokens = [t \in Tokens |-> NoToken]

TokensGranted == /\ GrantedIn(Granted, tokens) /\ GrantedIn(Granted, authFile.tokens)
                 /\ \A c \in AuthCalls : GrantedIn(Granted, req[c].has.tokens)

\* A code that was redeemed is gone for good: its own request has ended, so no authorize
\* can write it again
Redeemed(c) == req[c].granted /\ req[c].ask.kind = "code"
CodesSpent ==
  /\ \A x \in AuthCalls : codes[x] # NoCode => req[x].at = "done"
  /\ \A c \in AuthCalls :
       Redeemed(c) => codes[req[c].ask.arg] = NoCode /\ req[req[c].ask.arg].at = "done"
  /\ \A c, d \in AuthCalls : Redeemed(c) /\ Redeemed(d) /\ req[c].ask.arg = req[d].ask.arg => c = d

\* Of two maps the later one keeps what exists in the earlier one, and unless a late load
\* replaced records also what is revoked there, in a process that has read the file
MapsInOrder ==
  /\ authFile.change <= change
  /\ \A c \in AuthCalls :
       /\ req[c].at = "rename" => req[c].has.change <= change
       /\ req[c].at = "read" /\ ~authLoaded => req[c].has.tokens = authFile.tokens
  /\ ~authCrossed /\ ~authBlind =>
       /\ authLoaded => Within(authLate, authFile.tokens, tokens)
       /\ \A c \in AuthCalls :
            /\ req[c].at = "read" /\ authLoaded => Kept(req[c].has.tokens, tokens)
            /\ req[c].at = "rename" =>
                 /\ Within(authLate, req[c].has.tokens, tokens)
                 /\ req[c].has.change = change => Within(authLate, tokens, req[c].has.tokens)
                 /\ req[c].has.change >= authFile.change => Within(authLate, authFile.tokens, req[c].has.tokens)
       /\ \A c, d \in AuthCalls :
            req[c].at = "rename" /\ req[d].at = "rename" /\ req[c].has.change <= req[d].has.change
            => Within(authLate, req[c].has.tokens, req[d].has.tokens)

\* What the file has, a process that could not read it has not, until a late load
BlindApart ==
  authBlind => /\ authLoaded
               /\ ~authLate /\ ~authCrossed =>
                    \A t \in Tokens : authFile.tokens[t] # NoToken => tokens[t] = NoToken

\* A granted pair is in memory while it is persisted, then in the snapshot, then in the file
PairIn(f, c) == \A k \in {"at", "rt"} : f[<<k, c>>] # NoToken
PairsKept ==
  \A c \in AuthCalls : req[c].granted =>
    /\ Persisting(c) => PairIn(tokens, c)
    /\ req[c].at = "rename" => PairIn(req[c].has.tokens, c)
    /\ req[c].out = "ok" /\ ~authCrossed => PairIn(authFile.tokens, c)

\* A revocation moves the same way; a revoked token may also be one that no map has
Gone(c) == /\ authFile.tokens[req[c].ask.arg] = NoToken
           /\ authLoaded => tokens[req[c].ask.arg] = NoToken
RevocationsKept ==
  ~authLate /\ ~authCrossed =>
    \A c \in AuthCalls :
      /\ req[c].ask.kind \in {"refresh", "revoke"} =>
           /\ Persisting(c) => tokens[req[c].ask.arg].revoked
           /\ req[c].at = "rename" => req[c].has.tokens[req[c].ask.arg].revoked
      /\ req[c].ask.kind = "refresh" /\ req[c].out = "ok" => authFile.tokens[req[c].ask.arg].revoked
      /\ req[c].ask.kind = "revoke" /\ req[c].out = "ok" /\ req[c].ask.arg \notin leaned =>
           authFile.tokens[req[c].ask.arg].revoked \/ Gone(c)

\* Of the requests with one refresh token at most one persists or has been answered
Rotates(c) == req[c].ask.kind = "refresh" /\ (Persisting(c) \/ req[c].out = "ok")
RotatedOnce ==
  ~authLate /\ ~authCrossed =>
    \A c, d \in AuthCalls : Rotates(c) /\ Rotates(d) /\ req[c].ask.arg = req[d].ask.arg => c = d

AuthInv == /\ AuthTypes /\ RequestsInStep /\ TokensGranted /\ CodesSpent /\ MapsInOrder
           /\ BlindApart /\ PairsKept /\ RevocationsKept /\ RotatedOnce

-----------------------------------------------------------------------------
LEMMA AsksKnown ==
    ASSUME NEW a \in AuthAsks
    PROVE  /\ a.kind = "code" => a.arg \in AuthCalls
           /\ a.kind \in {"refresh", "revoke", "check"} => a.arg \in Tokens
  BY AuthAssumption DEF AuthAsks

LEMMA TokensKnown ==
  /\ NoToken \notin IssuedTokens /\ NoCode \notin IssuedCodes /\ NoToken.revoked = FALSE
  /\ Old \in TokenMaps /\ [t \in Tokens |-> NoToken] \in TokenMaps /\ NoSnapshot \in AuthSnapshots
  /\ \A t \in Tokens : Old[t] # NoToken => t[2] = "old"
  /\ \A d \in AuthCalls, k \in {"at", "rt"} :
       /\ <<k, d>> \in Tokens /\ <<k, d>>[2] = d /\ d # "old"
       /\ Old[<<k, d>>] = NoToken
<1>1. "none" \notin KnownClients
  BY AuthAssumption DEF KnownClients
<1>2. NoToken \notin IssuedTokens /\ NoToken.revoked = FALSE
  BY <1>1 DEF NoToken, IssuedTokens
<1>3. NoCode \notin IssuedCodes
  BY <1>1 DEF NoCode, IssuedCodes
<1>4. PICK first \in Clients : first = CHOOSE k \in Clients : TRUE
  BY AuthAssumption
<1> DEFINE x == [client |-> first, scope |-> ClientScope[first] \cap OwnerScope, revoked |-> FALSE]
<1>5. x \in IssuedTokens
  BY DEF IssuedTokens, KnownClients
<1> HIDE DEF x
<1>6. Old = [t \in Tokens |-> IF t[2] = "old" THEN x ELSE NoToken]
  BY <1>4 DEF Old, x
<1>7. Old \in TokenMaps /\ [t \in Tokens |-> NoToken] \in TokenMaps
  BY <1>5, <1>6 DEF TokenMaps
<1>8. NoSnapshot \in AuthSnapshots
  BY <1>7 DEF NoSnapshot, AuthSnapshots
<1>9. \A t \in Tokens : Old[t] # NoToken => t[2] = "old"
  BY <1>6
<1>10. \A d \in AuthCalls, k \in {"at", "rt"} : <<k, d>> \in Tokens /\ <<k, d>>[2] = d /\ d # "old"
  BY AuthAssumption DEF Tokens, Issuers
<1> QED BY <1>2, <1>3, <1>7, <1>8, <1>9, <1>10

LEMMA WithinChain ==
    ASSUME NEW late, NEW f, NEW g, NEW h, Within(late, f, g), Within(late, g, h)
    PROVE  Within(late, f, h)
  BY DEF Within, Kept, Dead

LEMMA TokensGrantedKeep ==
    ASSUME TokensGranted, Granted \subseteq Granted', GrantedIn(Granted, tokens)',
           authFile'.tokens \in {authFile.tokens} \cup {req[c].has.tokens : c \in AuthCalls},
           \A c \in AuthCalls :
             req'[c].has.tokens \in {req[c].has.tokens, authFile.tokens, tokens, NoSnapshot.tokens}
    PROVE  TokensGranted'
<1> DEFINE S == Granted
           T == Granted'
<1>1. \A f : GrantedIn(S, f) => GrantedIn(T, f)
  BY DEF GrantedIn, IssuedBy
<1>2. GrantedIn(S, NoSnapshot.tokens)
  BY TokensKnown DEF GrantedIn, IssuedBy, NoSnapshot
<1>3. GrantedIn(S, tokens) /\ GrantedIn(S, authFile.tokens) /\ \A c \in AuthCalls : GrantedIn(S, req[c].has.tokens)
  BY DEF TokensGranted
<1> HIDE DEF S, T
<1>4. GrantedIn(T, authFile'.tokens)
  BY <1>1, <1>3
<1>5. \A c \in AuthCalls : GrantedIn(T, req'[c].has.tokens)
  BY <1>1, <1>2, <1>3
<1> QED BY <1>4, <1>5 DEF TokensGranted, T

LEMMA GrantedAgrees ==
    ASSUME \A d \in AuthCalls : req'[d].granted = req[d].granted
    PROVE  Granted' = Granted
  BY DEF Granted

\* One request moves, and what it asks for is fixed.
AuthMoves(c) ==
  /\ req' \in [AuthCalls -> AuthRequest]
  /\ \A d \in AuthCalls : d # c => req'[d] = req[d]
  /\ \A d \in AuthCalls : req'[d].ask = req[d].ask
AuthTo(c, at, has, out, granted) ==
  req' = [req EXCEPT ![c] = [req[c] EXCEPT !.at = at, !.has = has, !.out = out,
                                           !.granted = granted]]

LEMMA AuthStep ==
    ASSUME AuthTypes, NEW c \in AuthCalls, NEW at \in AuthStages, NEW has \in AuthSnapshots,
           NEW out \in AuthAnswers, NEW granted \in BOOLEAN, AuthTo(c, at, has, out, granted)
    PROVE  /\ AuthMoves(c) /\ req'[c].at = at /\ req'[c].has = has /\ req'[c].out = out
           /\ req'[c].granted = granted
<1> DEFINE y == [req[c] EXCEPT !.at = at, !.has = has, !.out = out, !.granted = granted]
<1>1. req[c] \in AuthRequest /\ req \in [AuthCalls -> AuthRequest]
  BY DEF AuthTypes
<1>2. y \in AuthRequest
  BY <1>1, Zenon DEF AuthRequest
<1>3. y.at = at /\ y.has = has /\ y.out = out /\ y.ask = req[c].ask
  BY <1>1 DEF AuthRequest
<1>4. y.granted = granted
  BY <1>1 DEF AuthRequest
<1>5. req' = [req EXCEPT ![c] = y]
  BY DEF AuthTo
<1> HIDE DEF y
<1>6. req' \in [AuthCalls -> AuthRequest] /\ req'[c] = y
  BY <1>1, <1>2, <1>5
<1>7. \A d \in AuthCalls : d # c => req'[d] = req[d]
  BY <1>1, <1>5
<1> QED BY <1>3, <1>4, <1>6, <1>7 DEF AuthMoves

\* A step that leaves the maps alone, in memory, in the file and in what is to be renamed.
LEMMA QuietAuth ==
    ASSUME AuthInv, NEW c \in AuthCalls, AuthMoves(c),
           UNCHANGED <<tokens, authLoaded, authBlind, authFile, change, authLate, authCrossed>>,
           clients' \subseteq KnownClients, codes' \in [AuthCalls -> IssuedCodes \cup {NoCode}],
           \A x \in AuthCalls : codes'[x] # NoCode => codes[x] # NoCode \/ (x = c /\ req'[c].at = "done"),
           leaned \subseteq leaned', leaned' \subseteq Tokens, expired' \subseteq Tokens,
           req[c].at \notin {"mkdir", "done"},
           req'[c].at \in {"loading", "read", "ready", "done"},
           req'[c].at = "ready" => authLoaded,
           req'[c].at = "read" => req'[c].has = authFile,
           req'[c].has \in {req[c].has, authFile, NoSnapshot},
           req'[c].granted = req[c].granted, req'[c].granted => req'[c].at = "done",
           req'[c].out = "ok" =>
             /\ req'[c].at = "done" /\ req[c].ask.kind \notin {"code", "refresh"}
             /\ req[c].ask.kind = "revoke" /\ req[c].ask.arg \notin leaned' /\ ~authCrossed =>
                  authFile.tokens[req[c].ask.arg].revoked \/ Gone(c),
           req[c].ask.kind \in {"refresh", "revoke", "check"} =>
             IssuedBy(Granted, req[c].ask.arg)
    PROVE  AuthInv'
<1> USE DEF AuthInv
<1>1. AuthTypes'
  BY DEF AuthTypes, AuthMoves
<1>2. \A d \in AuthCalls : req'[d].granted = req[d].granted /\ req'[d].ask = req[d].ask
  BY DEF AuthMoves
<1>3. \A d \in AuthCalls : req'[d].at \in {"mkdir", "rename"} => d # c /\ req'[d] = req[d]
  BY DEF AuthMoves
<1>4. RequestsInStep'
  <2>1. \A d \in AuthCalls : /\ req'[d].at = "ready" \/ Persisting(d)' => authLoaded'
                             /\ req'[d].out = "ok" => req'[d].at = "done"
                             /\ req'[d].granted => Granting(d)' /\ (Persisting(d)' \/ req'[d].at = "done")
    BY <1>2 DEF RequestsInStep, AuthMoves, Granting, Persisting
  <2>2. \A d \in AuthCalls : Granting(d)' /\ (Persisting(d)' \/ req'[d].out = "ok") => req'[d].granted
    BY <1>2 DEF RequestsInStep, AuthMoves, Granting, Persisting
  <2>3. \A d \in AuthCalls : req'[d].at # "new" /\ req'[d].ask.kind \in {"refresh", "revoke", "check"} =>
            IssuedBy(Granted, req[d].ask.arg)'
    <3>1. Granted' = Granted
      BY <1>2, GrantedAgrees
    <3> QED BY <1>2, <3>1 DEF RequestsInStep, AuthMoves
  <2> QED BY <2>1, <2>2, <2>3 DEF RequestsInStep
<1>5. TokensGranted'
  <2>1. Granted' = Granted
    BY <1>2, GrantedAgrees
  <2>2. GrantedIn(Granted, tokens)'
    BY <1>2, <2>1 DEF TokensGranted
  <2>3. \A d \in AuthCalls : req'[d].has.tokens \in {req[d].has.tokens, authFile.tokens, tokens, NoSnapshot.tokens}
    BY DEF AuthMoves
  <2> QED BY <2>1, <2>2, <2>3, TokensGrantedKeep
<1>6. CodesSpent'
  <2>1. \A d \in AuthCalls : (Redeemed(d)' <=> Redeemed(d)) /\ (req[d].at = "done" => req'[d].at = "done")
    BY <1>2 DEF Redeemed, AuthMoves
  <2>2. \A d \in AuthCalls : Redeemed(d) => req[d].ask.arg \in AuthCalls /\ req[d].ask.arg # c
    BY AsksKnown DEF Redeemed, CodesSpent, AuthTypes, AuthRequest
  <2>3. \A x \in AuthCalls : codes'[x] # NoCode => req'[x].at = "done"
    BY <2>1 DEF CodesSpent
  <2> QED BY <1>2, <2>1, <2>2, <2>3 DEF CodesSpent
<1>7. MapsInOrder'
  <2>1. authFile'.change <= change' /\ \A d \in AuthCalls :
          /\ req'[d].at = "rename" => req'[d].has.change <= change'
          /\ req'[d].at = "read" /\ ~authLoaded' => req'[d].has.tokens = authFile'.tokens
    BY <1>3 DEF MapsInOrder, AuthMoves
  <2>2. ASSUME ~authCrossed, ~authBlind
        PROVE  /\ authLoaded => Within(authLate, authFile.tokens, tokens)'
               /\ \A d \in AuthCalls : req'[d].at = "read" /\ authLoaded => Kept(req'[d].has.tokens, tokens')
    <3>1. authLoaded => Within(authLate, authFile.tokens, tokens)
      BY <2>2 DEF MapsInOrder
    <3>2. ASSUME NEW d \in AuthCalls, req'[d].at = "read", authLoaded
          PROVE  Kept(req'[d].has.tokens, tokens')
      <4>1. CASE d = c
        BY <3>1, <3>2, <4>1 DEF Within
      <4>2. CASE d # c
        <5>1. req'[d] = req[d]
          BY <4>2 DEF AuthMoves
        <5> QED BY <2>2, <3>2, <5>1 DEF MapsInOrder
      <4> QED BY <4>1, <4>2
    <3> QED BY <3>1, <3>2
  <2>3. ASSUME ~authCrossed, ~authBlind, NEW d \in AuthCalls, req'[d].at = "rename"
        PROVE  /\ Within(authLate, req[d].has.tokens, tokens)'
               /\ req'[d].has.change = change' => Within(authLate, tokens, req[d].has.tokens)'
               /\ req'[d].has.change >= authFile'.change => Within(authLate, authFile.tokens, req[d].has.tokens)'
    BY <1>3, <2>3 DEF MapsInOrder
  <2>4. ASSUME ~authCrossed, ~authBlind, NEW d \in AuthCalls, NEW e \in AuthCalls, req'[d].at = "rename",
               req'[e].at = "rename", req'[d].has.change <= req'[e].has.change
        PROVE  Within(authLate, req[d].has.tokens, req[e].has.tokens)'
    BY <1>3, <2>4 DEF MapsInOrder
  <2> QED BY <2>1, <2>2, <2>3, <2>4 DEF MapsInOrder
<1>8. PairsKept'
  <2> SUFFICES ASSUME NEW d \in AuthCalls, req'[d].granted
               PROVE  /\ Persisting(d)' => PairIn(tokens, d)'
                      /\ req'[d].at = "rename" => PairIn(req[d].has.tokens, d)'
                      /\ req'[d].out = "ok" /\ ~authCrossed' => PairIn(authFile.tokens, d)'
    BY DEF PairsKept
  <2>1. Persisting(d)' => req'[d] = req[d] /\ Persisting(d)
    BY <1>3 DEF Persisting
  <2>2. req'[d].out = "ok" => req[d].out = "ok"
    BY <1>2 DEF AuthMoves, RequestsInStep, Granting
  <2>3. req[d].granted
    BY <1>2
  <2>4. Persisting(d)' => PairIn(tokens, d)'
    BY <2>1, <2>3 DEF PairsKept
  <2>5. req'[d].at = "rename" => PairIn(req[d].has.tokens, d)'
    BY <1>3, <2>3 DEF PairsKept
  <2>6. req'[d].out = "ok" /\ ~authCrossed' => PairIn(authFile.tokens, d)'
    BY <2>2, <2>3 DEF PairsKept
  <2> QED BY <2>4, <2>5, <2>6
<1>9. RevocationsKept'
  <2> SUFFICES ASSUME ~authLate, ~authCrossed, NEW d \in AuthCalls
               PROVE  /\ req'[d].ask.kind \in {"refresh", "revoke"} =>
                           /\ Persisting(d)' => tokens'[req'[d].ask.arg].revoked
                           /\ req'[d].at = "rename" => req'[d].has.tokens[req'[d].ask.arg].revoked
                      /\ req'[d].ask.kind = "refresh" /\ req'[d].out = "ok" =>
                           authFile'.tokens[req'[d].ask.arg].revoked
                      /\ req'[d].ask.kind = "revoke" /\ req'[d].out = "ok" /\ req'[d].ask.arg \notin leaned' =>
                           authFile'.tokens[req'[d].ask.arg].revoked \/ Gone(d)'
    BY DEF RevocationsKept
  <2>1. Gone(d)' <=> Gone(d)
    BY <1>2 DEF Gone
  <2>2. CASE d = c
    BY <1>2, <1>3, <2>1, <2>2 DEF Persisting
  <2>3. CASE d # c
    <3>1. req'[d] = req[d]
      BY <2>3 DEF AuthMoves
    <3> QED BY <2>1, <3>1 DEF RevocationsKept, Persisting
  <2> QED BY <2>2, <2>3
<1>10. RotatedOnce'
  <2>1. \A d \in AuthCalls : Rotates(d)' => Rotates(d)
    BY <1>2, <1>3 DEF Rotates, Persisting, AuthMoves
  <2> QED BY <1>2, <2>1 DEF RotatedOnce
<1>11. BlindApart'
  BY DEF BlindApart
<1> QED BY <1>1, <1>4, <1>5, <1>6, <1>7, <1>8, <1>9, <1>10, <1>11

\* A code or a token runs out.
LEMMA AgingAuth ==
    ASSUME AuthInv, UNCHANGED <<clients, tokens, authLoaded, authBlind, authFile, change, req, authLate, authCrossed,
                                leaned>>,
           codes' \in [AuthCalls -> IssuedCodes \cup {NoCode}], expired' \subseteq Tokens,
           \A x \in AuthCalls : codes'[x] # NoCode => codes[x] # NoCode
    PROVE  AuthInv'
<1> USE DEF AuthInv
<1>1. AuthTypes'
  BY DEF AuthTypes
<1>2. RequestsInStep'
  <2>1. Granted' = Granted
    BY GrantedAgrees
  <2> QED BY <2>1 DEF RequestsInStep, Granting, Persisting
<1>3. TokensGranted'
  <2>1. Granted' = Granted
    BY GrantedAgrees
  <2> QED BY <2>1 DEF TokensGranted
<1>4. CodesSpent'
  <2>1. \A d \in AuthCalls : Redeemed(d) => req[d].ask.arg \in AuthCalls
    BY AsksKnown DEF Redeemed, AuthTypes, AuthRequest
  <2> QED BY <2>1 DEF CodesSpent, Redeemed
<1>5. MapsInOrder'
  BY DEF MapsInOrder, Within
<1>6. PairsKept'
  BY DEF PairsKept, Persisting
<1>7. RevocationsKept'
  BY DEF RevocationsKept, Persisting, Gone
<1>8. RotatedOnce' /\ BlindApart'
  BY DEF RotatedOnce, Rotates, Persisting, BlindApart
<1> QED BY <1>1, <1>2, <1>3, <1>4, <1>5, <1>6, <1>7, <1>8

\* A change in memory: what existed or was revoked stays so, and only the request that is
\* granted a pair adds tokens, its own.
LEMMA ChangeAuth ==
    ASSUME AuthInv, NEW c \in AuthCalls, AuthMoves(c),
           req[c].at = "ready", req'[c].at = "mkdir", req'[c].has = req[c].has, req'[c].out = req[c].out,
           req'[c].granted <=> Granting(c),
           change' = change + 1, UNCHANGED <<authLoaded, authBlind, authFile, expired, authLate, authCrossed, leaned>>,
           clients' \subseteq KnownClients, tokens' \in TokenMaps,
           codes' \in [AuthCalls -> IssuedCodes \cup {NoCode}],
           \A x \in AuthCalls : codes'[x] # NoCode => codes[x] # NoCode,
           Kept(tokens, tokens'), Dead(tokens, tokens'),
           \A t \in Tokens : tokens'[t] # NoToken => tokens[t] # NoToken \/ (t[2] = c /\ Granting(c)),
           Granting(c) => PairIn(tokens', c),
           req[c].ask.kind = "code" => codes[req[c].ask.arg] # NoCode /\ codes'[req[c].ask.arg] = NoCode,
           req[c].ask.kind \in {"refresh", "revoke"} => tokens'[req[c].ask.arg].revoked,
           req[c].ask.kind = "refresh" => tokens[req[c].ask.arg] # NoToken /\ ~tokens[req[c].ask.arg].revoked
    PROVE  AuthInv'
<1> USE DEF AuthInv
<1>1. AuthTypes'
  BY DEF AuthTypes, AuthMoves
<1>2. authLoaded /\ req[c].out # "ok" /\ ~req[c].granted /\ change \in Nat /\ tokens \in TokenMaps
  BY DEF RequestsInStep, Persisting, AuthTypes
<1>3. \A d \in AuthCalls : req'[d].ask = req[d].ask /\ (req[d].granted => req'[d].granted)
  BY <1>2 DEF AuthMoves
<1>4. \A d \in AuthCalls : d # c => req'[d] = req[d]
  BY DEF AuthMoves
<1>5. \A d \in AuthCalls : req'[d].at \in {"rename", "done", "read"} \/ req'[d].out = "ok" => d # c
  BY <1>2
<1>6. RequestsInStep'
  <2>1. \A d \in AuthCalls : /\ req'[d].at = "ready" \/ Persisting(d)' => authLoaded'
                             /\ req'[d].out = "ok" => req'[d].at = "done"
    BY <1>2, <1>4, <1>5 DEF RequestsInStep, Persisting
  <2>2. \A d \in AuthCalls : req'[d].granted => Granting(d)' /\ (Persisting(d)' \/ req'[d].at = "done")
    BY <1>3, <1>4 DEF RequestsInStep, Persisting, Granting
  <2>3. \A d \in AuthCalls : Granting(d)' /\ (Persisting(d)' \/ req'[d].out = "ok") => req'[d].granted
    BY <1>3, <1>4 DEF RequestsInStep, Persisting, Granting
  <2>4. \A d \in AuthCalls : req'[d].at # "new" /\ req'[d].ask.kind \in {"refresh", "revoke", "check"} =>
            IssuedBy(Granted, req[d].ask.arg)'
    <3>1. \A d \in AuthCalls : req'[d].at # "new" => req[d].at # "new"
      BY <1>4
    <3>2. Granted \subseteq Granted'
      BY <1>3 DEF Granted
    <3> QED BY <1>3, <3>1, <3>2 DEF RequestsInStep, IssuedBy
  <2> QED BY <1>2, <2>1, <2>2, <2>3, <2>4 DEF RequestsInStep
<1>7. TokensGranted'
  <2>1. Granted \subseteq Granted' /\ (Granting(c) => c \in Granted')
    BY <1>3 DEF Granted
  <2>2. GrantedIn(Granted, tokens)'
    BY <2>1 DEF TokensGranted, GrantedIn, IssuedBy
  <2>3. \A d \in AuthCalls : req'[d].has.tokens = req[d].has.tokens
    BY <1>4
  <2> QED BY <2>1, <2>2, <2>3, TokensGrantedKeep
<1>8. CodesSpent'
  <2>1. \A d \in AuthCalls : (req[d].at = "done" => req'[d].at = "done") /\ (d # c => (Redeemed(d)' <=> Redeemed(d)))
    BY <1>4, <1>5 DEF Redeemed
  <2>2. \A d \in AuthCalls : req[d].ask.kind = "code" => req[d].ask.arg \in AuthCalls
    BY AsksKnown DEF AuthTypes, AuthRequest
  <2>3. \A d \in AuthCalls : Redeemed(d) => codes[req[d].ask.arg] = NoCode /\ req[req[d].ask.arg].at = "done"
                                    /\ req[d].ask.arg \in AuthCalls
    BY <2>2 DEF CodesSpent, Redeemed
  <2>4. Redeemed(c)' => /\ codes[req[c].ask.arg] # NoCode /\ codes'[req[c].ask.arg] = NoCode
                        /\ req[c].ask.arg \in AuthCalls /\ req[req[c].ask.arg].at = "done"
    <3>1. Redeemed(c)' => req[c].ask.kind = "code"
      BY <1>3 DEF Redeemed
    <3> QED BY <2>2, <3>1 DEF CodesSpent
  <2>5. \A d \in AuthCalls : Redeemed(c)' /\ Redeemed(d) => req[c].ask.arg # req[d].ask.arg
    BY <2>3, <2>4
  <2>6. \A x \in AuthCalls : codes'[x] # NoCode => req'[x].at = "done"
    BY <2>1 DEF CodesSpent
  <2>7. ASSUME NEW d \in AuthCalls, Redeemed(d)'
        PROVE  codes'[req'[d].ask.arg] = NoCode /\ req'[req'[d].ask.arg].at = "done"
    <3>1. CASE d = c
      BY <1>3, <2>1, <2>4, <2>7, <3>1
    <3>2. CASE d # c
      BY <1>3, <2>1, <2>3, <2>7, <3>2
    <3> QED BY <3>1, <3>2
  <2>8. \A d, e \in AuthCalls : Redeemed(d)' /\ Redeemed(e)' /\ req'[d].ask.arg = req'[e].ask.arg => d = e
    <3>1. \A d, e \in AuthCalls : Redeemed(d) /\ Redeemed(e) /\ req[d].ask.arg = req[e].ask.arg => d = e
      BY DEF CodesSpent
    <3> QED BY <1>3, <2>1, <2>5, <3>1
  <2> QED BY <2>6, <2>7, <2>8 DEF CodesSpent
<1>9. MapsInOrder'
  <2>1. authFile.change \in Nat /\ \A d \in AuthCalls : req[d].has.change \in Nat
    BY DEF AuthTypes, AuthRequest, AuthSnapshots
  <2>2. authFile'.change <= change' /\ \A d \in AuthCalls :
          /\ req'[d].at = "rename" => req'[d].has.change < change'
          /\ req'[d].at = "read" /\ ~authLoaded' => req'[d].has.tokens = authFile'.tokens
    BY <1>2, <1>4, <1>5, <2>1 DEF MapsInOrder
  <2>3. ASSUME ~authCrossed, ~authBlind
        PROVE  /\ Within(authLate, authFile.tokens, tokens)'
               /\ \A d \in AuthCalls : req'[d].at = "read" => Kept(req'[d].has.tokens, tokens')
    <3>1. Within(authLate, authFile.tokens, tokens) /\ Within(authLate, tokens, tokens')
      BY <1>2, <2>3 DEF MapsInOrder, Within
    <3>2. Within(authLate, authFile.tokens, tokens')
      BY <3>1, WithinChain
    <3>3. ASSUME NEW d \in AuthCalls, req'[d].at = "read" PROVE Kept(req'[d].has.tokens, tokens')
      <4>1. req'[d] = req[d]
        BY <1>4, <1>5, <3>3
      <4>2. Kept(req[d].has.tokens, tokens)
        BY <1>2, <2>3, <3>3, <4>1 DEF MapsInOrder
      <4> QED BY <4>1, <4>2 DEF Kept
    <3> QED BY <3>2, <3>3
  <2>4. ASSUME ~authCrossed, ~authBlind, NEW d \in AuthCalls, req'[d].at = "rename"
        PROVE  /\ Within(authLate, req[d].has.tokens, tokens)'
               /\ req'[d].has.change >= authFile'.change => Within(authLate, authFile.tokens, req[d].has.tokens)'
    <3>1. req'[d] = req[d]
      BY <1>4, <1>5, <2>4
    <3>2. Within(authLate, req[d].has.tokens, tokens) /\ Within(authLate, tokens, tokens')
          /\ (req[d].has.change >= authFile.change => Within(authLate, authFile.tokens, req[d].has.tokens))
      BY <2>4, <3>1 DEF MapsInOrder, Within
    <3>3. Within(authLate, req[d].has.tokens, tokens')
      BY <3>2, WithinChain
    <3> QED BY <3>1, <3>2, <3>3
  <2>5. ASSUME ~authCrossed, ~authBlind, NEW d \in AuthCalls, NEW e \in AuthCalls, req'[d].at = "rename",
               req'[e].at = "rename", req'[d].has.change <= req'[e].has.change
        PROVE  Within(authLate, req[d].has.tokens, req[e].has.tokens)'
    <3>1. req'[d] = req[d] /\ req'[e] = req[e]
      BY <1>4, <1>5, <2>5
    <3> QED BY <2>5, <3>1 DEF MapsInOrder
  <2>6. \A d \in AuthCalls : req'[d].at = "rename" => req'[d].has.change # change'
    BY <1>2, <1>4, <1>5, <2>1, <2>2
  <2>7. \A d \in AuthCalls : req'[d].at = "rename" => req'[d].has.change <= change'
    BY <1>2, <1>4, <1>5, <2>1, <2>2
  <2> QED BY <2>2, <2>3, <2>4, <2>5, <2>6, <2>7 DEF MapsInOrder
<1>10. PairsKept'
  <2> SUFFICES ASSUME NEW d \in AuthCalls, req'[d].granted
               PROVE  /\ Persisting(d)' => PairIn(tokens, d)'
                      /\ req'[d].at = "rename" => PairIn(req[d].has.tokens, d)'
                      /\ req'[d].out = "ok" /\ ~authCrossed' => PairIn(authFile.tokens, d)'
    BY DEF PairsKept
  <2>1. CASE d = c
    BY <1>5, <2>1 DEF PairIn
  <2>2. CASE d # c
    <3>1. req'[d] = req[d] /\ (Persisting(d)' <=> Persisting(d))
      BY <1>4, <2>2 DEF Persisting
    <3>2. PairIn(tokens, d) => PairIn(tokens, d)'
      BY TokensKnown DEF PairIn, Kept
    <3>3. /\ Persisting(d) => PairIn(tokens, d)
          /\ req[d].at = "rename" => PairIn(req[d].has.tokens, d)
          /\ req[d].out = "ok" /\ ~authCrossed => PairIn(authFile.tokens, d)
      BY <3>1 DEF PairsKept
    <3> QED BY <3>1, <3>2, <3>3
  <2> QED BY <2>1, <2>2
<1>11. RevocationsKept'
  <2> SUFFICES ASSUME ~authLate, ~authCrossed, NEW d \in AuthCalls
               PROVE  /\ req'[d].ask.kind \in {"refresh", "revoke"} =>
                           /\ Persisting(d)' => tokens'[req'[d].ask.arg].revoked
                           /\ req'[d].at = "rename" => req'[d].has.tokens[req'[d].ask.arg].revoked
                      /\ req'[d].ask.kind = "refresh" /\ req'[d].out = "ok" =>
                           authFile'.tokens[req'[d].ask.arg].revoked
                      /\ req'[d].ask.kind = "revoke" /\ req'[d].out = "ok" /\ req'[d].ask.arg \notin leaned' =>
                           authFile'.tokens[req'[d].ask.arg].revoked \/ Gone(d)'
    BY DEF RevocationsKept
  <2>1. CASE d = c
    BY <1>3, <1>5, <2>1 DEF Persisting
  <2>2. CASE d # c
    <3>1. req'[d] = req[d]
      BY <1>4, <2>2
    <3>2. req[d].ask.kind \in {"refresh", "revoke"} => req[d].ask.arg \in Tokens
      BY AsksKnown DEF AuthTypes, AuthRequest
    <3>3. ASSUME req[d].ask.kind = "revoke", req[d].out = "ok", Gone(d)
          PROVE  Gone(d)'
      <4>1. req[d].ask.arg[2] # c
        BY <1>2, <3>3, AuthAssumption DEF RequestsInStep, IssuedBy, Granted
      <4> QED BY <3>1, <3>2, <3>3, <4>1 DEF Gone
    <3>4. Persisting(d)' <=> Persisting(d)
      BY <3>1 DEF Persisting
    <3>5. \A t \in Tokens : tokens[t].revoked => tokens'[t].revoked
      BY DEF Dead
    <3>6. /\ req[d].ask.kind \in {"refresh", "revoke"} =>
               /\ Persisting(d) => tokens[req[d].ask.arg].revoked
               /\ req[d].at = "rename" => req[d].has.tokens[req[d].ask.arg].revoked
          /\ req[d].ask.kind = "refresh" /\ req[d].out = "ok" => authFile.tokens[req[d].ask.arg].revoked
          /\ req[d].ask.kind = "revoke" /\ req[d].out = "ok" /\ req[d].ask.arg \notin leaned =>
               authFile.tokens[req[d].ask.arg].revoked \/ Gone(d)
      BY DEF RevocationsKept
    <3> QED BY <3>1, <3>2, <3>3, <3>4, <3>5, <3>6
  <2> QED BY <2>1, <2>2
<1>12. RotatedOnce'
  <2> SUFFICES ASSUME ~authLate, ~authCrossed
               PROVE  \A d, e \in AuthCalls : Rotates(d)' /\ Rotates(e)' /\ req'[d].ask.arg = req'[e].ask.arg => d = e
    BY DEF RotatedOnce
  <2>1. \A d \in AuthCalls : d # c => (Rotates(d)' <=> Rotates(d))
    BY <1>4 DEF Rotates, Persisting
  <2>2. ASSUME NEW d \in AuthCalls, d # c, Rotates(d), req[c].ask.kind = "refresh",
               req[d].ask.arg = req[c].ask.arg
        PROVE  FALSE
    <3>1. req[c].ask.arg \in Tokens
      BY <2>2, AsksKnown DEF AuthTypes, AuthRequest
    <3>2. CASE ~authBlind
      <4>1. tokens[req[c].ask.arg].revoked
        BY <1>2, <2>2, <3>1, <3>2 DEF Rotates, RevocationsKept, MapsInOrder, Within, Dead
      <4> QED BY <2>2, <4>1
    <3>3. CASE authBlind
      <4>1. tokens[req[c].ask.arg].revoked \/ authFile.tokens[req[c].ask.arg].revoked
        BY <2>2 DEF Rotates, RevocationsKept
      <4>2. authFile.tokens[req[c].ask.arg].revoked => authFile.tokens[req[c].ask.arg] # NoToken
        BY TokensKnown
      <4> QED BY <2>2, <3>1, <3>3, <4>1, <4>2 DEF BlindApart
    <3> QED BY <3>2, <3>3
  <2>3. Rotates(c)' => req[c].ask.kind = "refresh"
    BY <1>3 DEF Rotates
  <2> QED BY <1>3, <2>1, <2>2, <2>3 DEF RotatedOnce
<1>13. BlindApart'
  <2>1. ASSUME NEW t \in Tokens, authFile.tokens[t] # NoToken, tokens[t] = NoToken
        PROVE  tokens'[t] = NoToken
    <3>1. t[2] # c
      BY <1>2, <2>1, AuthAssumption DEF TokensGranted, GrantedIn, IssuedBy, Granted
    <3> QED BY <2>1, <3>1
  <2> QED BY <2>1 DEF BlindApart
<1> QED BY <1>1, <1>6, <1>7, <1>8, <1>9, <1>10, <1>11, <1>12, <1>13

-----------------------------------------------------------------------------
(* The steps of a request that change no map *)
LEMMA AskedKeeps ==
    ASSUME AuthInv, NEW c \in AuthCalls, Asked(c)
    PROVE  AuthInv'
<1>1. req[c] \in AuthRequest /\ req[c].at = "new" /\ AuthTypes /\ Presentable(req[c].ask)
  BY DEF AuthInv, AuthTypes, Asked
<1>2. PICK at \in {"ready", "loading"} : at = IF authLoaded THEN "ready" ELSE "loading"
  OBVIOUS
<1>3. AuthTo(c, at, req[c].has, req[c].out, req[c].granted)
  BY <1>1, <1>2 DEF Asked, AuthTo, AuthRequest, AuthTypes
<1>4. /\ AuthMoves(c) /\ req'[c].at = at /\ req'[c].has = req[c].has /\ req'[c].out = req[c].out
      /\ req'[c].granted = req[c].granted
  <2>1. /\ at \in AuthStages /\ req[c].has \in AuthSnapshots /\ req[c].out \in AuthAnswers
        /\ req[c].granted \in BOOLEAN
    BY <1>1 DEF AuthStages, AuthRequest
  <2> QED BY <1>1, <1>3, <2>1, AuthStep
<1>5. req[c].out # "ok" /\ ~req[c].granted
  BY <1>1 DEF AuthInv, RequestsInStep, Persisting
<1>6. req[c].ask.kind \in {"refresh", "revoke", "check"} =>
        IssuedBy(Granted, req[c].ask.arg)
  BY <1>1 DEF Presentable, IssuedBy, Granted
<1>7. UNCHANGED <<clients, codes, tokens, authLoaded, authBlind, authFile, change, expired, authLate, authCrossed,
                  leaned>>
  BY DEF Asked
<1>8. at = "ready" => authLoaded
  BY <1>2
<1>9. clients \subseteq KnownClients /\ codes \in [AuthCalls -> IssuedCodes \cup {NoCode}]
      /\ leaned \subseteq Tokens /\ expired \subseteq Tokens
  BY <1>1 DEF AuthTypes
<1> QED BY <1>1, <1>2, <1>4, <1>5, <1>6, <1>7, <1>8, <1>9, QuietAuth

LEMMA ReadsKeeps ==
    ASSUME AuthInv, NEW c \in AuthCalls, Reads(c)
    PROVE  AuthInv'
<1>1. req[c] \in AuthRequest /\ req[c].at = "loading" /\ AuthTypes
  BY DEF AuthInv, AuthTypes, Reads
<1>2. AuthTo(c, "read", authFile, req[c].out, req[c].granted)
  BY <1>1 DEF Reads, AuthTo, AuthRequest, AuthTypes
<1>3. /\ AuthMoves(c) /\ req'[c].at = "read" /\ req'[c].has = authFile /\ req'[c].out = req[c].out
      /\ req'[c].granted = req[c].granted
  <2>1. /\ "read" \in AuthStages /\ authFile \in AuthSnapshots /\ req[c].out \in AuthAnswers
        /\ req[c].granted \in BOOLEAN
    BY <1>1 DEF AuthStages, AuthRequest, AuthTypes
  <2> QED BY <1>1, <1>2, <2>1, AuthStep
<1>4. /\ req[c].out # "ok" /\ ~req[c].granted
      /\ req[c].ask.kind \in {"refresh", "revoke", "check"} =>
           IssuedBy(Granted, req[c].ask.arg)
  BY <1>1 DEF AuthInv, RequestsInStep, Persisting
<1>5. UNCHANGED <<clients, codes, tokens, authLoaded, authBlind, authFile, change, expired, authLate, authCrossed,
                  leaned>>
  BY DEF Reads
<1>6. clients \subseteq KnownClients /\ codes \in [AuthCalls -> IssuedCodes \cup {NoCode}]
      /\ leaned \subseteq Tokens /\ expired \subseteq Tokens
  BY <1>1 DEF AuthTypes
<1> QED BY <1>1, <1>3, <1>4, <1>5, <1>6, QuietAuth

LEMMA DoneMoves ==
    ASSUME AuthInv, NEW c \in AuthCalls, NEW out \in AuthAnswers, Done(c, out)
    PROVE  /\ AuthMoves(c) /\ req'[c].at = "done" /\ req'[c].has = NoSnapshot /\ req'[c].out = out
           /\ req'[c].granted = req[c].granted
<1>1. req[c] \in AuthRequest /\ AuthTypes
  BY DEF AuthInv, AuthTypes
<1>2. AuthTo(c, "done", NoSnapshot, out, req[c].granted)
  BY <1>1 DEF Done, AuthTo, AuthRequest, AuthTypes
<1>3. "done" \in AuthStages /\ NoSnapshot \in AuthSnapshots /\ req[c].granted \in BOOLEAN
  BY <1>1, TokensKnown DEF AuthStages, AuthRequest
<1> QED BY <1>1, <1>2, <1>3, AuthStep

\* A request is answered without a change: refused, or with nothing to change.
LEMMA AnswerKeeps ==
    ASSUME AuthInv, NEW c \in AuthCalls, NEW out \in AuthAnswers, Done(c, out),
           req[c].at \in {"ready", "rename"},
           UNCHANGED <<clients, tokens, authLoaded, authBlind, authFile, change, expired, authLate, authCrossed>>,
           codes' \in [AuthCalls -> IssuedCodes \cup {NoCode}],
           \A x \in AuthCalls : codes'[x] # NoCode => codes[x] # NoCode \/ x = c,
           leaned \subseteq leaned', leaned' \subseteq Tokens,
           out = "ok" => /\ req[c].ask.kind \notin {"code", "refresh"}
                         /\ req[c].ask.kind = "revoke" /\ req[c].ask.arg \notin leaned' /\ ~authCrossed =>
                              authFile.tokens[req[c].ask.arg].revoked \/ Gone(c)
    PROVE  AuthInv'
<1>1. clients \subseteq KnownClients /\ expired \subseteq Tokens
  BY DEF AuthInv, AuthTypes
<1>2. /\ AuthMoves(c) /\ req'[c].at = "done" /\ req'[c].has = NoSnapshot /\ req'[c].out = out
      /\ req'[c].granted = req[c].granted
  BY DoneMoves
<1>3. req[c].ask.kind \in {"refresh", "revoke", "check"} =>
        IssuedBy(Granted, req[c].ask.arg)
  BY DEF AuthInv, RequestsInStep
<1> QED BY <1>1, <1>2, <1>3, QuietAuth

LEMMA RefusesKeeps ==
    ASSUME AuthInv, NEW c \in AuthCalls, Refuses(c) \/ AuthWriteFails(c)
    PROVE  AuthInv'
<1>1. PICK out \in {"refused", "failed"} : Done(c, out)
  BY DEF Refuses, AuthWriteFails
<1>2. /\ req[c].at \in {"ready", "rename"}
      /\ UNCHANGED <<clients, codes, tokens, authLoaded, authBlind, authFile, change, expired, authLate, authCrossed,
                     leaned>>
  BY DEF Refuses, AuthWriteFails
<1>3. codes \in [AuthCalls -> IssuedCodes \cup {NoCode}] /\ leaned \subseteq Tokens
  BY DEF AuthInv, AuthTypes
<1>4. out \in AuthAnswers /\ out # "ok"
  BY <1>1 DEF AuthAnswers
<1> QED BY <1>1, <1>2, <1>3, <1>4, AnswerKeeps

LEMMA AuthorizeKeeps ==
    ASSUME AuthInv, NEW c \in AuthCalls, Authorize(c)
    PROVE  AuthInv'
<1> DEFINE x == [client |-> req[c].ask.client, scope |-> Effective(req[c].ask)]
<1>1. /\ req[c].at = "ready" /\ req[c].ask.kind = "authorize" /\ Approvable(req[c].ask) /\ Done(c, "ok")
      /\ UNCHANGED <<clients, tokens, authLoaded, authBlind, authFile, change, expired, authLate, authCrossed, leaned>>
      /\ codes' = [codes EXCEPT ![c] = x]
  BY DEF Authorize, Asking, Denied, Answers
<1>2. clients \subseteq KnownClients /\ codes \in [AuthCalls -> IssuedCodes \cup {NoCode}] /\ leaned \subseteq Tokens
  BY DEF AuthInv, AuthTypes
<1>3. x \in IssuedCodes
  BY <1>1, <1>2 DEF Approvable, Authentic, IssuedCodes
<1> HIDE DEF x
<1>4. codes' \in [AuthCalls -> IssuedCodes \cup {NoCode}]
      /\ \A y \in AuthCalls : codes'[y] # NoCode => codes[y] # NoCode \/ y = c
  BY <1>1, <1>2, <1>3
<1>5. "ok" \in AuthAnswers
  BY DEF AuthAnswers
<1> QED BY <1>1, <1>2, <1>4, <1>5, AnswerKeeps

LEMMA CheckKeeps ==
    ASSUME AuthInv, NEW c \in AuthCalls, Check(c)
    PROVE  AuthInv'
<1>1. /\ req[c].at = "ready" /\ req[c].ask.kind = "check" /\ Done(c, "ok")
      /\ UNCHANGED <<clients, codes, tokens, authLoaded, authBlind, authFile, change, expired, authLate, authCrossed,
                     leaned>>
  BY DEF Check, Asking, Answers
<1>2. codes \in [AuthCalls -> IssuedCodes \cup {NoCode}] /\ leaned \subseteq Tokens /\ "ok" \in AuthAnswers
  BY DEF AuthInv, AuthTypes, AuthAnswers
<1> QED BY <1>1, <1>2, AnswerKeeps

LEMMA RevokeAnswerKeeps ==
    ASSUME AuthInv, NEW c \in AuthCalls, Revoke(c),
           LET t == req[c].ask.arg IN ~(tokens[t] # NoToken /\ ~tokens[t].revoked)
    PROVE  AuthInv'
<1> DEFINE t == req[c].ask.arg
<1>1. /\ req[c].at = "ready" /\ req[c].ask.kind = "revoke" /\ Done(c, "ok")
      /\ UNCHANGED <<clients, codes, tokens, authLoaded, authBlind, authFile, change, expired, authLate, authCrossed>>
      /\ leaned' = IF /\ tokens[t] # NoToken \/ authFile.tokens[t] # NoToken
                      /\ ~authFile.tokens[t].revoked
                     THEN leaned \cup {t} ELSE leaned
  BY DEF Revoke, Asking, Answers
<1>2. /\ codes \in [AuthCalls -> IssuedCodes \cup {NoCode}] /\ leaned \subseteq Tokens /\ "ok" \in AuthAnswers
      /\ t \in Tokens /\ authLoaded
  BY <1>1, AsksKnown DEF AuthInv, AuthTypes, AuthAnswers, AuthRequest, RequestsInStep
<1>3. leaned \subseteq leaned' /\ leaned' \subseteq Tokens
  BY <1>1, <1>2
<1>4. ~authCrossed /\ t \notin leaned' => authFile.tokens[t].revoked \/ Gone(c)
  BY <1>1, <1>2 DEF Gone
<1> QED BY <1>1, <1>2, <1>3, <1>4, AnswerKeeps

-----------------------------------------------------------------------------
(* The changes in memory *)
LEMMA ChangesMoves ==
    ASSUME AuthInv, NEW c \in AuthCalls, req[c].at = "ready", NEW grants \in BOOLEAN, Changes(c, grants)
    PROVE  /\ AuthMoves(c) /\ req'[c].at = "mkdir" /\ req'[c].has = req[c].has
           /\ req'[c].out = req[c].out /\ req'[c].granted = grants
           /\ change' = change + 1
           /\ UNCHANGED <<authLoaded, authBlind, authFile, expired, authLate, authCrossed, leaned>>
<1>1. req[c] \in AuthRequest /\ AuthTypes
  BY DEF AuthInv, AuthTypes
<1>2. AuthTo(c, "mkdir", req[c].has, req[c].out, grants)
  BY <1>1 DEF Changes, AuthTo, AuthRequest, AuthTypes
<1>3. "mkdir" \in AuthStages /\ req[c].has \in AuthSnapshots /\ req[c].out \in AuthAnswers
  BY <1>1 DEF AuthStages, AuthRequest
<1>4. /\ change' = change + 1
      /\ UNCHANGED <<authLoaded, authBlind, authFile, expired, authLate, authCrossed, leaned>>
  BY DEF Changes
<1>5. /\ AuthMoves(c) /\ req'[c].at = "mkdir" /\ req'[c].has = req[c].has
      /\ req'[c].out = req[c].out /\ req'[c].granted = grants
  BY <1>1, <1>2, <1>3, AuthStep
<1> QED BY <1>4, <1>5

LEMMA RegisterKeeps ==
    ASSUME AuthInv, NEW c \in AuthCalls, RegisterClient(c)
    PROVE  AuthInv'
<1>1. /\ req[c].at = "ready" /\ req[c].ask.kind = "register" /\ Changes(c, FALSE)
      /\ clients' = clients \cup {NewClient} /\ UNCHANGED <<codes, tokens>>
  BY DEF RegisterClient, Asking
<1>2. /\ AuthMoves(c) /\ req'[c].at = "mkdir" /\ req'[c].has = req[c].has
      /\ req'[c].out = req[c].out /\ req'[c].granted = FALSE /\ change' = change + 1
      /\ UNCHANGED <<authLoaded, authBlind, authFile, expired, authLate, authCrossed, leaned>>
  BY <1>1, ChangesMoves
<1>3. ~Granting(c)
  BY <1>1 DEF Granting
<1>4. /\ clients' \subseteq KnownClients /\ codes' \in [AuthCalls -> IssuedCodes \cup {NoCode}]
      /\ tokens' \in TokenMaps
  BY <1>1 DEF AuthInv, AuthTypes, KnownClients
<1>5. Kept(tokens, tokens') /\ Dead(tokens, tokens')
  BY <1>1 DEF Kept, Dead
<1> QED BY <1>1, <1>2, <1>3, <1>4, <1>5, ChangeAuth

\* A pair is added to a map in which its issuer has no tokens yet.
LEMMA PairAdds ==
    ASSUME NEW c \in AuthCalls, NEW client \in KnownClients, NEW scope, NEW map \in TokenMaps,
           scope \subseteq OwnerScope \cap ClientScope[client],
           \A t \in Tokens : t[2] = c => map[t] = NoToken
    PROVE  /\ Pair(map, c, client, scope) \in TokenMaps /\ PairIn(Pair(map, c, client, scope), c)
           /\ Kept(map, Pair(map, c, client, scope)) /\ Dead(map, Pair(map, c, client, scope))
           /\ \A t \in Tokens : Pair(map, c, client, scope)[t] # NoToken => map[t] # NoToken \/ t[2] = c
<1> DEFINE x == [client |-> client, scope |-> scope, revoked |-> FALSE]
           g == Pair(map, c, client, scope)
<1>1. x \in IssuedTokens
  BY DEF IssuedTokens
<1>2. g = [t \in Tokens |-> IF t[2] = c THEN x ELSE map[t]]
  BY DEF Pair
<1> HIDE DEF x, g
<1>3. map \in [Tokens -> IssuedTokens \cup {NoToken}]
  BY DEF TokenMaps
<1>4. g \in [Tokens -> IssuedTokens \cup {NoToken}] /\ \A t \in Tokens : g[t] = IF t[2] = c THEN x ELSE map[t]
  BY <1>1, <1>2, <1>3
<1>5. x # NoToken /\ NoToken.revoked = FALSE
  BY <1>1, TokensKnown
<1>6. PairIn(g, c)
  BY <1>4, <1>5, TokensKnown DEF PairIn
<1>7. Kept(map, g)
  BY <1>4, <1>5 DEF Kept
<1>8. Dead(map, g)
  BY <1>4, <1>5 DEF Dead
<1>9. \A t \in Tokens : g[t] # NoToken => map[t] # NoToken \/ t[2] = c
  BY <1>4
<1> QED BY <1>4, <1>6, <1>7, <1>8, <1>9 DEF TokenMaps, g

LEMMA Ungranted ==
    ASSUME AuthInv, NEW c \in AuthCalls, req[c].at = "ready"
    PROVE  ~req[c].granted /\ \A t \in Tokens : t[2] = c => tokens[t] = NoToken
<1>1. ~req[c].granted
  BY DEF AuthInv, RequestsInStep, Persisting
<1> QED BY <1>1, AuthAssumption DEF AuthInv, TokensGranted, GrantedIn, IssuedBy, Granted

LEMMA ExchangeCodeKeeps ==
    ASSUME AuthInv, NEW c \in AuthCalls, ExchangeCode(c)
    PROVE  AuthInv'
<1> DEFINE x == req[c].ask.arg
           code == codes[req[c].ask.arg]
<1>1. /\ req[c].at = "ready" /\ req[c].ask.kind = "code" /\ code # NoCode /\ Changes(c, TRUE)
      /\ codes' = [codes EXCEPT ![x] = NoCode] /\ UNCHANGED clients
      /\ tokens' = Pair(tokens, c, code.client, code.scope)
  BY DEF ExchangeCode, Asking, Denied, Redeemable
<1>2. /\ AuthMoves(c) /\ req'[c].at = "mkdir" /\ req'[c].has = req[c].has
      /\ req'[c].out = req[c].out /\ req'[c].granted = TRUE /\ change' = change + 1
      /\ UNCHANGED <<authLoaded, authBlind, authFile, expired, authLate, authCrossed, leaned>>
  BY <1>1, ChangesMoves
<1>3. /\ clients \subseteq KnownClients /\ codes \in [AuthCalls -> IssuedCodes \cup {NoCode}]
      /\ tokens \in TokenMaps /\ x \in AuthCalls
  BY <1>1, AsksKnown DEF AuthInv, AuthTypes, AuthRequest
<1>4. code \in IssuedCodes
  BY <1>1, <1>3
<1>5. code.client \in KnownClients /\ code.scope \subseteq OwnerScope \cap ClientScope[code.client]
  BY <1>4 DEF IssuedCodes
<1>6. /\ codes' \in [AuthCalls -> IssuedCodes \cup {NoCode}] /\ codes'[x] = NoCode
      /\ \A y \in AuthCalls : codes'[y] # NoCode => codes[y] # NoCode
  BY <1>1, <1>3
<1>7. /\ tokens' \in TokenMaps /\ PairIn(tokens', c) /\ Kept(tokens, tokens') /\ Dead(tokens, tokens')
      /\ \A t \in Tokens : tokens'[t] # NoToken => tokens[t] # NoToken \/ t[2] = c
  BY <1>1, <1>3, <1>5, PairAdds, Ungranted
<1>8. Granting(c)
  BY <1>1 DEF Granting
<1> QED BY <1>1, <1>2, <1>3, <1>6, <1>7, <1>8, ChangeAuth

\* Revoking changes one record and no other.
LEMMA RevokedAdds ==
    ASSUME tokens \in TokenMaps, NEW t \in Tokens, tokens[t] # NoToken
    PROVE  /\ WithRevoked(t) \in TokenMaps /\ WithRevoked(t)[t].revoked
           /\ Kept(tokens, WithRevoked(t)) /\ Dead(tokens, WithRevoked(t))
           /\ \A u \in Tokens : WithRevoked(t)[u] # NoToken => tokens[u] # NoToken
<1> DEFINE y == [tokens[t] EXCEPT !.revoked = TRUE]
           g == WithRevoked(t)
<1>1. tokens \in [Tokens -> IssuedTokens \cup {NoToken}] /\ tokens[t] \in IssuedTokens
  BY DEF TokenMaps
<1>2. y \in IssuedTokens /\ y.revoked
  <2>1. y \in [client : KnownClients, scope : SUBSET OwnerScope, revoked : BOOLEAN]
    BY <1>1, Zenon DEF IssuedTokens
  <2>2. y.scope = tokens[t].scope /\ y.client = tokens[t].client /\ y.revoked
    BY <1>1 DEF IssuedTokens
  <2> QED BY <1>1, <2>1, <2>2 DEF IssuedTokens
<1>3. g = [tokens EXCEPT ![t] = y]
  BY <1>1 DEF WithRevoked
<1> HIDE DEF y, g
<1>4. g \in [Tokens -> IssuedTokens \cup {NoToken}] /\ g[t] = y /\ \A u \in Tokens : u # t => g[u] = tokens[u]
  BY <1>1, <1>2, <1>3
<1>5. y # NoToken
  BY <1>2, TokensKnown
<1>6. Kept(tokens, g)
  BY <1>4, <1>5 DEF Kept
<1>7. Dead(tokens, g)
  BY <1>2, <1>4 DEF Dead
<1>8. \A u \in Tokens : g[u] # NoToken => tokens[u] # NoToken
  BY <1>4
<1> QED BY <1>2, <1>4, <1>6, <1>7, <1>8 DEF TokenMaps, g

LEMMA RefreshKeeps ==
    ASSUME AuthInv, NEW c \in AuthCalls, ExchangeRefreshToken(c)
    PROVE  AuthInv'
<1> DEFINE t == req[c].ask.arg
           g == WithRevoked(req[c].ask.arg)
<1>1. /\ req[c].at = "ready" /\ req[c].ask.kind = "refresh" /\ Rotatable(req[c].ask) /\ Changes(c, TRUE)
      /\ UNCHANGED <<clients, codes>>
  BY DEF ExchangeRefreshToken, Asking, Denied
<1>2. PICK scope : /\ scope = (IF req[c].ask.scope # {} THEN req[c].ask.scope ELSE tokens[t].scope)
                   /\ tokens' = Pair(g, c, req[c].ask.client, scope)
  BY DEF ExchangeRefreshToken
<1>3. /\ AuthMoves(c) /\ req'[c].at = "mkdir" /\ req'[c].has = req[c].has
      /\ req'[c].out = req[c].out /\ req'[c].granted = TRUE /\ change' = change + 1
      /\ UNCHANGED <<authLoaded, authBlind, authFile, expired, authLate, authCrossed, leaned>>
  BY <1>1, ChangesMoves
<1>4. /\ clients \subseteq KnownClients /\ codes \in [AuthCalls -> IssuedCodes \cup {NoCode}]
      /\ tokens \in TokenMaps /\ t \in Tokens
  BY <1>1, AsksKnown DEF AuthInv, AuthTypes, AuthRequest
<1>5. /\ tokens[t] # NoToken /\ ~tokens[t].revoked /\ tokens[t].client = req[c].ask.client
      /\ req[c].ask.scope \subseteq tokens[t].scope
  BY <1>1 DEF Rotatable, Live
<1>6. tokens[t] \in IssuedTokens
  BY <1>4, <1>5 DEF TokenMaps
<1>7. req[c].ask.client \in KnownClients /\ scope \subseteq OwnerScope \cap ClientScope[req[c].ask.client]
  BY <1>2, <1>5, <1>6 DEF IssuedTokens
<1>8. /\ g \in TokenMaps /\ g[t].revoked /\ Kept(tokens, g) /\ Dead(tokens, g)
      /\ \A u \in Tokens : g[u] # NoToken => tokens[u] # NoToken
  BY <1>4, <1>5, RevokedAdds
<1> HIDE DEF g
<1>9. \A u \in Tokens : u[2] = c => g[u] = NoToken
  BY <1>1, <1>8, Ungranted
<1>10. /\ tokens' \in TokenMaps /\ PairIn(tokens', c) /\ Kept(g, tokens') /\ Dead(g, tokens')
       /\ \A u \in Tokens : tokens'[u] # NoToken => g[u] # NoToken \/ u[2] = c
  <2>1. g \in TokenMaps /\ \A u \in Tokens : u[2] = c => g[u] = NoToken
    BY <1>8, <1>9
  <2>2. tokens' = Pair(g, c, req[c].ask.client, scope)
    BY <1>2
  <2> QED BY <1>7, <2>1, <2>2, PairAdds
<1>11. /\ Kept(tokens, tokens') /\ Dead(tokens, tokens') /\ tokens'[t].revoked
       /\ \A u \in Tokens : tokens'[u] # NoToken => tokens[u] # NoToken \/ u[2] = c
  BY <1>4, <1>8, <1>10 DEF Kept, Dead
<1>12. Granting(c)
  BY <1>1 DEF Granting
<1> QED BY <1>1, <1>3, <1>4, <1>5, <1>10, <1>11, <1>12, ChangeAuth

LEMMA RevokeKeeps ==
    ASSUME AuthInv, NEW c \in AuthCalls, Revoke(c)
    PROVE  AuthInv'
<1> DEFINE t == req[c].ask.arg
<1>1. CASE ~(tokens[t] # NoToken /\ ~tokens[t].revoked)
  BY <1>1, RevokeAnswerKeeps
<1>2. CASE tokens[t] # NoToken /\ ~tokens[t].revoked
  <2>1. /\ req[c].at = "ready" /\ req[c].ask.kind = "revoke" /\ Changes(c, FALSE)
        /\ UNCHANGED <<clients, codes>> /\ tokens' = WithRevoked(t)
    BY <1>2 DEF Revoke, Asking
  <2>2. /\ AuthMoves(c) /\ req'[c].at = "mkdir" /\ req'[c].has = req[c].has
        /\ req'[c].out = req[c].out /\ req'[c].granted = FALSE /\ change' = change + 1
        /\ UNCHANGED <<authLoaded, authBlind, authFile, expired, authLate, authCrossed, leaned>>
    BY <2>1, ChangesMoves
  <2>3. /\ clients \subseteq KnownClients /\ codes \in [AuthCalls -> IssuedCodes \cup {NoCode}]
        /\ tokens \in TokenMaps /\ t \in Tokens
    BY <2>1, AsksKnown DEF AuthInv, AuthTypes, AuthRequest
  <2>4. /\ tokens' \in TokenMaps /\ tokens'[t].revoked /\ Kept(tokens, tokens') /\ Dead(tokens, tokens')
        /\ \A u \in Tokens : tokens'[u] # NoToken => tokens[u] # NoToken
    BY <1>2, <2>1, <2>3, RevokedAdds
  <2>5. ~Granting(c)
    BY <2>1 DEF Granting
  <2> QED BY <2>1, <2>2, <2>3, <2>4, <2>5, ChangeAuth
<1> QED BY <1>1, <1>2

-----------------------------------------------------------------------------
(* persist and load *)

\* A snapshot is the map in memory when it is taken.
LEMMA AuthSerialisesKeeps ==
    ASSUME AuthInv, NEW c \in AuthCalls, Serialises(c)
    PROVE  AuthInv'
<1> USE DEF AuthInv
<1>1. PICK has : has = [clients |-> clients, tokens |-> tokens, change |-> change]
  OBVIOUS
<1>2. req[c] \in AuthRequest /\ req[c].at = "mkdir" /\ AuthTypes
  BY DEF AuthTypes, Serialises
<1>3. has \in AuthSnapshots /\ has.tokens = tokens /\ has.change = change /\ change \in Nat
  BY <1>1 DEF AuthSnapshots, AuthTypes
<1>4. AuthTo(c, "rename", has, req[c].out, req[c].granted)
  BY <1>1, <1>2 DEF Serialises, AuthTo, AuthRequest, AuthTypes
<1>5. /\ AuthMoves(c) /\ req'[c].at = "rename" /\ req'[c].has = has /\ req'[c].out = req[c].out
      /\ req'[c].granted = req[c].granted
  <2>1. /\ "rename" \in AuthStages /\ req[c].out \in AuthAnswers /\ req[c].granted \in BOOLEAN
    BY <1>2 DEF AuthStages, AuthRequest
  <2> QED BY <1>2, <1>3, <1>4, <2>1, AuthStep
<1>6. UNCHANGED <<clients, codes, tokens, authLoaded, authBlind, authFile, change, expired, authLate, authCrossed,
                  leaned>>
  BY DEF Serialises
<1>7. authLoaded /\ req[c].out # "ok"
  BY <1>2 DEF RequestsInStep, Persisting
<1>8. \A d \in AuthCalls : /\ req'[d].ask = req[d].ask /\ req'[d].granted = req[d].granted
                           /\ req'[d].out = req[d].out /\ (Persisting(d)' <=> Persisting(d))
                           /\ (d # c => req'[d] = req[d])
  BY <1>2, <1>5 DEF AuthMoves, Persisting
<1>9. AuthTypes'
  BY <1>2, <1>5, <1>6 DEF AuthTypes, AuthMoves
<1>10. RequestsInStep'
  <2>1. \A d \in AuthCalls : /\ (req'[d].at = "done" <=> req[d].at = "done")
                             /\ (req'[d].at = "new" <=> req[d].at = "new")
                             /\ (Granting(d)' <=> Granting(d))
    BY <1>2, <1>5, <1>8 DEF Granting
  <2>2. Granted' = Granted
    BY <1>8, GrantedAgrees
  <2> QED BY <1>6, <1>7, <1>8, <2>1, <2>2 DEF RequestsInStep
<1>11. TokensGranted'
  <2>1. Granted' = Granted
    BY <1>8, GrantedAgrees
  <2>2. GrantedIn(Granted, tokens)'
    BY <1>6, <1>8, <2>1 DEF TokensGranted
  <2>3. \A d \in AuthCalls : req'[d].has.tokens \in {req[d].has.tokens, authFile.tokens, tokens, NoSnapshot.tokens}
    BY <1>3, <1>5, <1>8
  <2> QED BY <1>6, <2>1, <2>2, <2>3, TokensGrantedKeep
<1>12. CodesSpent'
  <2>1. \A d \in AuthCalls : req[d].ask.kind = "code" => req[d].ask.arg \in AuthCalls
    BY AsksKnown DEF AuthTypes, AuthRequest
  <2>2. \A d \in AuthCalls : (Redeemed(d)' <=> Redeemed(d)) /\ (req[d].at = "done" => req'[d].at = "done")
    BY <1>2, <1>8 DEF Redeemed
  <2>3. \A d \in AuthCalls : Redeemed(d) => codes[req[d].ask.arg] = NoCode /\ req'[req[d].ask.arg].at = "done"
    BY <2>1, <2>2 DEF CodesSpent, Redeemed
  <2> QED BY <1>6, <1>8, <2>2, <2>3 DEF CodesSpent
<1>13. MapsInOrder'
  <2>1. authFile'.change <= change' /\ \A d \in AuthCalls :
          /\ req'[d].at = "rename" => req'[d].has.change <= change'
          /\ req'[d].at = "read" /\ ~authLoaded' => req'[d].has.tokens = authFile'.tokens
    BY <1>3, <1>5, <1>6, <1>7, <1>8 DEF MapsInOrder
  <2>2. ASSUME ~authCrossed, ~authBlind
        PROVE  /\ Within(authLate, authFile.tokens, tokens)'
               /\ \A d \in AuthCalls : req'[d].at = "read" => Kept(req'[d].has.tokens, tokens')
    <3>1. Within(authLate, authFile.tokens, tokens)
      BY <1>7, <2>2 DEF MapsInOrder
    <3>2. \A d \in AuthCalls : req'[d].at = "read" => req'[d] = req[d]
      BY <1>5, <1>8
    <3>3. \A d \in AuthCalls : req[d].at = "read" => Kept(req[d].has.tokens, tokens)
      BY <1>7, <2>2 DEF MapsInOrder
    <3> QED BY <1>6, <3>1, <3>2, <3>3
  <2>3. ASSUME ~authCrossed, ~authBlind, NEW d \in AuthCalls, req'[d].at = "rename"
        PROVE  /\ Within(authLate, req[d].has.tokens, tokens)'
               /\ req'[d].has.change = change' => Within(authLate, tokens, req[d].has.tokens)'
               /\ req'[d].has.change >= authFile'.change => Within(authLate, authFile.tokens, req[d].has.tokens)'
    <3>1. CASE d = c
      BY <1>3, <1>5, <1>6, <1>7, <2>2, <2>3, <3>1 DEF Within, Kept, Dead
    <3>2. CASE d # c
      <4>1. req'[d] = req[d]
        BY <1>8, <3>2
      <4> QED BY <1>6, <2>3, <4>1 DEF MapsInOrder
    <3> QED BY <3>1, <3>2
  <2>4. ASSUME ~authCrossed, ~authBlind, NEW d \in AuthCalls, NEW e \in AuthCalls, req'[d].at = "rename",
               req'[e].at = "rename", req'[d].has.change <= req'[e].has.change
        PROVE  Within(authLate, req[d].has.tokens, req[e].has.tokens)'
    <3>1. CASE e = c
      <4>1. Within(authLate, req[d].has.tokens, tokens)'
        BY <2>3, <2>4
      <4> QED BY <1>3, <1>5, <1>6, <3>1, <4>1 DEF Within, Kept, Dead
    <3>2. CASE e # c /\ d = c
      <4>1. req'[e] = req[e] /\ req[e].has.change <= change /\ change <= req[e].has.change
        BY <1>3, <1>5, <1>8, <2>4, <3>2 DEF MapsInOrder
      <4>2. req[e].has.change \in Nat
        BY <1>2 DEF AuthTypes, AuthRequest, AuthSnapshots
      <4>3. Within(authLate, tokens, req[e].has.tokens)'
        BY <1>3, <1>6, <2>3, <2>4, <4>1, <4>2
      <4> QED BY <1>3, <1>5, <1>6, <3>2, <4>3 DEF Within, Kept, Dead
    <3>3. CASE e # c /\ d # c
      <4>1. req'[d] = req[d] /\ req'[e] = req[e]
        BY <1>8, <3>3
      <4> QED BY <1>6, <2>4, <4>1 DEF MapsInOrder
    <3> QED BY <3>1, <3>2, <3>3
  <2> QED BY <1>6, <2>1, <2>2, <2>3, <2>4 DEF MapsInOrder
<1>14. PairsKept'
  <2> SUFFICES ASSUME NEW d \in AuthCalls, req'[d].granted
               PROVE  /\ Persisting(d)' => PairIn(tokens, d)'
                      /\ req'[d].at = "rename" => PairIn(req[d].has.tokens, d)'
                      /\ req'[d].out = "ok" /\ ~authCrossed' => PairIn(authFile.tokens, d)'
    BY DEF PairsKept
  <2>1. CASE d = c
    BY <1>2, <1>3, <1>5, <1>6, <1>7, <1>8, <2>1 DEF PairsKept, PairIn, Persisting
  <2>2. CASE d # c
    BY <1>6, <1>8, <2>2 DEF PairsKept, PairIn
  <2> QED BY <2>1, <2>2
<1>15. RevocationsKept'
  <2> SUFFICES ASSUME ~authLate, ~authCrossed, NEW d \in AuthCalls
               PROVE  /\ req'[d].ask.kind \in {"refresh", "revoke"} =>
                           /\ Persisting(d)' => tokens'[req'[d].ask.arg].revoked
                           /\ req'[d].at = "rename" => req'[d].has.tokens[req'[d].ask.arg].revoked
                      /\ req'[d].ask.kind = "refresh" /\ req'[d].out = "ok" =>
                           authFile'.tokens[req'[d].ask.arg].revoked
                      /\ req'[d].ask.kind = "revoke" /\ req'[d].out = "ok" /\ req'[d].ask.arg \notin leaned' =>
                           authFile'.tokens[req'[d].ask.arg].revoked \/ Gone(d)'
    BY <1>6 DEF RevocationsKept
  <2>1. CASE d = c
    BY <1>2, <1>3, <1>5, <1>6, <1>7, <1>8, <2>1 DEF RevocationsKept, Persisting
  <2>2. CASE d # c
    <3>1. req'[d] = req[d] /\ (Gone(d)' <=> Gone(d))
      BY <1>6, <1>8, <2>2 DEF Gone
    <3> QED BY <1>6, <1>8, <3>1 DEF RevocationsKept
  <2> QED BY <2>1, <2>2
<1>16. RotatedOnce'
  BY <1>6, <1>8 DEF RotatedOnce, Rotates
<1>17. BlindApart'
  BY <1>6 DEF BlindApart
<1> QED BY <1>9, <1>10, <1>11, <1>12, <1>13, <1>14, <1>15, <1>16, <1>17

\* The file becomes the snapshot: no older than the file was, unless that is recorded.
LEMMA AuthRenamesKeeps ==
    ASSUME AuthInv, NEW c \in AuthCalls, Renames(c)
    PROVE  AuthInv'
<1> USE DEF AuthInv
<1>1. /\ req[c] \in AuthRequest /\ req[c].at = "rename" /\ AuthTypes /\ Done(c, "ok")
      /\ authFile' = req[c].has /\ req[c].has \in AuthSnapshots
      /\ authCrossed' = (authCrossed \/ authBlind \/ req[c].has.change < authFile.change)
      /\ UNCHANGED <<clients, codes, tokens, authLoaded, authBlind, change, expired, authLate, leaned>>
  BY DEF AuthTypes, AuthRequest, Renames
<1>2. /\ AuthMoves(c) /\ req'[c].at = "done" /\ req'[c].has = NoSnapshot /\ req'[c].out = "ok"
      /\ req'[c].granted = req[c].granted
  <2>1. "ok" \in AuthAnswers
    BY DEF AuthAnswers
  <2> QED BY <1>1, <2>1, DoneMoves
<1>3. authLoaded /\ Persisting(c)
  BY <1>1 DEF RequestsInStep, Persisting
<1>4. ~authCrossed' => ~authCrossed /\ ~authBlind /\ req[c].has.change >= authFile.change
  <2>1. ~authCrossed' => ~authCrossed /\ ~authBlind /\ ~(req[c].has.change < authFile.change)
    BY <1>1, Zenon
  <2>2. req[c].has.change \in Nat /\ authFile.change \in Nat
    BY <1>1 DEF AuthSnapshots, AuthTypes
  <2> QED BY <2>1, <2>2
<1>5. \A d \in AuthCalls : /\ req'[d].ask = req[d].ask /\ req'[d].granted = req[d].granted
                           /\ (d # c => req'[d] = req[d])
  BY <1>2 DEF AuthMoves
<1>6. \A d \in AuthCalls : Persisting(d)' \/ req'[d].at \in {"ready", "read", "rename"} => req'[d] = req[d] /\ d # c
  BY <1>2, <1>5 DEF Persisting
<1>7. AuthTypes'
  <2>1. authCrossed' \in BOOLEAN
    BY <1>1
  <2> QED BY <1>1, <1>2, <2>1 DEF AuthTypes, AuthMoves
<1>8. RequestsInStep'
  <2>1. \A d \in AuthCalls : /\ (req[d].at = "done" => req'[d].at = "done")
                             /\ (req[d].at = "new" <=> req'[d].at = "new")
                             /\ (Granting(d)' <=> Granting(d))
                             /\ (Persisting(d)' => Persisting(d))
                             /\ (Persisting(d) => Persisting(d)' \/ req'[d].at = "done")
    BY <1>1, <1>2, <1>5 DEF Granting, Persisting
  <2>2. \A d \in AuthCalls : /\ req'[d].at = "ready" \/ Persisting(d)' => authLoaded'
                             /\ req'[d].out = "ok" => req'[d].at = "done"
                             /\ req'[d].granted => Granting(d)' /\ (Persisting(d)' \/ req'[d].at = "done")
    BY <1>1, <1>2, <1>3, <1>5, <2>1 DEF RequestsInStep
  <2>3. \A d \in AuthCalls : Granting(d)' /\ (Persisting(d)' \/ req'[d].out = "ok") => req'[d].granted
    BY <1>2, <1>3, <1>5, <2>1 DEF RequestsInStep
  <2>4. \A d \in AuthCalls : req'[d].at # "new" /\ req'[d].ask.kind \in {"refresh", "revoke", "check"} =>
            IssuedBy(Granted, req[d].ask.arg)'
    <3>1. Granted' = Granted
      BY <1>5, GrantedAgrees
    <3> QED BY <1>5, <2>1, <3>1 DEF RequestsInStep
  <2> QED BY <1>1, <1>3, <2>2, <2>3, <2>4 DEF RequestsInStep
<1>9. TokensGranted'
  <2>1. Granted' = Granted
    BY <1>5, GrantedAgrees
  <2>2. GrantedIn(Granted, tokens)'
    BY <1>1, <2>1 DEF TokensGranted
  <2>3. \A d \in AuthCalls : req'[d].has.tokens \in {req[d].has.tokens, authFile.tokens, tokens, NoSnapshot.tokens}
    BY <1>2, <1>5
  <2> QED BY <1>1, <2>1, <2>2, <2>3, TokensGrantedKeep
<1>10. CodesSpent'
  <2>1. \A d \in AuthCalls : req[d].ask.kind = "code" => req[d].ask.arg \in AuthCalls
    BY AsksKnown DEF AuthTypes, AuthRequest
  <2>2. \A d \in AuthCalls : (Redeemed(d)' <=> Redeemed(d)) /\ (req[d].at = "done" => req'[d].at = "done")
    BY <1>2, <1>5 DEF Redeemed
  <2>3. \A d \in AuthCalls : Redeemed(d) => codes[req[d].ask.arg] = NoCode /\ req'[req[d].ask.arg].at = "done"
    BY <2>1, <2>2 DEF CodesSpent, Redeemed
  <2> QED BY <1>1, <1>5, <2>2, <2>3 DEF CodesSpent
<1>11. MapsInOrder'
  <2>1. authFile'.change <= change' /\ \A d \in AuthCalls :
          /\ req'[d].at = "rename" => req'[d].has.change <= change'
          /\ req'[d].at = "read" /\ ~authLoaded' => req'[d].has.tokens = authFile'.tokens
    BY <1>1, <1>3, <1>6 DEF MapsInOrder
  <2>2. ASSUME ~authCrossed', ~authBlind
        PROVE  /\ Within(authLate, authFile.tokens, tokens)'
               /\ \A d \in AuthCalls : req'[d].at = "read" => Kept(req'[d].has.tokens, tokens')
    BY <1>1, <1>3, <1>4, <1>6, <2>2 DEF MapsInOrder
  <2>3. ASSUME ~authCrossed', ~authBlind, NEW d \in AuthCalls, req'[d].at = "rename"
        PROVE  /\ Within(authLate, req[d].has.tokens, tokens)'
               /\ req'[d].has.change = change' => Within(authLate, tokens, req[d].has.tokens)'
               /\ req'[d].has.change >= authFile'.change => Within(authLate, authFile.tokens, req[d].has.tokens)'
    <3>1. req'[d] = req[d]
      BY <1>6, <2>3
    <3>2. Within(authLate, req[d].has.tokens, tokens)' /\ (req'[d].has.change = change' => Within(authLate, tokens, req[d].has.tokens)')
      BY <1>1, <1>4, <2>3, <3>1 DEF MapsInOrder
    <3>3. req[d].has.change \in Nat /\ req[c].has.change \in Nat
      BY <1>1 DEF AuthTypes, AuthRequest, AuthSnapshots
    <3>4. req'[d].has.change >= authFile'.change => Within(authLate, authFile.tokens, req[d].has.tokens)'
      <4>1. req[d].at = "rename" /\ ~authCrossed /\ ~authBlind
        BY <1>4, <2>3, <3>1
      <4>2. req[c].has.change <= req[d].has.change => Within(authLate, req[c].has.tokens, req[d].has.tokens)
        BY <1>1, <4>1 DEF MapsInOrder
      <4> QED BY <1>1, <3>1, <3>3, <4>2
    <3> QED BY <3>2, <3>4
  <2>4. ASSUME ~authCrossed', ~authBlind, NEW d \in AuthCalls, NEW e \in AuthCalls, req'[d].at = "rename",
               req'[e].at = "rename", req'[d].has.change <= req'[e].has.change
        PROVE  Within(authLate, req[d].has.tokens, req[e].has.tokens)'
    <3>1. req'[d] = req[d] /\ req'[e] = req[e]
      BY <1>6, <2>4
    <3> QED BY <1>1, <1>4, <2>4, <3>1 DEF MapsInOrder
  <2> QED BY <1>1, <2>1, <2>2, <2>3, <2>4 DEF MapsInOrder
<1>12. ~authCrossed' => Within(authLate, authFile.tokens, req[c].has.tokens) /\ Within(authLate, req[c].has.tokens, tokens)
  BY <1>1, <1>4 DEF MapsInOrder
<1>13. PairsKept'
  <2> SUFFICES ASSUME NEW d \in AuthCalls, req'[d].granted
               PROVE  /\ Persisting(d)' => PairIn(tokens, d)'
                      /\ req'[d].at = "rename" => PairIn(req[d].has.tokens, d)'
                      /\ req'[d].out = "ok" /\ ~authCrossed' => PairIn(authFile.tokens, d)'
    BY DEF PairsKept
  <2>1. CASE d = c
    BY <1>1, <1>5, <1>6, <2>1 DEF PairsKept, PairIn
  <2>2. CASE d # c
    <3>1. req'[d] = req[d] /\ (Persisting(d)' <=> Persisting(d))
      BY <1>5, <2>2 DEF Persisting
    <3>2. /\ Persisting(d)' => PairIn(tokens, d)'
          /\ req'[d].at = "rename" => PairIn(req[d].has.tokens, d)'
          /\ req'[d].out = "ok" /\ ~authCrossed' => PairIn(authFile.tokens, d)
      BY <1>1, <1>4, <3>1 DEF PairsKept
    <3>3. ~authCrossed' /\ PairIn(authFile.tokens, d) => PairIn(req[c].has.tokens, d)
      BY <1>12, TokensKnown DEF PairIn, Within, Kept
    <3> QED BY <1>1, <3>2, <3>3
  <2> QED BY <2>1, <2>2
<1>14. RevocationsKept'
  <2> SUFFICES ASSUME ~authLate, ~authCrossed', NEW d \in AuthCalls
               PROVE  /\ req'[d].ask.kind \in {"refresh", "revoke"} =>
                           /\ Persisting(d)' => tokens'[req'[d].ask.arg].revoked
                           /\ req'[d].at = "rename" => req'[d].has.tokens[req'[d].ask.arg].revoked
                      /\ req'[d].ask.kind = "refresh" /\ req'[d].out = "ok" =>
                           authFile'.tokens[req'[d].ask.arg].revoked
                      /\ req'[d].ask.kind = "revoke" /\ req'[d].out = "ok" /\ req'[d].ask.arg \notin leaned' =>
                           authFile'.tokens[req'[d].ask.arg].revoked \/ Gone(d)'
    BY <1>1 DEF RevocationsKept
  <2>1. CASE d = c
    BY <1>1, <1>4, <1>5, <1>6, <2>1 DEF RevocationsKept
  <2>2. CASE d # c
    <3>1. req'[d] = req[d] /\ (Persisting(d)' <=> Persisting(d))
      BY <1>5, <2>2 DEF Persisting
    <3>2. req[d].ask.kind \in {"refresh", "revoke"} => req[d].ask.arg \in Tokens
      BY AsksKnown, <1>1 DEF AuthTypes, AuthRequest
    <3>3. req[d].ask.kind \in {"refresh", "revoke"} =>
             /\ Gone(d) => Gone(d)'
             /\ authFile.tokens[req[d].ask.arg].revoked => authFile'.tokens[req[d].ask.arg].revoked
      BY <1>1, <1>3, <1>12, <3>1, <3>2 DEF Gone, Within, Kept, Dead
    <3> QED BY <1>1, <1>4, <3>1, <3>3 DEF RevocationsKept
  <2> QED BY <2>1, <2>2
<1>15. RotatedOnce'
  <2>1. \A d \in AuthCalls : Rotates(d)' => Rotates(d)
    BY <1>3, <1>5 DEF Rotates, Persisting
  <2> QED BY <1>1, <1>4, <1>5, <2>1 DEF RotatedOnce
<1>16. BlindApart'
  BY <1>1, <1>3, <1>4 DEF BlindApart
<1> QED BY <1>7, <1>8, <1>9, <1>10, <1>11, <1>13, <1>14, <1>15, <1>16

\* The first load gives memory what the file has; a later one adds no token, and what it
\* replaces is recorded.
LEMMA AuthLoadsKeeps ==
    ASSUME AuthInv, NEW c \in AuthCalls, Loads(c)
    PROVE  AuthInv'
<1> USE DEF AuthInv
<1>1. PICK merged : merged = [t \in Tokens |-> IF req[c].has.tokens[t] # NoToken THEN req[c].has.tokens[t]
                                              ELSE tokens[t]]
  OBVIOUS
<1>2. /\ req[c] \in AuthRequest /\ req[c].at = "read" /\ AuthTypes /\ req[c].has \in AuthSnapshots
      /\ clients' = clients \cup req[c].has.clients /\ tokens' = merged /\ authLoaded' = TRUE
      /\ authLate' = (authLate \/ (authLoaded /\ merged # tokens))
      /\ UNCHANGED <<codes, authBlind, authFile, change, expired, authCrossed, leaned>>
  BY <1>1 DEF AuthTypes, AuthRequest, Loads
<1>3. AuthTo(c, "ready", NoSnapshot, req[c].out, req[c].granted)
  BY <1>2 DEF Loads, AuthTo, AuthRequest, AuthTypes
<1>4. /\ AuthMoves(c) /\ req'[c].at = "ready" /\ req'[c].has = NoSnapshot /\ req'[c].out = req[c].out
      /\ req'[c].granted = req[c].granted
  <2>1. /\ "ready" \in AuthStages /\ req[c].out \in AuthAnswers /\ req[c].granted \in BOOLEAN
    BY <1>2 DEF AuthStages, AuthRequest
  <2> QED BY <1>2, <1>3, <2>1, TokensKnown, AuthStep
<1>5. tokens \in TokenMaps /\ req[c].has.tokens \in TokenMaps /\ merged \in TokenMaps
  BY <1>1, <1>2 DEF AuthTypes, AuthSnapshots, TokenMaps
<1>6. /\ \A t \in Tokens : (merged[t] # NoToken <=> req[c].has.tokens[t] # NoToken \/ tokens[t] # NoToken)
      /\ Kept(tokens, merged)
  BY <1>1, <1>5 DEF Kept
<1>7. ~authLoaded => authLate' = authLate /\ merged = authFile.tokens
  <2> SUFFICES ASSUME ~authLoaded PROVE authLate' = authLate /\ merged = authFile.tokens
    OBVIOUS
  <2>1. \A t \in Tokens : tokens[t] = NoToken
    BY DEF RequestsInStep
  <2>2. req[c].has.tokens = authFile.tokens
    BY <1>2 DEF MapsInOrder
  <2>3. \A t \in Tokens : merged[t] = authFile.tokens[t]
    BY <1>1, <2>1, <2>2
  <2>4. authFile.tokens \in TokenMaps
    BY <1>2 DEF AuthTypes, AuthSnapshots
  <2>5. merged = authFile.tokens
    BY <1>5, <2>3, <2>4 DEF TokenMaps
  <2>6. authLate' = authLate
    BY <1>2, Zenon DEF AuthTypes
  <2> QED BY <2>5, <2>6
<1>8. authLoaded /\ ~authCrossed /\ ~authBlind => Kept(merged, tokens)
  BY <1>2, <1>6 DEF MapsInOrder, Kept
<1>9. ~authLate' => ~authLate /\ (authLoaded => merged = tokens)
  BY <1>2, Zenon
<1>10. \A d \in AuthCalls : /\ req'[d].ask = req[d].ask /\ req'[d].granted = req[d].granted
                            /\ req'[d].out = req[d].out /\ (Persisting(d)' <=> Persisting(d))
                            /\ (d # c => req'[d] = req[d])
  BY <1>2, <1>4 DEF AuthMoves, Persisting
<1>11. \A d \in AuthCalls : Persisting(d)' \/ req'[d].at \in {"read", "rename"} => req'[d] = req[d]
  BY <1>4, <1>10 DEF Persisting
<1>12. \A d \in AuthCalls : req[d].at = "rename" \/ Persisting(d) => authLoaded
  BY DEF RequestsInStep, Persisting
<1>13. AuthTypes'
  <2>1. clients' \subseteq KnownClients
    BY <1>2 DEF AuthTypes, AuthSnapshots
  <2>2. authLate' \in BOOLEAN /\ authLoaded' \in BOOLEAN
    BY <1>2, Zenon
  <2> QED BY <1>2, <1>4, <1>5, <2>1, <2>2 DEF AuthTypes, AuthMoves
<1>14. RequestsInStep'
  <2>1. \A d \in AuthCalls : /\ (req'[d].at = "done" <=> req[d].at = "done")
                             /\ (req'[d].at = "new" <=> req[d].at = "new")
                             /\ (Granting(d)' <=> Granting(d))
    BY <1>2, <1>4, <1>10 DEF Granting
  <2>2. Granted' = Granted
    BY <1>10, GrantedAgrees
  <2> QED BY <1>2, <1>10, <2>1, <2>2 DEF RequestsInStep
<1>15. TokensGranted'
  <2>1. Granted' = Granted
    BY <1>10, GrantedAgrees
  <2>2. GrantedIn(Granted, tokens)'
    BY <1>2, <1>6, <2>1 DEF TokensGranted, GrantedIn
  <2>3. \A d \in AuthCalls : req'[d].has.tokens \in {req[d].has.tokens, authFile.tokens, tokens, NoSnapshot.tokens}
    BY <1>4, <1>10
  <2> QED BY <1>2, <2>1, <2>2, <2>3, TokensGrantedKeep
<1>16. CodesSpent'
  <2>1. \A d \in AuthCalls : req[d].ask.kind = "code" => req[d].ask.arg \in AuthCalls
    BY AsksKnown DEF AuthTypes, AuthRequest
  <2>2. \A d \in AuthCalls : (Redeemed(d)' <=> Redeemed(d)) /\ (req[d].at = "done" => req'[d].at = "done")
    BY <1>2, <1>10 DEF Redeemed
  <2>3. \A d \in AuthCalls : Redeemed(d) => codes[req[d].ask.arg] = NoCode /\ req'[req[d].ask.arg].at = "done"
    BY <2>1, <2>2 DEF CodesSpent, Redeemed
  <2> QED BY <1>2, <1>10, <2>2, <2>3 DEF CodesSpent
<1>17. MapsInOrder'
  <2>1. authFile'.change <= change' /\ \A d \in AuthCalls : req'[d].at = "rename" => req'[d].has.change <= change'
    BY <1>2, <1>11 DEF MapsInOrder
  <2>2. ASSUME ~authCrossed, ~authBlind PROVE Within(authLate, authFile.tokens, tokens)'
    <3>1. CASE authLoaded
      BY <1>2, <1>6, <1>9, <2>2, <3>1 DEF MapsInOrder, Within, Kept, Dead
    <3>2. CASE ~authLoaded
      BY <1>2, <1>7, <3>2 DEF Within, Kept, Dead
    <3> QED BY <3>1, <3>2
  <2>3. ASSUME ~authCrossed, ~authBlind, NEW d \in AuthCalls, req'[d].at = "read"
        PROVE  Kept(req'[d].has.tokens, tokens')
    <3>1. CASE authLoaded
      BY <1>2, <1>6, <1>11, <2>3, <3>1 DEF MapsInOrder, Kept
    <3>2. CASE ~authLoaded
      BY <1>2, <1>7, <1>11, <2>3, <3>2 DEF MapsInOrder, Kept
    <3> QED BY <3>1, <3>2
  <2>4. ASSUME ~authCrossed, ~authBlind, NEW d \in AuthCalls, req'[d].at = "rename"
        PROVE  /\ Within(authLate, req[d].has.tokens, tokens)'
               /\ req'[d].has.change = change' => Within(authLate, tokens, req[d].has.tokens)'
               /\ req'[d].has.change >= authFile'.change => Within(authLate, authFile.tokens, req[d].has.tokens)'
    <3>1. req'[d] = req[d] /\ authLoaded
      BY <1>11, <1>12, <2>4
    <3>2. Within(authLate, req[d].has.tokens, tokens)'
      BY <1>2, <1>6, <1>9, <2>4, <3>1 DEF MapsInOrder, Within, Kept, Dead
    <3>3. req'[d].has.change = change' => Within(authLate, tokens, req[d].has.tokens)'
      BY <1>2, <1>8, <1>9, <2>4, <3>1 DEF MapsInOrder, Within, Kept, Dead
    <3>4. req'[d].has.change >= authFile'.change => Within(authLate, authFile.tokens, req[d].has.tokens)'
      BY <1>2, <1>9, <2>4, <3>1 DEF MapsInOrder, Within
    <3> QED BY <3>2, <3>3, <3>4
  <2>5. ASSUME ~authCrossed, ~authBlind, NEW d \in AuthCalls, NEW e \in AuthCalls, req'[d].at = "rename",
               req'[e].at = "rename", req'[d].has.change <= req'[e].has.change
        PROVE  Within(authLate, req[d].has.tokens, req[e].has.tokens)'
    <3>1. req'[d] = req[d] /\ req'[e] = req[e]
      BY <1>11, <2>5
    <3> QED BY <1>9, <2>5, <3>1 DEF MapsInOrder, Within
  <2> QED BY <1>2, <2>1, <2>2, <2>3, <2>4, <2>5 DEF MapsInOrder
<1>18. PairsKept'
  <2> SUFFICES ASSUME NEW d \in AuthCalls, req'[d].granted
               PROVE  /\ Persisting(d)' => PairIn(tokens, d)'
                      /\ req'[d].at = "rename" => PairIn(req[d].has.tokens, d)'
                      /\ req'[d].out = "ok" /\ ~authCrossed' => PairIn(authFile.tokens, d)'
    BY DEF PairsKept
  <2>1. Persisting(d)' => PairIn(tokens, d)'
    <3>1. Persisting(d)' => PairIn(tokens, d)
      BY <1>10 DEF PairsKept
    <3> QED BY <1>2, <1>6, <3>1, TokensKnown DEF PairIn, Kept
  <2> QED BY <1>2, <1>10, <1>11, <2>1 DEF PairsKept, PairIn
<1>19. RevocationsKept'
  <2> SUFFICES ASSUME ~authLate', ~authCrossed, NEW d \in AuthCalls
               PROVE  /\ req'[d].ask.kind \in {"refresh", "revoke"} =>
                           /\ Persisting(d)' => tokens'[req'[d].ask.arg].revoked
                           /\ req'[d].at = "rename" => req'[d].has.tokens[req'[d].ask.arg].revoked
                      /\ req'[d].ask.kind = "refresh" /\ req'[d].out = "ok" =>
                           authFile'.tokens[req'[d].ask.arg].revoked
                      /\ req'[d].ask.kind = "revoke" /\ req'[d].out = "ok" /\ req'[d].ask.arg \notin leaned' =>
                           authFile'.tokens[req'[d].ask.arg].revoked \/ Gone(d)'
    BY <1>2 DEF RevocationsKept
  <2>1. ~authLate /\ (Persisting(d) => merged = tokens)
    BY <1>9, <1>12
  <2>2. Gone(d) => Gone(d)'
    BY <1>2, <1>7, <1>9, <1>10 DEF Gone
  <2>3. req'[d].ask = req[d].ask /\ req'[d].out = req[d].out /\ (Persisting(d)' => tokens' = tokens /\ Persisting(d))
        /\ (req'[d].at = "rename" => req'[d] = req[d])
    BY <1>2, <1>10, <1>11, <2>1
  <2> QED BY <1>2, <2>1, <2>2, <2>3 DEF RevocationsKept
<1>20. RotatedOnce'
  BY <1>2, <1>9, <1>10 DEF RotatedOnce, Rotates
<1>21. BlindApart'
  <2>1. ~authLate' /\ authBlind => tokens' = tokens /\ ~authLate /\ authLoaded
    BY <1>2, <1>9 DEF BlindApart
  <2> QED BY <1>2, <2>1 DEF BlindApart
<1> QED BY <1>13, <1>14, <1>15, <1>16, <1>17, <1>18, <1>19, <1>20, <1>21

\* The first load may find nothing to read: memory is then loaded, apart from the file.
LEMMA AuthReadFailsKeeps ==
    ASSUME AuthInv, NEW c \in AuthCalls, AuthReadFails(c)
    PROVE  AuthInv'
<1> USE DEF AuthInv
<1>1. /\ req[c] \in AuthRequest /\ req[c].at = "loading" /\ AuthTypes /\ authLoaded' = TRUE
      /\ authBlind' = (authBlind \/ ~authLoaded)
      /\ UNCHANGED <<clients, codes, tokens, authFile, change, expired, authLate, authCrossed, leaned>>
  BY DEF AuthTypes, AuthReadFails
<1>2. AuthTo(c, "ready", req[c].has, req[c].out, req[c].granted)
  BY <1>1 DEF AuthReadFails, AuthTo, AuthRequest, AuthTypes
<1>3. /\ AuthMoves(c) /\ req'[c].at = "ready" /\ req'[c].has = req[c].has /\ req'[c].out = req[c].out
      /\ req'[c].granted = req[c].granted
  <2>1. /\ "ready" \in AuthStages /\ req[c].has \in AuthSnapshots /\ req[c].out \in AuthAnswers
        /\ req[c].granted \in BOOLEAN
    BY <1>1 DEF AuthStages, AuthRequest
  <2> QED BY <1>1, <1>2, <2>1, AuthStep
<1>4. /\ req[c].out # "ok" /\ ~req[c].granted
      /\ req[c].ask.kind \in {"refresh", "revoke", "check"} =>
           IssuedBy(Granted, req[c].ask.arg)
  BY <1>1 DEF RequestsInStep, Persisting
<1>5. clients \subseteq KnownClients /\ codes \in [AuthCalls -> IssuedCodes \cup {NoCode}]
      /\ leaned \subseteq Tokens /\ expired \subseteq Tokens
  BY <1>1 DEF AuthTypes
<1>6. CASE authLoaded
  <2>1. UNCHANGED <<authLoaded, authBlind>>
    BY <1>1, <1>6, Zenon DEF AuthTypes
  <2> QED BY <1>1, <1>3, <1>4, <1>5, <1>6, <2>1, QuietAuth
<1>7. CASE ~authLoaded
  <2>1. authBlind' = TRUE /\ \A t \in Tokens : tokens[t] = NoToken
    BY <1>1, <1>7 DEF RequestsInStep
  <2>2. \A d \in AuthCalls : /\ req'[d].ask = req[d].ask /\ req'[d].granted = req[d].granted
                             /\ req'[d].out = req[d].out /\ req'[d].has = req[d].has
                             /\ (d # c => req'[d] = req[d])
    BY <1>3 DEF AuthMoves
  <2>3. \A d \in AuthCalls : ~Persisting(d) /\ ~Persisting(d)' /\ req'[d].at # "rename"
    BY <1>3, <1>7, <2>2 DEF RequestsInStep, Persisting
  <2>4. Granted' = Granted
    BY <2>2, GrantedAgrees
  <2>5. AuthTypes'
    BY <1>1, <1>3, <2>1 DEF AuthTypes, AuthMoves
  <2>6. RequestsInStep'
    <3>1. \A d \in AuthCalls : /\ (req'[d].at = "done" <=> req[d].at = "done")
                               /\ (req'[d].at = "new" <=> req[d].at = "new")
                               /\ (Granting(d)' <=> Granting(d))
      BY <1>1, <1>3, <2>2 DEF Granting
    <3> QED BY <1>1, <2>2, <2>3, <2>4, <3>1 DEF RequestsInStep
  <2>7. TokensGranted'
    BY <1>1, <2>2, <2>4 DEF TokensGranted
  <2>8. CodesSpent'
    <3>1. \A d \in AuthCalls : req[d].ask.kind = "code" => req[d].ask.arg \in AuthCalls
      BY AsksKnown DEF AuthTypes, AuthRequest
    <3>2. \A d \in AuthCalls : (Redeemed(d)' <=> Redeemed(d)) /\ (req[d].at = "done" => req'[d].at = "done")
      BY <1>1, <2>2 DEF Redeemed
    <3>3. \A d \in AuthCalls : Redeemed(d) => codes[req[d].ask.arg] = NoCode /\ req'[req[d].ask.arg].at = "done"
      BY <3>1, <3>2 DEF CodesSpent, Redeemed
    <3> QED BY <1>1, <2>2, <3>2, <3>3 DEF CodesSpent
  <2>9. MapsInOrder'
    BY <1>1, <2>1, <2>3 DEF MapsInOrder
  <2>10. PairsKept'
    BY <1>1, <2>2, <2>3 DEF PairsKept, PairIn
  <2>11. RevocationsKept'
    <3>1. \A d \in AuthCalls : req[d].ask.kind = "revoke" /\ Gone(d) => Gone(d)'
      <4>1. \A d \in AuthCalls : req[d].ask.kind = "revoke" => req[d].ask.arg \in Tokens
        BY AsksKnown DEF AuthTypes, AuthRequest
      <4> QED BY <1>1, <2>1, <2>2, <4>1 DEF Gone
    <3> QED BY <1>1, <2>2, <2>3, <3>1 DEF RevocationsKept
  <2>12. RotatedOnce' /\ BlindApart'
    BY <1>1, <2>1, <2>2, <2>3 DEF RotatedOnce, Rotates, BlindApart
  <2> QED BY <2>5, <2>6, <2>7, <2>8, <2>9, <2>10, <2>11, <2>12
<1> QED BY <1>6, <1>7

\* A restart empties memory and ends what was under way.
LEMMA AuthRestartKeeps ==
    ASSUME AuthInv, RestartServer
    PROVE  AuthInv'
<1> USE DEF AuthInv
<1>1. /\ clients' = {} /\ codes' = [c \in AuthCalls |-> NoCode] /\ tokens' = [t \in Tokens |-> NoToken]
      /\ authLoaded' = FALSE /\ authBlind' = FALSE
      /\ UNCHANGED <<authFile, change, expired, authLate, authCrossed, leaned>>
  BY DEF RestartServer
<1>2. ASSUME NEW c \in AuthCalls
      PROVE  /\ req'[c] \in AuthRequest /\ req'[c].ask = req[c].ask /\ req'[c].granted = req[c].granted
             /\ \/ req'[c] = req[c] /\ req[c].at \in {"new", "done"}
                \/ req'[c].at = "done" /\ req'[c].out = "lost" /\ req'[c].has = NoSnapshot
                   /\ req[c].at \notin {"new", "done"}
  <2>1. req[c] \in AuthRequest
    BY DEF AuthTypes
  <2>2. CASE req[c].at \in {"new", "done"}
    BY <2>1, <2>2 DEF RestartServer
  <2>3. CASE req[c].at \notin {"new", "done"}
    <3> DEFINE y == [req[c] EXCEPT !.at = "done", !.out = "lost", !.has = NoSnapshot]
    <3>1. req'[c] = y
      BY <2>3 DEF RestartServer
    <3>2. "done" \in AuthStages /\ "lost" \in AuthAnswers /\ NoSnapshot \in AuthSnapshots
      BY TokensKnown DEF AuthStages, AuthAnswers
    <3>3. y \in AuthRequest
      BY <2>1, <3>2, Zenon DEF AuthRequest
    <3>4. y.at = "done" /\ y.out = "lost" /\ y.has = NoSnapshot /\ y.ask = req[c].ask
      BY <2>1 DEF AuthRequest
    <3>5. y.granted = req[c].granted
      BY <2>1 DEF AuthRequest
    <3> HIDE DEF y
    <3> QED BY <2>3, <3>1, <3>3, <3>4, <3>5
  <2> QED BY <2>2, <2>3
<1>3. req' \in [AuthCalls -> AuthRequest]
  <2>1. DOMAIN req' = AuthCalls /\ req' = [c \in AuthCalls |-> req'[c]]
    BY DEF RestartServer
  <2> QED BY <1>2, <2>1
<1>4. AuthTypes'
  BY <1>1, <1>3, TokensKnown DEF AuthTypes
<1>5. \A c \in AuthCalls : /\ req'[c].at \in {"new", "done"} /\ (req[c].at = "done" => req'[c].at = "done")
                           /\ (req'[c].at = "new" => req[c].at = "new") /\ ~Persisting(c)'
                           /\ (req'[c].out = "ok" => req[c].out = "ok")
                           /\ (Granting(c)' <=> Granting(c))
  BY <1>2 DEF Persisting, Granting
<1>6. RequestsInStep'
  <2>1. \A c \in AuthCalls : req'[c].out = "ok" => req'[c].at = "done"
    BY <1>5 DEF RequestsInStep
  <2>2. \A c \in AuthCalls : /\ req'[c].granted => Granting(c)' /\ req'[c].at = "done"
                             /\ Granting(c)' /\ req'[c].out = "ok" => req'[c].granted
    BY <1>2, <1>5 DEF RequestsInStep, Persisting
  <2>3. \A c \in AuthCalls : req'[c].at # "new" /\ req'[c].ask.kind \in {"refresh", "revoke", "check"} =>
            IssuedBy(Granted, req[c].ask.arg)'
    <3>1. Granted' = Granted
      BY <1>2, GrantedAgrees
    <3> QED BY <1>2, <3>1 DEF RequestsInStep
  <2> QED BY <1>1, <1>5, <2>1, <2>2, <2>3 DEF RequestsInStep
<1>7. TokensGranted'
  <2>1. Granted' = Granted
    BY <1>2, GrantedAgrees
  <2>2. GrantedIn(Granted, tokens)'
    BY <1>1 DEF GrantedIn
  <2>3. \A d \in AuthCalls : req'[d].has.tokens \in {req[d].has.tokens, authFile.tokens, tokens, NoSnapshot.tokens}
    BY <1>2
  <2> QED BY <1>1, <2>1, <2>2, <2>3, TokensGrantedKeep
<1>8. CodesSpent'
  <2>1. \A d \in AuthCalls : req[d].ask.kind = "code" => req[d].ask.arg \in AuthCalls
    BY AsksKnown DEF AuthTypes, AuthRequest
  <2>2. \A d \in AuthCalls : Redeemed(d)' <=> Redeemed(d)
    BY <1>2 DEF Redeemed
  <2> QED BY <1>1, <1>2, <1>5, <2>1, <2>2 DEF CodesSpent, Redeemed
<1>9. MapsInOrder'
  BY <1>1, <1>5 DEF MapsInOrder
<1>10. PairsKept'
  BY <1>1, <1>2, <1>5 DEF PairsKept, PairIn
<1>11. \A c \in AuthCalls : Gone(c) => Gone(c)'
  BY <1>1, <1>2 DEF Gone
<1>12. RevocationsKept'
  <2> SUFFICES ASSUME ~authLate, ~authCrossed, NEW d \in AuthCalls
               PROVE  /\ ~Persisting(d)' /\ req'[d].at # "rename"
                      /\ req'[d].ask.kind = "refresh" /\ req'[d].out = "ok" =>
                           authFile'.tokens[req'[d].ask.arg].revoked
                      /\ req'[d].ask.kind = "revoke" /\ req'[d].out = "ok" /\ req'[d].ask.arg \notin leaned' =>
                           authFile'.tokens[req'[d].ask.arg].revoked \/ Gone(d)'
    BY <1>1 DEF RevocationsKept
  <2>1. req'[d].ask = req[d].ask /\ (req'[d].out = "ok" => req[d].out = "ok") /\ (Gone(d) => Gone(d)')
    BY <1>2, <1>5, <1>11
  <2> QED BY <1>1, <1>5, <2>1 DEF RevocationsKept
<1>13. RotatedOnce' /\ BlindApart'
  BY <1>1, <1>2, <1>5 DEF RotatedOnce, Rotates, BlindApart
<1> QED BY <1>4, <1>6, <1>7, <1>8, <1>9, <1>10, <1>12, <1>13

-----------------------------------------------------------------------------
LEMMA AuthStarts ==
    ASSUME AuthInit
    PROVE  AuthInv
<1>1. PICK asked \in Scenarios :
        req = [c \in AuthCalls |-> [at |-> "new", ask |-> asked[c], has |-> NoSnapshot,
                                    out |-> "none", granted |-> FALSE]]
  BY DEF AuthInit
<1>2. /\ clients = {} /\ codes = [c \in AuthCalls |-> NoCode] /\ tokens = [t \in Tokens |-> NoToken]
      /\ authLoaded = FALSE /\ authBlind = FALSE /\ authFile = [clients |-> Clients, tokens |-> Old, change |-> 0]
      /\ change = 0 /\ expired = {} /\ authLate = FALSE /\ authCrossed = FALSE /\ leaned = {}
  BY DEF AuthInit
<1>3. \A c \in AuthCalls : /\ req[c].at = "new" /\ req[c].ask = asked[c] /\ req[c].has = NoSnapshot
                           /\ req[c].out = "none" /\ ~req[c].granted
  BY <1>1
<1>4. AuthTypes
  <2>1. authFile \in AuthSnapshots
    BY <1>2, TokensKnown DEF AuthSnapshots, KnownClients
  <2>2. \A c \in AuthCalls : [at |-> "new", ask |-> asked[c], has |-> NoSnapshot,
                              out |-> "none", granted |-> FALSE] \in AuthRequest
    BY TokensKnown DEF AuthRequest, AuthStages, AuthAnswers, AuthAsks
  <2>3. req \in [AuthCalls -> AuthRequest]
    BY <1>1, <2>2
  <2> QED BY <1>2, <2>1, <2>3, TokensKnown DEF AuthTypes
<1>5. RequestsInStep
  BY <1>2, <1>3 DEF RequestsInStep, Persisting, Granting
<1>6. TokensGranted
  BY <1>2, <1>3, TokensKnown DEF TokensGranted, GrantedIn, IssuedBy, NoSnapshot
<1>7. CodesSpent
  BY <1>2, <1>3 DEF CodesSpent, Redeemed
<1>8. MapsInOrder
  BY <1>2, <1>3 DEF MapsInOrder
<1>9. PairsKept /\ RevocationsKept /\ RotatedOnce /\ BlindApart
  BY <1>2, <1>3 DEF PairsKept, RevocationsKept, RotatedOnce, Rotates, Persisting, BlindApart
<1> QED BY <1>4, <1>5, <1>6, <1>7, <1>8, <1>9 DEF AuthInv

LEMMA AuthSteps ==
    ASSUME AuthInv, [AuthNext]_authVars
    PROVE  AuthInv'
<1>1. ASSUME NEW c \in AuthCalls, CodeExpires(c) PROVE AuthInv'
  <2>1. codes \in [AuthCalls -> IssuedCodes \cup {NoCode}] /\ expired \subseteq Tokens
    BY DEF AuthInv, AuthTypes
  <2>2. /\ codes' \in [AuthCalls -> IssuedCodes \cup {NoCode}] /\ expired' \subseteq Tokens
        /\ \A x \in AuthCalls : codes'[x] # NoCode => codes[x] # NoCode
    BY <1>1, <2>1 DEF CodeExpires
  <2>3. UNCHANGED <<clients, tokens, authLoaded, authBlind, authFile, change, req, authLate, authCrossed, leaned>>
    BY <1>1 DEF CodeExpires
  <2> QED BY <2>2, <2>3, AgingAuth
<1>2. ASSUME NEW t \in Perishable, TokenExpires(t) PROVE AuthInv'
  <2>1. codes \in [AuthCalls -> IssuedCodes \cup {NoCode}] /\ expired \subseteq Tokens /\ t \in Tokens
    BY AuthAssumption DEF AuthInv, AuthTypes
  <2>2. UNCHANGED <<clients, codes, tokens, authLoaded, authBlind, authFile, change, req, authLate, authCrossed, leaned>>
        /\ expired' = expired \cup {t}
    BY <1>2 DEF TokenExpires
  <2> QED BY <2>1, <2>2, AgingAuth
<1>3. CASE UNCHANGED authVars
  <2>1. codes \in [AuthCalls -> IssuedCodes \cup {NoCode}] /\ expired \subseteq Tokens
    BY DEF AuthInv, AuthTypes
  <2>2. UNCHANGED <<clients, codes, tokens, authLoaded, authBlind, authFile, change, req, expired, authLate,
                    authCrossed, leaned>>
    BY <1>3 DEF authVars
  <2> QED BY <2>1, <2>2, AgingAuth
<1>4. ASSUME NEW c \in AuthCalls,
             \/ Asked(c) \/ Reads(c) \/ Loads(c) \/ AuthReadFails(c) \/ Refuses(c) \/ RegisterClient(c)
             \/ Authorize(c) \/ ExchangeCode(c) \/ ExchangeRefreshToken(c) \/ Revoke(c) \/ Check(c)
             \/ Serialises(c) \/ Renames(c) \/ AuthWriteFails(c) \/ CodeExpires(c)
      PROVE  AuthInv'
  BY <1>1, <1>4, AskedKeeps, ReadsKeeps, AuthLoadsKeeps, AuthReadFailsKeeps, RefusesKeeps, RegisterKeeps, AuthorizeKeeps,
     ExchangeCodeKeeps, RefreshKeeps, RevokeKeeps, CheckKeeps, AuthSerialisesKeeps, AuthRenamesKeeps
<1> QED BY <1>2, <1>3, <1>4, AuthRestartKeeps DEF AuthNext

LEMMA AtMostOne ==
    ASSUME NEW S, \A x, y \in S : x = y
    PROVE  Cardinality(S) <= 1
<1>1. CASE S = {}
  BY <1>1, FS_EmptySet
<1>2. ASSUME NEW x \in S PROVE Cardinality(S) <= 1
  <2>1. S = {x}
    BY <1>2
  <2> QED BY <2>1, FS_Singleton
<1> QED BY <1>1, <1>2

LEMMA AuthInvSound == AuthInv => TokensSound
<1> SUFFICES ASSUME AuthInv PROVE TokensSound
  OBVIOUS
<1> USE DEF AuthInv
<1>1. AuthTypeOK
  BY DEF AuthTypes, AuthTypeOK, AuthRequest, AuthStages, AuthAnswers, KnownClients, TokenMaps, MapsInOrder
<1>2. \A c \in AuthCalls : /\ req[c].out = "ok" => req[c].at = "done"
                           /\ req[c].ask.kind \in {"refresh", "revoke"} => req[c].ask.arg \in Tokens
  BY AsksKnown DEF RequestsInStep, AuthTypes, AuthRequest
<1>3. OnePairPerCode
  <2> SUFFICES ASSUME NEW x \in AuthCalls
               PROVE  Cardinality({c \in AuthCalls : /\ req[c].ask.kind = "code" /\ req[c].ask.arg = x
                                                     /\ req[c].granted}) <= 1
    BY DEF OnePairPerCode
  <2> DEFINE S == {c \in AuthCalls : /\ req[c].ask.kind = "code" /\ req[c].ask.arg = x
                                     /\ req[c].granted}
  <2>1. \A c, d \in S : c = d
    BY DEF CodesSpent, Redeemed
  <2> HIDE DEF S
  <2>2. Cardinality(S) <= 1
    BY <2>1, AtMostOne
  <2> QED BY <2>2 DEF S
<1>4. OnePairPerRefreshToken
  <2> SUFFICES ASSUME ~authLate, ~authCrossed, NEW t \in Tokens
               PROVE  Cardinality({c \in AuthCalls : /\ req[c].ask.kind = "refresh" /\ req[c].ask.arg = t
                                                     /\ req[c].out = "ok"}) <= 1
    BY DEF OnePairPerRefreshToken, RefreshTokenSingleUse
  <2> DEFINE S == {c \in AuthCalls : /\ req[c].ask.kind = "refresh" /\ req[c].ask.arg = t
                                     /\ req[c].out = "ok"}
  <2>1. \A c, d \in S : c = d
    BY DEF RotatedOnce, Rotates
  <2> HIDE DEF S
  <2>2. Cardinality(S) <= 1
    BY <2>1, AtMostOne
  <2> QED BY <2>2 DEF S
<1>5. RevokedForGood
  <2> SUFFICES ASSUME NEW c \in AuthCalls, req[c].ask.kind = "revoke", req[c].out = "ok", ~authLate,
                      ~authCrossed, req[c].ask.arg \notin leaned
               PROVE  LET t == req[c].ask.arg IN
                      /\ tokens[t] = NoToken \/ tokens[t].revoked
                      /\ authFile.tokens[t] = NoToken \/ authFile.tokens[t].revoked
    BY DEF RevokedForGood
  <2> DEFINE t == req[c].ask.arg
  <2>1. t \in Tokens /\ (authFile.tokens[t].revoked \/ Gone(c))
    BY <1>2 DEF RevocationsKept
  <2>2. CASE authLoaded /\ ~authBlind
    BY <2>1, <2>2 DEF MapsInOrder, Within, Dead, Gone
  <2>4. CASE authLoaded /\ authBlind
    <3>1. authFile.tokens[t].revoked => authFile.tokens[t] # NoToken
      BY TokensKnown
    <3> QED BY <2>1, <2>4, <3>1 DEF BlindApart, Gone
  <2>3. CASE ~authLoaded
    BY <2>1, <2>3 DEF RequestsInStep, Gone
  <2> QED BY <2>2, <2>3, <2>4
<1>6. AnsweredPairsKept
  <2> SUFFICES ASSUME NEW c \in AuthCalls, req[c].granted, req[c].out = "ok", ~authCrossed,
                      NEW k \in {"at", "rt"}
               PROVE  authFile.tokens[<<k, c>>] # NoToken /\ (authLoaded /\ ~authBlind => tokens[<<k, c>>] # NoToken)
    BY DEF AnsweredPairsKept
  <2>1. authFile.tokens[<<k, c>>] # NoToken /\ <<k, c>> \in Tokens
    BY TokensKnown DEF PairsKept, PairIn
  <2> QED BY <2>1 DEF MapsInOrder, Within, Kept
<1>7. ScopesNeverWiden
  <2> SUFFICES ASSUME NEW t \in Tokens, tokens[t] # NoToken
               PROVE  tokens[t].scope \subseteq ClientScope[tokens[t].client] \cap OwnerScope
    BY DEF ScopesNeverWiden
  <2>1. tokens[t] \in IssuedTokens
    BY DEF AuthTypes, TokenMaps
  <2> QED BY <2>1 DEF IssuedTokens
<1> QED BY <1>1, <1>3, <1>4, <1>5, <1>6, <1>7 DEF TokensSound

\* Codes and refresh tokens buy one pair each, revocations and answered pairs last, and
\* scopes never widen, unless loads or renames crossed or an unread file was replaced, for
\* any number of requests, clients, scopes, restarts, failed reads and failed writes
\* (oauth.js:84-117, 205-341, 366-380).
THEOREM TokensAreSound == AuthSpec => []TokensSound
<1>1. AuthInit => AuthInv
  BY AuthStarts
<1>2. AuthInv /\ [AuthNext]_authVars => AuthInv'
  BY AuthSteps
<1> QED BY <1>1, <1>2, AuthInvSound, PTL DEF AuthSpec

-----------------------------------------------------------------------------
(* The gate every request passes *)

Stages == {"gate", "tenant", "reading", "quota", "handler", "written"}
GateCalls ==
  [pc : {"new", "waiting", "done"} \cup Stages, since : Nat, owner : Calls \cup {"none"},
   answer : GateAnswers, excused : BOOLEAN]
GateEntries == [key : {Fingerprint[c] : c \in Calls}, owner : Calls, expires : Nat]
Buckets == [count : Nat, reset : Nat]
OnFile == Owned \cup Others
Scans == [on : BOOLEAN, snap : SUBSET OnFile, at : Nat]

GateTypes ==
  /\ clock \in 0 .. MaxClock /\ entries \in Seq(GateEntries) /\ call \in [Calls -> GateCalls]
  /\ endpoint \in Buckets /\ tier \in Buckets /\ quota \in [count : Nat, day : Nat]
  /\ used \in SUBSET (Calls \X Nat) /\ raced \in BOOLEAN

FileTypes ==
  /\ stored \in SUBSET OnFile /\ copy \in [snap : SUBSET OnFile, until : Nat]
  /\ scan \in [GateReaders -> Scans] /\ overlap \in BOOLEAN

\* One entry per fingerprint, which says who runs and until when its duplicates wait
EntriesSound ==
  /\ Len(entries) <= MaxEntries + 1
  /\ \A i, k \in DOMAIN entries : entries[i].key = entries[k].key => i = k
  /\ \A i \in DOMAIN entries :
       LET e == entries[i] IN /\ call[e.owner].owner = e.owner /\ e.key = Fingerprint[e.owner]
                              /\ e.expires = call[e.owner].since + DedupeTtl

CallSound(r) ==
  /\ call[r].pc = "new" => call[r].owner = "none"
  /\ call[r].pc # "new" => call[r].owner \in Calls /\ call[call[r].owner].owner = call[r].owner
  /\ call[r].pc = "waiting" => call[r].owner # r
  /\ call[r].pc \in Stages => call[r].owner = r
  /\ call[r].answer = "none" <=> call[r].pc # "done"
  /\ call[r].since <= clock

CallsSound == \A r \in Calls : CallSound(r)

Runs(r) == call[r].owner = r
Fails(k) == \E c \in Owners(k) : call[c].answer = "error"

\* The entry of a request that runs stays for its time, unless it is excused
EntryInForce ==
  \A r \in Calls :
    Runs(r) /\ ~call[r].excused /\ clock < call[r].since + DedupeTtl /\ ~Fails(Fingerprint[r])
    => \E i \in DOMAIN entries : entries[i].owner = r

UsedOn(d) == {u \in used : u[2] = d}
QuotaKept ==
  /\ IsFiniteSet(used) /\ quota.count <= DailyLimit /\ quota.day <= Today
  /\ \A u \in used : u[2] <= quota.day /\ call[u[1]].pc \in {"handler", "written", "done"}
  /\ quota.count = Cardinality(UsedOn(quota.day))

Between == {r \in Calls : call[r].pc \in {"quota", "handler"}}

\* Without an overlap, what a request reads of the store is what the store holds
CopiesTrue ==
  /\ \A r \in Calls : call[r].pc = "reading" => scan[r].on
  /\ ~overlap => /\ copy.until > 0 => copy.snap = stored
                 /\ \A x \in GateReaders : scan[x].on => scan[x].snap = stored

Holds == Cardinality(stored \cap Owned)
TenantKept ==
  ~raced /\ ~overlap => /\ Holds <= MaxCredentials
                        /\ Between # {} => Holds < MaxCredentials
                        /\ \A c, d \in Between : c = d

GateInv ==
  /\ GateTypes /\ EntriesSound /\ CallsSound /\ DuplicatesAgree /\ EntryInForce /\ NoTwinWithinTtl
  /\ QuotaKept /\ FileTypes /\ CopiesTrue /\ TenantKept

-----------------------------------------------------------------------------
\* A request moves on: the others stay, and so do who it runs for and since when
Moves(r) ==
  /\ call' \in [Calls -> GateCalls] /\ UNCHANGED clock
  /\ \A c \in Calls \ {r} : call'[c] = call[c]
  /\ call'[r].owner = call[r].owner /\ call'[r].since = call[r].since
  /\ call[r].excused => call'[r].excused
  /\ call[r].pc \in Stages \cup {"waiting"} /\ call'[r].pc \in Stages \cup {"done"}
  /\ call'[r].answer = "none" <=> call'[r].pc # "done"
  /\ call[r].pc = "waiting" => call'[r].pc = "done"

LEMMA GateFacts ==
    ASSUME GateInv, NEW r \in Calls
    PROVE  /\ call \in [Calls -> GateCalls] /\ call[r] \in GateCalls /\ CallSound(r)
           /\ call[r].since \in Nat /\ clock \in Nat /\ r # "none"
<1>1. call \in [Calls -> GateCalls] /\ CallSound(r) /\ clock \in 0 .. MaxClock
  BY DEF GateInv, GateTypes, CallsSound
<1>2. call[r] \in GateCalls /\ clock \in Nat
  BY <1>1, GateAssumption
<1>3. call[r].since \in Nat
  BY <1>2 DEF GateCalls
<1> QED BY <1>1, <1>2, <1>3, GateAssumption

\* Who runs, since when and under which fingerprint does not change, and a failure is not forgotten.
LEMMA MovesKeep ==
    ASSUME GateInv, NEW r \in Calls, Moves(r),
           call[r].pc = "waiting" => call'[r].answer = call[call[r].owner].answer
    PROVE  /\ \A c \in Calls : /\ call'[c].owner = call[c].owner /\ call'[c].since = call[c].since
                               /\ call[c].excused => call'[c].excused
                               /\ call[c].answer # "none" => call'[c].answer = call[c].answer
           /\ CallsSound' /\ DuplicatesAgree' /\ NoTwinWithinTtl'
           /\ \A k : Fails(k) => Fails(k)'
<1>1. ASSUME NEW c \in Calls
      PROVE  /\ call'[c].owner = call[c].owner /\ call'[c].since = call[c].since
             /\ call[c].excused => call'[c].excused
             /\ call[c].answer # "none" => call'[c].answer = call[c].answer
             /\ call'[c] \in GateCalls
  <2>1. c # r => call'[c] = call[c]
    BY DEF Moves
  <2>2. call[r].answer = "none"
    BY GateFacts DEF CallSound, Moves, Stages
  <2>3. call'[c] \in GateCalls
    BY DEF Moves
  <2> QED BY <2>1, <2>2, <2>3 DEF Moves
<1>2. ASSUME NEW c \in Calls PROVE CallSound(c)'
  <2>1. CallSound(c) /\ CallSound(r) /\ clock' = clock
    BY GateFacts DEF Moves
  <2>2. call[c].owner \in Calls => call'[call[c].owner].owner = call[call[c].owner].owner
    BY <1>1
  <2>3. CASE c # r
    <3>1. call'[c] = call[c]
      BY <2>3 DEF Moves
    <3> QED BY <2>1, <2>2, <3>1 DEF CallSound
  <2>4. CASE c = r
    <3>1. /\ call[r].pc # "new" /\ call'[r].pc \in Stages \cup {"done"}
          /\ call'[r].answer = "none" <=> call'[r].pc # "done"
          /\ call'[r].pc \in Stages => call[r].pc \in Stages
          /\ call'[r].pc \notin {"new", "waiting"}
      BY DEF Moves, Stages
    <3>2. call'[r].owner = call[r].owner /\ call'[r].since = call[r].since
      BY <1>1
    <3> QED BY <2>1, <2>2, <2>4, <3>1, <3>2 DEF CallSound
  <2> QED BY <2>3, <2>4
<1>3. ASSUME NEW c \in Calls, call'[c].answer # "none"
      PROVE call'[c].answer = call'[call'[c].owner].answer
  <2>1. CallSound(c) /\ CallSound(r) /\ CallSound(c)' /\ call'[c].owner = call[c].owner
    BY <1>1, <1>2, GateFacts
  <2>2. CASE call'[c].owner = c
    BY <2>2
  <2>3. CASE c # r
    <3>1. call'[c] = call[c] /\ call[c].answer # "none"
      BY <1>3, <2>3 DEF Moves
    <3>2. call[c].answer = call[call[c].owner].answer /\ call[c].owner \in Calls
      BY <2>1, <3>1 DEF GateInv, DuplicatesAgree, CallSound
    <3> QED BY <1>1, <3>1, <3>2
  <2>4. CASE c = r /\ call'[r].owner # r
    <3>1. call[r].pc = "waiting" /\ call[r].owner \in Calls /\ call[r].owner # r
      BY <2>1, <2>4 DEF Moves, CallSound
    <3>2. call'[call[r].owner] = call[call[r].owner]
      BY <3>1 DEF Moves
    <3> QED BY <2>1, <2>4, <3>1, <3>2
  <2> QED BY <2>2, <2>3, <2>4
<1>4. ASSUME NEW k, Fails(k) PROVE Fails(k)'
  <2>1. PICK c \in Calls : call[c].owner = c /\ Fingerprint[c] = k /\ call[c].answer = "error"
    BY <1>4 DEF Fails, Owners
  <2>2. call'[c].owner = c /\ call'[c].answer = "error"
    BY <1>1, <2>1
  <2> QED BY <2>1, <2>2 DEF Fails, Owners
<1>5. NoTwinWithinTtl'
  <2> SUFFICES ASSUME NEW a \in Calls, NEW b \in Calls, a # b, Fingerprint[a] = Fingerprint[b],
                      call'[a].owner = a, call'[b].owner = b, call'[a].since <= call'[b].since,
                      call'[b].since < call'[a].since + DedupeTtl
               PROVE  call'[a].excused \/ call'[b].excused \/ Fails(Fingerprint[a])'
    BY DEF NoTwinWithinTtl, Fails
  <2>1. call[a].excused \/ call[b].excused \/ Fails(Fingerprint[a])
    BY <1>1 DEF GateInv, NoTwinWithinTtl, Fails
  <2> QED BY <1>1, <1>4, <2>1
<1> QED BY <1>1, <1>2, <1>3, <1>4, <1>5 DEF CallsSound, DuplicatesAgree

\* If the entries stay as they are, they are as sound as before.
LEMMA EntriesStay ==
    ASSUME GateInv, UNCHANGED entries, clock' = clock \/ clock' = clock + 1,
           \A c \in Calls : /\ call'[c].owner = call[c].owner /\ call'[c].since = call[c].since
                            /\ call[c].excused => call'[c].excused,
           \A k : Fails(k) => Fails(k)'
    PROVE  EntriesSound' /\ EntryInForce'
<1>1. entries \in Seq(GateEntries)
  BY DEF GateInv, GateTypes
<1>2. \A i \in DOMAIN entries : entries[i] \in GateEntries /\ entries[i].owner \in Calls
  <2>1. DOMAIN entries = 1 .. Len(entries)
    BY <1>1
  <2>2. \A i \in DOMAIN entries : entries[i] \in GateEntries
    BY <1>1, <2>1
  <2> QED BY <2>2 DEF GateEntries
<1>3. EntriesSound'
  BY <1>2 DEF EntriesSound, GateInv
<1>4. EntryInForce'
  <2> SUFFICES ASSUME NEW r \in Calls, Runs(r)', ~call'[r].excused,
                      clock' < call'[r].since + DedupeTtl, ~Fails(Fingerprint[r])'
               PROVE  \E i \in DOMAIN entries' : entries'[i].owner = r
    BY DEF EntryInForce
  <2>1. Runs(r) /\ ~call[r].excused /\ ~Fails(Fingerprint[r])
    BY DEF Runs
  <2>2. clock < call[r].since + DedupeTtl
    BY GateFacts, GateAssumption
  <2> QED BY <2>1, <2>2 DEF GateInv, EntryInForce
<1> QED BY <1>3, <1>4

\* The quota of a step that consumes none.
LEMMA QuotaStays ==
    ASSUME GateInv, NEW r \in Calls, Moves(r), UNCHANGED <<quota, used>>,
           call[r].pc \in {"handler", "written"} => call'[r].pc \in {"written", "done"}
    PROVE  QuotaKept'
<1>1. \A c \in Calls : c # r => call'[c] = call[c]
  BY DEF Moves
<1>2. ASSUME NEW u \in used PROVE call'[u[1]].pc \in {"handler", "written", "done"}
  <2>1. u[1] \in Calls /\ call[u[1]].pc \in {"handler", "written", "done"}
    BY DEF GateInv, GateTypes, QuotaKept
  <2>2. CASE u[1] = r
    BY <2>1, <2>2 DEF Moves, Stages
  <2>3. CASE u[1] # r
    BY <1>1, <2>1, <2>3
  <2> QED BY <2>2, <2>3
<1>3. UsedOn(quota.day)' = UsedOn(quota.day) /\ Today' = Today
  BY DEF UsedOn, Today, Moves
<1> QED BY <1>2, <1>3 DEF GateInv, QuotaKept

\* The tenant's account, for a step that leaves the file and its copies alone.
LEMMA TenantStays ==
    ASSUME GateInv, UNCHANGED <<stored, copy, scan, overlap, raced>>, Between' \subseteq Between,
           \A c \in Calls : call'[c].pc = "reading" => call[c].pc = "reading"
    PROVE  FileTypes' /\ CopiesTrue' /\ TenantKept'
<1>1. FileTypes /\ CopiesTrue /\ TenantKept
  BY DEF GateInv
<1>2. FileTypes'
  BY <1>1 DEF FileTypes
<1>3. CopiesTrue'
  BY <1>1 DEF CopiesTrue
<1>4. Holds' = Holds
  BY DEF Holds
<1>5. TenantKept'
  BY <1>1, <1>4 DEF TenantKept
<1> QED BY <1>2, <1>3, <1>5

LEMMA ReplayKeeps ==
    ASSUME GateInv, NEW r \in Calls, Replay(r)
    PROVE  GateInv'
<1> DEFINE a == call[call[r].owner].answer
<1>1. /\ call[r].pc = "waiting" /\ a # "none" /\ Answer(r, a)
      /\ UNCHANGED <<clock, entries, endpoint, tier, quota, stored, copy, scan, overlap, used, raced>>
  BY DEF Replay, fileVars
<1>2. /\ call \in [Calls -> GateCalls] /\ call[r] \in GateCalls /\ CallSound(r)
      /\ call[r].owner \in Calls /\ call[r].owner # r
  BY <1>1, GateFacts DEF CallSound
<1>3. a \in GateAnswers
  BY <1>2 DEF GateCalls
<1> HIDE DEF a
<1>4. /\ call'[r].pc = "done" /\ call'[r].answer = a /\ call'[r].owner = call[r].owner
      /\ call'[r].since = call[r].since /\ call'[r].excused = call[r].excused
      /\ \A c \in Calls \ {r} : call'[c] = call[c]
  BY <1>1, <1>2 DEF Answer, GateCalls
<1>5. call' \in [Calls -> GateCalls]
  BY <1>1, <1>2, <1>3 DEF Answer, GateCalls
<1>6. Moves(r)
  BY <1>1, <1>4, <1>5 DEF Moves, Stages
<1>7. GateTypes'
  BY <1>1, <1>5 DEF GateInv, GateTypes
<1>8. /\ CallsSound' /\ DuplicatesAgree' /\ NoTwinWithinTtl' /\ EntriesSound' /\ EntryInForce'
  BY <1>1, <1>4, <1>6, MovesKeep, EntriesStay DEF a
<1>9. QuotaKept'
  BY <1>1, <1>4, <1>6, QuotaStays
<1>10. Between' \subseteq Between /\ \A c \in Calls : call'[c].pc = "reading" => call[c].pc = "reading"
  BY <1>4 DEF Between
<1> QED BY <1>1, <1>7, <1>8, <1>9, <1>10, TenantStays DEF GateInv

\* A request of the gate is answered ...
LEMMA AnswerMoves ==
    ASSUME GateInv, NEW r \in Calls, NEW a \in GateAnswers \ {"none"}, call[r].pc \in Stages,
           Answer(r, a), UNCHANGED clock
    PROVE  /\ Moves(r) /\ call'[r].pc = "done" /\ call'[r].answer = a /\ call[r].owner = r
           /\ CallsSound' /\ DuplicatesAgree' /\ NoTwinWithinTtl'
           /\ UNCHANGED entries => EntriesSound' /\ EntryInForce'
<1>1. call \in [Calls -> GateCalls] /\ call[r] \in GateCalls /\ CallSound(r)
  BY GateFacts
<1>2. /\ call'[r].pc = "done" /\ call'[r].answer = a /\ call'[r].owner = call[r].owner
      /\ call'[r].since = call[r].since /\ call'[r].excused = call[r].excused
      /\ \A c \in Calls \ {r} : call'[c] = call[c]
  BY <1>1 DEF Answer, GateCalls
<1>3. call' \in [Calls -> GateCalls]
  BY <1>1 DEF Answer, GateCalls
<1>4. Moves(r)
  BY <1>2, <1>3 DEF Moves, Stages
<1>5. call[r].owner = r /\ call[r].pc # "waiting"
  BY <1>1 DEF CallSound, Stages
<1>6. UNCHANGED entries => EntriesSound' /\ EntryInForce'
  BY <1>4, <1>5, MovesKeep, EntriesStay DEF Moves
<1> QED BY <1>2, <1>4, <1>5, <1>6, MovesKeep

\* ... or goes on to the next check.
LEMMA StageAdvances ==
    ASSUME GateInv, NEW r \in Calls, NEW q \in Stages, call[r].pc \in Stages,
           call' = [call EXCEPT ![r].pc = q], UNCHANGED clock
    PROVE  /\ Moves(r) /\ call'[r].pc = q /\ call'[r].answer = "none" /\ call[r].owner = r
           /\ CallsSound' /\ DuplicatesAgree' /\ NoTwinWithinTtl'
           /\ UNCHANGED entries => EntriesSound' /\ EntryInForce'
<1>1. call \in [Calls -> GateCalls] /\ call[r] \in GateCalls /\ CallSound(r)
  BY GateFacts
<1>2. call[r].answer = "none" /\ call[r].owner = r /\ call[r].pc # "waiting"
  BY <1>1 DEF CallSound, Stages
<1>3. /\ call'[r].pc = q /\ call'[r].answer = "none" /\ call'[r].owner = call[r].owner
      /\ call'[r].since = call[r].since /\ call'[r].excused = call[r].excused
      /\ \A c \in Calls \ {r} : call'[c] = call[c]
  BY <1>1, <1>2 DEF GateCalls
<1>4. call' \in [Calls -> GateCalls]
  BY <1>1 DEF GateCalls
<1>5. Moves(r)
  BY <1>3, <1>4 DEF Moves, Stages
<1>6. UNCHANGED entries => EntriesSound' /\ EntryInForce'
  BY <1>2, <1>5, MovesKeep, EntriesStay DEF Moves
<1> QED BY <1>2, <1>3, <1>5, <1>6, MovesKeep

LEMMA SpentIs ==
    ASSUME NEW b \in Buckets, clock \in Nat
    PROVE  Spent(b, Window) \in Buckets
BY GateAssumption DEF Spent, Buckets

LEMMA LimitKeeps ==
    ASSUME GateInv, NEW r \in Calls, Limit(r)
    PROVE  GateInv'
<1>1. /\ call[r].pc = "gate" /\ endpoint' = Spent(endpoint, Window)
      /\ tier' = Spent(tier, Window) \/ tier' = tier
      /\ call' = [call EXCEPT ![r].pc = "tenant"] \/ Answer(r, "limited")
      /\ UNCHANGED <<clock, entries, quota, stored, copy, scan, overlap, used, raced>>
  <2> HIDE DEF Spent, Answer
  <2> QED BY DEF Limit, fileVars
<1>2. call[r].pc \in Stages /\ "tenant" \in Stages /\ "limited" \in GateAnswers \ {"none"}
  BY <1>1 DEF Stages, GateAnswers
<1>3. /\ Moves(r) /\ call'[r].pc \in {"tenant", "done"} /\ call'[r].answer # "created"
      /\ CallsSound' /\ DuplicatesAgree' /\ NoTwinWithinTtl' /\ EntriesSound' /\ EntryInForce'
  BY <1>1, <1>2, AnswerMoves, StageAdvances
<1>4. GateTypes'
  BY <1>1, <1>3, SpentIs, GateFacts DEF GateInv, GateTypes, Moves
<1>5. QuotaKept'
  BY <1>1, <1>3, QuotaStays
<1>6. Between' \subseteq Between /\ \A c \in Calls : call'[c].pc = "reading" => call[c].pc = "reading"
  BY <1>3 DEF Between, Moves
<1> QED BY <1>1, <1>3, <1>4, <1>5, <1>6, TenantStays DEF GateInv

LEMMA RefuseCallKeeps ==
    ASSUME GateInv, NEW r \in Calls, RefuseCall(r)
    PROVE  GateInv'
<1>1. /\ call[r].pc \in {"gate", "handler"} /\ Answer(r, "refused")
      /\ UNCHANGED <<clock, entries, endpoint, tier, quota, stored, copy, scan, overlap, used, raced>>
  BY DEF RefuseCall, fileVars
<1>2. call[r].pc \in Stages /\ "refused" \in GateAnswers \ {"none"}
  BY <1>1 DEF Stages, GateAnswers
<1>3. /\ Moves(r) /\ call'[r].pc = "done"
      /\ CallsSound' /\ DuplicatesAgree' /\ NoTwinWithinTtl' /\ EntriesSound' /\ EntryInForce'
  BY <1>1, <1>2, AnswerMoves
<1>4. GateTypes'
  BY <1>1, <1>3 DEF GateInv, GateTypes, Moves
<1>5. QuotaKept'
  BY <1>1, <1>3, QuotaStays
<1>6. Between' \subseteq Between /\ \A c \in Calls : call'[c].pc = "reading" => call[c].pc = "reading"
  BY <1>3 DEF Between, Moves
<1> QED BY <1>1, <1>3, <1>4, <1>5, <1>6, TenantStays DEF GateInv

LEMMA CreatedKeeps ==
    ASSUME GateInv, NEW r \in Calls, Created(r)
    PROVE  GateInv'
<1>1. /\ call[r].pc = "written" /\ Answer(r, "created")
      /\ UNCHANGED <<clock, entries, endpoint, tier, quota, stored, copy, scan, overlap, used, raced>>
  BY DEF Created, fileVars
<1>2. call[r].pc \in Stages /\ "created" \in GateAnswers \ {"none"}
  BY <1>1 DEF Stages, GateAnswers
<1>3. /\ Moves(r) /\ call'[r].pc = "done"
      /\ CallsSound' /\ DuplicatesAgree' /\ NoTwinWithinTtl' /\ EntriesSound' /\ EntryInForce'
  BY <1>1, <1>2, AnswerMoves
<1>4. GateTypes'
  BY <1>1, <1>3 DEF GateInv, GateTypes, Moves
<1>5. QuotaKept'
  BY <1>1, <1>3, QuotaStays
<1>6. Between' \subseteq Between /\ \A c \in Calls : call'[c].pc = "reading" => call[c].pc = "reading"
  BY <1>3 DEF Between, Moves
<1> QED BY <1>1, <1>3, <1>4, <1>5, <1>6, TenantStays DEF GateInv

-----------------------------------------------------------------------------
\* What the tenant holds is no more than what is in the store.
LEMMA HoldsIs ==
    ASSUME GateInv
    PROVE  /\ IsFiniteSet(stored) /\ IsFiniteSet(stored \cap Owned) /\ Holds \in Nat
           /\ Cardinality(stored) \in Nat /\ Holds <= Cardinality(stored)
<1>1. IsFiniteSet(Owned)
  <2>1. IsFiniteSet(Calls)
    BY GateAssumption
  <2>2. IsFiniteSet({Fingerprint[c] : c \in Calls})
    <3> DEFINE f == [c \in Calls |-> Fingerprint[c]]
    <3>1. f \in Surjection(Calls, {Fingerprint[c] : c \in Calls})
      BY DEF Surjection
    <3> QED BY <2>1, <3>1, FS_Surjection
  <2> QED BY <2>2 DEF Owned
<1>2. IsFiniteSet(OnFile)
  BY <1>1, GateAssumption, FS_Union DEF OnFile
<1>3. stored \in SUBSET OnFile
  BY DEF GateInv, FileTypes
<1>4. IsFiniteSet(stored)
  BY <1>2, <1>3, FS_Subset
<1>5. IsFiniteSet(stored \cap Owned) /\ Cardinality(stored \cap Owned) <= Cardinality(stored)
  BY <1>4, FS_Subset
<1> QED BY <1>4, <1>5, FS_CardinalityType DEF Holds

\* Passing the check with the credentials of the store before it
LEMMA CompareKeeps ==
    ASSUME GateInv, NEW r \in Calls, NEW seen, Compare(r, seen), call[r].pc \in {"tenant", "reading"},
           ~overlap => seen = stored, UNCHANGED <<clock, entries, stored, overlap, quota, used>>
    PROVE  /\ Moves(r) /\ call'[r].pc \in {"quota", "done"} /\ raced' \in BOOLEAN
           /\ CallsSound' /\ DuplicatesAgree' /\ NoTwinWithinTtl' /\ EntriesSound' /\ EntryInForce'
           /\ QuotaKept' /\ TenantKept'
<1>1. /\ call' = [call EXCEPT ![r].pc = "quota"] \/ Answer(r, "limited")
      /\ Cardinality(seen) >= MaxCredentials => Answer(r, "limited") /\ UNCHANGED raced
      /\ ~(Cardinality(seen) >= MaxCredentials) => raced' = (raced \/ Between # {})
  BY DEF Compare, Between
<1>2. call[r].pc \in Stages /\ "quota" \in Stages /\ "limited" \in GateAnswers \ {"none"}
  BY DEF Stages, GateAnswers
<1>3. /\ Moves(r) /\ call'[r].pc \in {"quota", "done"}
      /\ CallsSound' /\ DuplicatesAgree' /\ NoTwinWithinTtl' /\ EntriesSound' /\ EntryInForce'
  BY <1>1, <1>2, AnswerMoves, StageAdvances
<1>4. raced \in BOOLEAN /\ raced' \in BOOLEAN
  BY <1>1 DEF GateInv, GateTypes
<1>5. QuotaKept'
  BY <1>3, QuotaStays
<1>6. Holds' = Holds
  BY DEF Holds
<1>7. TenantKept'
  <2>1. CASE Cardinality(seen) >= MaxCredentials
    <3>1. Answer(r, "limited") /\ UNCHANGED raced
      BY <1>1, <2>1
    <3>2. call'[r].pc = "done"
      BY <1>2, <3>1, AnswerMoves
    <3>3. Between' \subseteq Between
      BY <1>3, <3>2 DEF Between, Moves
    <3> QED BY <1>6, <3>1, <3>3 DEF GateInv, TenantKept
  <2>2. CASE ~(Cardinality(seen) >= MaxCredentials)
    <3>1. raced' = (raced \/ Between # {})
      BY <1>1, <2>2
    <3>2. Between' \subseteq Between \cup {r}
      BY <1>3 DEF Between, Moves
    <3>3. ~overlap => Holds < MaxCredentials
      BY <2>2, HoldsIs, GateAssumption
    <3>4. ~raced' => Between' \subseteq {r}
      BY <3>1, <3>2
    <3>5. Holds \in Nat
      BY HoldsIs
    <3> QED BY <1>6, <3>3, <3>4, <3>5, GateAssumption DEF TenantKept
  <2> QED BY <2>1, <2>2
<1> QED BY <1>3, <1>4, <1>5, <1>7

LEMMA ScanFacts ==
    ASSUME GateInv
    PROVE  /\ stored \in SUBSET OnFile /\ copy \in [snap : SUBSET OnFile, until : Nat]
           /\ scan \in [GateReaders -> Scans] /\ overlap \in BOOLEAN /\ NoScan \in Scans /\ ~NoScan.on
           /\ NoCopy \in [snap : SUBSET OnFile, until : Nat] /\ NoCopy.until = 0
           /\ clock \in Nat /\ CacheTtl \in Nat
           /\ CopyInForce => copy.until > 0
BY GateAssumption DEF GateInv, GateTypes, FileTypes, NoScan, NoCopy, Scans, CopyInForce

LEMMA ReadStartsIs ==
    ASSUME GateInv, NEW x \in GateReaders, ReadStarts(x)
    PROVE  /\ scan' \in [GateReaders -> Scans] /\ scan'[x].on /\ scan'[x].snap = stored
           /\ \A y \in GateReaders \ {x} : scan'[y] = scan[y]
<1>1. [on |-> TRUE, snap |-> stored, at |-> clock] \in Scans
  BY ScanFacts DEF Scans
<1> QED BY <1>1, ScanFacts DEF ReadStarts

LEMMA ReadEndsIs ==
    ASSUME GateInv, NEW x \in GateReaders, ReadEnds(x)
    PROVE  /\ scan' \in [GateReaders -> Scans] /\ ~scan'[x].on
           /\ \A y \in GateReaders \ {x} : scan'[y] = scan[y]
           /\ copy' \in [snap : SUBSET OnFile, until : Nat] /\ copy'.snap = scan[x].snap
<1>1. scan[x] \in Scans
  BY ScanFacts
<1>2. scan[x].snap \in SUBSET OnFile /\ scan[x].at + CacheTtl \in Nat
  BY <1>1, ScanFacts DEF Scans
<1>3. copy' \in [snap : SUBSET OnFile, until : Nat] /\ copy'.snap = scan[x].snap
  BY <1>2 DEF ReadEnds
<1>4. scan' = [scan EXCEPT ![x] = NoScan]
  BY DEF ReadEnds
<1> QED BY <1>3, <1>4, ScanFacts

LEMMA TenantCheckKeeps ==
    ASSUME GateInv, NEW r \in Calls, TenantCheck(r)
    PROVE  GateInv'
<1>1. /\ call[r].pc = "tenant" /\ r \in GateReaders
      /\ UNCHANGED <<clock, entries, endpoint, tier, quota, stored, copy, overlap, used>>
  BY DEF TenantCheck, GateReaders
<1>2. CASE CopyInForce /\ Compare(r, copy.snap) /\ UNCHANGED scan
  <2>1. ~overlap => copy.snap = stored
    BY <1>2, ScanFacts DEF GateInv, CopiesTrue
  <2>2. /\ Moves(r) /\ call'[r].pc \in {"quota", "done"} /\ raced' \in BOOLEAN
        /\ CallsSound' /\ DuplicatesAgree' /\ NoTwinWithinTtl' /\ EntriesSound' /\ EntryInForce'
        /\ QuotaKept' /\ TenantKept'
    BY <1>1, <1>2, <2>1, CompareKeeps
  <2>3. GateTypes' /\ FileTypes'
    BY <1>1, <1>2, <2>2 DEF GateInv, GateTypes, FileTypes, Moves
  <2>4. \A c \in Calls : call'[c].pc = "reading" => call[c].pc = "reading"
    BY <2>2 DEF Moves
  <2>5. CopiesTrue'
    BY <1>1, <1>2, <2>4 DEF GateInv, CopiesTrue
  <2> QED BY <2>2, <2>3, <2>5 DEF GateInv
<1>3. CASE ~CopyInForce /\ ReadStarts(r) /\ call' = [call EXCEPT ![r].pc = "reading"] /\ UNCHANGED raced
  <2>1. call[r].pc \in Stages /\ "reading" \in Stages
    BY <1>1 DEF Stages
  <2>2. /\ Moves(r) /\ call'[r].pc = "reading"
        /\ CallsSound' /\ DuplicatesAgree' /\ NoTwinWithinTtl' /\ EntriesSound' /\ EntryInForce'
    BY <1>1, <1>3, <2>1, StageAdvances
  <2>3. QuotaKept'
    BY <1>1, <2>2, QuotaStays
  <2>4. /\ scan' \in [GateReaders -> Scans] /\ scan'[r].on /\ scan'[r].snap = stored
        /\ \A y \in GateReaders \ {r} : scan'[y] = scan[y]
    BY <1>1, <1>3, ReadStartsIs
  <2>5. GateTypes' /\ FileTypes'
    BY <1>1, <1>3, <2>2, <2>4 DEF GateInv, GateTypes, FileTypes, Moves
  <2>6. CopiesTrue'
    <3>1. \A c \in Calls : call'[c].pc = "reading" => scan'[c].on
      <4>1. \A c \in Calls \ {r} : call'[c] = call[c] /\ c \in GateReaders /\ scan'[c] = scan[c]
        BY <2>2, <2>4 DEF Moves, GateReaders
      <4> QED BY <2>4, <4>1 DEF GateInv, CopiesTrue
    <3>2. ~overlap => \A x \in GateReaders : scan'[x].on => scan'[x].snap = stored
      BY <2>4 DEF GateInv, CopiesTrue
    <3>3. ~overlap => (copy.until > 0 => copy.snap = stored)
      BY DEF GateInv, CopiesTrue
    <3> QED BY <1>1, <3>1, <3>2, <3>3 DEF CopiesTrue
  <2>7. Between' \subseteq Between /\ Holds' = Holds
    BY <1>1, <2>2 DEF Between, Moves, Holds
  <2>8. TenantKept'
    BY <1>1, <1>3, <2>7 DEF GateInv, TenantKept
  <2> QED BY <2>2, <2>3, <2>5, <2>6, <2>8 DEF GateInv
<1> QED BY <1>2, <1>3 DEF TenantCheck

LEMMA TenantReadKeeps ==
    ASSUME GateInv, NEW r \in Calls, TenantRead(r)
    PROVE  GateInv'
<1>1. /\ call[r].pc = "reading" /\ r \in GateReaders /\ ReadEnds(r) /\ Compare(r, scan[r].snap)
      /\ UNCHANGED <<clock, entries, endpoint, tier, quota, stored, overlap, used>>
  BY DEF TenantRead, GateReaders
<1>2. ~overlap => scan[r].snap = stored
  BY <1>1 DEF GateInv, CopiesTrue
<1>3. /\ Moves(r) /\ call'[r].pc \in {"quota", "done"} /\ raced' \in BOOLEAN
      /\ CallsSound' /\ DuplicatesAgree' /\ NoTwinWithinTtl' /\ EntriesSound' /\ EntryInForce'
      /\ QuotaKept' /\ TenantKept'
  BY <1>1, <1>2, CompareKeeps
<1>4. /\ scan' \in [GateReaders -> Scans] /\ ~scan'[r].on
      /\ \A y \in GateReaders \ {r} : scan'[y] = scan[y]
      /\ copy' \in [snap : SUBSET OnFile, until : Nat] /\ copy'.snap = scan[r].snap
  BY <1>1, ReadEndsIs
<1>5. GateTypes' /\ FileTypes'
  BY <1>1, <1>3, <1>4 DEF GateInv, GateTypes, FileTypes, Moves
<1>6. CopiesTrue'
  <2>1. \A c \in Calls : call'[c].pc = "reading" => scan'[c].on
    <3>1. \A c \in Calls \ {r} : call'[c] = call[c] /\ c \in GateReaders /\ scan'[c] = scan[c]
      BY <1>3, <1>4 DEF Moves, GateReaders
    <3> QED BY <1>3, <3>1 DEF GateInv, CopiesTrue
  <2>2. ~overlap => \A x \in GateReaders : scan'[x].on => scan'[x].snap = stored
    BY <1>4 DEF GateInv, CopiesTrue
  <2> QED BY <1>1, <1>2, <1>4, <2>1, <2>2 DEF CopiesTrue
<1> QED BY <1>3, <1>5, <1>6 DEF GateInv

\* What a step that touches no request keeps.
LEMMA RequestsStay ==
    ASSUME GateInv, UNCHANGED <<clock, entries, call, endpoint, tier, quota, used, raced>>
    PROVE  /\ GateTypes' /\ EntriesSound' /\ CallsSound' /\ DuplicatesAgree' /\ EntryInForce'
           /\ NoTwinWithinTtl' /\ QuotaKept' /\ Between' = Between
BY DEF GateInv, GateTypes, EntriesSound, CallsSound, CallSound, DuplicatesAgree, EntryInForce,
       NoTwinWithinTtl, QuotaKept, Between, Runs, Fails, Owners, UsedOn, Today

LEMMA ListKeeps ==
    ASSUME GateInv, NEW x \in Listers, List(x)
    PROVE  GateInv'
<1>1. /\ UNCHANGED <<clock, entries, call, endpoint, tier, quota, stored, overlap, used, raced>>
      /\ x \in GateReaders /\ \A c \in Calls : c \in GateReaders \ {x}
  BY GateAssumption DEF List, GateReaders
<1>2. /\ GateTypes' /\ EntriesSound' /\ CallsSound' /\ DuplicatesAgree' /\ EntryInForce'
      /\ NoTwinWithinTtl' /\ QuotaKept' /\ Between' = Between
  BY <1>1, RequestsStay
<1>3. /\ scan' \in [GateReaders -> Scans] /\ \A y \in GateReaders \ {x} : scan'[y] = scan[y]
      /\ copy' \in [snap : SUBSET OnFile, until : Nat]
      /\ ~overlap => /\ scan'[x].on => scan'[x].snap = stored
                     /\ copy'.until > 0 => copy'.snap = stored
  <2>1. CASE scan[x].on /\ ReadEnds(x)
    BY <1>1, <2>1, ReadEndsIs DEF GateInv, CopiesTrue
  <2>2. CASE ReadStarts(x) /\ UNCHANGED copy
    BY <1>1, <2>2, ReadStartsIs, ScanFacts DEF GateInv, CopiesTrue
  <2> QED BY <2>1, <2>2 DEF List
<1>4. FileTypes'
  BY <1>1, <1>3 DEF GateInv, FileTypes
<1>5. CopiesTrue'
  BY <1>1, <1>3 DEF GateInv, CopiesTrue
<1>6. Holds' = Holds
  BY <1>1 DEF Holds
<1>7. TenantKept'
  BY <1>1, <1>2, <1>6 DEF GateInv, TenantKept
<1> QED BY <1>2, <1>4, <1>5, <1>7 DEF GateInv

\* A write: without an overlap it adds to what the store holds.
LEMMA PersistIs ==
    ASSUME GateInv, NEW x \in OnFile, Persist(x)
    PROVE  /\ FileTypes' /\ UNCHANGED scan
           /\ ~overlap' => ~overlap /\ stored' = stored \cup {x}
           /\ copy'.until = 0
           /\ ~overlap' => \A y \in GateReaders : ~scan'[y].on
<1>1. /\ stored' = Base \cup {x} /\ copy' = NoCopy /\ UNCHANGED scan
      /\ overlap' = (overlap \/ \E y \in GateReaders : scan[y].on)
  BY DEF Persist
<1>2. Base \in SUBSET OnFile /\ (~overlap => Base = stored)
  <2>1. copy.snap \in SUBSET OnFile /\ stored \in SUBSET OnFile
    BY ScanFacts
  <2> QED BY <2>1, ScanFacts DEF Base, GateInv, CopiesTrue
<1>3. FileTypes'
  BY <1>1, <1>2, ScanFacts DEF FileTypes
<1> QED BY <1>1, <1>2, <1>3, ScanFacts

LEMMA OtherCreatesKeeps ==
    ASSUME GateInv, NEW x \in Others, OtherCreates(x)
    PROVE  GateInv'
<1>1. /\ UNCHANGED <<clock, entries, call, endpoint, tier, quota, used, raced>> /\ Persist(x)
      /\ x \in OnFile /\ x \notin Owned
  BY GateAssumption DEF OtherCreates, OnFile, Owned
<1>2. /\ GateTypes' /\ EntriesSound' /\ CallsSound' /\ DuplicatesAgree' /\ EntryInForce'
      /\ NoTwinWithinTtl' /\ QuotaKept' /\ Between' = Between
  BY <1>1, RequestsStay
<1>3. /\ FileTypes' /\ UNCHANGED scan /\ copy'.until = 0
      /\ ~overlap' => ~overlap /\ stored' = stored \cup {x}
      /\ ~overlap' => \A y \in GateReaders : ~scan'[y].on
  BY <1>1, PersistIs
<1>4. CopiesTrue'
  BY <1>1, <1>3 DEF GateInv, CopiesTrue
<1>5. ~overlap' => stored' \cap Owned = stored \cap Owned
  BY <1>1, <1>3
<1>6. ~overlap' => Holds' = Holds
  BY <1>5 DEF Holds
<1>7. TenantKept'
  BY <1>1, <1>2, <1>3, <1>6 DEF GateInv, TenantKept
<1> QED BY <1>2, <1>3, <1>4, <1>7 DEF GateInv

LEMMA TodayIs ==
    ASSUME GateInv
    PROVE  Today \in Nat
<1>1. clock \in Nat
  BY GateAssumption DEF GateInv, GateTypes
<1>2. \A a \in Nat : \A n \in Nat \ {0} : a \div n \in Nat
  OBVIOUS
<1> QED BY <1>1, <1>2, GateAssumption DEF Today

LEMMA ConsumeKeeps ==
    ASSUME GateInv, NEW r \in Calls, Consume(r)
    PROVE  GateInv'
<1> DEFINE q == IF Today # quota.day THEN [count |-> 0, day |-> Today] ELSE quota
           ok == q.count + 1 <= DailyLimit
<1>1. /\ call[r].pc = "quota"
      /\ quota' = IF ok THEN [q EXCEPT !.count = @ + 1] ELSE q
      /\ used' = IF ok THEN used \cup {<<r, Today>>} ELSE used
      /\ IF ok THEN call' = [call EXCEPT ![r].pc = "handler"] ELSE Answer(r, "limited")
      /\ UNCHANGED <<clock, entries, endpoint, tier, stored, copy, scan, overlap, raced>>
  BY DEF Consume, fileVars
<1>2. call[r].pc \in Stages /\ "handler" \in Stages /\ "limited" \in GateAnswers \ {"none"}
  BY <1>1 DEF Stages, GateAnswers
<1>3. /\ quota \in [count : Nat, day : Nat] /\ used \in SUBSET (Calls \X Nat) /\ Today \in Nat
      /\ QuotaKept /\ Today' = Today
  BY <1>1, TodayIs DEF GateInv, GateTypes, Today
<1>4. q \in [count : Nat, day : Nat] /\ q.day = Today
  BY <1>3
<1>5. /\ IsFiniteSet(UsedOn(Today)) /\ q.count = Cardinality(UsedOn(Today)) /\ q.count <= DailyLimit
      /\ \A u \in used : u[2] <= Today /\ u \in Calls \X Nat /\ call[u[1]].pc \in {"handler", "written", "done"}
  <2>1. IsFiniteSet(used) /\ quota.day <= Today
    BY <1>3 DEF QuotaKept
  <2>2. IsFiniteSet(UsedOn(Today))
    BY <2>1, FS_Subset DEF UsedOn
  <2>3. \A u \in used : u \in Calls \X Nat /\ u[2] \in Nat /\ u[2] <= quota.day
    BY <1>3 DEF QuotaKept
  <2>4. \A u \in used : u[2] <= Today /\ call[u[1]].pc \in {"handler", "written", "done"}
    BY <1>3, <2>1, <2>3 DEF QuotaKept
  <2>5. CASE Today = quota.day
    BY <1>3, <2>2, <2>3, <2>4, <2>5 DEF QuotaKept
  <2>6. CASE Today # quota.day
    <3>1. UsedOn(Today) = {}
      BY <1>3, <2>1, <2>3, <2>6 DEF UsedOn
    <3>2. Cardinality(UsedOn(Today)) = 0
      BY <3>1, FS_EmptySet
    <3> QED BY <2>2, <2>3, <2>4, <2>6, <3>2, GateAssumption
  <2> QED BY <2>5, <2>6
<1> HIDE DEF q
<1>6. /\ Moves(r) /\ call'[r].pc = (IF ok THEN "handler" ELSE "done") /\ call'[r].answer # "created"
      /\ CallsSound' /\ DuplicatesAgree' /\ NoTwinWithinTtl' /\ EntriesSound' /\ EntryInForce'
  BY <1>1, <1>2, AnswerMoves, StageAdvances
<1>7. \A c \in Calls : c # r => call'[c] = call[c]
  BY <1>6 DEF Moves
<1>8. quota' \in [count : Nat, day : Nat] /\ quota'.day = Today /\ quota'.count = IF ok THEN q.count + 1 ELSE q.count
  BY <1>1, <1>4
<1>9. used' \in SUBSET (Calls \X Nat)
  BY <1>1, <1>3
<1>10. GateTypes'
  BY <1>1, <1>6, <1>8, <1>9 DEF GateInv, GateTypes, Moves
<1>11. QuotaKept'
  <2>1. IsFiniteSet(used')
    BY <1>1, <1>3, FS_AddElement DEF QuotaKept
  <2>2. \A u \in used' : u[2] <= Today /\ call'[u[1]].pc \in {"handler", "written", "done"}
    <3>1. ASSUME NEW u \in used PROVE u[2] <= Today /\ call'[u[1]].pc \in {"handler", "written", "done"}
      BY <1>1, <1>5, <1>7
    <3>2. CASE ok
      <4>1. call'[r].pc = "handler" /\ used' = used \cup {<<r, Today>>}
        BY <1>1, <1>6, <3>2
      <4>2. ASSUME NEW u \in used' PROVE u \in used \/ (u[1] = r /\ u[2] = Today)
        BY <4>1
      <4> QED BY <1>3, <3>1, <4>1, <4>2
    <3>3. CASE ~ok
      BY <1>1, <3>1, <3>3
    <3> QED BY <3>2, <3>3
  <2>3. quota'.count = Cardinality(UsedOn(Today)')
    <3>1. CASE ok
      <4>1. UsedOn(Today)' = UsedOn(Today) \cup {<<r, Today>>}
        BY <1>1, <1>3, <3>1 DEF UsedOn
      <4>2. <<r, Today>> \notin UsedOn(Today)
        <5>1. ASSUME <<r, Today>> \in used PROVE FALSE
          <6>1. call[<<r, Today>>[1]].pc \in {"handler", "written", "done"}
            BY <1>5, <5>1
          <6> QED BY <1>1, <6>1
        <5> QED BY <5>1 DEF UsedOn
      <4>3. Cardinality(UsedOn(Today)') = Cardinality(UsedOn(Today)) + 1
        <5> DEFINE U == UsedOn(Today)
        <5>1. IsFiniteSet(U) /\ <<r, Today>> \notin U
          BY <1>5, <4>2
        <5> HIDE DEF U
        <5>2. Cardinality(U \cup {<<r, Today>>}) = Cardinality(U) + 1
          BY <5>1, FS_AddElement
        <5> QED BY <4>1, <5>2 DEF U
      <4> QED BY <1>5, <1>8, <3>1, <4>3
    <3>2. CASE ~ok
      BY <1>1, <1>3, <1>5, <1>8, <3>2 DEF UsedOn
    <3> QED BY <3>1, <3>2
  <2>4. quota'.count <= DailyLimit
    BY <1>4, <1>5, <1>8, GateAssumption
  <2>5. UsedOn(quota.day)' = UsedOn(Today)'
    BY <1>3, <1>8 DEF UsedOn
  <2> QED BY <1>3, <1>8, <2>1, <2>2, <2>3, <2>4, <2>5 DEF QuotaKept
<1>12. Between' \subseteq Between /\ \A c \in Calls : call'[c].pc = "reading" => call[c].pc = "reading"
  BY <1>1, <1>6, <1>7 DEF Between
<1> QED BY <1>1, <1>6, <1>10, <1>11, <1>12, TenantStays DEF GateInv

LEMMA CreateKeeps ==
    ASSUME GateInv, NEW r \in Calls, Create(r)
    PROVE  GateInv'
<1> DEFINE f == Fingerprint[r]
<1>1. /\ call[r].pc = "handler" /\ f \in Owned /\ f \in OnFile
      /\ UNCHANGED <<clock, entries, endpoint, tier, quota, used, raced>>
  BY DEF Create, Owned, OnFile
<1>2. call[r].pc \in Stages /\ "written" \in Stages /\ "refused" \in GateAnswers \ {"none"}
  BY <1>1 DEF Stages, GateAnswers
<1>3. r \in Between
  BY <1>1 DEF Between
<1>4. CASE Persist(f) /\ call' = [call EXCEPT ![r].pc = "written"]
  <2> HIDE DEF f
  <2>1. /\ Moves(r) /\ call'[r].pc = "written"
        /\ CallsSound' /\ DuplicatesAgree' /\ NoTwinWithinTtl' /\ EntriesSound' /\ EntryInForce'
    BY <1>1, <1>2, <1>4, StageAdvances
  <2>2. GateTypes' /\ QuotaKept'
    BY <1>1, <2>1, QuotaStays DEF GateInv, GateTypes, Moves
  <2>3. /\ FileTypes' /\ UNCHANGED scan /\ copy'.until = 0
        /\ ~overlap' => ~overlap /\ stored' = stored \cup {f}
        /\ ~overlap' => \A y \in GateReaders : ~scan'[y].on
    BY <1>1, <1>4, PersistIs
  <2>4. \A c \in Calls : call'[c].pc = "reading" => call[c].pc = "reading"
    BY <2>1 DEF Moves
  <2>5. CopiesTrue'
    BY <2>3, <2>4 DEF GateInv, CopiesTrue
  <2>6. Between' \subseteq Between \ {r}
    BY <2>1 DEF Between, Moves
  <2>7. ~overlap' => Holds' <= Holds + 1 /\ Holds' \in Nat
    <3> DEFINE H == stored \cap Owned
    <3>1. IsFiniteSet(H) /\ Cardinality(H) = Holds /\ Holds \in Nat
      BY HoldsIs DEF Holds
    <3>2. ~overlap' => (stored \cap Owned)' = H \cup {f}
      BY <1>1, <2>3
    <3> HIDE DEF H
    <3>3. Cardinality(H \cup {f}) \in {Cardinality(H), Cardinality(H) + 1}
      BY <3>1, FS_AddElement
    <3> QED BY <3>1, <3>2, <3>3 DEF Holds
  <2>8. ~raced /\ ~overlap => Holds < MaxCredentials /\ Between \subseteq {r}
    BY <1>3 DEF GateInv, TenantKept
  <2>9. ~raced' /\ ~overlap' => Between' = {} /\ Holds' <= MaxCredentials
    BY <1>1, <2>3, <2>6, <2>7, <2>8, HoldsIs, GateAssumption
  <2>10. TenantKept'
    BY <2>9 DEF TenantKept
  <2> QED BY <2>1, <2>2, <2>3, <2>5, <2>10 DEF GateInv
<1>5. CASE /\ Answer(r, "refused") /\ UNCHANGED <<stored, scan, overlap>>
           /\ copy' = IF CopyInForce THEN copy ELSE [snap |-> stored, until |-> clock + CacheTtl]
  <2>1. /\ Moves(r) /\ call'[r].pc = "done"
        /\ CallsSound' /\ DuplicatesAgree' /\ NoTwinWithinTtl' /\ EntriesSound' /\ EntryInForce'
    BY <1>1, <1>2, <1>5, AnswerMoves
  <2>2. GateTypes' /\ QuotaKept'
    BY <1>1, <2>1, QuotaStays DEF GateInv, GateTypes, Moves
  <2>3. copy' \in [snap : SUBSET OnFile, until : Nat] /\ (copy' = copy \/ copy'.snap = stored)
    BY <1>5, ScanFacts
  <2>4. FileTypes'
    BY <1>5, <2>3, ScanFacts DEF FileTypes
  <2>5. CopiesTrue'
    BY <1>5, <2>1, <2>3 DEF GateInv, CopiesTrue, Moves
  <2>6. Between' \subseteq Between /\ Holds' = Holds
    BY <1>5, <2>1 DEF Between, Moves, Holds
  <2>7. TenantKept'
    BY <1>1, <1>5, <2>6 DEF GateInv, TenantKept
  <2> QED BY <2>1, <2>2, <2>4, <2>5, <2>7 DEF GateInv
<1> QED BY <1>4, <1>5 DEF Create

\* What a step that shortens the deduplication map leaves of it
Thinned(t) ==
  /\ t \in Seq(GateEntries)
  /\ \A j \in DOMAIN t : \E i \in DOMAIN entries : t[j] = entries[i]
  /\ \A i, j \in DOMAIN t : t[i].key = t[j].key => i = j

LEMMA FilteredThins ==
    ASSUME GateInv, NEW J \in SUBSET DOMAIN entries
    PROVE  /\ Thinned(Filtered(entries, J)) /\ Len(Filtered(entries, J)) <= MaxEntries + 1
           /\ \A i \in J : \E j \in DOMAIN Filtered(entries, J) : Filtered(entries, J)[j] = entries[i]
<1> DEFINE t == Filtered(entries, J)
           n == Cardinality(J)
<1>1. /\ entries \in Seq(GateEntries) /\ Len(entries) <= MaxEntries + 1 /\ Len(entries) \in Nat
      /\ \A i, k \in DOMAIN entries : entries[i].key = entries[k].key => i = k
      /\ DOMAIN entries \subseteq Nat
  BY DEF GateInv, GateTypes, EntriesSound
<1>2. t \in Seq(GateEntries) /\ Len(t) = n /\ n \in Nat /\ n <= Len(entries)
  BY <1>1, FilteredIs
<1>3. PICK p \in [1 .. n -> J] :
        /\ \A j \in 1 .. n : t[j] = entries[p[j]]
        /\ \A i \in J : \E j \in 1 .. n : p[j] = i
        /\ \A i, j \in 1 .. n : i < j => p[i] < p[j]
  <2>1. entries \in Seq(GateEntries)
    BY <1>1
  <2> HIDE DEF GateEntries
  <2> QED BY <2>1, FilteredIs
<1> HIDE DEF t, n
<1>4. DOMAIN t = 1 .. n
  BY <1>2
<1>5. \A j \in DOMAIN t : p[j] \in DOMAIN entries /\ p[j] \in Nat
  BY <1>1, <1>3, <1>4
<1>6. ASSUME NEW i \in DOMAIN t, NEW j \in DOMAIN t, t[i].key = t[j].key PROVE i = j
  <2>1. p[i] = p[j]
    BY <1>1, <1>3, <1>4, <1>5, <1>6
  <2>2. i \in Nat /\ j \in Nat /\ p[i] \in Nat /\ p[j] \in Nat
    BY <1>2, <1>4, <1>5
  <2>3. (i < j => p[i] < p[j]) /\ (j < i => p[j] < p[i])
    BY <1>3, <1>4
  <2> QED BY <2>1, <2>2, <2>3
<1>7. \A j \in DOMAIN t : \E i \in DOMAIN entries : t[j] = entries[i]
  BY <1>3, <1>4, <1>5
<1>8. Thinned(t)
  BY <1>2, <1>6, <1>7 DEF Thinned
<1>9. \A i \in J : \E j \in DOMAIN t : t[j] = entries[i]
  BY <1>3, <1>4
<1>10. Len(t) <= MaxEntries + 1
  BY <1>1, <1>2, GateAssumption
<1> QED BY <1>8, <1>9, <1>10 DEF t

\* The entries that a thinned map has left are still true of their owners.
LEMMA ThinnedSound ==
    ASSUME GateInv, NEW t, Thinned(t), NEW j \in DOMAIN t
    PROVE  /\ t[j] \in GateEntries /\ t[j].owner \in Calls /\ call[t[j].owner].owner = t[j].owner
           /\ t[j].key = Fingerprint[t[j].owner] /\ t[j].expires = call[t[j].owner].since + DedupeTtl
<1>1. PICK i \in DOMAIN entries : t[j] = entries[i]
  BY DEF Thinned
<1>2. t[j] \in GateEntries
  BY DEF Thinned
<1>3. t[j].owner \in Calls
  BY <1>2 DEF GateEntries
<1> QED BY <1>1, <1>2, <1>3 DEF GateInv, EntriesSound

LEMMA ThrowKeeps ==
    ASSUME GateInv, NEW r \in Calls, Throw(r)
    PROVE  GateInv'
<1> DEFINE J == {i \in DOMAIN entries : entries[i].key # Fingerprint[r]}
<1>1. /\ call[r].pc \in {"gate", "reading", "handler", "written"} /\ entries' = Filtered(entries, J)
      /\ call' = [call EXCEPT ![r].pc = "done", ![r].answer = "error", ![r].excused = TRUE]
      /\ scan' = [scan EXCEPT ![r] = NoScan]
      /\ UNCHANGED <<clock, endpoint, tier, quota, stored, copy, overlap, used, raced>>
  BY DEF Throw
<1>2. call \in [Calls -> GateCalls] /\ call[r] \in GateCalls /\ CallSound(r)
  BY GateFacts
<1>3. /\ call'[r].pc = "done" /\ call'[r].answer = "error" /\ call'[r].owner = call[r].owner
      /\ call'[r].since = call[r].since /\ call'[r].excused
      /\ \A c \in Calls \ {r} : call'[c] = call[c]
  BY <1>1, <1>2 DEF GateCalls
<1>4. call' \in [Calls -> GateCalls]
  BY <1>1, <1>2 DEF GateCalls, GateAnswers
<1>5. Moves(r)
  BY <1>1, <1>3, <1>4 DEF Moves, Stages
<1>6. /\ \A c \in Calls : /\ call'[c].owner = call[c].owner /\ call'[c].since = call[c].since
                          /\ call[c].excused => call'[c].excused
      /\ CallsSound' /\ DuplicatesAgree' /\ NoTwinWithinTtl'
      /\ \A k : Fails(k) => Fails(k)'
  BY <1>1, <1>5, MovesKeep
<1>7. /\ Thinned(entries') /\ Len(entries') <= MaxEntries + 1
      /\ \A i \in J : \E j \in DOMAIN entries' : entries'[j] = entries[i]
  <2> HIDE DEF J
  <2>1. J \in SUBSET DOMAIN entries
    BY DEF J
  <2> QED BY <1>1, <2>1, FilteredThins
<1>8. GateTypes'
  BY <1>1, <1>4, <1>7 DEF GateInv, GateTypes, Thinned
<1>9. EntriesSound'
  <2>1. \A j \in DOMAIN entries' :
          /\ call'[entries'[j].owner].owner = entries'[j].owner
          /\ entries'[j].key = Fingerprint[entries'[j].owner]
          /\ entries'[j].expires = call'[entries'[j].owner].since + DedupeTtl
    BY <1>6, <1>7, ThinnedSound
  <2> QED BY <1>7, <2>1 DEF EntriesSound, Thinned
<1>10. EntryInForce'
  <2> SUFFICES ASSUME NEW a \in Calls, Runs(a)', ~call'[a].excused,
                      clock' < call'[a].since + DedupeTtl, ~Fails(Fingerprint[a])'
               PROVE  \E i \in DOMAIN entries' : entries'[i].owner = a
    BY DEF EntryInForce
  <2>1. Runs(a) /\ ~call[a].excused /\ ~Fails(Fingerprint[a]) /\ clock < call[a].since + DedupeTtl
    BY <1>1, <1>6 DEF Runs
  <2>2. PICK i \in DOMAIN entries : entries[i].owner = a
    BY <2>1 DEF GateInv, EntryInForce
  <2>3. entries[i].key = Fingerprint[a]
    BY <2>2 DEF GateInv, EntriesSound
  <2>4. call[r].owner = r
    BY <1>1, <1>2 DEF CallSound, Stages
  <2>5. r \in Owners(Fingerprint[r])'
    BY <1>3, <2>4 DEF Owners
  <2>6. Fails(Fingerprint[r])'
    BY <1>3, <2>5 DEF Fails
  <2>7. i \in J
    BY <2>3, <2>6
  <2> QED BY <1>7, <2>2, <2>7
<1>11. QuotaKept'
  BY <1>1, <1>3, <1>5, QuotaStays
<1>12. /\ scan' \in [GateReaders -> Scans]
       /\ \A y \in GateReaders : scan'[y] = scan[y] \/ (y = r /\ ~scan'[y].on)
  BY <1>1, ScanFacts
<1>13. FileTypes'
  BY <1>1, <1>12, ScanFacts DEF FileTypes
<1>14. CopiesTrue'
  <2>1. \A c \in Calls : call'[c].pc = "reading" => scan'[c].on
    BY <1>3, <1>12 DEF GateInv, CopiesTrue, GateReaders
  <2>2. ~overlap => \A y \in GateReaders : scan'[y].on => scan'[y].snap = stored
    BY <1>12 DEF GateInv, CopiesTrue
  <2>3. ~overlap => (copy.until > 0 => copy.snap = stored)
    BY DEF GateInv, CopiesTrue
  <2> QED BY <1>1, <2>1, <2>2, <2>3 DEF CopiesTrue
<1>15. Between' \subseteq Between /\ Holds' = Holds
  BY <1>1, <1>3 DEF Between, Holds
<1>16. TenantKept'
  BY <1>1, <1>15 DEF GateInv, TenantKept
<1> QED BY <1>6, <1>8, <1>9, <1>10, <1>11, <1>13, <1>14, <1>16 DEF GateInv

\* prune leaves room for one more entry and keeps every live entry it does not evict.
LEMMA PrunedIs ==
    ASSUME GateInv
    PROVE  /\ Thinned(Pruned) /\ Len(Pruned) <= MaxEntries
           /\ \A i \in DOMAIN entries :
                Unexpired(entries[i]) => \/ \E j \in DOMAIN Pruned : Pruned[j] = entries[i]
                                         \/ entries[i].owner \in Evicted
<1> DEFINE J == {i \in DOMAIN entries : Unexpired(entries[i])}
           live == Filtered(entries, J)
           over == IF Len(live) > MaxEntries THEN Len(live) - MaxEntries ELSE 0
<1>1. Pruned = SubSeq(live, over + 1, Len(live))
  BY DEF Pruned
<1>2. Thinned(live) /\ live \in Seq(GateEntries)
  <2> HIDE DEF J
  <2>1. J \in SUBSET DOMAIN entries
    BY DEF J
  <2> QED BY <2>1, FilteredThins DEF Thinned
<1> HIDE DEF live
<1>3. Len(live) \in Nat /\ over \in Nat /\ over <= Len(live) /\ Len(live) - over <= MaxEntries
  BY <1>2, GateAssumption
<1> HIDE DEF over
<1>4. /\ Pruned \in Seq(GateEntries) /\ Len(Pruned) = Len(live) - over
      /\ \A j \in 1 .. Len(live) - over : Pruned[j] = live[j + over]
  <2>1. /\ over + 1 \in 1 .. Len(live) + 1 /\ Len(live) \in over .. Len(live)
        /\ \A j \in 1 .. Len(live) - over : over + 1 + j - 1 = j + over /\ j + over \in 1 .. Len(live)
    BY <1>3
  <2>2. DOMAIN live = 1 .. Len(live) /\ \A j \in 1 .. Len(live) : live[j] \in GateEntries
    BY <1>2
  <2>3. Pruned = [j \in 1 .. Len(live) - over |-> live[over + 1 + j - 1]]
    BY <1>1, <1>2, <1>3
  <2>4. Pruned = [j \in 1 .. Len(live) - over |-> live[j + over]]
    BY <2>1, <2>3
  <2>5. \A j \in 1 .. Len(live) - over : live[j + over] \in GateEntries
    BY <2>1, <2>2
  <2> QED BY <1>3, <2>4, <2>5
<1>5. DOMAIN Pruned = 1 .. Len(live) - over /\ DOMAIN live = 1 .. Len(live)
  BY <1>2, <1>4
<1>6. \A j \in DOMAIN Pruned : Pruned[j] = live[j + over] /\ j + over \in DOMAIN live /\ j \in Nat
  BY <1>3, <1>4, <1>5
<1>7. \A j \in DOMAIN Pruned : \E i \in DOMAIN entries : Pruned[j] = entries[i]
  BY <1>2, <1>6 DEF Thinned
<1>8. ASSUME NEW i \in DOMAIN Pruned, NEW j \in DOMAIN Pruned, Pruned[i].key = Pruned[j].key
      PROVE  i = j
  <2>1. i + over = j + over
    BY <1>2, <1>6, <1>8 DEF Thinned
  <2> QED BY <1>3, <1>6, <2>1
<1>9. Thinned(Pruned)
  BY <1>4, <1>7, <1>8 DEF Thinned
<1>10. Len(Pruned) <= MaxEntries
  BY <1>3, <1>4
<1>11. \A i \in DOMAIN entries : Unexpired(entries[i]) =>
          \/ \E j \in DOMAIN Pruned : Pruned[j] = entries[i]
          \/ entries[i].owner \in Evicted
  BY DEF Evicted
<1> QED BY <1>9, <1>10, <1>11

\* What is true of every request that is let in, whether it waits or runs.
EntersAs(r, q) ==
  /\ call[r].pc = "new" /\ call' \in [Calls -> GateCalls]
  /\ UNCHANGED <<clock, endpoint, tier, quota, stored, copy, scan, overlap, used, raced>>
  /\ \A c \in Calls \ {r} :
       /\ call'[c].pc = call[c].pc /\ call'[c].since = call[c].since
       /\ call'[c].owner = call[c].owner /\ call'[c].answer = call[c].answer
       /\ call'[c].excused = (call[c].excused \/ c \in Evicted)
  /\ call'[r].pc = q /\ call'[r].since = clock /\ call'[r].answer = "none"

LEMMA NewHasNoDuplicates ==
    ASSUME GateInv, NEW r \in Calls, call[r].pc = "new"
    PROVE  /\ call[r].owner = "none" /\ ~Runs(r) /\ call[r].answer = "none"
           /\ \A c \in Calls : call[c].owner # r
<1>1. call[r].owner = "none" /\ r # "none" /\ call[r].answer = "none"
  BY GateFacts DEF CallSound
<1>2. ASSUME NEW c \in Calls, call[c].owner = r PROVE FALSE
  <2>1. CallSound(c) /\ r # "none"
    BY GateFacts
  <2>2. call[c].pc # "new"
    BY <1>2, <2>1 DEF CallSound
  <2>3. call[r].owner = r
    BY <1>2, <2>1, <2>2 DEF CallSound
  <2> QED BY <1>1, <2>3
<1> QED BY <1>1, <1>2 DEF Runs

LEMMA EntersKeeps ==
    ASSUME GateInv, NEW r \in Calls, NEW q \in {"waiting", "gate"}, EntersAs(r, q),
           q = "gate" => call'[r].owner = r,
           q = "waiting" => call'[r].owner \in Calls \ {r} /\ Runs(call'[r].owner),
           Len(entries') <= MaxEntries + 1, entries' \in Seq(GateEntries),
           \A j \in DOMAIN Pruned : \E i \in DOMAIN entries' : entries'[i] = Pruned[j],
           \A i \in DOMAIN entries' :
             \/ \E j \in DOMAIN Pruned : entries'[i] = Pruned[j]
             \/ /\ q = "gate" /\ entries'[i].key = Fingerprint[r] /\ entries'[i].owner = r
                /\ entries'[i].expires = clock + DedupeTtl,
           \A i, j \in DOMAIN entries' : entries'[i].key = entries'[j].key => i = j,
           q = "gate" => /\ \E i \in DOMAIN entries' : entries'[i].owner = r
                         /\ \A j \in DOMAIN Pruned : Pruned[j].key # Fingerprint[r]
    PROVE  GateInv'
<1>1. /\ call[r].owner = "none" /\ ~Runs(r) /\ call[r].answer = "none"
      /\ \A c \in Calls : call[c].owner # r
  BY NewHasNoDuplicates DEF EntersAs
<1>2. ASSUME NEW c \in Calls, c # r
      PROVE  /\ call'[c].pc = call[c].pc /\ call'[c].since = call[c].since
             /\ call'[c].owner = call[c].owner /\ call'[c].answer = call[c].answer
             /\ call'[c].excused = (call[c].excused \/ c \in Evicted)
  BY <1>2 DEF EntersAs
<1>3. /\ call'[r].pc = q /\ call'[r].since = clock /\ call'[r].answer = "none" /\ clock' = clock
      /\ call[r].pc = "new"
  BY DEF EntersAs
<1>4. GateTypes'
  BY DEF EntersAs, GateInv, GateTypes
<1>5. ASSUME NEW k PROVE Fails(k)' <=> Fails(k)
  <2>1. ASSUME NEW c \in Calls PROVE (c \in Owners(k) /\ call[c].answer = "error")
                                     <=> (c \in Owners(k)' /\ call'[c].answer = "error")
    <3>1. CASE c = r
      BY <1>1, <1>3, <3>1
    <3>2. CASE c # r
      BY <1>2, <3>2 DEF Owners
    <3> QED BY <3>1, <3>2
  <2> QED BY <2>1 DEF Fails, Owners
<1>6. \* A request that runs without an excuse is in the pruned map until its time is over
      ASSUME NEW a \in Calls, a # r, Runs(a), ~call'[a].excused, clock < call[a].since + DedupeTtl,
             ~Fails(Fingerprint[a])
      PROVE  \E j \in DOMAIN Pruned : Pruned[j].owner = a /\ Pruned[j].key = Fingerprint[a]
  <2>1. ~call[a].excused /\ a \notin Evicted
    BY <1>2, <1>6
  <2>2. PICK i \in DOMAIN entries : entries[i].owner = a
    BY <1>6, <2>1 DEF GateInv, EntryInForce
  <2>3. entries[i].key = Fingerprint[a] /\ entries[i].expires = call[a].since + DedupeTtl
    BY <2>2 DEF GateInv, EntriesSound
  <2>4. Unexpired(entries[i])
    BY <1>6, <2>3, GateFacts, GateAssumption DEF Unexpired
  <2>5. PICK j \in DOMAIN Pruned : Pruned[j] = entries[i]
    BY <2>1, <2>2, <2>4, PrunedIs
  <2> QED BY <2>2, <2>3, <2>5
<1>7. EntriesSound'
  <2>1. ASSUME NEW i \in DOMAIN entries'
        PROVE  /\ call'[entries'[i].owner].owner = entries'[i].owner
               /\ entries'[i].key = Fingerprint[entries'[i].owner]
               /\ entries'[i].expires = call'[entries'[i].owner].since + DedupeTtl
    <3>1. CASE \E j \in DOMAIN Pruned : entries'[i] = Pruned[j]
      <4>1. PICK j \in DOMAIN Pruned : entries'[i] = Pruned[j]
        BY <3>1
      <4> DEFINE e == Pruned[j]
      <4>2. /\ e.owner \in Calls /\ call[e.owner].owner = e.owner
            /\ e.key = Fingerprint[e.owner] /\ e.expires = call[e.owner].since + DedupeTtl
        BY PrunedIs, ThinnedSound
      <4> HIDE DEF e
      <4>3. e.owner # r
        BY <1>1, <4>2
      <4> QED BY <1>2, <4>1, <4>2, <4>3 DEF e
    <3>2. CASE /\ q = "gate" /\ entries'[i].key = Fingerprint[r] /\ entries'[i].owner = r
               /\ entries'[i].expires = clock + DedupeTtl
      BY <1>3, <3>2
    <3> QED BY <3>1, <3>2
  <2> QED BY <2>1 DEF EntriesSound
<1>8. CallsSound'
  <2>1. ASSUME NEW c \in Calls PROVE CallSound(c)'
    <3>1. CASE c # r
      <4>1. CallSound(c) /\ call[c].owner # r
        BY <1>1, GateFacts
      <4>2. call[c].owner \in Calls => call'[call[c].owner].owner = call[call[c].owner].owner
        BY <1>2, <4>1
      <4> QED BY <1>2, <1>3, <3>1, <4>1, <4>2 DEF CallSound
    <3>2. CASE c = r /\ q = "gate"
      <4>1. clock \in Nat /\ call'[r].owner = r
        BY <3>2, GateFacts
      <4> QED BY <1>3, <3>2, <4>1 DEF CallSound, Stages
    <3>3. CASE c = r /\ q = "waiting"
      <4> DEFINE o == call'[r].owner
      <4>1. clock \in Nat /\ o \in Calls /\ o # r /\ call[o].owner = o
        BY <3>3, GateFacts DEF Runs
      <4>2. call'[o].owner = o
        BY <1>2, <4>1
      <4> QED BY <1>3, <3>3, <4>1, <4>2 DEF CallSound, Stages
    <3> QED BY <3>1, <3>2, <3>3
  <2> QED BY <2>1 DEF CallsSound
<1>9. DuplicatesAgree'
  <2>1. ASSUME NEW c \in Calls, call'[c].answer # "none"
        PROVE  call'[c].answer = call'[call'[c].owner].answer
    <3>1. c # r
      BY <1>3, <2>1
    <3>2. CallSound(c) /\ call[c].owner # r /\ call[c].answer = call[call[c].owner].answer
      BY <1>1, <1>2, <2>1, <3>1, GateFacts DEF GateInv, DuplicatesAgree
    <3>3. call[c].answer # "none" /\ call[c].owner \in Calls
      BY <1>2, <2>1, <3>1, <3>2 DEF CallSound
    <3> QED BY <1>2, <3>1, <3>2, <3>3
  <2> QED BY <2>1 DEF DuplicatesAgree
<1>10. EntryInForce'
  <2> SUFFICES ASSUME NEW a \in Calls, Runs(a)', ~call'[a].excused,
                      clock' < call'[a].since + DedupeTtl, ~Fails(Fingerprint[a])'
               PROVE  \E i \in DOMAIN entries' : entries'[i].owner = a
    BY DEF EntryInForce
  <2>1. CASE a = r
    BY <2>1 DEF Runs
  <2>2. CASE a # r
    <3>1. Runs(a) /\ clock < call[a].since + DedupeTtl /\ ~Fails(Fingerprint[a])
      BY <1>2, <1>3, <1>5, <2>2 DEF Runs
    <3>2. PICK j \in DOMAIN Pruned : Pruned[j].owner = a
      BY <1>6, <2>2, <3>1
    <3> QED BY <3>2
  <2> QED BY <2>1, <2>2
<1>11. NoTwinWithinTtl'
  <2> SUFFICES ASSUME NEW a \in Calls, NEW b \in Calls, a # b, Fingerprint[a] = Fingerprint[b],
                      call'[a].owner = a, call'[b].owner = b, call'[a].since <= call'[b].since,
                      call'[b].since < call'[a].since + DedupeTtl,
                      ~call'[a].excused, ~call'[b].excused, ~Fails(Fingerprint[a])'
               PROVE  FALSE
    BY DEF NoTwinWithinTtl, Fails
  <2>1. clock \in Nat /\ DedupeTtl \in Nat /\ ~Fails(Fingerprint[a]) /\ ~Fails(Fingerprint[b])
    BY <1>5, GateFacts, GateAssumption
  <2>2. CASE a # r /\ b # r
    <3>1. /\ call[a].owner = a /\ call[b].owner = b /\ call[a].since <= call[b].since
          /\ call[b].since < call[a].since + DedupeTtl /\ ~call[a].excused /\ ~call[b].excused
      BY <1>2, <2>2
    <3> QED BY <2>1, <3>1 DEF GateInv, NoTwinWithinTtl, Fails
  <2>3. CASE a = r
    <3>1. /\ Runs(b) /\ call[b].since \in Nat /\ call[b].since <= clock
          /\ clock <= call[b].since /\ call[b].since < clock + DedupeTtl
      BY <1>2, <1>3, <2>3, GateFacts DEF Runs, CallSound
    <3>2. clock < call[b].since + DedupeTtl
      BY <2>1, <3>1
    <3>3. \E j \in DOMAIN Pruned : Pruned[j].key = Fingerprint[b]
      BY <1>6, <2>1, <2>3, <3>1, <3>2
    <3>4. q = "gate"
      BY <2>3
    <3> QED BY <2>3, <3>3, <3>4
  <2>4. CASE b = r
    <3>1. Runs(a) /\ clock < call[a].since + DedupeTtl
      BY <1>2, <1>3, <2>4 DEF Runs
    <3>2. \E j \in DOMAIN Pruned : Pruned[j].key = Fingerprint[a]
      BY <1>6, <2>1, <2>4, <3>1
    <3>3. q = "gate"
      BY <2>4
    <3> QED BY <2>4, <3>2, <3>3
  <2> QED BY <2>2, <2>3, <2>4
<1>12. QuotaKept'
  <2>1. \A u \in used : u[1] \in Calls /\ u[1] # r /\ call[u[1]].pc \in {"handler", "written", "done"}
    BY <1>3 DEF GateInv, GateTypes, QuotaKept
  <2>2. \A u \in used : call'[u[1]].pc \in {"handler", "written", "done"}
    BY <1>2, <2>1
  <2>3. quota' = quota /\ used' = used /\ UsedOn(quota.day)' = UsedOn(quota.day) /\ Today' = Today
    BY DEF EntersAs, UsedOn, Today
  <2> QED BY <2>2, <2>3 DEF GateInv, QuotaKept
<1>13. FileTypes' /\ CopiesTrue' /\ TenantKept'
  <2>1. Between' \subseteq Between /\ \A c \in Calls : call'[c].pc = "reading" => call[c].pc = "reading"
    BY <1>2, <1>3 DEF Between
  <2> QED BY <2>1, TenantStays DEF EntersAs
<1> QED BY <1>4, <1>7, <1>8, <1>9, <1>10, <1>11, <1>12, <1>13 DEF GateInv

LEMMA EnterKeeps ==
    ASSUME GateInv, NEW r \in Calls, Enter(r)
    PROVE  GateInv'
<1> DEFINE same == {j \in DOMAIN Pruned : Pruned[j].key = Fingerprint[r]}
           W == [call[r] EXCEPT !.pc = "waiting", !.since = clock,
                                !.owner = Pruned[CHOOSE j \in same : TRUE].owner]
           G == [call[r] EXCEPT !.pc = "gate", !.owner = r, !.since = clock]
           X(c) == [call[c] EXCEPT !.excused = @ \/ c \in Evicted]
           E == [key |-> Fingerprint[r], owner |-> r, expires |-> clock + DedupeTtl]
<1>1. /\ call[r].pc = "new"
      /\ UNCHANGED <<clock, endpoint, tier, quota, stored, copy, scan, overlap, used, raced>>
      /\ \/ same # {} /\ entries' = Pruned /\ call' = [c \in Calls |-> IF c = r THEN W ELSE X(c)]
         \/ same = {} /\ entries' = Append(Pruned, E) /\ call' = [c \in Calls |-> IF c = r THEN G ELSE X(c)]
  BY DEF Enter, fileVars
<1>2. /\ call \in [Calls -> GateCalls] /\ call[r] \in GateCalls /\ clock \in Nat
      /\ call[r].answer = "none" /\ call[r].owner = "none" /\ r # "none"
  BY <1>1, GateFacts, NewHasNoDuplicates
<1>3. /\ Thinned(Pruned) /\ Len(Pruned) <= MaxEntries /\ Pruned \in Seq(GateEntries)
      /\ Len(Pruned) \in Nat /\ DOMAIN Pruned = 1 .. Len(Pruned)
  BY PrunedIs DEF Thinned
<1>4. ASSUME NEW c \in Calls
      PROVE  /\ X(c) \in GateCalls
             /\ X(c).pc = call[c].pc /\ X(c).since = call[c].since /\ X(c).owner = call[c].owner
             /\ X(c).answer = call[c].answer /\ X(c).excused = (call[c].excused \/ c \in Evicted)
  <2>1. call[c] \in GateCalls /\ (call[c].excused \/ c \in Evicted) \in BOOLEAN
    BY <1>2
  <2> QED BY <2>1 DEF GateCalls
<1>5. CASE same # {}
  <2> DEFINE j0 == CHOOSE j \in same : TRUE
             o == Pruned[j0].owner
  <2>1. j0 \in DOMAIN Pruned
    BY <1>5
  <2>2. o \in Calls /\ call[o].owner = o
    <3> HIDE DEF j0
    <3> QED BY <1>3, <2>1, ThinnedSound
  <2>3. call' = [c \in Calls |-> IF c = r THEN W ELSE X(c)] /\ entries' = Pruned
    BY <1>1, <1>5
  <2>4. W = [call[r] EXCEPT !.pc = "waiting", !.since = clock, !.owner = o]
    OBVIOUS
  <2> HIDE DEF o, j0, same, W, X
  <2>5. W \in GateCalls /\ W.pc = "waiting" /\ W.since = clock /\ W.owner = o /\ W.answer = "none"
    BY <1>2, <2>2, <2>4 DEF GateCalls
  <2>6. call'[r] = W /\ \A c \in Calls \ {r} : call'[c] = X(c)
    BY <2>3
  <2>7. call' \in [Calls -> GateCalls]
    BY <1>4, <2>3, <2>5
  <2>8. EntersAs(r, "waiting")
    <3>1. call'[r].pc = "waiting" /\ call'[r].since = clock /\ call'[r].answer = "none"
      BY <2>5, <2>6
    <3>2. \A c \in Calls \ {r} :
            /\ call'[c].pc = call[c].pc /\ call'[c].since = call[c].since
            /\ call'[c].owner = call[c].owner /\ call'[c].answer = call[c].answer
            /\ call'[c].excused = (call[c].excused \/ c \in Evicted)
      BY <1>4, <2>6
    <3> QED BY <1>1, <2>7, <3>1, <3>2 DEF EntersAs
  <2>9. call'[r].owner \in Calls \ {r} /\ Runs(call'[r].owner)
    <3>1. call'[r].owner = o /\ o # r
      BY <1>2, <2>2, <2>5, <2>6
    <3> QED BY <2>2, <3>1 DEF Runs
  <2>10. Len(entries') <= MaxEntries + 1
    BY <1>3, <2>3, GateAssumption
  <2>11. \A i, j \in DOMAIN entries' : entries'[i].key = entries'[j].key => i = j
    BY <1>3, <2>3 DEF Thinned
  <2> QED BY <1>3, <2>3, <2>8, <2>9, <2>10, <2>11, EntersKeeps
<1>6. CASE same = {}
  <2>1. call' = [c \in Calls |-> IF c = r THEN G ELSE X(c)] /\ entries' = Append(Pruned, E)
    BY <1>1, <1>6
  <2>2. \A j \in DOMAIN Pruned : Pruned[j].key # Fingerprint[r]
    BY <1>6
  <2> HIDE DEF G, X, same
  <2>3. G \in GateCalls /\ G.pc = "gate" /\ G.since = clock /\ G.owner = r /\ G.answer = "none"
    BY <1>2 DEF GateCalls, Stages, G
  <2>4. call'[r] = G /\ \A c \in Calls \ {r} : call'[c] = X(c)
    BY <2>1
  <2>5. call' \in [Calls -> GateCalls]
    BY <1>4, <2>1, <2>3
  <2>6. EntersAs(r, "gate") /\ call'[r].owner = r
    <3>1. /\ call'[r].pc = "gate" /\ call'[r].since = clock /\ call'[r].answer = "none"
          /\ call'[r].owner = r
      BY <2>3, <2>4
    <3>2. \A c \in Calls \ {r} :
            /\ call'[c].pc = call[c].pc /\ call'[c].since = call[c].since
            /\ call'[c].owner = call[c].owner /\ call'[c].answer = call[c].answer
            /\ call'[c].excused = (call[c].excused \/ c \in Evicted)
      BY <1>4, <2>4
    <3> QED BY <1>1, <2>5, <3>1, <3>2 DEF EntersAs
  <2>7. E \in GateEntries /\ E.key = Fingerprint[r] /\ E.owner = r /\ E.expires = clock + DedupeTtl
    BY <1>2, GateAssumption DEF GateEntries
  <2> HIDE DEF E
  <2>8. /\ entries' \in Seq(GateEntries) /\ Len(entries') = Len(Pruned) + 1
        /\ DOMAIN entries' = 1 .. Len(Pruned) + 1
        /\ \A i \in 1 .. Len(Pruned) : entries'[i] = Pruned[i] /\ i \in DOMAIN entries'
        /\ entries'[Len(Pruned) + 1] = E /\ Len(Pruned) + 1 \in DOMAIN entries'
    BY <1>3, <2>1, <2>7
  <2>9. \A i \in DOMAIN entries' : i \in DOMAIN Pruned \/ i = Len(Pruned) + 1
    BY <1>3, <2>8
  <2>10. ASSUME NEW i \in DOMAIN entries', NEW j \in DOMAIN entries', entries'[i].key = entries'[j].key
         PROVE i = j
    <3>1. CASE i \in DOMAIN Pruned /\ j \in DOMAIN Pruned
      BY <1>3, <2>8, <2>10, <3>1 DEF Thinned
    <3>2. CASE i = Len(Pruned) + 1 /\ j \in DOMAIN Pruned
      BY <1>3, <2>2, <2>7, <2>8, <2>10, <3>2
    <3>3. CASE i \in DOMAIN Pruned /\ j = Len(Pruned) + 1
      BY <1>3, <2>2, <2>7, <2>8, <2>10, <3>3
    <3> QED BY <2>9, <3>1, <3>2, <3>3
  <2>11. Len(entries') <= MaxEntries + 1
    BY <1>3, <2>8, GateAssumption
  <2>12. \A j \in DOMAIN Pruned : \E i \in DOMAIN entries' : entries'[i] = Pruned[j]
    BY <1>3, <2>8
  <2>13. \A i \in DOMAIN entries' :
           \/ \E j \in DOMAIN Pruned : entries'[i] = Pruned[j]
           \/ /\ entries'[i].key = Fingerprint[r] /\ entries'[i].owner = r
              /\ entries'[i].expires = clock + DedupeTtl
    BY <1>3, <2>7, <2>8, <2>9
  <2>14. \E i \in DOMAIN entries' : entries'[i].owner = r
    BY <2>7, <2>8
  <2> QED BY <2>2, <2>6, <2>8, <2>10, <2>11, <2>12, <2>13, <2>14, EntersKeeps
<1> QED BY <1>5, <1>6

LEMMA GateTickKeeps ==
    ASSUME GateInv, GateTick
    PROVE  GateInv'
<1>1. /\ clock < MaxClock /\ clock' = clock + 1 /\ clock \in 0 .. MaxClock
      /\ UNCHANGED <<entries, call, endpoint, tier, quota, stored, copy, scan, overlap, used, raced>>
  BY DEF GateTick, GateInv, GateTypes, fileVars
<1>2. clock \in Nat /\ clock' \in 0 .. MaxClock
  BY <1>1, GateAssumption
<1>3. GateTypes'
  BY <1>1, <1>2 DEF GateInv, GateTypes
<1>4. \A k : Fails(k)' <=> Fails(k)
  BY <1>1 DEF Fails, Owners
<1>5. EntriesSound' /\ EntryInForce'
  BY <1>1, <1>4, EntriesStay
<1>6. CallsSound'
  <2>1. ASSUME NEW c \in Calls PROVE CallSound(c)'
    <3>1. CallSound(c) /\ call[c].since \in Nat
      BY GateFacts
    <3>2. call'[c].since <= clock'
      BY <1>1, <1>2, <3>1 DEF CallSound
    <3> QED BY <1>1, <3>1, <3>2 DEF CallSound
  <2> QED BY <2>1 DEF CallsSound
<1>7. DuplicatesAgree' /\ NoTwinWithinTtl'
  BY <1>1 DEF GateInv, DuplicatesAgree, NoTwinWithinTtl, Owners
<1>8. QuotaKept'
  <2>1. Today' \in Nat /\ Today \in Nat /\ Today <= Today'
    <3>1. \A n \in Nat \ {0} : \A a \in Nat : a \div n \in Nat /\ (a + 1) \div n \in Nat
                                              /\ a \div n <= (a + 1) \div n
      OBVIOUS
    <3> QED BY <1>1, <1>2, <3>1, GateAssumption DEF Today
  <2>2. quota.day \in Nat /\ quota.day <= Today
    BY DEF GateInv, GateTypes, QuotaKept
  <2>3. quota'.day <= Today'
    BY <1>1, <2>1, <2>2
  <2>4. UsedOn(quota.day)' = UsedOn(quota.day)
    BY <1>1 DEF UsedOn
  <2> QED BY <1>1, <2>3, <2>4 DEF GateInv, QuotaKept
<1>9. Between' = Between
  BY <1>1 DEF Between
<1> QED BY <1>1, <1>3, <1>5, <1>6, <1>7, <1>8, <1>9, TenantStays DEF GateInv

LEMMA GateInvInit ==
    GateInit => GateInv
<1> SUFFICES ASSUME GateInit PROVE GateInv
  OBVIOUS
<1>1. /\ clock = 0 /\ entries = <<>> /\ call = [r \in Calls |-> New]
      /\ endpoint = [count |-> 0, reset |-> 0] /\ tier = [count |-> 0, reset |-> 0]
      /\ quota = [count |-> 0, day |-> 0] /\ used = {} /\ raced = FALSE
      /\ stored = {} /\ copy = NoCopy /\ scan = [x \in GateReaders |-> NoScan] /\ overlap = FALSE
  BY DEF GateInit
<1>2. /\ New \in GateCalls /\ New.pc = "new" /\ New.owner = "none" /\ New.answer = "none"
      /\ New.since = 0
  BY DEF New, GateCalls, GateAnswers
<1>3. /\ call \in [Calls -> GateCalls]
      /\ \A r \in Calls : /\ call[r].pc = "new" /\ call[r].owner = "none" /\ call[r].answer = "none"
                          /\ call[r].since = 0 /\ r # "none"
  BY <1>1, <1>2, GateAssumption
<1>4. GateTypes
  <2>1. clock \in 0 .. MaxClock
    BY <1>1, GateAssumption
  <2>2. entries \in Seq(GateEntries)
    BY <1>1
  <2>3. endpoint \in Buckets /\ tier \in Buckets /\ quota \in [count : Nat, day : Nat]
    BY <1>1 DEF Buckets
  <2> QED BY <1>1, <1>3, <2>1, <2>2, <2>3 DEF GateTypes
<1>5. EntriesSound
  <2>1. Len(entries) = 0 /\ DOMAIN entries = {}
    BY <1>1
  <2> QED BY <2>1, GateAssumption DEF EntriesSound
<1>6. CallsSound /\ DuplicatesAgree
  BY <1>1, <1>3 DEF CallsSound, CallSound, DuplicatesAgree, Stages
<1>7. \A r \in Calls : call[r].owner # r
  BY <1>3
<1>8. EntryInForce /\ NoTwinWithinTtl
  BY <1>7 DEF EntryInForce, NoTwinWithinTtl, Runs
<1>9. QuotaKept
  <2>1. \A n \in Nat \ {0} : 0 \div n \in Nat
    OBVIOUS
  <2>2. Today \in Nat
    BY <1>1, <2>1, GateAssumption DEF Today
  <2>3. UsedOn(quota.day) = {}
    BY <1>1 DEF UsedOn
  <2>4. IsFiniteSet(used) /\ Cardinality(UsedOn(quota.day)) = 0
    BY <1>1, <2>3, FS_EmptySet
  <2> QED BY <1>1, <2>2, <2>4, GateAssumption DEF QuotaKept
<1>10. Between = {} /\ Holds = 0
  <2>1. stored \cap Owned = {}
    BY <1>1
  <2> QED BY <1>3, <2>1, FS_EmptySet DEF Between, Holds
<1>11. NoCopy \in [snap : SUBSET OnFile, until : Nat] /\ NoCopy.until = 0 /\ NoScan \in Scans /\ ~NoScan.on
  BY DEF NoCopy, NoScan, Scans
<1>12. FileTypes
  BY <1>1, <1>11 DEF FileTypes
<1>13. CopiesTrue
  BY <1>1, <1>3, <1>11 DEF CopiesTrue
<1>14. TenantKept
  BY <1>10, GateAssumption DEF TenantKept
<1> QED BY <1>4, <1>5, <1>6, <1>8, <1>9, <1>12, <1>13, <1>14 DEF GateInv

LEMMA GateInvStep ==
    ASSUME GateInv, [GateNext]_gateVars
    PROVE  GateInv'
<1>1. ASSUME NEW r \in Calls, Enter(r) \/ CallStep(r) PROVE GateInv'
  BY <1>1, EnterKeeps, ReplayKeeps, RefuseCallKeeps, LimitKeeps, TenantCheckKeeps, TenantReadKeeps,
     ConsumeKeeps, CreateKeeps, CreatedKeeps, ThrowKeeps DEF CallStep
<1>2. CASE GateTick
  BY <1>2, GateTickKeeps
<1>3. CASE UNCHANGED gateVars
  <2>1. UNCHANGED <<clock, entries, call, endpoint, tier, quota, stored, copy, scan, overlap, used, raced>>
    BY <1>3 DEF gateVars, fileVars
  <2>2. /\ GateTypes' /\ EntriesSound' /\ CallsSound' /\ DuplicatesAgree' /\ EntryInForce'
        /\ NoTwinWithinTtl' /\ QuotaKept' /\ Between' = Between
    BY <2>1, RequestsStay
  <2>3. FileTypes' /\ CopiesTrue' /\ TenantKept'
    BY <2>1, <2>2, TenantStays
  <2> QED BY <2>2, <2>3 DEF GateInv
<1>4. ASSUME NEW x \in Listers, List(x) PROVE GateInv'
  BY <1>4, ListKeeps
<1>5. ASSUME NEW x \in Others, OtherCreates(x) PROVE GateInv'
  BY <1>5, OtherCreatesKeeps
<1> QED BY <1>1, <1>2, <1>3, <1>4, <1>5 DEF GateNext

LEMMA GateInvImplies ==
    ASSUME GateInv
    PROVE  RequestsAdmittedOnce
<1>1. GateTypeOK
  <2>1. stored \cup copy.snap \subseteq Owned \cup Others
    BY DEF GateInv, FileTypes, OnFile
  <2>2. /\ clock \in 0 .. MaxClock /\ endpoint.count \in Nat /\ tier.count \in Nat
        /\ quota.count \in 0 .. DailyLimit
    BY GateAssumption DEF GateInv, GateTypes, Buckets, QuotaKept
  <2>3. ASSUME NEW r \in Calls
        PROVE  /\ call[r].pc \in {"new", "waiting", "gate", "tenant", "reading", "quota", "handler",
                                "written", "done"}
               /\ call[r].answer \in GateAnswers
    <3>1. call[r] \in GateCalls
      BY GateFacts
    <3> QED BY <3>1 DEF GateCalls, Stages
  <2> QED BY <2>1, <2>2, <2>3 DEF GateTypeOK, GateInv, EntriesSound
<1>2. QuotaCountsAdmitted
  BY DEF GateInv, QuotaKept, QuotaCountsAdmitted, UsedOn
<1>3. TenantLimitExceededByRace
  BY DEF GateInv, TenantKept, TenantLimitExceededByRace, Holds
<1> QED BY <1>1, <1>2, <1>3 DEF RequestsAdmittedOnce, GateInv

\* For any requests, fingerprints, times to live and budgets: a request runs beside an equal
\* one only after the first one's entry has expired, been evicted or been dropped by a throw; a
\* duplicate gets the answer of the request it repeats; the quota counts the admitted requests
\* of its day; and the tenant's limit is passed only by requests in flight together or after
\* a read of the store that overlapped a write.
THEOREM RequestsRunOnce == GateSpec => []RequestsAdmittedOnce
<1>1. GateInit => GateInv
  BY GateInvInit
<1>2. GateInv /\ [GateNext]_gateVars => GateInv'
  BY GateInvStep
<1>3. GateInv => RequestsAdmittedOnce
  BY GateInvImplies
<1> QED BY <1>1, <1>2, <1>3, PTL DEF GateSpec
==============================================================================
