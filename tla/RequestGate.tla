----------------------------- MODULE RequestGate -----------------------------
(***************************************************************************)
(* What a credential request meets before its handler (server/src/app.js): *)
(* the deduplication of identical requests (middleware/dedupe.js), the     *)
(* endpoint and tier budgets of the rate limiter (rate-limiter.js), the    *)
(* tenant's credential limit, which is compared with a copy of the whole   *)
(* store that readCredentials keeps for a while (storage.js), the daily    *)
(* quota (quota.js), and the handler, whose answer is also the answer of   *)
(* every duplicate that waited for it.                                     *)
(*                                                                         *)
(* All requests are creations of one tenant and one client, so that they   *)
(* share every budget; those with the same fingerprint are duplicates and  *)
(* ask for the same credential.  Listings read the store, and the other    *)
(* tenants write to it.                                                    *)
(***************************************************************************)
EXTENDS Integers, Sequences, FiniteSets, Selections

CONSTANTS
  Calls, Fingerprint,        \* requests, and request -> fingerprint
  DedupeTtl, MaxEntries,     \* of the deduplication map
  Window, EndpointLimit, TierLimit,
  Day, DailyLimit,
  MaxCredentials,
  Listers, Others,           \* requests that list; credentials of other tenants
  CacheTtl,                  \* TTL_MS of readCredentials
  MaxClock                   \* bound

ASSUME GateAssumption ==
  /\ IsFiniteSet(Calls) /\ "none" \notin Calls
  /\ DedupeTtl \in Nat /\ MaxEntries \in Nat /\ Window \in Nat /\ EndpointLimit \in Nat
  /\ TierLimit \in Nat /\ Day \in Nat \ {0} /\ DailyLimit \in Nat /\ MaxCredentials \in Nat
  /\ MaxClock \in Nat /\ CacheTtl \in Nat
  /\ IsFiniteSet(Others) /\ \A c \in Calls : Fingerprint[c] \notin Others
  /\ Calls \cap Listers = {}

VARIABLES
  clock,
  entries,    \* the deduplication Map in insertion order
  call,       \* request -> where it is and what it was answered
  endpoint, tier,     \* rate limiter buckets: [count, reset]
  quota,      \* [count, day]
  stored,     \* the credentials in the store, of every tenant
  copy,       \* readCredentials' copy of them: [snap, until]
  scan,       \* reads of the file under way: [on, snap, at]
  used,       \* history: requests that consumed quota, with the day
  raced,      \* history: two requests were past the tenant's check together
  overlap     \* history: the file was written while a read of it was under way

fileVars == <<stored, copy, scan, overlap>>
gateVars == <<clock, entries, call, endpoint, tier, quota, fileVars, used, raced>>

GateAnswers == {"none", "created", "limited", "refused", "error"}
Owned == {Fingerprint[c] : c \in Calls}     \* the tenant's own credentials
GateReaders == Calls \cup Listers
NoCopy == [snap |-> {}, until |-> 0]
NoScan == [on |-> FALSE, snap |-> {}, at |-> 0]
New == [pc |-> "new", since |-> 0, owner |-> "none", answer |-> "none",
        excused |-> FALSE]

GateTypeOK ==
  /\ clock \in 0 .. MaxClock
  /\ Len(entries) <= MaxEntries + 1
  /\ \A i, k \in DOMAIN entries : entries[i].key = entries[k].key => i = k
  /\ \A r \in Calls : /\ call[r].pc \in {"new", "waiting", "gate", "tenant", "reading",
                                         "quota", "handler", "written", "done"}
                      /\ call[r].answer \in GateAnswers
  /\ endpoint.count \in Nat /\ tier.count \in Nat
  /\ quota.count \in 0 .. DailyLimit
  /\ stored \cup copy.snap \subseteq Owned \cup Others

GateInit ==
  /\ clock = 0
  /\ entries = <<>>
  /\ call = [r \in Calls |-> New]
  /\ endpoint = [count |-> 0, reset |-> 0]
  /\ tier = [count |-> 0, reset |-> 0]
  /\ quota = [count |-> 0, day |-> 0]
  /\ stored = {} /\ copy = NoCopy /\ scan = [x \in GateReaders |-> NoScan]
  /\ used = {} /\ raced = FALSE /\ overlap = FALSE

-----------------------------------------------------------------------------
(* middleware/dedupe.js *)
Unexpired(e) == e.expires > clock

\* prune: expired entries, then the oldest ones beyond maxEntries
Pruned ==
  LET live == Filtered(entries, {i \in DOMAIN entries : Unexpired(entries[i])})
      over == IF Len(live) > MaxEntries THEN Len(live) - MaxEntries ELSE 0
  IN SubSeq(live, over + 1, Len(live))

\* Owners whose entry prune evicts before its time
Evicted == {e.owner : e \in {entries[i] : i \in {k \in DOMAIN entries :
              Unexpired(entries[k]) /\ \A j \in DOMAIN Pruned : Pruned[j] # entries[k]}}}

\* A live entry is waited for; otherwise the request becomes the entry's owner
Enter(r) ==
  LET same == {j \in DOMAIN Pruned : Pruned[j].key = Fingerprint[r]}
  IN /\ call[r].pc = "new"
     /\ IF same # {}
        THEN /\ entries' = Pruned
             /\ call' = [c \in Calls |->
                  IF c = r THEN [call[r] EXCEPT !.pc = "waiting", !.since = clock,
                                   !.owner = Pruned[CHOOSE j \in same : TRUE].owner]
                  ELSE [call[c] EXCEPT !.excused = @ \/ c \in Evicted]]
        ELSE /\ entries' = Append(Pruned, [key |-> Fingerprint[r], owner |-> r,
                                           expires |-> clock + DedupeTtl])
             /\ call' = [c \in Calls |->
                  IF c = r THEN [call[r] EXCEPT !.pc = "gate", !.owner = r, !.since = clock]
                  ELSE [call[c] EXCEPT !.excused = @ \/ c \in Evicted]]
     /\ UNCHANGED <<clock, endpoint, tier, quota, fileVars, used, raced>>

\* res.end resolves the promise the duplicates await
Answer(r, a) ==
  call' = [call EXCEPT ![r].pc = "done", ![r].answer = a]

Mut_Replay(r) ==
  /\ call[r].pc = "waiting" /\ call[call[r].owner].answer \in {"created", "limited"}
  /\ Answer(r, call[call[r].owner].answer)
  /\ UNCHANGED <<clock, entries, endpoint, tier, quota, fileVars, used, raced>>

Mut_ReplayEarly(r) ==
  /\ call[r].pc = "waiting"
  /\ Answer(r, "created")
  /\ UNCHANGED <<clock, entries, endpoint, tier, quota, fileVars, used, raced>>

Replay(r) ==
  /\ call[r].pc = "waiting" /\ call[call[r].owner].answer # "none"
  /\ Answer(r, call[call[r].owner].answer)
  /\ UNCHANGED <<clock, entries, endpoint, tier, quota, fileVars, used, raced>>

\* The catch block: the entry under the request's key is dropped, whoever's it is.
\* Every awaited call may throw, the audit log's append after the write included
Throw(r) ==
  /\ call[r].pc \in {"gate", "reading", "handler", "written"}
  /\ entries' = Filtered(entries, {i \in DOMAIN entries : entries[i].key # Fingerprint[r]})
  /\ call' = [call EXCEPT ![r].pc = "done", ![r].answer = "error", ![r].excused = TRUE]
  /\ scan' = [scan EXCEPT ![r] = NoScan]
  /\ UNCHANGED <<clock, endpoint, tier, quota, stored, copy, overlap, used, raced>>

\* Answers sent before the limiter (DDoS control, headers, decryption, nonce, signature)
\* and by the handler before it writes (authorisation, content type, size, schema)
RefuseCall(r) ==
  /\ call[r].pc \in {"gate", "handler"}
  /\ Answer(r, "refused")
  /\ UNCHANGED <<clock, entries, endpoint, tier, quota, fileVars, used, raced>>

-----------------------------------------------------------------------------
(* rate-limiter.js: a fixed window per bucket *)
Spent(b, len) == IF b.count = 0 \/ clock >= b.reset
                 THEN [count |-> 1, reset |-> clock + len]
                 ELSE [b EXCEPT !.count = @ + 1]

\* The first request of a tier window passes without a look at its limit
TierAllows == tier.count = 0 \/ clock >= tier.reset \/ tier.count + 1 <= TierLimit

Limit(r) ==
  /\ call[r].pc = "gate"
  /\ endpoint' = Spent(endpoint, Window)
  /\ LET open == endpoint'.count <= EndpointLimit
     IN /\ tier' = IF open THEN Spent(tier, Window) ELSE tier
        /\ IF open /\ TierAllows THEN call' = [call EXCEPT ![r].pc = "tenant"]
           ELSE Answer(r, "limited")
  /\ UNCHANGED <<clock, entries, quota, fileVars, used, raced>>

-----------------------------------------------------------------------------
(* storage.js: a copy in force is answered from; otherwise the file is read, and what
   was read becomes the copy, dated at the start of the read, whatever happened since *)
CopyInForce == clock < copy.until

ReadStarts(x) == scan' = [scan EXCEPT ![x] = [on |-> TRUE, snap |-> stored, at |-> clock]]
ReadEnds(x) ==
  /\ copy' = [snap |-> scan[x].snap, until |-> scan[x].at + CacheTtl]
  /\ scan' = [scan EXCEPT ![x] = NoScan]

\* The tenant's limit against the credentials of every tenant: the tenant's id is an
\* option that readCredentials does not have.  They are counted here and created later
Compare(r, seen) ==
  IF Cardinality(seen) >= MaxCredentials
  THEN Answer(r, "limited") /\ UNCHANGED raced
  ELSE /\ call' = [call EXCEPT ![r].pc = "quota"]
       /\ raced' = (raced \/ \E c \in Calls : call[c].pc \in {"quota", "handler"})

TenantCheck(r) ==
  /\ call[r].pc = "tenant"
  /\ \/ CopyInForce /\ Compare(r, copy.snap) /\ UNCHANGED scan
     \/ /\ ~CopyInForce /\ ReadStarts(r)
        /\ call' = [call EXCEPT ![r].pc = "reading"] /\ UNCHANGED raced
  /\ UNCHANGED <<clock, entries, endpoint, tier, quota, stored, copy, overlap, used>>

TenantRead(r) ==
  /\ call[r].pc = "reading"
  /\ ReadEnds(r) /\ Compare(r, scan[r].snap)
  /\ UNCHANGED <<clock, entries, endpoint, tier, quota, stored, overlap, used>>

\* A listing that finds no copy in force
List(x) ==
  /\ IF scan[x].on THEN ReadEnds(x)
     ELSE ~CopyInForce /\ ReadStarts(x) /\ UNCHANGED copy
  /\ UNCHANGED <<clock, entries, call, endpoint, tier, quota, stored, overlap, used, raced>>

\* createAndPersistCredential reads the same way, under the lock of the writers
Base == IF CopyInForce THEN copy.snap ELSE stored
Persist(x) ==
  /\ stored' = Base \cup {x}
  /\ copy' = NoCopy
  /\ overlap' = (overlap \/ \E y \in GateReaders : scan[y].on)
  /\ UNCHANGED scan

OtherCreates(x) ==
  /\ x \notin Base
  /\ Persist(x)
  /\ UNCHANGED <<clock, entries, call, endpoint, tier, quota, used, raced>>

-----------------------------------------------------------------------------
(* quota.js, and the handler of POST /credentials *)
Today == clock \div Day

\* QuotaTracker.consume: the counter rolls over when the day has passed, and a
\* blocked request is not counted
Consume(r) ==
  /\ call[r].pc = "quota"
  /\ LET q == IF Today # quota.day THEN [count |-> 0, day |-> Today] ELSE quota
         ok == q.count + 1 <= DailyLimit
     IN /\ quota' = IF ok THEN [q EXCEPT !.count = @ + 1] ELSE q
        /\ used' = IF ok THEN used \cup {<<r, Today>>} ELSE used
        /\ IF ok THEN call' = [call EXCEPT ![r].pc = "handler"] ELSE Answer(r, "limited")
  /\ UNCHANGED <<clock, entries, endpoint, tier, fileVars, raced>>

\* A credential that exists is refused with a 409
Create(r) ==
  /\ call[r].pc = "handler"
  /\ IF Fingerprint[r] \notin Base
     THEN Persist(Fingerprint[r]) /\ call' = [call EXCEPT ![r].pc = "written"]
     ELSE /\ Answer(r, "refused")
          /\ copy' = IF CopyInForce THEN copy ELSE [snap |-> stored, until |-> clock + CacheTtl]
          /\ UNCHANGED <<stored, scan, overlap>>
  /\ UNCHANGED <<clock, entries, endpoint, tier, quota, used, raced>>

\* The 201 response, once the write is in the audit log
Created(r) ==
  /\ call[r].pc = "written"
  /\ Answer(r, "created")
  /\ UNCHANGED <<clock, entries, endpoint, tier, quota, fileVars, used, raced>>

GateTick ==
  /\ clock < MaxClock
  /\ clock' = clock + 1
  /\ UNCHANGED <<entries, call, endpoint, tier, quota, fileVars, used, raced>>

CallStep(r) ==
  \/ Replay(r) \/ RefuseCall(r) \/ Limit(r) \/ TenantCheck(r) \/ TenantRead(r) \/ Consume(r)
  \/ Create(r) \/ Created(r) \/ Throw(r)

GateNext ==
  \/ \E r \in Calls : Enter(r) \/ CallStep(r)
  \/ \E x \in Listers : List(x)
  \/ \E x \in Others : OtherCreates(x)
  \/ GateTick

\* The handler of a request that was let in ends, by a response or a throw
GateFairness == \A r \in Calls : WF_gateVars(CallStep(r))

GateSpec == GateInit /\ [][GateNext]_gateVars /\ GateFairness

-----------------------------------------------------------------------------
Owners(k) == {r \in Calls : call[r].owner = r /\ Fingerprint[r] = k}

\* Two requests with one fingerprint are not both run within the time to live of
\* the first, unless its entry was evicted or a request of that fingerprint
\* threw: the retry of a credential creation does not create twice.
NoTwinWithinTtl ==
  \A r, s \in Calls :
    /\ r # s /\ Fingerprint[r] = Fingerprint[s]
    /\ call[r].owner = r /\ call[s].owner = s
    /\ call[r].since <= call[s].since /\ call[s].since < call[r].since + DedupeTtl
    => \/ call[r].excused \/ call[s].excused
       \/ \E c \in Owners(Fingerprint[r]) : call[c].answer = "error"

\* A duplicate is told exactly what the request it waited for was told, and
\* never before that one has its answer.
DuplicatesAgree ==
  \A r \in Calls : call[r].answer # "none" => call[r].answer = call[call[r].owner].answer

\* Every request let in is answered, the waiting duplicates included: again and again
\* none is under way, and a request that was let in never becomes new again.
CallsAnswered == []<>(\A r \in Calls : call[r].pc \in {"new", "done"})

\* The quota's counter is the number of requests let through today: a request
\* that another budget refused, or a duplicate, costs nothing.
QuotaCountsAdmitted ==
  quota.count = Cardinality({u \in used : u[2] = quota.day})

\* A tenant holds more credentials than its limit only if two of its requests were
\* between the check and the write together, or a read of the store, a listing's
\* included, was under way while the store was written: such a read may put back a
\* copy from before the write, and for CacheTtl the check goes by it (storage.js:420).
TenantLimitExceededByRace ==
  ~raced /\ ~overlap => Cardinality(stored \cap Owned) <= MaxCredentials

\* A request runs beside an equal one only once the first one's entry has expired or been
\* evicted or one of them threw, a duplicate gets the answer of the request it repeats, the
\* quota counts the admitted requests of the day, and a tenant passes its limit only by
\* requests in flight together or by a read of the store that overlapped a write
\* (middleware/dedupe.js, quota.js, storage.js, app.js).
RequestsAdmittedOnce ==
  /\ GateTypeOK
  /\ NoTwinWithinTtl /\ DuplicatesAgree
  /\ QuotaCountsAdmitted /\ TenantLimitExceededByRace
=============================================================================
