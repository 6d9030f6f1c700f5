--------------------------- MODULE CredentialStore ---------------------------
(***************************************************************************)
(* The server's credential file (server/src/storage.js) and the expiry job *)
(* that rewrites it (server/src/expiry.js).  Requests change the file by a *)
(* read, a change and an atomic rename under a per-path promise-chain      *)
(* mutex; plain reads go through a short-lived cache and take no lock; the *)
(* job reads the file, sends its reminders and writes its whole snapshot   *)
(* back, without the lock.  Every await is a step boundary, a write may    *)
(* fail, and the server may restart at any of them.                        *)
(*                                                                         *)
(* A credential keeps the fields the requests contend for, and in `by' the *)
(* requests whose change the stored copy contains.                         *)
(***************************************************************************)
EXTENDS Integers, Sequences

CONSTANTS
  Creds, Requests,
  Readers,         \* handlers that only call readCredentials
  Jobs,            \* runs of the expiry job; with an interval they may overlap
  Reported,        \* credentials the ledger's "issued" events name
  MaxVersion,      \* bound: versions a client may expect
  MaxStoreFaults,  \* bound: restarts and failed writes
  MaxReads         \* bound: reads by the Readers

ASSUME StoreAssumption ==
  Creds # {} /\ MaxVersion \in Nat /\ MaxStoreFaults \in Nat /\ MaxReads \in Nat

Ops == {"create", "revoke", "suspend", "renew", "update"}
Unread == <<>>     \* no snapshot: a function on the empty set
AnyVersion == 0    \* no If-Match header and no version in the body

VARIABLES
  file,       \* the renamed credential file
  cached,     \* _credentialCacheMap entry, or Unread
  lock,       \* the promise chain of _fileLocks: its holder comes first
  request, reader, job,
  issued,     \* requests whose event the event store accepted
  crossed,    \* history: an unlocked actor's snapshot and a write overlapped
  storeFaults, reads

storeVars == <<file, cached, lock, request, reader, job, issued, crossed,
               storeFaults, reads>>

Absent == [status |-> "absent", suspended |-> FALSE, version |-> 0,
           notified |-> FALSE, by |-> {}]
Fresh  == [Absent EXCEPT !.status = "active", !.version = 1]
Record == [status : {"absent", "active", "revoked"}, suspended : BOOLEAN,
           version : Nat, notified : BOOLEAN,
           by : SUBSET Requests]
Snapshots == [Creds -> Record]

Idle == [pc |-> "idle", op |-> "none", on |-> CHOOSE c \in Creds : TRUE,
         expects |-> AnyVersion, has |-> Unread, out |-> "none"]
Jobless == [pc |-> "idle", has |-> Unread]

StoreTypeOK ==
  /\ file \in Snapshots
  /\ (cached = Unread \/ cached \in Snapshots)
  /\ \A i \in DOMAIN lock : lock[i] \in Requests
  /\ \A i, k \in DOMAIN lock : lock[i] = lock[k] => i = k
  /\ \A r \in Requests :
       /\ request[r].pc \in {"idle", "wait", "read", "load", "change", "renamed",
                             "event", "done"}
       /\ request[r].op \in Ops \cup {"none"} /\ request[r].on \in Creds
       /\ request[r].expects \in 0 .. MaxVersion
       /\ (request[r].has = Unread \/ request[r].has \in Snapshots)
  /\ \A j \in Jobs : job[j].pc \in {"idle", "load", "index", "dispatch",
                                    "renamed", "done"}
  /\ issued \subseteq Requests /\ crossed \in BOOLEAN
  /\ storeFaults \in 0 .. MaxStoreFaults
  /\ reads \in 0 .. MaxReads

StoreInit ==
  /\ file \in [Creds -> {Absent, Fresh}]
  /\ cached = Unread /\ lock = <<>>
  /\ request = [r \in Requests |-> Idle]
  /\ reader = [q \in Readers |-> Unread]
  /\ job = [j \in Jobs |-> Jobless]
  /\ issued = {} /\ crossed = FALSE /\ storeFaults = 0 /\ reads = 0

\* Some actor that takes no lock holds a snapshot it will cache or write
HeldOutside(js) ==
  (\E q \in Readers : reader[q] # Unread) \/ (\E j \in js : job[j].has # Unread)

Goto(r, pc) == request' = [request EXCEPT ![r].pc = pc]

-----------------------------------------------------------------------------
(* The change each operation makes to its credential, and its refusals *)
Refusal(r, snap) ==
  LET c == snap[request[r].on]
  IN CASE request[r].op = "create" /\ c.status # "absent" -> "duplicate"
       [] request[r].op # "create" /\ c.status = "absent" -> "missing"
       [] /\ request[r].op = "update" /\ c.status # "absent"
          /\ request[r].expects \notin {AnyVersion, c.version} -> "conflict"
       [] OTHER -> "none"

Revoked(c) == [c EXCEPT !.status = "revoked"]
Suspended(c) == [c EXCEPT !.suspended = TRUE]
Renewed(c) == [c EXCEPT !.suspended = FALSE]
Updated(c) == [c EXCEPT !.version = @ + 1]

Changed(r, snap) ==
  LET c == snap[request[r].on]
      n == CASE request[r].op = "create"  -> Fresh
             [] request[r].op = "revoke"  -> Revoked(c)
             [] request[r].op = "suspend" -> Suspended(c)
             [] request[r].op = "renew"   -> Renewed(c)
             [] request[r].op = "update"  -> Updated(c)
  IN [snap EXCEPT ![request[r].on] = [n EXCEPT !.by = @ \cup {r}]]

\* createEvent demands payload.credentialId, which only the body of a create
\* request can carry: the other operations build a payload without it
PayloadAccepted(r) == request[r].op = "create"

-----------------------------------------------------------------------------
(* A request *)
Arrive(r) ==
  /\ request[r].pc = "idle"
  /\ \E o \in Ops, c \in Creds, v \in 0 .. MaxVersion :
       /\ o # "update" => v = AnyVersion
       /\ request' = [request EXCEPT ![r].pc = "wait", ![r].op = o, ![r].on = c,
                                     ![r].expects = v]
  /\ lock' = Append(lock, r)
  /\ UNCHANGED <<file, cached, reader, job, issued, crossed, storeFaults, reads>>

Mut_Acquire(r) ==
  /\ request[r].pc = "wait"
  /\ Goto(r, "read")
  /\ UNCHANGED <<file, cached, lock, reader, job, issued, crossed, storeFaults, reads>>

\* The promise chain lets the oldest caller through when the one before it releases
Acquire(r) ==
  /\ request[r].pc = "wait" /\ Head(lock) = r
  /\ Goto(r, "read")
  /\ UNCHANGED <<file, cached, lock, reader, job, issued, crossed, storeFaults, reads>>

\* readCredentials: a live cache entry answers at once, otherwise the file is
\* read and, when the read returns, cached
ReadInLock(r) ==
  /\ request[r].pc = "read"
  /\ request' = [request EXCEPT
       ![r].pc = IF cached # Unread THEN "change" ELSE "load",
       ![r].has = IF cached # Unread THEN cached ELSE file]
  /\ crossed' = crossed
  /\ UNCHANGED <<file, cached, lock, reader, job, issued, storeFaults, reads>>

LoadInLock(r) ==
  /\ request[r].pc = "load"
  /\ cached' = request[r].has
  /\ Goto(r, "change")
  /\ UNCHANGED <<file, lock, reader, job, issued, crossed, storeFaults, reads>>

\* The finally block: whatever happened, the next caller gets the lock
Finish(r, out) ==
  /\ request' = [request EXCEPT ![r].pc = "done", ![r].out = out, ![r].has = Unread]
  /\ lock' = Tail(lock)

Refuse(r) ==
  /\ request[r].pc = "change"
  /\ Refusal(r, request[r].has) # "none"
  /\ Finish(r, Refusal(r, request[r].has))
  /\ UNCHANGED <<file, cached, reader, job, issued, crossed, storeFaults, reads>>

\* writeAtomic: temporary file, flush, rename.  Before the rename nothing shows
Rename(r) ==
  /\ request[r].pc = "change"
  /\ Refusal(r, request[r].has) = "none"
  /\ file' = Changed(r, request[r].has)
  /\ request' = [request EXCEPT ![r].pc = "renamed", ![r].has = Unread]
  /\ crossed' = (crossed \/ HeldOutside(Jobs))
  /\ UNCHANGED <<cached, lock, reader, job, issued, storeFaults, reads>>

WriteFails(r) ==
  /\ request[r].pc = "change" /\ storeFaults < MaxStoreFaults
  /\ Refusal(r, request[r].has) = "none"
  /\ Finish(r, "error")
  /\ storeFaults' = storeFaults + 1
  /\ UNCHANGED <<file, cached, reader, job, issued, crossed, reads>>

\* The end of writeCredentials, once the rename has returned
DropCache(r) ==
  /\ request[r].pc = "renamed"
  /\ cached' = Unread
  /\ Goto(r, "event")
  /\ UNCHANGED <<file, lock, reader, job, issued, crossed, storeFaults, reads>>

\* _appendLifecycleEvent swallows every failure, the payload check's included
AppendEvent(r) ==
  /\ request[r].pc = "event"
  /\ issued' \in {issued} \cup {issued \cup {r} : x \in {t \in {r} : PayloadAccepted(t)}}
  /\ Finish(r, "ok")
  /\ UNCHANGED <<file, cached, reader, job, crossed, storeFaults, reads>>

-----------------------------------------------------------------------------
(* Handlers that only read *)
StartRead(q) ==
  /\ reader[q] = Unread /\ cached = Unread /\ reads < MaxReads
  /\ reader' = [reader EXCEPT ![q] = file]
  /\ reads' = reads + 1
  /\ UNCHANGED <<file, cached, lock, request, job, issued, crossed, storeFaults>>

FinishRead(q) ==
  /\ reader[q] # Unread
  /\ cached' = reader[q]
  /\ reader' = [reader EXCEPT ![q] = Unread]
  /\ UNCHANGED <<file, lock, request, job, issued, crossed, storeFaults, reads>>

\* CREDENTIAL_CACHE_TTL_MS after the read began
CacheExpires ==
  /\ cached # Unread
  /\ cached' = Unread
  /\ UNCHANGED <<file, lock, request, reader, job, issued, crossed, storeFaults, reads>>

-----------------------------------------------------------------------------
(* The expiry job *)
JobReads(j) ==
  /\ job[j].pc = "idle"
  /\ job' = [job EXCEPT ![j] = [pc |-> IF cached # Unread THEN "index" ELSE "load",
                                has |-> IF cached # Unread THEN cached ELSE file]]
  /\ crossed' = (crossed \/ cached \notin {Unread, file})
  /\ UNCHANGED <<file, cached, lock, request, reader, issued, storeFaults, reads>>

JobLoads(j) ==
  /\ job[j].pc = "load"
  /\ cached' = job[j].has
  /\ job' = [job EXCEPT ![j].pc = "index"]
  /\ UNCHANGED <<file, lock, request, reader, issued, crossed, storeFaults, reads>>

\* upsertCredential of every credential a ledger event names: a known one is
\* merged with fields that are not modelled, an unknown one is added
JobIndexes(j) ==
  /\ job[j].pc = "index"
  /\ \E seen \in SUBSET Reported :
       job' = [job EXCEPT ![j] =
         [pc |-> "dispatch",
          has |-> [c \in Creds |-> IF c \in seen /\ @.has[c].status = "absent"
                                   THEN Fresh ELSE @.has[c]]]]
  /\ UNCHANGED <<file, cached, lock, request, reader, issued, crossed, storeFaults, reads>>

\* The reminders have been sent; their credentials are marked and the whole
\* snapshot is written back without _acquireFileLock
JobWrites(j) ==
  /\ job[j].pc = "dispatch"
  /\ \E told \in SUBSET {c \in Creds : job[j].has[c].status # "absent"} :
       file' = [c \in Creds |-> [job[j].has[c] EXCEPT !.notified = @ \/ c \in told]]
  /\ job' = [job EXCEPT ![j] = [pc |-> "renamed", has |-> Unread]]
  /\ crossed' = (crossed \/ HeldOutside(Jobs \ {j})
                         \/ \E r \in Requests : request[r].has # Unread)
  /\ UNCHANGED <<cached, lock, request, reader, issued, storeFaults, reads>>

JobDropsCache(j) ==
  /\ job[j].pc = "renamed"
  /\ cached' = Unread
  /\ job' = [job EXCEPT ![j] = [pc |-> "done", has |-> Unread]]
  /\ UNCHANGED <<file, lock, request, reader, issued, crossed, storeFaults, reads>>

\* Only the file and the event log outlive the process.  The orphan a crash
\* leaves behind has a 12-digit suffix and recoverOrphanedFile looks for 6
Restart ==
  /\ storeFaults < MaxStoreFaults
  /\ storeFaults' = storeFaults + 1
  /\ cached' = Unread /\ lock' = <<>>
  /\ request' = [r \in Requests |->
       IF request[r].pc \in {"idle", "done"} THEN request[r]
       ELSE [request[r] EXCEPT !.pc = "done", !.out = "lost", !.has = Unread]]
  /\ reader' = [q \in Readers |-> Unread]
  /\ job' = [j \in Jobs |-> IF job[j].pc = "idle" THEN Jobless
                            ELSE [pc |-> "done", has |-> Unread]]
  /\ UNCHANGED <<file, issued, crossed, reads>>

RequestStep(r) ==
  \/ Acquire(r) \/ ReadInLock(r) \/ LoadInLock(r) \/ Refuse(r) \/ Rename(r)
  \/ WriteFails(r) \/ DropCache(r) \/ AppendEvent(r)

JobStep(j) == JobReads(j) \/ JobLoads(j) \/ JobIndexes(j) \/ JobWrites(j) \/ JobDropsCache(j)

StoreNext ==
  \/ \E r \in Requests : Arrive(r) \/ RequestStep(r)
  \/ \E q \in Readers : StartRead(q) \/ FinishRead(q)
  \/ \E j \in Jobs : JobStep(j)
  \/ CacheExpires \/ Restart

\* Every promise of a handler that has begun is settled by the event loop
StoreFairness == \A r \in Requests : WF_storeVars(RequestStep(r))

StoreSpec == StoreInit /\ [][StoreNext]_storeVars /\ StoreFairness

-----------------------------------------------------------------------------
ConfirmedChangesKept ==
  \A r \in Requests : request[r].out = "ok" => r \in file[request[r].on].by

\* A change confirmed to its client stays in the file through failed writes and
\* restarts, unless a snapshot of an actor that takes no lock overlapped a write:
\* the overlap is the only way to the "lost-update race" of storage.js.
LostOnlyByOverlap == ~crossed => ConfirmedChangesKept

\* Two updates that expect the same version are not both confirmed, the version
\* check being made on what the lock's holder read.
OneUpdatePerVersion ==
  \A r, s \in Requests :
    /\ ~crossed /\ r # s /\ request[r].op = "update" /\ request[s].op = "update"
    /\ request[r].on = request[s].on /\ request[r].out = "ok" /\ request[s].out = "ok"
    => request[r].expects # request[s].expects \/ request[r].expects = AnyVersion

\* The event store never holds the event of a change that the file did not first
\* receive, whatever fails or restarts in between.
EventsFollowWrites == ~crossed => \A r \in issued : r \in file[request[r].on].by

\* A confirmed change is lost only when a reader or the expiry job overlapped it; of the
\* updates sent for one version one is accepted; a lifecycle event stands for a write
\* that was made (storage.js:394-460, 464-716; expiry.js:298).
StoreKeepsChanges ==
  StoreTypeOK /\ LostOnlyByOverlap /\ OneUpdatePerVersion /\ EventsFollowWrites

\* Every request that arrives is answered: no path leaves the lock held.
RequestsAnswered ==
  \A r \in Requests : request[r].pc = "wait" ~> request[r].pc = "done"

\* createAndPersistCredential's promise, for every actor of the server: no
\* "lost-update race" takes a confirmed change out of the file again.
NoLostUpdate == ConfirmedChangesKept
=============================================================================
