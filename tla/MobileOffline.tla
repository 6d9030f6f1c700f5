---------------------------- MODULE MobileOffline ----------------------------
(***************************************************************************)
(* The mobile app's write queue (mobile/src/services/offline.ts).          *)
(* Mutations made offline are kept as one JSON array in AsyncStorage:      *)
(* enqueue and dequeue read it and write it back, and a sync reads it,     *)
(* executes its entries one after the other and writes back what is left.  *)
(* A sync starts when the device comes online and only one runs at a time; *)
(* enqueue and dequeue take no part in that.  A request may fail, get a    *)
(* conflict, or be applied and its answer lost; a call of the storage may  *)
(* reject, and the app may be killed.                                      *)
(***************************************************************************)
EXTENDS Integers, Sequences, Selections

CONSTANTS
  Mutations,          \* the mutations the user makes
  Removable,          \* bound: those the user may take out of the queue again
  Strategy,           \* conflictStrategy: "server-wins", "client-wins" or "merge"
  MaxSyncAttempts,    \* maxAttempts
  MaxMishaps          \* bound: times the app is killed or AsyncStorage rejects

ASSUME OfflineAssumption == MaxSyncAttempts \in Nat \ {0} /\ MaxMishaps \in Nat

VARIABLES
  stored,      \* the array in AsyncStorage: entries [id, attempts]
  making,      \* mutation -> [at, has]: its enqueue, or the user's dequeue
  online,
  sync,        \* [at, todo, left, done]: the sync that holds the `syncing` flag
  onServer,    \* history: mutation -> times the backend applied it
  blind,       \* history: mutation -> times it was applied and nobody learned it
  settled,     \* history: mutations synced or dropped, and written off, or removed
  raced,       \* history: mutations whose enqueue or dequeue overlapped another
               \* read-modify-write of the array
  doubled,     \* history: mutations an enqueue or dequeue had read while a sync had them
  mishaps

offlineVars == <<stored, making, online, sync, onServer, blind, settled, raced, doubled,
                 mishaps>>

\* done: ids the sync has nothing more to do for, still in the array
NoSync == [at |-> "idle", todo |-> <<>>, left |-> <<>>, done |-> {}]
Untouched == [at |-> "new", has |-> <<>>]
IdsOf(q) == {q[i].id : i \in DOMAIN q}
Syncing == sync.at \in {"asking", "retrying"}
Reading == {m \in Mutations : making[m].at \in {"adding", "removing"}}

OfflineTypeOK ==
  /\ \A i \in DOMAIN stored : /\ stored[i].id \in Mutations
                               /\ stored[i].attempts \in 0 .. MaxSyncAttempts - 1
  /\ \A m \in Mutations : making[m].at \in {"new", "adding", "made", "removing", "removed", "lost"}
  /\ online \in BOOLEAN /\ sync.at \in {"idle", "read", "asking", "retrying"}
  /\ settled \cup raced \cup doubled \subseteq Mutations /\ mishaps \in 0 .. MaxMishaps

OfflineInit ==
  /\ stored = <<>> /\ making = [m \in Mutations |-> Untouched]
  /\ online \in BOOLEAN /\ sync = NoSync
  /\ onServer = [m \in Mutations |-> 0] /\ blind = [m \in Mutations |-> 0]
  /\ settled = {} /\ raced = {} /\ doubled = {} /\ mishaps = 0

-----------------------------------------------------------------------------
(* enqueue and dequeue *)

\* readQueue resolves; somebody else may be between his read and his write
Reads(m, from, at) ==
  /\ making[m].at = from
  /\ making' = [making EXCEPT ![m] = [at |-> at, has |-> stored]]
  /\ raced' = raced \cup (IF Reading # {} \/ Syncing THEN Reading \cup {m} ELSE {})
  /\ doubled' = doubled \cup (IF Syncing THEN IdsOf(stored) ELSE {})
  /\ UNCHANGED <<stored, online, sync, onServer, blind, settled, mishaps>>

EnqueueReads(m) == Reads(m, "new", "adding")
DequeueReads(m) == m \in Removable /\ Reads(m, "made", "removing")

EnqueueWrites(m) ==
  /\ making[m].at = "adding"
  /\ stored' = Append(making[m].has, [id |-> m, attempts |-> 0])
  /\ making' = [making EXCEPT ![m] = [at |-> "made", has |-> <<>>]]
  /\ UNCHANGED <<online, sync, onServer, blind, settled, raced, doubled, mishaps>>

DequeueWrites(m) ==
  /\ making[m].at = "removing"
  /\ LET has == making[m].has
     IN stored' = Filtered(has, {i \in DOMAIN has : has[i].id # m})
  /\ making' = [making EXCEPT ![m] = [at |-> "removed", has |-> <<>>]]
  /\ settled' = settled \cup {m}
  /\ UNCHANGED <<online, sync, onServer, blind, raced, doubled, mishaps>>

Mishap == mishaps < MaxMishaps /\ mishaps' = mishaps + 1

\* What is between its read and its write ends there: the user was not told that the
\* mutation is queued, or that it is removed
LetGo(hand) ==
  CASE hand.at = "adding"   -> [at |-> "lost", has |-> <<>>]
    [] hand.at = "removing" -> [at |-> "made", has |-> <<>>]
    [] OTHER                -> hand

\* setItem rejects, and enqueue or dequeue with it; the array is as it was
WriteRejects(m) ==
  /\ m \in Reading /\ Mishap
  /\ making' = [making EXCEPT ![m] = LetGo(@)]
  /\ UNCHANGED <<stored, online, sync, onServer, blind, settled, raced, doubled>>

-----------------------------------------------------------------------------
(* Connectivity and syncQueue *)

\* Coming online starts a sync, unless one is running
Online ==
  /\ ~online /\ online' = TRUE
  /\ sync' = IF sync.at = "idle" THEN [NoSync EXCEPT !.at = "read"] ELSE sync
  /\ UNCHANGED <<stored, making, onServer, blind, settled, raced, doubled, mishaps>>

Offline ==
  /\ online /\ online' = FALSE
  /\ UNCHANGED <<stored, making, sync, onServer, blind, settled, raced, doubled, mishaps>>

\* NetInfo says no connection, or the queue is read
SyncReads ==
  /\ sync.at = "read"
  /\ \/ ~online /\ sync' = NoSync /\ UNCHANGED <<raced, doubled>>
     \/ /\ online /\ sync' = [sync EXCEPT !.at = "asking", !.todo = stored]
        /\ raced' = raced \cup Reading
        /\ doubled' = doubled \cup UNION {IdsOf(making[m].has) : m \in Reading}
  /\ UNCHANGED <<stored, making, online, onServer, blind, settled, mishaps>>

Entry == Head(sync.todo)
Busy(at) == sync.at = at /\ sync.todo # <<>>

\* The entry leaves the queue for good, once the sync has written it back
Done_ ==
  sync' = [sync EXCEPT !.at = "asking", !.todo = Tail(@), !.done = @ \cup {Entry.id}]

Kept(e) == sync' = [sync EXCEPT !.at = "asking", !.todo = Tail(@), !.left = Append(@, e)]

Mut_Again == Kept(Entry)

\* The catch block: kept with one attempt more, or dropped
Again ==
  IF Entry.attempts + 1 >= MaxSyncAttempts THEN Done_
  ELSE Kept([Entry EXCEPT !.attempts = @ + 1])

\* The backend applies the mutation and the answer arrives, or is lost
Applied ==
  /\ Busy("asking") \/ Busy("retrying")
  /\ online
  /\ onServer' = [onServer EXCEPT ![Entry.id] = @ + 1]
  /\ \/ Done_ /\ UNCHANGED blind
     \/ Again /\ blind' = [blind EXCEPT ![Entry.id] = @ + 1]
  /\ UNCHANGED <<stored, making, online, settled, raced, doubled, mishaps>>

\* The request fails without effect: no connection, an error status, or a second
\* conflict for the resolved body
Refused ==
  /\ Busy("asking") \/ Busy("retrying")
  /\ Again
  /\ UNCHANGED <<stored, making, online, onServer, blind, settled, raced, doubled, mishaps>>

\* 409: dropped, or executed again at once with the resolved body
Conflict ==
  /\ Busy("asking") /\ online
  /\ IF Strategy = "server-wins" THEN Done_ ELSE sync' = [sync EXCEPT !.at = "retrying"]
  /\ UNCHANGED <<stored, making, online, onServer, blind, settled, raced, doubled, mishaps>>

AllAsked == sync.at = "asking" /\ sync.todo = <<>>

Mut_SyncWrites ==
  /\ AllAsked
  /\ stored' = SelectSeq(sync.left, LAMBDA e : e.attempts = 0) /\ sync' = NoSync
  /\ settled' = settled \cup sync.done
  /\ UNCHANGED <<making, online, onServer, blind, raced, doubled, mishaps>>

\* What is left replaces the array
SyncWrites ==
  /\ AllAsked
  /\ stored' = sync.left /\ sync' = NoSync
  /\ settled' = settled \cup sync.done
  /\ UNCHANGED <<making, online, onServer, blind, raced, doubled, mishaps>>

\* What the sync had learned of the entries it read is gone: they are in the array yet
Taken == IdsOf(sync.todo) \cup IdsOf(sync.left) \cup sync.done
Unlearned == [m \in Mutations |-> IF m \in Taken THEN onServer[m] ELSE blind[m]]

\* NetInfo, getItem or the last setItem rejects: `finally` clears the flag, the hook
\* shows the error, and nothing is tried again before the next reconnect
SyncRejects ==
  /\ sync.at = "read" \/ AllAsked
  /\ Mishap
  /\ sync' = NoSync /\ blind' = Unlearned
  /\ UNCHANGED <<stored, making, online, onServer, settled, raced, doubled>>

\* The app is killed and started again
Kill ==
  /\ Mishap
  /\ making' = [m \in Mutations |-> LetGo(making[m])]
  /\ sync' = [NoSync EXCEPT !.at = IF online THEN "read" ELSE "idle"]
  /\ blind' = Unlearned
  /\ UNCHANGED <<stored, online, onServer, settled, raced, doubled>>

SyncStep == SyncReads \/ Applied \/ Refused \/ Conflict \/ SyncWrites

OfflineNext ==
  \/ \E m \in Mutations : \/ EnqueueReads(m) \/ EnqueueWrites(m)
                          \/ DequeueReads(m) \/ DequeueWrites(m) \/ WriteRejects(m)
  \/ Online \/ Offline \/ SyncStep \/ SyncRejects \/ Kill

\* A sync that runs goes on; nothing says that the device comes online again
OfflineFairness ==
  /\ WF_offlineVars(SyncStep)
  /\ \A m \in Mutations : WF_offlineVars(EnqueueWrites(m) \/ DequeueWrites(m))

OfflineSpec == OfflineInit /\ [][OfflineNext]_offlineVars /\ OfflineFairness

-----------------------------------------------------------------------------
\* A mutation the user was told is queued is in the array until it is synced, dropped or
\* removed, killed app and failed writes or not; only one whose own enqueue or dequeue
\* overlapped another read-modify-write may be missing (offline.ts:157-175, 246-289).
QueuedKept ==
  \A m \in Mutations \ raced :
    making[m].at \in {"made", "removing"} /\ m \notin settled => m \in IdsOf(stored)

\* The backend applies a mutation once, and once more for each time its answer was lost or
\* the sync ended before it wrote the array; only one an enqueue or dequeue read while a
\* sync had it may come back with their array (offline.ts:249-289).
AppliedOnceUnlessBlind ==
  \A m \in Mutations \ doubled : onServer[m] <= blind[m] + 1

\* What the user was told is queued is kept until it is settled, and is applied once,
\* and once more per answer nobody got (offline.ts).
OfflineWritesKept == OfflineTypeOK /\ QueuedKept /\ AppliedOnceUnlessBlind

QueueDrained ==
  \A m \in Mutations \ raced : making[m].at = "made" => m \in settled

\* While syncs that find the device online start again and again, every queued mutation
\* is synced, dropped or removed in the end (offline.ts:273-285).  There is no timer: only
\* coming online, or the app's start, starts one, and a device that stays online retries
\* nothing, whatever docs/mobile.md:305 says of back-off.
QueueDrains == []<>(sync.at = "asking") => []<>QueueDrained
=============================================================================
