------------------------------- MODULE DidCache -------------------------------
(***************************************************************************)
(* DID documents read through Redis: the cache (server/src/did-cache.js)   *)
(* and SorobanClient.resolveDid (server/src/soroban.js), with writes to    *)
(* the ledger, invalidations, TTL expiry, cache warming and outages of     *)
(* Redis interleaved at every await.                                       *)
(*                                                                         *)
(* A document is its version on the ledger, 0 standing for "no document".  *)
(* A Redis command fails exactly while Redis is down.                      *)
(***************************************************************************)
EXTENDS Naturals, FiniteSets

CONSTANTS
  Dids, Readers,       \* DIDs, and concurrent resolveDid or warm calls
  CacheFailureThreshold,
  MaxVersion,          \* bound: ledger writes per DID
  MaxOutages           \* bound: times Redis goes down

\* What the constants may be
CacheConstants ==
  /\ Dids # {} /\ CacheFailureThreshold \in Nat \ {0}
  /\ MaxVersion \in Nat \ {0} /\ MaxOutages \in Nat

Empty == 0
Versions == 0 .. MaxVersion

VARIABLES
  redisUp, outages,
  available,           \* this.available
  cacheFailures,       \* this.consecutiveFailures, kept up to threshold + 1
  reconnectRuns,       \* a background _reconnect awaits client.connect()
  ledger,              \* DID -> version the contract holds
  entry,               \* DID -> version stored in Redis
  reader,              \* reader -> its step, its DID and the document it holds
  dirty,               \* history: DIDs written since they were last invalidated
  exposed              \* history: DIDs whose entry was dropped while a reader
                       \* was carrying an older document towards set()

cacheVars == <<redisUp, outages, available, cacheFailures, reconnectRuns,
               ledger, entry, reader, dirty, exposed>>

Idle == [step |-> "idle", did |-> CHOOSE d \in Dids : TRUE, doc |-> Empty,
         warms |-> FALSE]

CacheTypeOK ==
  /\ redisUp \in BOOLEAN /\ outages \in 0 .. MaxOutages
  /\ available \in BOOLEAN /\ cacheFailures \in 0 .. CacheFailureThreshold + 1
  /\ reconnectRuns \in BOOLEAN
  /\ ledger \in [Dids -> Versions] /\ entry \in [Dids -> Versions]
  /\ reader \in [Readers -> [step : {"idle", "get", "invoke", "set"},
                             did : Dids, doc : Versions, warms : BOOLEAN]]
  /\ dirty \subseteq Dids /\ exposed \subseteq Dids

\* connect() at boot, which never stops the server from starting
CacheInit ==
  /\ redisUp \in BOOLEAN /\ outages = 0
  /\ available = redisUp /\ cacheFailures = 0 /\ reconnectRuns = FALSE
  /\ ledger \in [Dids -> {0, 1}]
  /\ entry = [d \in Dids |-> Empty]
  /\ reader = [r \in Readers |-> Idle]
  /\ dirty = {} /\ exposed = {}

\* The usable getter
Usable == available /\ cacheFailures < CacheFailureThreshold

\* _recordFailure: the failure that reaches the threshold disables the cache
\* and starts the one background reconnect
RecordFailure ==
  LET n == cacheFailures + 1 IN
  /\ cacheFailures' = IF n > CacheFailureThreshold THEN CacheFailureThreshold + 1 ELSE n
  /\ IF n = CacheFailureThreshold
       THEN available' = FALSE /\ reconnectRuns' = TRUE
       ELSE UNCHANGED <<available, reconnectRuns>>

Succeeded == cacheFailures' = 0 /\ UNCHANGED <<available, reconnectRuns>>
Quiet == UNCHANGED <<cacheFailures, available, reconnectRuns>>

\* DIDs for which some reader carries a document older than the ledger's
Carried(readers) ==
  {d \in Dids : \E r \in Readers :
     /\ readers[r].did = d /\ readers[r].step = "set"
     /\ readers[r].doc # ledger[d]}

Drop(ds) ==
  /\ entry' = [d \in Dids |-> IF d \in ds THEN Empty ELSE entry[d]]
  /\ exposed' = (exposed \ ds) \cup (ds \cap Carried(reader))

-----------------------------------------------------------------------------
\* The document is at hand: set() begins if the cache is usable, else return
Holds(r, doc) ==
  IF Usable' /\ doc # Empty
    THEN reader' = [reader EXCEPT ![r].step = "set", ![r].doc = doc]
    ELSE reader' = [reader EXCEPT ![r] = Idle]

\* resolveDid(d), called by a request or by warm(), which caches the answer
\* once more: getEntry is tried only while the cache is usable
ResolveDid(r, d, warms) ==
  /\ reader[r].step = "idle"
  /\ warms => Usable
  /\ reader' = [reader EXCEPT ![r] =
       [step |-> IF Usable THEN "get" ELSE "invoke", did |-> d, doc |-> Empty,
        warms |-> warms]]
  /\ Quiet
  /\ UNCHANGED <<redisUp, outages, ledger, entry, dirty, exposed>>

\* getEntry's answer: a hit is returned (and cached again by warm), a miss or a
\* failure falls through to the contract
GotEntry(r) ==
  /\ reader[r].step = "get"
  /\ LET e == entry[reader[r].did] IN
     \/ /\ redisUp /\ e # Empty
        /\ Succeeded
        /\ IF reader[r].warms
             THEN reader' = [reader EXCEPT ![r].step = "set", ![r].doc = e,
                                           ![r].warms = FALSE]
             ELSE reader' = [reader EXCEPT ![r] = Idle]
     \/ /\ redisUp /\ e = Empty
        /\ Quiet
        /\ reader' = [reader EXCEPT ![r].step = "invoke"]
     \/ /\ ~redisUp
        /\ RecordFailure
        /\ reader' = [reader EXCEPT ![r].step = "invoke"]
  /\ UNCHANGED <<redisUp, outages, ledger, entry, dirty, exposed>>

\* The contract's get_did answers, or the call fails.  "Only cache a real
\* document."
Invoked(r) ==
  /\ reader[r].step = "invoke"
  /\ Quiet
  /\ \/ Holds(r, ledger[reader[r].did])
     \/ reader' = [reader EXCEPT ![r] = Idle]
  /\ UNCHANGED <<redisUp, outages, ledger, entry, dirty, exposed>>

\* set() reaches Redis; warm() then sets the document it was returned
SetDone(r) ==
  /\ reader[r].step = "set"
  /\ IF redisUp
       THEN Succeeded /\ entry' = [entry EXCEPT ![reader[r].did] = reader[r].doc]
       ELSE RecordFailure /\ UNCHANGED entry
  /\ IF reader[r].warms /\ Usable'
       THEN reader' = [reader EXCEPT ![r].warms = FALSE]
       ELSE reader' = [reader EXCEPT ![r] = Idle]
  /\ UNCHANGED <<redisUp, outages, ledger, dirty, exposed>>

-----------------------------------------------------------------------------
\* The DID is created or updated on the ledger
Write(d) ==
  /\ ledger[d] < MaxVersion
  /\ ledger' = [ledger EXCEPT ![d] = @ + 1]
  /\ dirty' = dirty \cup {d}
  /\ UNCHANGED <<redisUp, outages, available, cacheFailures, reconnectRuns,
                 entry, reader, exposed>>

Mut_Invalidate(d) ==
  /\ IF redisUp
       THEN /\ UNCHANGED <<entry, exposed>> /\ Quiet
            /\ dirty' = dirty \ {d}
       ELSE RecordFailure /\ UNCHANGED <<entry, exposed, dirty>>
  /\ UNCHANGED <<redisUp, outages, ledger, reader>>

\* invalidate(): attempted even while the cache is unusable
Invalidate(d) ==
  /\ IF redisUp
       THEN Drop({d}) /\ Quiet /\ dirty' = dirty \ {d}
       ELSE RecordFailure /\ UNCHANGED <<entry, exposed, dirty>>
  /\ UNCHANGED <<redisUp, outages, ledger, reader>>

\* invalidateAll(), also behind the resolver hooks; invalidateMethod() is the
\* same on the DIDs of one method
InvalidateAll ==
  /\ Usable
  /\ IF redisUp THEN Drop(Dids) /\ Quiet /\ dirty' = {}
                ELSE RecordFailure /\ UNCHANGED <<entry, exposed, dirty>>
  /\ UNCHANGED <<redisUp, outages, ledger, reader>>

\* The TTL of an entry runs out in Redis
Expire(d) ==
  /\ redisUp /\ entry[d] # Empty /\ Drop({d})
  /\ UNCHANGED <<redisUp, outages, available, cacheFailures, reconnectRuns,
                 ledger, reader, dirty>>

RedisDown ==
  /\ redisUp /\ outages < MaxOutages
  /\ redisUp' = FALSE /\ outages' = outages + 1
  /\ UNCHANGED <<available, cacheFailures, reconnectRuns, ledger, entry, reader,
                 dirty, exposed>>

\* Redis is back, and with it the client's own automatic reconnection
RedisBack ==
  /\ ~redisUp /\ redisUp' = TRUE
  /\ UNCHANGED <<outages, available, cacheFailures, reconnectRuns, ledger,
                 entry, reader, dirty, exposed>>

\* _reconnect ends: connected, or out of retries with nobody to try again
Reconnect ==
  /\ reconnectRuns /\ reconnectRuns' = FALSE
  /\ IF redisUp THEN available' = TRUE /\ cacheFailures' = 0
                ELSE UNCHANGED <<available, cacheFailures>>
  /\ UNCHANGED <<redisUp, outages, ledger, entry, reader, dirty, exposed>>

CacheNext ==
  \/ \E r \in Readers : \/ \E d \in Dids, w \in BOOLEAN : ResolveDid(r, d, w)
                        \/ GotEntry(r) \/ Invoked(r) \/ SetDone(r)
  \/ \E d \in Dids : Write(d) \/ Invalidate(d) \/ Expire(d)
  \/ InvalidateAll \/ RedisDown \/ RedisBack \/ Reconnect

CacheSpec == CacheInit /\ [][CacheNext]_cacheVars

-----------------------------------------------------------------------------
\* A cache that counts as available is one that is consulted: no sequence of
\* late failures around a reconnect leaves available set with the failure
\* count at its threshold (did-cache.js:110, 133, 146).
AvailableIsUsable == available => cacheFailures < CacheFailureThreshold

\* A stale entry has one of two causes: nobody invalidated the DID since it was
\* written, or the invalidation passed a reader that had fetched the older
\* document and had yet to store it (did-cache.js:211-252, soroban.js:194-201).
StaleOnlyByRace ==
  \A d \in Dids : entry[d] \notin {Empty, ledger[d]} => d \in dirty \cup exposed

\* "Call this whenever a DID is created or updated, so a stale document cannot outlive
\* the write that changed it" (did-cache.js:236-239): once the write's invalidation has
\* reached Redis, the entry is not an older document.
NoneOutlivesInvalidation ==
  \A d \in Dids : d \notin dirty => entry[d] \in {Empty, ledger[d]}

\* What the cache promises to those who read through it, but for that race.
CacheStaleOnlyByRace == CacheTypeOK /\ AvailableIsUsable /\ StaleOnlyByRace
=============================================================================
