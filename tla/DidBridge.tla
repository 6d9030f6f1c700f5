------------------------------ MODULE DidBridge ------------------------------
(***************************************************************************)
(* The bridge contract: an oracle publishes time-bounded Merkle roots of   *)
(* external chains, resolvers prove DID documents against them, proved     *)
(* documents are cached, and each resolver is rate limited.                *)
(*                                                                         *)
(* SHA-256 is taken as injective, so a root is the set of (DID, document)  *)
(* leaves below it, and a proof folds to the root exactly for those pairs. *)
(* A rejected call is rolled back, its rate-limit charge included.         *)
(***************************************************************************)
EXTENDS Integers, FiniteSets, FiniteSetsExt, Functions

CONSTANTS
    Account,                \* admins, oracles and resolvers
    Absent,
    Chain,                  \* the chain ids set_chain accepts, 1 and 137
    Did,
    Document,
    Roots,                  \* the trees the oracle may publish
    MAX_CACHE_TTL,
    RATE_WINDOW_SECS,
    MAX_CALLS_PER_WINDOW,
    MaxTimestamp            \* bound on the ledger timestamp

Leaf == Did \X Document
StateRoot == [root: SUBSET Leaf, valid_until: Nat]
CachedDid == [document: Document, cached_until: Nat]
RateWindow == [started_at: Nat, calls: Nat]

\* What the constants have to be
BridgeConstants ==
    /\ Absent \notin Account \cup BOOLEAN \cup StateRoot \cup CachedDid \cup RateWindow
    /\ Roots \subseteq SUBSET Leaf
    /\ {MAX_CACHE_TTL, RATE_WINDOW_SECS, MAX_CALLS_PER_WINDOW, MaxTimestamp} \subseteq Nat
    /\ RATE_WINDOW_SECS > 0

VARIABLES
    bridge_admin,   \* ADMIN
    oracle,         \* ORACLE
    chains,         \* (CHAINS, id): Absent, or whether the chain is active
    roots,          \* (ROOT, id)
    cache,          \* (CACHE, id, did)
    rate,           \* (RATE, resolver)
    timestamp,      \* the ledger's
    published,      \* history: every root ever published for a chain
    served          \* history: when each resolver was served

bridgeVars == <<bridge_admin, oracle, chains, roots, cache, rate, timestamp, published,
                served>>

-----------------------------------------------------------------------------
require_chain(ch) == chains[ch] = TRUE

BridgeInit ==
    /\ bridge_admin = Absent
    /\ oracle = Absent
    /\ chains = [ch \in Chain |-> Absent]
    /\ roots = [ch \in Chain |-> Absent]
    /\ cache = [key \in Chain \X Did |-> Absent]
    /\ rate = [r \in Account |-> Absent]
    /\ timestamp = 0
    /\ published = [ch \in Chain |-> {}]
    /\ served = [r \in Account |-> [t \in 0..MaxTimestamp |-> 0]]

InitializeBridge(a, o) ==
    /\ bridge_admin = Absent
    /\ bridge_admin' = a
    /\ oracle' = o
    /\ UNCHANGED <<chains, roots, cache, rate, timestamp, published, served>>

SetChain(caller, ch, active) ==
    /\ bridge_admin = caller
    /\ chains' = [chains EXCEPT ![ch] = active]
    /\ UNCHANGED <<bridge_admin, oracle, roots, cache, rate, timestamp, published, served>>

\* The new root replaces the old one; documents cached under it stay.
PublishStateRoot(caller, ch, root, valid_until) ==
    /\ oracle = caller
    /\ require_chain(ch)
    /\ valid_until > timestamp
    /\ LET r == [root |-> root, valid_until |-> valid_until]
       IN  /\ roots' = [roots EXCEPT ![ch] = r]
           /\ published' = [published EXCEPT ![ch] = @ \cup {r}]
    /\ UNCHANGED <<bridge_admin, oracle, chains, cache, rate, timestamp, served>>

CurrentWindow(r) ==
    IF rate[r] = Absent \/ timestamp - rate[r].started_at >= RATE_WINDOW_SECS
    THEN [started_at |-> timestamp, calls |-> 0]
    ELSE rate[r]

check_rate(r) ==
    /\ CurrentWindow(r).calls < MAX_CALLS_PER_WINDOW
    /\ rate' = [rate EXCEPT ![r] = [CurrentWindow(r) EXCEPT !.calls = @ + 1]]

Fresh(entry) == entry # Absent /\ entry.cached_until > timestamp

\* A fresh entry is returned before the caller's document is looked at.
ResolveFromCache(r, ch, d) ==
    /\ require_chain(ch)
    /\ check_rate(r)
    /\ Fresh(cache[<<ch, d>>])
    /\ served' = [served EXCEPT ![r][timestamp] = @ + 1]
    /\ UNCHANGED <<bridge_admin, oracle, chains, roots, cache, timestamp, published>>

\* Mutant: the cache lifetime ignores the root's.
Mut_CachedUntil(root) == timestamp + MAX_CACHE_TTL

CachedUntil(root) == Min({timestamp + MAX_CACHE_TTL, root.valid_until})

ResolveByProof(r, ch, d, doc) ==
    /\ require_chain(ch)
    /\ check_rate(r)
    /\ ~Fresh(cache[<<ch, d>>])
    /\ roots[ch] # Absent
    /\ roots[ch].valid_until > timestamp
    /\ <<d, doc>> \in roots[ch].root
    /\ cache' = [cache EXCEPT ![<<ch, d>>] =
                   [document |-> doc, cached_until |-> CachedUntil(roots[ch])]]
    /\ served' = [served EXCEPT ![r][timestamp] = @ + 1]
    /\ UNCHANGED <<bridge_admin, oracle, chains, roots, timestamp, published>>

BridgeTick ==
    /\ timestamp < MaxTimestamp
    /\ timestamp' = timestamp + 1
    /\ UNCHANGED <<bridge_admin, oracle, chains, roots, cache, rate, published, served>>

BridgeNext ==
    \/ \E a, o \in Account : InitializeBridge(a, o)
    \/ \E a \in Account, ch \in Chain, active \in BOOLEAN : SetChain(a, ch, active)
    \/ \E a \in Account, ch \in Chain, root \in Roots, t \in 0..MaxTimestamp :
          PublishStateRoot(a, ch, root, t)
    \/ \E r \in Account, ch \in Chain, d \in Did :
          \/ ResolveFromCache(r, ch, d)
          \/ \E doc \in Document : ResolveByProof(r, ch, d, doc)
    \/ BridgeTick

BridgeSpec == BridgeInit /\ [][BridgeNext]_bridgeVars

-----------------------------------------------------------------------------
(* Properties. *)

\* The type of every storage entry.
BridgeTypeOK ==
    /\ bridge_admin \in Account \cup {Absent}
    /\ oracle \in Account \cup {Absent}
    /\ chains \in [Chain -> BOOLEAN \cup {Absent}]
    /\ roots \in [Chain -> StateRoot \cup {Absent}]
    /\ cache \in [Chain \X Did -> CachedDid \cup {Absent}]
    /\ rate \in [Account -> RateWindow \cup {Absent}]
    /\ timestamp \in Nat
    /\ published \in [Chain -> SUBSET StateRoot]
    /\ served \in [Account -> [0..MaxTimestamp -> Nat]]

\* get_cached_did and resolve_external_did hand out a cached document only
\* while a root the oracle published, that contains it, is unexpired: the
\* cache never outlives the root it was proved against, whatever roots are
\* published and expire in between.
ServedDocumentsAreProved ==
    \A ch \in Chain, d \in Did :
        Fresh(cache[<<ch, d>>]) =>
            \E r \in published[ch] :
                /\ <<d, cache[<<ch, d>>].document>> \in r.root
                /\ timestamp < r.valid_until

\* Calls served to r from second t on, within one window length.
ServedFrom(r, t) ==
    LET seconds == {u \in t..(t + RATE_WINDOW_SECS - 1) : u <= MaxTimestamp}
    IN  SumFunctionOnSet(served[r], seconds)

\* The fixed windows of check_rate: a resolver is served at most
\* MAX_CALLS_PER_WINDOW times in the window that is open for it, and at most
\* twice that in any stretch of one window length (the boundary burst).
RateLimitHolds ==
    \A r \in Account :
        /\ rate[r] # Absent =>
              /\ rate[r].calls <= MAX_CALLS_PER_WINDOW
              /\ ServedFrom(r, rate[r].started_at) = rate[r].calls
        /\ \A t \in 0..MaxTimestamp : ServedFrom(r, t) <= 2 * MAX_CALLS_PER_WINDOW

\* bridge: a cached document is served only under an unexpired root that proves it,
\* and a resolver is served its quota per window, twice that across a boundary.
BridgeServesProved == BridgeTypeOK /\ ServedDocumentsAreProved /\ RateLimitHolds
=============================================================================
