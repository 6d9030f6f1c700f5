--------------------------- MODULE IdentityRegistry ---------------------------
(***************************************************************************)
(* The identity-registry contract: DID documents keyed by controller, the  *)
(* two running counters, the admin role with its two hand-over paths, the  *)
(* emergency stop, and time-locked recovery.                               *)
(*                                                                         *)
(* A contract call is one atomic step.  A call that returns Err or panics  *)
(* is rolled back by the Soroban host, so only successful calls are        *)
(* actions; every early return of the code is a guard.  The address named  *)
(* caller (or controller, for a controller's own calls) is the one whose   *)
(* require_auth succeeded.  Timestamps decide nothing in this contract and *)
(* are left out; the ledger sequence, which recovery compares, is kept.    *)
(***************************************************************************)
EXTENDS Integers, Sequences, FiniteSets

CONSTANTS
    Address,                    \* accounts that call the contract
    None,                       \* an absent storage entry
    ServiceId,                  \* ids of service endpoints
    Url,                        \* what they point at
    MetadataInput,              \* metadata maps callers pass, valid or not
    MAX_SERVICES,
    MAX_BATCH_DIDS,
    MAX_BATCH_UPDATE_SIZE,
    RECOVERY_TIMELOCK_LEDGERS,
    MaxLedger                   \* bound on the ledger sequence

\* A metadata map, reduced to what validate_metadata looks at: its number of
\* entries, its longest key and its longest value.
MetadataShape == [entries: Nat, key_len: Nat, value_len: Nat]

\* The vector of endpoints of a document is kept as a set: its order decides
\* nothing, and an id could still occur twice.
ServiceEndpoint == [id: ServiceId, url: Url]

\* build_did_string is injective, so a DID string is represented by the
\* address it was built from.
DidDocument ==
    [id: Address, controller: Address, metadata: MetadataShape,
     active: BOOLEAN, services: SUBSET ServiceEndpoint, parent: Address]

RecoveryRequest ==
    [recovery_addr: Address, new_controller: Address, initiated_at: Nat]

ASSUME AddressAssumption == IsFiniteSet(Address)
ASSUME NoneAssumption ==
    /\ None \notin Address
    /\ None \notin DidDocument
    /\ None \notin RecoveryRequest
ASSUME BoundAssumption ==
    /\ MetadataInput \subseteq MetadataShape
    /\ {MAX_SERVICES, MAX_BATCH_DIDS, MAX_BATCH_UPDATE_SIZE} \subseteq Nat
    /\ {RECOVERY_TIMELOCK_LEDGERS, MaxLedger} \subseteq Nat

VARIABLES
    admin,          \* ADMIN
    pending_admin,  \* PENDING_ADMIN
    paused,         \* PAUSED
    docs,           \* (IDENTITY, controller) -> document
    did_count,      \* DID_COUNT, the active documents
    total_dids,     \* TOTAL_DIDS
    recovery_addr,  \* (REC_ADDR, controller)
    recovery_pend,  \* (REC_PEND, controller)
    ledger,         \* the ledger sequence number
    quiet           \* history: last ledger a controller had no recovery pending

registry == <<docs, did_count, total_dids>>
roles == <<admin, pending_admin>>
recovery == <<recovery_addr, recovery_pend, quiet>>
vars == <<roles, paused, registry, recovery, ledger>>

-----------------------------------------------------------------------------
Exists(c) == docs[c] # None
IsActive(c) == Exists(c) /\ docs[c].active

\* Mutant: the emergency stop is ignored.
Mut_require_not_paused == TRUE

require_not_paused == ~paused

validate_metadata(m) ==
    /\ m.entries <= 10
    /\ m.key_len <= 64
    /\ m.value_len <= 256

is_empty(m) == m.entries = 0

NewDocument(c, m) ==
    [id |-> c, controller |-> c, metadata |-> m, active |-> TRUE,
     services |-> {}, parent |-> c]

Init ==
    /\ admin = None
    /\ pending_admin = None
    /\ paused = FALSE
    /\ docs = [c \in Address |-> None]
    /\ did_count = 0
    /\ total_dids = 0
    /\ recovery_addr = [c \in Address |-> None]
    /\ recovery_pend = [c \in Address |-> None]
    /\ quiet = [c \in Address |-> 0]
    /\ ledger = 0

-----------------------------------------------------------------------------
(* The admin role. *)

\* No require_auth: whoever calls first names the admin.
Initialize(new) ==
    /\ admin = None
    /\ admin' = new
    /\ UNCHANGED <<pending_admin, paused, registry, recovery, ledger>>

\* The one-step hand-over; it leaves the pending proposal in place.
TransferAdmin(caller, new) ==
    /\ admin = caller
    /\ admin' = new
    /\ UNCHANGED <<pending_admin, paused, registry, recovery, ledger>>

ProposeAdmin(caller, proposed) ==
    /\ admin = caller
    /\ pending_admin' = proposed
    /\ UNCHANGED <<admin, paused, registry, recovery, ledger>>

AcceptAdmin(caller) ==
    /\ pending_admin = caller
    /\ admin # None
    /\ admin' = caller
    /\ pending_admin' = None
    /\ UNCHANGED <<paused, registry, recovery, ledger>>

Pause(caller) ==
    /\ admin = caller
    /\ paused' = TRUE
    /\ UNCHANGED <<roles, registry, recovery, ledger>>

Unpause(caller) ==
    /\ admin = caller
    /\ paused' = FALSE
    /\ UNCHANGED <<roles, registry, recovery, ledger>>

-----------------------------------------------------------------------------
(* DID documents. *)

CreateDid(c, m) ==
    /\ require_not_paused
    /\ ~Exists(c)
    /\ validate_metadata(m)
    /\ docs' = [docs EXCEPT ![c] = NewDocument(c, m)]
    /\ did_count' = did_count + 1
    /\ total_dids' = total_dids + 1
    /\ UNCHANGED <<roles, paused, recovery, ledger>>

\* Every entry is checked, a repeated controller included, before any is
\* written: an accepted batch is a function from distinct controllers.
CreateDidsBatch(batch) ==
    /\ require_not_paused
    /\ Cardinality(DOMAIN batch) \in 1..MAX_BATCH_DIDS
    /\ \A c \in DOMAIN batch : ~Exists(c) /\ validate_metadata(batch[c])
    /\ docs' = [c \in Address |->
                  IF c \in DOMAIN batch THEN NewDocument(c, batch[c]) ELSE docs[c]]
    /\ did_count' = did_count + Cardinality(DOMAIN batch)
    /\ total_dids' = total_dids + Cardinality(DOMAIN batch)
    /\ UNCHANGED <<roles, paused, recovery, ledger>>

UpdateAllowed(c, m) ==
    ~is_empty(m) /\ validate_metadata(m) /\ IsActive(c)

UpdateDid(c, m) ==
    /\ require_not_paused
    /\ UpdateAllowed(c, m)
    /\ docs' = [docs EXCEPT ![c].metadata = m]
    /\ UNCHANGED <<did_count, total_dids, roles, paused, recovery, ledger>>

\* Entries that fail are reported and skipped; the others are applied in
\* order, so the last one for a controller stands.
UpdateDidsBatch(entries) ==
    LET Hit(c, i) == /\ entries[i].controller = c
                     /\ UpdateAllowed(c, entries[i].metadata)
        Final(c, i) == Hit(c, i) /\ \A j \in DOMAIN entries : Hit(c, j) => j <= i
    IN  /\ require_not_paused
        /\ Len(entries) \in 1..MAX_BATCH_UPDATE_SIZE
        /\ docs' = [c \in Address |->
                      IF \E i \in DOMAIN entries : Final(c, i)
                      THEN LET i == CHOOSE i \in DOMAIN entries : Final(c, i)
                           IN  [docs[c] EXCEPT !.metadata = entries[i].metadata]
                      ELSE docs[c]]
        /\ UNCHANGED <<did_count, total_dids, roles, paused, recovery, ledger>>

\* Mutant: ids already present are not looked for.
Mut_ServiceIdFree(doc, id) == TRUE

ServiceIdFree(doc, id) == \A e \in doc.services : e.id # id

AddService(c, service) ==
    /\ require_not_paused
    /\ IsActive(c)
    /\ Cardinality(docs[c].services) < MAX_SERVICES
    /\ ServiceIdFree(docs[c], service.id)
    /\ docs' = [docs EXCEPT ![c].services = @ \cup {service}]
    /\ UNCHANGED <<did_count, total_dids, roles, paused, recovery, ledger>>

RemoveService(c, id) ==
    /\ require_not_paused
    /\ IsActive(c)
    /\ ~ServiceIdFree(docs[c], id)
    /\ docs' = [docs EXCEPT ![c].services = {e \in @ : e.id # id}]
    /\ UNCHANGED <<did_count, total_dids, roles, paused, recovery, ledger>>

CountAfterDeactivation == IF did_count > 0 THEN did_count - 1 ELSE did_count

DeactivateDid(c) ==
    /\ require_not_paused
    /\ IsActive(c)
    /\ docs' = [docs EXCEPT ![c].active = FALSE]
    /\ did_count' = CountAfterDeactivation
    /\ UNCHANGED <<total_dids, roles, paused, recovery, ledger>>

\* Reactivating an active document succeeds and changes nothing.
ReactivateDid(caller, c) ==
    /\ require_not_paused
    /\ admin = caller
    /\ Exists(c)
    /\ IF docs[c].active
       THEN UNCHANGED <<docs, did_count>>
       ELSE /\ docs' = [docs EXCEPT ![c].active = TRUE]
            /\ did_count' = did_count + 1
    /\ UNCHANGED <<total_dids, roles, paused, recovery, ledger>>

-----------------------------------------------------------------------------
(* Time-locked recovery. *)

\* A pending request keeps the recovery address it was made by.
SetRecoveryAddress(c, r) ==
    /\ require_not_paused
    /\ Exists(c)
    /\ recovery_addr' = [recovery_addr EXCEPT ![c] = r]
    /\ UNCHANGED <<recovery_pend, quiet, roles, paused, registry, ledger>>

InitiateRecovery(caller, c, new) ==
    /\ require_not_paused
    /\ recovery_addr[c] = caller
    /\ recovery_pend[c] = None
    /\ recovery_pend' = [recovery_pend EXCEPT ![c] =
                           [recovery_addr |-> caller, new_controller |-> new,
                            initiated_at |-> ledger]]
    /\ quiet' = [quiet EXCEPT ![c] = ledger]
    /\ UNCHANGED <<recovery_addr, roles, paused, registry, ledger>>

\* Not stopped by the emergency stop.
CancelRecovery(c) ==
    /\ recovery_pend[c] # None
    /\ recovery_pend' = [recovery_pend EXCEPT ![c] = None]
    /\ quiet' = [quiet EXCEPT ![c] = ledger]
    /\ UNCHANGED <<recovery_addr, roles, paused, registry, ledger>>

\* Mutant: the timelock is off by one ledger.
Mut_TimelockElapsed(req) ==
    ledger + 1 >= req.initiated_at + RECOVERY_TIMELOCK_LEDGERS

TimelockElapsed(req) ==
    ledger >= req.initiated_at + RECOVERY_TIMELOCK_LEDGERS

\* Mutant: the old controller's recovery address is not cleaned up.
Mut_remove_recovery_address(c) == recovery_addr

remove_recovery_address(c) == [recovery_addr EXCEPT ![c] = None]

Rekeyed(doc, new) == [doc EXCEPT !.controller = new]

\* finalize, then the document is re-keyed; its id and parent stay behind.
RecoverDid(caller, c) ==
    /\ require_not_paused
    /\ recovery_pend[c] # None
    /\ recovery_pend[c].recovery_addr = caller
    /\ TimelockElapsed(recovery_pend[c])
    /\ Exists(c)
    /\ LET new == recovery_pend[c].new_controller
       IN  /\ ~Exists(new)
           /\ docs' = [docs EXCEPT ![new] = Rekeyed(docs[c], new), ![c] = None]
    /\ recovery_pend' = [recovery_pend EXCEPT ![c] = None]
    /\ recovery_addr' = remove_recovery_address(c)
    /\ quiet' = [quiet EXCEPT ![c] = ledger]
    /\ UNCHANGED <<did_count, total_dids, roles, paused, ledger>>

\* A ledger closes.
CloseLedger ==
    /\ ledger < MaxLedger
    /\ ledger' = ledger + 1
    /\ UNCHANGED <<roles, paused, registry, recovery>>

-----------------------------------------------------------------------------
CreateBatches == UNION {[S -> MetadataInput] : S \in SUBSET Address}
UpdateEntry == [controller: Address, metadata: MetadataInput]
UpdateBatches == UNION {[1..n -> UpdateEntry] : n \in 1..MAX_BATCH_UPDATE_SIZE}

AdminNext ==
    \E a, b \in Address :
        \/ Initialize(a)
        \/ TransferAdmin(a, b)
        \/ ProposeAdmin(a, b)
        \/ AcceptAdmin(a)
        \/ Pause(a)
        \/ Unpause(a)
        \/ ReactivateDid(a, b)

DocumentNext ==
    \/ \E c \in Address, m \in MetadataInput : CreateDid(c, m) \/ UpdateDid(c, m)
    \/ \E batch \in CreateBatches : CreateDidsBatch(batch)
    \/ \E entries \in UpdateBatches : UpdateDidsBatch(entries)
    \/ \E c \in Address, service \in ServiceEndpoint : AddService(c, service)
    \/ \E c \in Address, id \in ServiceId : RemoveService(c, id)
    \/ \E c \in Address : DeactivateDid(c)

RecoveryNext ==
    \E a, b, c \in Address :
        \/ SetRecoveryAddress(a, b)
        \/ InitiateRecovery(a, b, c)
        \/ CancelRecovery(a)
        \/ RecoverDid(a, b)

Next == AdminNext \/ DocumentNext \/ RecoveryNext \/ CloseLedger

Spec == Init /\ [][Next]_vars

-----------------------------------------------------------------------------
(* Properties. *)

\* The type of every storage entry (lib.rs, recovery.rs).
TypeOK ==
    /\ admin \in Address \cup {None}
    /\ pending_admin \in Address \cup {None}
    /\ paused \in BOOLEAN
    /\ docs \in [Address -> DidDocument \cup {None}]
    /\ did_count \in Nat
    /\ total_dids \in Nat
    /\ recovery_addr \in [Address -> Address \cup {None}]
    /\ recovery_pend \in [Address -> RecoveryRequest \cup {None}]
    /\ quiet \in [Address -> Nat]
    /\ ledger \in Nat

\* DID_COUNT is the number of active documents and TOTAL_DIDS the number of
\* documents, through creation, batches, (de)activation and re-keying by
\* recover_did, which touches neither counter.
CountsMatchDocuments ==
    /\ did_count = Cardinality({c \in Address : IsActive(c)})
    /\ total_dids = Cardinality({c \in Address : Exists(c)})

\* A document is stored under the key of its own controller, also after
\* recover_did has moved it.
KeyedByController == \A c \in Address : Exists(c) => docs[c].controller = c

\* No recovery address and no pending request outlives the document it is
\* about: a recovery never finds its document gone, and an address whose
\* document was moved away cannot be recovered by the old recovery key when
\* it creates a new one.
RecoveryBackedByDocument ==
    \A c \in Address :
        recovery_addr[c] # None \/ recovery_pend[c] # None => Exists(c)

\* The registry's entries agree with each other: counters, document keys and
\* recovery state, after every order of creation, deactivation and recovery.
RegistryAgrees ==
    /\ CountsMatchDocuments
    /\ KeyedByController
    /\ RecoveryBackedByDocument

\* Service ids stay unique and within MAX_SERVICES, and stored metadata has
\* passed validate_metadata, on every path that writes a document.
DocumentsWellFormed ==
    /\ TypeOK
    /\ \A c \in Address : Exists(c) =>
          /\ validate_metadata(docs[c].metadata)
          /\ Cardinality(docs[c].services) <= MAX_SERVICES
          /\ \A e, f \in docs[c].services : e.id = f.id => e = f

\* The emergency stop really stops: while the contract is paused no document
\* is written and no counter moves (pause, lib.rs).
PauseFreezesDocuments == [][paused => UNCHANGED registry]_vars

\* A document leaves its controller only when a recovery has been pending,
\* without a cancellation in between, for the whole timelock: cancelling and
\* starting again buys the owner a full new window.
TransferNeedsFullTimelock ==
    [][\A c \in Address : Exists(c) /\ ~Exists(c)'
          => ledger >= quiet[c] + RECOVERY_TIMELOCK_LEDGERS]_vars

(* Statements of the repository that the code does not keep. *)

\* RecoveryNotAuthorized: the one who completes a recovery is the registered
\* recovery address of the DID.
RecoveredByRegisteredAddress ==
    [][\A a, c \in Address : RecoverDid(a, c) => recovery_addr[c] = a]_vars
=============================================================================
