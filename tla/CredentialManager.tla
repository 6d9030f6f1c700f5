--------------------------- MODULE CredentialManager ---------------------------
(***************************************************************************)
(* The credential-manager contract: issuance, revocation, suspension,      *)
(* expiry, renewal and amendment of credentials, their transfer between    *)
(* holders, and the prerequisite graph verification walks.                 *)
(*                                                                         *)
(* Only successful calls are actions: an Err or a panic is rolled back.    *)
(* The caller is the address whose require_auth succeeded.  Claims, hashes *)
(* and signatures decide nothing below and are left out, and so are the    *)
(* entries that only queries read: the indexes by issuer, type and first   *)
(* subject that issue_credential writes, version and transfer history.     *)
(***************************************************************************)
EXTENDS Integers, FiniteSets

CONSTANTS
    Party,              \* addresses that hold or issue credentials
    Missing,            \* an absent storage entry
    Triple,             \* the (issuer, subject, type) combinations calls name
    Recipient,          \* addresses a transfer may name as its new holder
    ExpiryInput,        \* values passed as expires_at
    MaxNonce,           \* bound on re-issuance to one triple
    MaxVersion,         \* bound on amendments
    MaxSuspended,       \* bound on the suspensions that stand at a time
    MaxTime,            \* bound on the ledger timestamp
    MAX_ISSUERS,        \* the cap on registered issuers in force
    MAX_PREREQS,
    MAX_DEP_DEPTH

\* derive_id hashes the triple and its nonce: an injective pairing.
Id == Triple \X (1..MaxNonce)
derive_id(triple, nonce) == <<triple, nonce>>
IssuerOf(id) == id[1].issuer
TypeOf(id) == id[1].type

Issuers == {t.issuer : t \in Triple}
Types == {t.type : t \in Triple}

Credential ==
    [subject: Party, expires_at: Nat, revoked: BOOLEAN, version: Nat]

\* A completed request is removed, so that status is never stored.
TransferStatus == {"Pending", "Approved", "Rejected"}
CredentialTransferRequest ==
    [from_subject: Party, to_subject: Party, approved_by_issuer: BOOLEAN,
     status: TransferStatus]

ASSUME TripleAssumption ==
    /\ Triple \subseteq [issuer: Party, subject: Party, type: STRING]
    /\ Recipient \subseteq Party
ASSUME FiniteAssumption == IsFiniteSet(Triple)
ASSUME AbsentAssumption ==
    /\ Missing \notin Credential
    /\ Missing \notin CredentialTransferRequest
ASSUME LimitAssumption ==
    /\ ExpiryInput \subseteq Nat
    /\ {MaxNonce, MaxVersion, MaxSuspended, MaxTime} \subseteq Nat
    /\ {MAX_ISSUERS, MAX_PREREQS, MAX_DEP_DEPTH} \subseteq Nat

VARIABLES
    issuers,        \* ISSUER, the registered issuers
    creds_paused,   \* is_paused of the packed CONFIG
    creds,          \* (CRED, id)
    nonces,         \* the nonce entry of a triple
    subject_creds,  \* (SUBJECT, holder), as a set
    revoked_cnt,    \* REVOKED_CNT
    suspended,      \* the ids with a SUSPEND record
    requests,       \* (TRANSFER, id)
    auto_approve,   \* the transfer auto-approval flag
    blocked_types,  \* types whose transfer policy is false
    prereqs,        \* (CRED_DEPS, id), as a set
    dependants,     \* (CRED_RDEPS, id), as a set
    now             \* the ledger timestamp

config == <<issuers, creds_paused>>
indexes == <<nonces, subject_creds>>
transfers == <<requests, auto_approve, blocked_types>>
graph == <<prereqs, dependants>>
credVars == <<config, creds, indexes, revoked_cnt, suspended, transfers,
              graph, now>>

-----------------------------------------------------------------------------
CredExists(id) == creds[id] # Missing
IsExpired(id) == creds[id].expires_at # 0 /\ now > creds[id].expires_at
creds_not_paused == ~creds_paused

CredInit ==
    /\ issuers = {}
    /\ creds_paused = FALSE
    /\ creds = [id \in Id |-> Missing]
    /\ nonces = [t \in Triple |-> 0]
    /\ subject_creds = [a \in Party |-> {}]
    /\ revoked_cnt = 0
    /\ suspended = {}
    /\ requests = [id \in Id |-> Missing]
    /\ auto_approve = FALSE
    /\ blocked_types = {}
    /\ prereqs = [id \in Id |-> {}]
    /\ dependants = [id \in Id |-> {}]
    /\ now = 0

-----------------------------------------------------------------------------
(* The admin's calls; the admin role itself belongs to another module. *)

SetPaused(on) ==
    /\ creds_paused' = on
    /\ UNCHANGED <<issuers, creds, indexes, revoked_cnt, suspended,
                   transfers, graph, now>>

\* Adding a registered issuer again changes nothing, at the cap too.
AddIssuer(i) ==
    /\ i \in issuers \/ Cardinality(issuers) < MAX_ISSUERS
    /\ issuers' = issuers \cup {i}
    /\ UNCHANGED <<creds_paused, creds, indexes, revoked_cnt, suspended,
                   transfers, graph, now>>

RemoveIssuer(i) ==
    /\ issuers' = issuers \ {i}
    /\ UNCHANGED <<creds_paused, creds, indexes, revoked_cnt, suspended,
                   transfers, graph, now>>

SetTransferAutoApprove(enabled) ==
    /\ auto_approve' = enabled
    /\ UNCHANGED <<config, creds, indexes, revoked_cnt, suspended,
                   requests, blocked_types, graph, now>>

SetTransferPolicy(type, allowed) ==
    /\ blocked_types' = IF allowed THEN blocked_types \ {type}
                                   ELSE blocked_types \cup {type}
    /\ UNCHANGED <<config, creds, indexes, revoked_cnt, suspended,
                   requests, auto_approve, graph, now>>

-----------------------------------------------------------------------------
(* Issuance. *)

\* Mutant: a credential that has merely expired does not stand in the way.
Mut_LatestRevoked(t) ==
    nonces[t] # 0 => LET last == derive_id(t, nonces[t])
                     IN  creds[last].revoked \/ IsExpired(last)

LatestRevoked(t) ==
    nonces[t] # 0 => creds[derive_id(t, nonces[t])].revoked

\* The identity registry's has_active_did may answer either way at any time;
\* only a call it answers with TRUE goes through.
IssueCredential(t, expires_at, has_active_did) ==
    LET id == derive_id(t, nonces[t] + 1)
    IN  /\ creds_not_paused
        /\ t.issuer \in issuers
        /\ has_active_did
        /\ expires_at = 0 \/ expires_at > now
        /\ LatestRevoked(t)
        /\ nonces[t] < MaxNonce
        /\ creds' = [creds EXCEPT ![id] =
             [subject |-> t.subject, expires_at |-> expires_at,
              revoked |-> FALSE, version |-> 1]]
        /\ nonces' = [nonces EXCEPT ![t] = @ + 1]
        /\ subject_creds' = [subject_creds EXCEPT ![t.subject] = @ \cup {id}]
        /\ UNCHANGED <<config, revoked_cnt, suspended, transfers,
                       graph, now>>

-----------------------------------------------------------------------------
(* The issuer's power over what it issued; it need not still be registered *)
(* for any of these but the batch revocation.                              *)

Live(id) == CredExists(id) /\ ~creds[id].revoked

RevokeCredential(caller, id) ==
    /\ creds_not_paused
    /\ Live(id)
    /\ IssuerOf(id) = caller
    /\ creds' = [creds EXCEPT ![id].revoked = TRUE]
    /\ UNCHANGED <<config, indexes, revoked_cnt, suspended, transfers,
                   graph, now>>

\* Ids that are absent, foreign or already revoked are skipped.
RevokeCredentialsBatch(caller, ids) ==
    /\ creds_not_paused
    /\ caller \in issuers
    /\ ids # {}
    /\ creds' = [id \in Id |->
         IF id \in ids /\ Live(id) /\ IssuerOf(id) = caller
         THEN [creds[id] EXCEPT !.revoked = TRUE] ELSE creds[id]]
    /\ UNCHANGED <<config, indexes, revoked_cnt, suspended, transfers,
                   graph, now>>

SuspendCredential(caller, id) ==
    /\ creds_not_paused
    /\ Live(id)
    /\ IssuerOf(id) = caller
    /\ id \notin suspended
    /\ Cardinality(suspended) < MaxSuspended
    /\ suspended' = suspended \cup {id}
    /\ UNCHANGED <<config, creds, indexes, revoked_cnt, transfers,
                   graph, now>>

ReactivateCredential(caller, id) ==
    /\ creds_not_paused
    /\ Live(id)
    /\ IssuerOf(id) = caller
    /\ id \in suspended
    /\ suspended' = suspended \ {id}
    /\ UNCHANGED <<config, creds, indexes, revoked_cnt, transfers,
                   graph, now>>

\* A renewal may put an end to a credential that had none (expires_at = 0).
RenewCredential(caller, id, new_expires_at) ==
    /\ creds_not_paused
    /\ Live(id)
    /\ IssuerOf(id) = caller
    /\ new_expires_at > creds[id].expires_at
    /\ creds' = [creds EXCEPT ![id].expires_at = new_expires_at]
    /\ UNCHANGED <<config, indexes, revoked_cnt, suspended, transfers,
                   graph, now>>

\* Not stopped by the emergency stop.
AmendCredential(caller, id) ==
    /\ Live(id)
    /\ IssuerOf(id) = caller
    /\ creds[id].version < MaxVersion
    /\ creds' = [creds EXCEPT ![id].version = @ + 1]
    /\ UNCHANGED <<config, indexes, revoked_cnt, suspended, transfers, graph, now>>

MayExpire(id) == Live(id) /\ IsExpired(id)

\* Anyone may sweep an expired credential.
ExpireCredential(id) ==
    /\ creds_not_paused
    /\ MayExpire(id)
    /\ creds' = [creds EXCEPT ![id].revoked = TRUE]
    /\ revoked_cnt' = revoked_cnt + 1
    /\ UNCHANGED <<config, indexes, suspended, transfers, graph, now>>

-----------------------------------------------------------------------------
(* Transfers. *)

is_transfer_allowed(id) == TypeOf(id) \notin blocked_types

InitiateTransfer(subject, id, new_subject) ==
    /\ creds_not_paused
    /\ Live(id)
    /\ creds[id].subject = subject
    /\ is_transfer_allowed(id)
    /\ requests[id] = Missing
    /\ requests' = [requests EXCEPT ![id] =
         [from_subject |-> subject, to_subject |-> new_subject,
          approved_by_issuer |-> FALSE, status |-> "Pending"]]
    /\ UNCHANGED <<config, creds, indexes, revoked_cnt, suspended,
                   auto_approve, blocked_types, graph, now>>

\* Mutant: a credential revoked while its transfer was pending still moves.
Mut_Transferable(id) == CredExists(id)

Transferable(id) == Live(id)

\* Mutant: the request survives its completion.
Mut_ClearedRequest(id) == requests

ClearedRequest(id) == [requests EXCEPT ![id] = Missing]

\* The former holder's entry stays.
ListedUnder(id, holder) == [subject_creds EXCEPT ![holder] = @ \cup {id}]

complete_transfer(id, to) ==
    /\ Transferable(id)
    /\ creds' = [creds EXCEPT ![id].subject = to]
    /\ subject_creds' = ListedUnder(id, to)
    /\ requests' = ClearedRequest(id)
    /\ UNCHANGED nonces

SetRequest(id, request) ==
    /\ requests' = [requests EXCEPT ![id] = request]
    /\ UNCHANGED <<creds, indexes>>

TransferFrame == UNCHANGED <<config, revoked_cnt, suspended,
                             auto_approve, blocked_types, graph, now>>

AcceptTransfer(recipient, id) ==
    /\ creds_not_paused
    /\ requests[id] # Missing
    /\ requests[id].status = "Pending"
    /\ requests[id].to_subject = recipient
    /\ IF auto_approve \/ requests[id].approved_by_issuer
       THEN complete_transfer(id, recipient)
       ELSE SetRequest(id, [requests[id] EXCEPT !.status = "Approved"])
    /\ TransferFrame

\* The rejected request stays, and keeps a new one from being initiated.
RejectTransfer(recipient, id) ==
    /\ creds_not_paused
    /\ requests[id] # Missing
    /\ requests[id].status = "Pending"
    /\ requests[id].to_subject = recipient
    /\ SetRequest(id, [requests[id] EXCEPT !.status = "Rejected"])
    /\ TransferFrame

\* Approved stands both for "the recipient accepted" and for "the issuer
\* confirmed first", and a rejected request may still be confirmed.
ConfirmTransfer(caller, id, approved) ==
    /\ creds_not_paused
    /\ requests[id] # Missing
    /\ IssuerOf(id) = caller
    /\ \/ /\ ~approved
          /\ SetRequest(id, [requests[id] EXCEPT !.approved_by_issuer = FALSE,
                                                 !.status = "Rejected"])
       \/ /\ approved
          /\ requests[id].status = "Approved"
          /\ complete_transfer(id, requests[id].to_subject)
       \/ /\ approved
          /\ requests[id].status # "Approved"
          /\ SetRequest(id, [requests[id] EXCEPT !.approved_by_issuer = TRUE,
                                                 !.status = "Approved"])
    /\ TransferFrame

\* Bypasses the recipient, and any recipient a request names.
TransferCredential(subject, id, new_subject) ==
    /\ creds_not_paused
    /\ Live(id)
    /\ creds[id].subject = subject
    /\ is_transfer_allowed(id)
    /\ auto_approve \/ (requests[id] # Missing /\ requests[id].approved_by_issuer)
    /\ complete_transfer(id, new_subject)
    /\ TransferFrame

-----------------------------------------------------------------------------
(* Prerequisites. *)

\* The ids that a walk along the prerequisites visits at depth d.
Level(id) ==
    LET level[d \in 0..MAX_DEP_DEPTH] ==
            IF d = 0 THEN {id} ELSE UNION {prereqs[p] : p \in level[d - 1]}
    IN  level

\* Mutant: the walk gives up silently at the depth limit.
Mut_check_no_cycle(root, current) ==
    \A d \in 1..(MAX_DEP_DEPTH - 1) : root \notin Level(current)[d]

\* Err when root is met on the way, or a visit reaches the depth limit.
check_no_cycle(root, current) ==
    /\ \A d \in 1..MAX_DEP_DEPTH : root \notin Level(current)[d]
    /\ Level(current)[MAX_DEP_DEPTH] = {}

\* Mutant: the reverse entries of the replaced prerequisites are kept.
Mut_Relinked(id, new) ==
    [p \in Id |-> IF p \in new THEN dependants[p] \cup {id} ELSE dependants[p]]

Relinked(id, new) ==
    [p \in Id |-> IF p \in new THEN dependants[p] \cup {id}
                  ELSE IF p \in prereqs[id] THEN dependants[p] \ {id}
                  ELSE dependants[p]]

\* A revoked credential may still be given prerequisites.
SetPrerequisites(caller, id, new) ==
    /\ creds_not_paused
    /\ Cardinality(new) <= MAX_PREREQS
    /\ CredExists(id)
    /\ IssuerOf(id) = caller
    /\ \A p \in new : Live(p) /\ ~IsExpired(p) /\ check_no_cycle(id, p)
    /\ prereqs' = [prereqs EXCEPT ![id] = new]
    /\ dependants' = Relinked(id, new)
    /\ UNCHANGED <<config, creds, indexes, revoked_cnt, suspended,
                   transfers, now>>

StandsAlone(id) == Live(id) /\ id \notin suspended /\ ~IsExpired(id)

\* Mutant: what lies beyond the depth limit is taken to be valid.
Mut_check_credential_valid(id) ==
    \A d \in 0..(MAX_DEP_DEPTH - 1) : \A p \in Level(id)[d] : StandsAlone(p)

\* A visit at the depth limit answers false.
check_credential_valid(id) ==
    /\ \A d \in 0..(MAX_DEP_DEPTH - 1) : \A p \in Level(id)[d] : StandsAlone(p)
    /\ Level(id)[MAX_DEP_DEPTH] = {}

verify_credential(id) ==
    StandsAlone(id) /\ \A p \in prereqs[id] : check_credential_valid(p)

-----------------------------------------------------------------------------
Tick ==
    /\ now < MaxTime
    /\ now' = now + 1
    /\ UNCHANGED <<config, creds, indexes, revoked_cnt, suspended,
                   transfers, graph>>

CredAdminNext ==
    \/ \E on \in BOOLEAN : SetPaused(on) \/ SetTransferAutoApprove(on)
    \/ \E i \in Issuers : AddIssuer(i) \/ RemoveIssuer(i)
    \/ \E type \in Types, allowed \in BOOLEAN : SetTransferPolicy(type, allowed)

IssuerNext ==
    \/ \E t \in Triple, e \in ExpiryInput, did \in BOOLEAN : IssueCredential(t, e, did)
    \/ \E i \in Issuers, ids \in SUBSET Id : RevokeCredentialsBatch(i, ids)
    \/ \E i \in Issuers, id \in Id :
           \/ RevokeCredential(i, id)
           \/ SuspendCredential(i, id)
           \/ ReactivateCredential(i, id)
           \/ AmendCredential(i, id)
           \/ \E e \in ExpiryInput : RenewCredential(i, id, e)
           \/ \E new \in SUBSET Id : SetPrerequisites(i, id, new)
           \/ \E approved \in BOOLEAN : ConfirmTransfer(i, id, approved)

HolderNext ==
    \E id \in Id :
        \/ ExpireCredential(id)
        \/ \E r \in Recipient : AcceptTransfer(r, id) \/ RejectTransfer(r, id)
        \/ \E a \in Party, r \in Recipient :
               InitiateTransfer(a, id, r) \/ TransferCredential(a, id, r)

CredNext == CredAdminNext \/ IssuerNext \/ HolderNext \/ Tick

CredSpec == CredInit /\ [][CredNext]_credVars

-----------------------------------------------------------------------------
(* Properties. *)

\* The type of every storage entry (lib.rs, suspension.rs).
CredTypeOK ==
    /\ issuers \subseteq Issuers
    /\ creds_paused \in BOOLEAN
    /\ creds \in [Id -> Credential \cup {Missing}]
    /\ nonces \in [Triple -> 0..MaxNonce]
    /\ subject_creds \in [Party -> SUBSET Id]
    /\ revoked_cnt \in Nat
    /\ suspended \subseteq Id
    /\ requests \in [Id -> CredentialTransferRequest \cup {Missing}]
    /\ auto_approve \in BOOLEAN
    /\ blocked_types \subseteq Types
    /\ prereqs \in [Id -> SUBSET Id]
    /\ dependants \in [Id -> SUBSET Id]
    /\ now \in Nat

\* An issuer never has two unrevoked credentials out for one subject and type:
\* issue_credential looks at the latest nonce only, so every earlier credential
\* must have been revoked by then and stay so.
OneLivePerTriple ==
    \A t \in Triple : Cardinality({n \in 1..MaxNonce : Live(<<t, n>>)}) <= 1

\* A transfer request always comes from the present holder: none is left over
\* from before the credential last moved (complete_transfer).
RequestFromHolder ==
    \A id \in Id : requests[id] # Missing =>
        CredExists(id) /\ requests[id].from_subject = creds[id].subject

\* get_subject_credentials of the present holder lists the credential, however
\* it reached that holder.
ListedUnderHolder ==
    \A id \in Id : CredExists(id) => id \in subject_creds[creds[id].subject]

\* The two records that follow a credential from holder to holder follow it on
\* every path of a transfer: the pending request and the holder's index.
HolderRecordsAgree == CredTypeOK /\ RequestFromHolder /\ ListedUnderHolder

\* Nothing is done to a revoked credential: it does not move, come back, get
\* renewed or amended, even by a transfer that was under way when it was
\* revoked.
RevokedIsFinal ==
    [][\A id \in Id : CredExists(id) /\ creds[id].revoked => creds'[id] = creds[id]]_credVars

\* CRED_RDEPS is exactly the converse of CRED_DEPS (set_prerequisites).
DependantsMatchPrerequisites ==
    \A id, p \in Id : p \in prereqs[id] <=> id \in dependants[p]

\* Every id reachable from id along prerequisites, however deep.
ReachableFrom(id) ==
    LET reach[n \in 0..Cardinality(Id)] ==
            IF n = 0 THEN prereqs[id]
            ELSE reach[n - 1] \cup UNION {prereqs[p] : p \in reach[n - 1]}
    IN  reach[Cardinality(Id)]

\* No two credentials depend on each other, through any chain
\* (check_no_cycle); a credential may still name itself.
NoMutualDependency ==
    \A id, p \in Id :
        id # p /\ p \in ReachableFrom(id) => id \notin ReachableFrom(p)

\* verify_credential answers Ok only if the credential and everything it
\* depends on, at any depth, is unrevoked, unsuspended and unexpired, although
\* the walk looks at MAX_DEP_DEPTH levels only.
VerifiedStandsThroughout ==
    \A id \in Id : verify_credential(id) =>
        \A p \in {id} \cup ReachableFrom(id) : StandsAlone(p)
=============================================================================
