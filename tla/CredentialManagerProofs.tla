------------------------ MODULE CredentialManagerProofs ------------------------
(***************************************************************************)
(* Proofs about the credential manager: how its credentials, nonces,       *)
(* holder index and transfer requests stay consistent, whatever the        *)
(* issuers, subjects, types and bounds are.                                *)
(***************************************************************************)
EXTENDS CredentialManager, FiniteSetTheorems, WellFoundedInduction, TLAPS

-----------------------------------------------------------------------------
(* The inductive invariant. *)

\* Exactly the nonces up to the recorded one have been issued.
IssuedInOrder ==
    \A t \in Triple, n \in 1..MaxNonce : CredExists(<<t, n>>) <=> n <= nonces[t]

\* Every credential of a triple but the latest is revoked.
OlderRevoked ==
    \A t \in Triple, n \in 1..MaxNonce : n < nonces[t] => creds[<<t, n>>].revoked

Consistent ==
    /\ CredTypeOK
    /\ IssuedInOrder
    /\ OlderRevoked
    /\ RequestFromHolder
    /\ ListedUnderHolder
    /\ DependantsMatchPrerequisites

-----------------------------------------------------------------------------
(* What a step does to credentials, nonces, index and requests is one of   *)
(* five things.                                                            *)

Quiet == UNCHANGED <<creds, nonces, subject_creds, requests>>

\* Unrevoked credentials are rewritten, and keep their holders.
Edits ==
    /\ UNCHANGED <<nonces, subject_creds, requests>>
    /\ creds' \in [Id -> Credential \cup {Missing}]
    /\ \A id \in Id :
          \/ creds'[id] = creds[id]
          \/ /\ Live(id)
             /\ creds'[id] # Missing
             /\ creds'[id].subject = creds[id].subject

\* A request is made by the holder, or changes its status.
Asks ==
    /\ UNCHANGED <<creds, nonces, subject_creds>>
    /\ requests' \in [Id -> CredentialTransferRequest \cup {Missing}]
    /\ \A id \in Id :
          \/ requests'[id] = requests[id]
          \/ /\ requests[id] # Missing
             /\ requests'[id].from_subject = requests[id].from_subject
          \/ /\ CredExists(id)
             /\ requests'[id].from_subject = creds[id].subject

Issues == \E t \in Triple, e \in ExpiryInput : IssueCredential(t, e, TRUE)

Moves == \E id \in Id, to \in Party : complete_transfer(id, to)

-----------------------------------------------------------------------------
\* What the entry points write into a credential is a credential again, with
\* the same holder unless that is what is written.
LEMMA CredentialWrites ==
    ASSUME NEW c \in Credential
    PROVE  /\ [c EXCEPT !.revoked = TRUE] \in Credential
           /\ [c EXCEPT !.revoked = TRUE].subject = c.subject
           /\ \A e \in Nat : /\ [c EXCEPT !.expires_at = e] \in Credential
                             /\ [c EXCEPT !.expires_at = e].subject = c.subject
           /\ \A v \in Nat : /\ [c EXCEPT !.version = v] \in Credential
                             /\ [c EXCEPT !.version = v].subject = c.subject
           /\ \A a \in Party : /\ [c EXCEPT !.subject = a] \in Credential
                               /\ [c EXCEPT !.subject = a].subject = a
  BY DEF Credential

\* A change of status leaves a request a request from the same holder.
LEMMA RequestWrites ==
    ASSUME NEW r \in CredentialTransferRequest, NEW s \in TransferStatus
    PROVE  /\ [r EXCEPT !.status = s] \in CredentialTransferRequest
           /\ [r EXCEPT !.status = s].from_subject = r.from_subject
           /\ \A b \in BOOLEAN :
                /\ [r EXCEPT !.approved_by_issuer = b, !.status = s]
                      \in CredentialTransferRequest
                /\ [r EXCEPT !.approved_by_issuer = b, !.status = s].from_subject
                      = r.from_subject
  BY DEF CredentialTransferRequest

\* A credential that exists has the type of one, and so has a request.
LEMMA Stored ==
    ASSUME CredTypeOK, NEW id \in Id
    PROVE  /\ CredExists(id) => creds[id] \in Credential
           /\ requests[id] # Missing => requests[id] \in CredentialTransferRequest
  BY DEF CredTypeOK, CredExists

\* One credential is rewritten.
LEMMA EditOne ==
    ASSUME CredTypeOK, NEW id \in Id, Live(id),
           NEW c \in Credential, c.subject = creds[id].subject,
           creds' = [creds EXCEPT ![id] = c],
           UNCHANGED <<nonces, subject_creds, requests>>
    PROVE  Edits
<1>1. creds' \in [Id -> Credential \cup {Missing}]
  BY DEF CredTypeOK
<1>2. c # Missing
  BY AbsentAssumption
<1> QED
  BY <1>1, <1>2 DEF Edits, CredTypeOK

\* One request is rewritten.
LEMMA AskOne ==
    ASSUME CredTypeOK, NEW id \in Id, requests[id] # Missing,
           NEW r \in CredentialTransferRequest,
           r.from_subject = requests[id].from_subject,
           SetRequest(id, r), TransferFrame
    PROVE  Asks
  BY DEF Asks, SetRequest, CredTypeOK, indexes

\* The five kinds of step are all there are.
LEMMA StepKinds ==
    ASSUME CredTypeOK, [CredNext]_credVars
    PROVE  Quiet \/ Edits \/ Asks \/ Issues \/ Moves
<1> USE TripleAssumption, LimitAssumption
<1>1. ASSUME UNCHANGED credVars PROVE Quiet
  BY <1>1 DEF credVars, Quiet, indexes, transfers
<1>2. ASSUME CredAdminNext PROVE Quiet
  BY <1>2 DEF CredAdminNext, SetPaused, AddIssuer, RemoveIssuer, SetTransferAutoApprove,
              SetTransferPolicy, Quiet, indexes, transfers
<1>3. ASSUME Tick PROVE Quiet
  BY <1>3 DEF Tick, Quiet, indexes, transfers
<1>4. ASSUME NEW t \in Triple, NEW e \in ExpiryInput, NEW did \in BOOLEAN,
             IssueCredential(t, e, did)
      PROVE  Issues
  <2>1. did
    BY <1>4 DEF IssueCredential
  <2>2. did = TRUE
    BY <2>1
  <2> QED BY <1>4, <2>2 DEF Issues
<1>5. ASSUME NEW i \in Issuers, NEW ids \in SUBSET Id, RevokeCredentialsBatch(i, ids)
      PROVE  Edits
  <2> DEFINE New(id) == IF id \in ids /\ Live(id) /\ IssuerOf(id) = i
                        THEN [creds[id] EXCEPT !.revoked = TRUE] ELSE creds[id]
  <2>1. creds' = [id \in Id |-> New(id)]
    BY <1>5 DEF RevokeCredentialsBatch
  <2>2. ASSUME NEW id \in Id
        PROVE  /\ New(id) \in Credential \cup {Missing}
               /\ \/ New(id) = creds[id]
                  \/ /\ Live(id)
                     /\ New(id) # Missing
                     /\ New(id).subject = creds[id].subject
    <3>1. CASE id \in ids /\ Live(id) /\ IssuerOf(id) = i
      <4>1. creds[id] \in Credential
        BY <3>1, Stored DEF Live
      <4>2. New(id) = [creds[id] EXCEPT !.revoked = TRUE]
        BY <3>1
      <4>3. New(id) \in Credential /\ New(id).subject = creds[id].subject
        BY <4>1, <4>2, CredentialWrites
      <4> QED BY <3>1, <4>3, AbsentAssumption
    <3>2. CASE ~(id \in ids /\ Live(id) /\ IssuerOf(id) = i)
      BY <3>2 DEF CredTypeOK
    <3> QED BY <3>1, <3>2
  <2> HIDE DEF New
  <2> QED
    BY <1>5, <2>1, <2>2 DEF Edits, RevokeCredentialsBatch, indexes, transfers
<1>6. ASSUME NEW i \in Issuers, NEW id \in Id,
             \/ SuspendCredential(i, id)
             \/ ReactivateCredential(i, id)
             \/ \E new \in SUBSET Id : SetPrerequisites(i, id, new)
      PROVE  Quiet
  BY <1>6 DEF SuspendCredential, ReactivateCredential, SetPrerequisites, Quiet, indexes,
              transfers
<1>7. ASSUME NEW id \in Id,
             \/ \E i \in Issuers : RevokeCredential(i, id)
             \/ ExpireCredential(id)
      PROVE  Edits
  <2>1. Live(id) /\ creds' = [creds EXCEPT ![id].revoked = TRUE]
           /\ UNCHANGED <<nonces, subject_creds, requests>>
    BY <1>7 DEF RevokeCredential, ExpireCredential, MayExpire, indexes, transfers
  <2>2. creds[id] \in Credential
    BY <2>1, Stored DEF Live
  <2>3. creds' = [creds EXCEPT ![id] = [creds[id] EXCEPT !.revoked = TRUE]]
    BY <2>1
  <2> QED BY <2>1, <2>2, <2>3, CredentialWrites, EditOne
<1>8. ASSUME NEW i \in Issuers, NEW id \in Id, AmendCredential(i, id)
      PROVE  Edits
  <2>1. Live(id) /\ creds' = [creds EXCEPT ![id].version = @ + 1]
           /\ UNCHANGED <<nonces, subject_creds, requests>>
    BY <1>8 DEF AmendCredential, indexes, transfers
  <2>2. creds[id] \in Credential
    BY <2>1, Stored DEF Live
  <2>3. creds[id].version + 1 \in Nat
    BY <2>2 DEF Credential
  <2>4. creds' = [creds EXCEPT ![id] = [creds[id] EXCEPT !.version = creds[id].version + 1]]
    BY <2>1
  <2> QED BY <2>1, <2>2, <2>3, <2>4, CredentialWrites, EditOne
<1>9. ASSUME NEW i \in Issuers, NEW id \in Id, NEW e \in ExpiryInput,
             RenewCredential(i, id, e)
      PROVE  Edits
  <2>1. Live(id) /\ creds' = [creds EXCEPT ![id].expires_at = e]
           /\ UNCHANGED <<nonces, subject_creds, requests>>
    BY <1>9 DEF RenewCredential, indexes, transfers
  <2>2. creds[id] \in Credential /\ e \in Nat
    BY <2>1, Stored DEF Live
  <2>3. creds' = [creds EXCEPT ![id] = [creds[id] EXCEPT !.expires_at = e]]
    BY <2>1
  <2> QED BY <2>1, <2>2, <2>3, CredentialWrites, EditOne
<1>10. ASSUME NEW a \in Party, NEW id \in Id, NEW r \in Recipient,
              InitiateTransfer(a, id, r)
       PROVE  Asks
  <2> DEFINE new == [from_subject |-> a, to_subject |-> r,
                     approved_by_issuer |-> FALSE, status |-> "Pending"]
  <2>1. new \in CredentialTransferRequest /\ new.from_subject = a
    BY DEF CredentialTransferRequest, TransferStatus
  <2>2. /\ requests' = [requests EXCEPT ![id] = new]
        /\ CredExists(id)
        /\ creds[id].subject = a
        /\ UNCHANGED <<creds, nonces, subject_creds>>
    BY <1>10 DEF InitiateTransfer, Live, indexes
  <2> HIDE DEF new
  <2>3. requests' \in [Id -> CredentialTransferRequest \cup {Missing}]
    BY <2>1, <2>2 DEF CredTypeOK
  <2>4. ASSUME NEW j \in Id
        PROVE  \/ requests'[j] = requests[j]
               \/ CredExists(j) /\ requests'[j].from_subject = creds[j].subject
    BY <2>1, <2>2 DEF CredTypeOK
  <2> QED BY <2>2, <2>3, <2>4 DEF Asks
<1>11. ASSUME NEW id \in Id, NEW r \in Recipient, AcceptTransfer(r, id)
       PROVE  Asks \/ Moves
  <2>1. requests[id] # Missing /\ requests[id] \in CredentialTransferRequest
    BY <1>11, Stored DEF AcceptTransfer
  <2>2. CASE complete_transfer(id, r)
    BY <2>2 DEF Moves
  <2>3. CASE SetRequest(id, [requests[id] EXCEPT !.status = "Approved"]) /\ TransferFrame
    BY <2>1, <2>3, RequestWrites, AskOne DEF TransferStatus
  <2> QED BY <1>11, <2>2, <2>3 DEF AcceptTransfer
<1>12. ASSUME NEW id \in Id, NEW r \in Recipient, RejectTransfer(r, id)
       PROVE  Asks
  <2>1. /\ requests[id] # Missing /\ requests[id] \in CredentialTransferRequest
        /\ SetRequest(id, [requests[id] EXCEPT !.status = "Rejected"]) /\ TransferFrame
    BY <1>12, Stored DEF RejectTransfer
  <2> QED BY <2>1, RequestWrites, AskOne DEF TransferStatus
<1>13. ASSUME NEW i \in Issuers, NEW id \in Id, NEW b \in BOOLEAN, ConfirmTransfer(i, id, b)
       PROVE  Asks \/ Moves
  <2>1. requests[id] # Missing /\ requests[id] \in CredentialTransferRequest
    BY <1>13, Stored DEF ConfirmTransfer
  <2>2. CASE complete_transfer(id, requests[id].to_subject)
    <3>1. requests[id].to_subject \in Party
      BY <2>1 DEF CredentialTransferRequest
    <3> QED BY <2>2, <3>1 DEF Moves
  <2>3. ASSUME NEW c \in BOOLEAN, NEW s \in TransferStatus,
               SetRequest(id, [requests[id] EXCEPT !.approved_by_issuer = c, !.status = s]),
               TransferFrame
        PROVE  Asks
    BY <2>1, <2>3, RequestWrites, AskOne
  <2> QED BY <1>13, <2>2, <2>3 DEF ConfirmTransfer, TransferStatus
<1>14. ASSUME NEW a \in Party, NEW id \in Id, NEW r \in Recipient,
              TransferCredential(a, id, r)
       PROVE  Moves
  BY <1>14 DEF TransferCredential, Moves
<1> QED
  BY <1>1, <1>2, <1>3, <1>4, <1>5, <1>6, <1>7, <1>8, <1>9, <1>10, <1>11, <1>12, <1>13,
     <1>14 DEF CredNext, IssuerNext, HolderNext

-----------------------------------------------------------------------------
(* Types. *)

\* The entries that StepKinds does not speak of.
SideTypes ==
    /\ issuers \subseteq Issuers
    /\ creds_paused \in BOOLEAN
    /\ revoked_cnt \in Nat
    /\ suspended \subseteq Id
    /\ auto_approve \in BOOLEAN
    /\ blocked_types \subseteq Types
    /\ prereqs \in [Id -> SUBSET Id]
    /\ dependants \in [Id -> SUBSET Id]
    /\ now \in Nat

LEMMA SideTypesStep ==
    ASSUME CredTypeOK, [CredNext]_credVars
    PROVE  SideTypes'
<1>1. SideTypes
  BY DEF CredTypeOK, SideTypes
<1>2. CASE UNCHANGED credVars
  <2>1. UNCHANGED <<issuers, creds_paused, revoked_cnt, suspended, auto_approve, blocked_types,
                    prereqs, dependants, now>>
    BY <1>2 DEF credVars, config, transfers, graph
  <2> QED BY <1>1, <2>1 DEF SideTypes
<1>3. CASE CredAdminNext
  <2>1. creds_paused' \in BOOLEAN /\ auto_approve' \in BOOLEAN
    BY <1>1, <1>3 DEF SideTypes, CredAdminNext, SetPaused, AddIssuer, RemoveIssuer,
                      SetTransferAutoApprove, SetTransferPolicy, config, transfers
  <2> QED
    BY <1>1, <1>3, <2>1 DEF SideTypes, CredAdminNext, SetPaused, AddIssuer, RemoveIssuer,
                            SetTransferAutoApprove, SetTransferPolicy, config, transfers, graph
<1>4. CASE Tick
  BY <1>1, <1>4 DEF SideTypes, Tick, config, transfers, graph
<1>5. ASSUME NEW t \in Triple, NEW e \in ExpiryInput, NEW did \in BOOLEAN,
             IssueCredential(t, e, did)
      PROVE  SideTypes'
  BY <1>1, <1>5 DEF SideTypes, IssueCredential, config, transfers, graph
<1>6. ASSUME NEW i \in Issuers, NEW ids \in SUBSET Id, RevokeCredentialsBatch(i, ids)
      PROVE  SideTypes'
  BY <1>1, <1>6 DEF SideTypes, RevokeCredentialsBatch, config, transfers, graph
<1>7. ASSUME NEW i \in Issuers, NEW id \in Id,
             \/ RevokeCredential(i, id) \/ AmendCredential(i, id)
             \/ \E e \in ExpiryInput : RenewCredential(i, id, e)
      PROVE  SideTypes'
  BY <1>1, <1>7 DEF SideTypes, RevokeCredential, AmendCredential, RenewCredential, config,
                    transfers, graph
<1>8. ASSUME NEW i \in Issuers, NEW id \in Id,
             SuspendCredential(i, id) \/ ReactivateCredential(i, id)
      PROVE  SideTypes'
  BY <1>1, <1>8 DEF SideTypes, SuspendCredential, ReactivateCredential, config, transfers,
                    graph
<1>9. ASSUME NEW id \in Id, ExpireCredential(id)
      PROVE  SideTypes'
  BY <1>1, <1>9 DEF SideTypes, ExpireCredential, config, transfers, graph
<1>10. ASSUME NEW i \in Issuers, NEW id \in Id, NEW new \in SUBSET Id,
              SetPrerequisites(i, id, new)
       PROVE  SideTypes'
  <2>1. prereqs' \in [Id -> SUBSET Id]
    BY <1>1, <1>10 DEF SideTypes, SetPrerequisites
  <2>2. dependants' \in [Id -> SUBSET Id]
    BY <1>1, <1>10 DEF SideTypes, SetPrerequisites, Relinked
  <2> QED
    BY <1>1, <1>10, <2>1, <2>2 DEF SideTypes, SetPrerequisites, config, transfers
<1>11. ASSUME TransferFrame PROVE SideTypes'
  BY <1>1, <1>11 DEF SideTypes, TransferFrame, config, graph
<1>12. ASSUME NEW a \in Party, NEW id \in Id, NEW r \in Recipient,
              InitiateTransfer(a, id, r)
       PROVE  SideTypes'
  BY <1>1, <1>12 DEF SideTypes, InitiateTransfer, config, graph
<1>13. ASSUME NEW id \in Id,
              \/ \E r \in Recipient : AcceptTransfer(r, id) \/ RejectTransfer(r, id)
              \/ \E i \in Issuers, b \in BOOLEAN : ConfirmTransfer(i, id, b)
              \/ \E a \in Party, r \in Recipient : TransferCredential(a, id, r)
       PROVE  TransferFrame
  BY <1>13 DEF AcceptTransfer, RejectTransfer, ConfirmTransfer, TransferCredential
<1> QED
  BY <1>2, <1>3, <1>4, <1>5, <1>6, <1>7, <1>8, <1>9, <1>10, <1>11, <1>12, <1>13
     DEF CredNext, IssuerNext, HolderNext

\* What an issuance to t writes, when c is the credential and id its id.
IssuedTo(t, id, c) ==
    /\ id = <<t, nonces[t] + 1>>
    /\ nonces[t] + 1 \in 1..MaxNonce
    /\ nonces' = [nonces EXCEPT ![t] = nonces[t] + 1]
    /\ c.subject = t.subject
    /\ c.revoked = FALSE
    /\ t.subject \in Party
    /\ creds' = [creds EXCEPT ![id] = c]
    /\ subject_creds' = [subject_creds EXCEPT ![t.subject] = @ \cup {id}]
    /\ requests' = requests

\* What a completed transfer writes, when c is the credential as it leaves it.
MovedTo(to, id, c) ==
    /\ Live(id)
    /\ c.subject = to
    /\ creds' = [creds EXCEPT ![id] = c]
    /\ subject_creds' = [subject_creds EXCEPT ![to] = @ \cup {id}]
    /\ requests' = [requests EXCEPT ![id] = Missing]
    /\ nonces' = nonces

\* An issued credential is a credential, under an id of its own.
LEMMA IssuedRecord ==
    ASSUME CredTypeOK, NEW t \in Triple, NEW e \in ExpiryInput, IssueCredential(t, e, TRUE)
    PROVE  \E id \in Id, c \in Credential : IssuedTo(t, id, c)
<1> DEFINE c == [subject |-> t.subject, expires_at |-> e, revoked |-> FALSE, version |-> 1]
           id == <<t, nonces[t] + 1>>
<1>1. t.subject \in Party
  BY TripleAssumption
<1>2. c \in Credential /\ c.subject = t.subject /\ c.revoked = FALSE
  BY <1>1, LimitAssumption DEF Credential
<1>3. nonces[t] + 1 \in 1..MaxNonce
  BY LimitAssumption DEF CredTypeOK, IssueCredential
<1>4. id \in Id
  BY <1>3 DEF Id
<1>5. /\ creds' = [creds EXCEPT ![id] = c]
      /\ nonces' = [nonces EXCEPT ![t] = nonces[t] + 1]
      /\ subject_creds' = [subject_creds EXCEPT ![t.subject] = @ \cup {id}]
      /\ requests' = requests
  BY DEF IssueCredential, derive_id, transfers
<1> HIDE DEF c, id
<1>6. id = <<t, nonces[t] + 1>>
  BY DEF id
<1>7. IssuedTo(t, id, c)
  BY <1>1, <1>2, <1>3, <1>5, <1>6 DEF IssuedTo
<1> QED BY <1>2, <1>4, <1>7

\* What a completed transfer writes.
LEMMA MovedRecord ==
    ASSUME CredTypeOK, NEW id \in Id, NEW to \in Party, complete_transfer(id, to)
    PROVE  \E c \in Credential : MovedTo(to, id, c)
<1>1. /\ Live(id)
      /\ creds' = [creds EXCEPT ![id] = [creds[id] EXCEPT !.subject = to]]
      /\ subject_creds' = [subject_creds EXCEPT ![to] = @ \cup {id}]
      /\ requests' = [requests EXCEPT ![id] = Missing]
      /\ nonces' = nonces
  BY DEF complete_transfer, Transferable, ListedUnder, ClearedRequest
<1>2. creds[id] \in Credential
  BY <1>1, Stored DEF Live
<1> QED BY <1>1, <1>2, CredentialWrites DEF MovedTo

LEMMA TypeStep == CredTypeOK /\ [CredNext]_credVars => CredTypeOK'
<1> SUFFICES ASSUME CredTypeOK, [CredNext]_credVars PROVE CredTypeOK'
  OBVIOUS
<1> DEFINE Main == /\ creds \in [Id -> Credential \cup {Missing}]
                   /\ nonces \in [Triple -> 0..MaxNonce]
                   /\ subject_creds \in [Party -> SUBSET Id]
                   /\ requests \in [Id -> CredentialTransferRequest \cup {Missing}]
<1>1. Main
  BY DEF CredTypeOK
<1>2. ASSUME Quiet PROVE Main'
  BY <1>1, <1>2 DEF Quiet
<1>3. ASSUME Edits PROVE Main'
  BY <1>1, <1>3 DEF Edits
<1>4. ASSUME Asks PROVE Main'
  BY <1>1, <1>4 DEF Asks
<1>5. ASSUME Issues PROVE Main'
  <2>1. PICK t \in Triple, e \in ExpiryInput : IssueCredential(t, e, TRUE)
    BY <1>5 DEF Issues
  <2>2. PICK id \in Id, c \in Credential : IssuedTo(t, id, c)
    BY <2>1, IssuedRecord
  <2>3. nonces' \in [Triple -> 0..MaxNonce]
    BY <1>1, <2>2, LimitAssumption DEF IssuedTo
  <2>4. creds' \in [Id -> Credential \cup {Missing}]
    BY <1>1, <2>2 DEF IssuedTo
  <2>5. subject_creds' \in [Party -> SUBSET Id]
    BY <1>1, <2>2 DEF IssuedTo
  <2> QED BY <1>1, <2>2, <2>3, <2>4, <2>5 DEF IssuedTo
<1>6. ASSUME Moves PROVE Main'
  <2>1. PICK id \in Id, to \in Party : complete_transfer(id, to)
    BY <1>6 DEF Moves
  <2>2. PICK c \in Credential : MovedTo(to, id, c)
    BY <2>1, MovedRecord
  <2> QED BY <1>1, <2>2 DEF MovedTo
<1>7. Main'
  BY <1>2, <1>3, <1>4, <1>5, <1>6, StepKinds
<1> QED BY <1>7, SideTypesStep DEF SideTypes, CredTypeOK

-----------------------------------------------------------------------------
(* The parts of the invariant, one kind of step at a time. *)

LEMMA InitConsistent == CredInit => Consistent
<1> SUFFICES ASSUME CredInit PROVE Consistent
  OBVIOUS
<1> USE LimitAssumption
<1>1. creds_paused \in BOOLEAN /\ auto_approve \in BOOLEAN
  BY DEF CredInit
<1>2. CredTypeOK
  BY <1>1 DEF CredInit, CredTypeOK
<1>3. \A id \in Id : ~CredExists(id) /\ requests[id] = Missing
  BY DEF CredInit, CredExists
<1>4. IssuedInOrder /\ OlderRevoked
  BY <1>3 DEF CredInit, IssuedInOrder, OlderRevoked, Id
<1>5. RequestFromHolder /\ ListedUnderHolder
  BY <1>3 DEF RequestFromHolder, ListedUnderHolder
<1>6. DependantsMatchPrerequisites
  BY DEF CredInit, DependantsMatchPrerequisites
<1> QED BY <1>2, <1>4, <1>5, <1>6 DEF Consistent

\* Issuance takes the next nonce, and only after its predecessor is revoked.
LEMMA IssuanceStep ==
    ASSUME Consistent, [CredNext]_credVars
    PROVE  IssuedInOrder' /\ OlderRevoked'
<1> USE LimitAssumption, AbsentAssumption
<1>1. CredTypeOK /\ IssuedInOrder /\ OlderRevoked
  BY DEF Consistent
<1>2. ASSUME Quiet \/ Asks PROVE IssuedInOrder' /\ OlderRevoked'
  BY <1>1, <1>2 DEF Quiet, Asks, IssuedInOrder, OlderRevoked, CredExists
<1>3. ASSUME Edits PROVE IssuedInOrder' /\ OlderRevoked'
  <2>1. ASSUME NEW t \in Triple, NEW n \in 1..MaxNonce
        PROVE  /\ CredExists(<<t, n>>)' <=> n <= nonces'[t]
               /\ n < nonces'[t] => creds'[<<t, n>>].revoked
    <3>1. <<t, n>> \in Id
      BY DEF Id
    <3>2. nonces' = nonces /\ nonces[t] \in Nat
      BY <1>1, <1>3 DEF Edits, CredTypeOK
    <3>3. \/ creds'[<<t, n>>] = creds[<<t, n>>]
          \/ Live(<<t, n>>) /\ creds'[<<t, n>>] # Missing
      BY <1>3, <3>1 DEF Edits
    <3> QED BY <1>1, <3>2, <3>3 DEF IssuedInOrder, OlderRevoked, CredExists, Live
  <2> QED BY <2>1 DEF IssuedInOrder, OlderRevoked
<1>4. ASSUME Issues PROVE IssuedInOrder' /\ OlderRevoked'
  <2>1. PICK t \in Triple, e \in ExpiryInput : IssueCredential(t, e, TRUE)
    BY <1>4 DEF Issues
  <2>2. PICK id \in Id, c \in Credential : IssuedTo(t, id, c)
    BY <1>1, <2>1, IssuedRecord
  <2>3. nonces[t] # 0 => creds[<<t, nonces[t]>>].revoked
    BY <2>1 DEF IssueCredential, LatestRevoked, derive_id
  <2>4. ASSUME NEW u \in Triple, NEW n \in 1..MaxNonce
        PROVE  /\ CredExists(<<u, n>>)' <=> n <= nonces'[u]
               /\ n < nonces'[u] => creds'[<<u, n>>].revoked
    <3>1. <<u, n>> \in Id
      BY DEF Id
    <3>2. nonces[u] \in Nat /\ nonces[t] \in Nat
      BY <1>1 DEF CredTypeOK
    <3>3. /\ creds[<<u, n>>] # Missing <=> n <= nonces[u]
          /\ n < nonces[u] => creds[<<u, n>>].revoked
      BY <1>1 DEF IssuedInOrder, OlderRevoked, CredExists
    <3>4. CASE <<u, n>> = id
      <4>1. u = t /\ n = nonces[t] + 1 /\ nonces'[u] = n
        BY <1>1, <2>2, <3>4 DEF CredTypeOK, IssuedTo
      <4>2. creds'[<<u, n>>] = c
        BY <1>1, <2>2, <3>4 DEF CredTypeOK, IssuedTo
      <4> QED BY <4>1, <4>2 DEF CredExists
    <3>5. CASE <<u, n>> # id
      <4>1. creds'[<<u, n>>] = creds[<<u, n>>]
        BY <1>1, <2>2, <3>1, <3>5 DEF CredTypeOK, IssuedTo
      <4>2. CASE u = t
        <5>1. nonces'[u] = nonces[t] + 1 /\ n # nonces[t] + 1
          BY <1>1, <2>2, <3>5, <4>2 DEF CredTypeOK, IssuedTo
        <5> QED BY <2>3, <3>2, <3>3, <4>1, <4>2, <5>1 DEF CredExists
      <4>3. CASE u # t
        <5>1. nonces'[u] = nonces[u]
          BY <1>1, <2>2, <4>3 DEF CredTypeOK, IssuedTo
        <5> QED BY <3>3, <4>1, <5>1 DEF CredExists
      <4> QED BY <4>2, <4>3
    <3> QED BY <3>4, <3>5
  <2> QED BY <2>4 DEF IssuedInOrder, OlderRevoked
<1>5. ASSUME Moves PROVE IssuedInOrder' /\ OlderRevoked'
  <2>1. PICK id \in Id, to \in Party : complete_transfer(id, to)
    BY <1>5 DEF Moves
  <2>2. PICK c \in Credential : MovedTo(to, id, c)
    BY <1>1, <2>1, MovedRecord
  <2>3. ASSUME NEW t \in Triple, NEW n \in 1..MaxNonce
        PROVE  /\ CredExists(<<t, n>>)' <=> n <= nonces'[t]
               /\ n < nonces'[t] => creds'[<<t, n>>].revoked
    <3>1. <<t, n>> \in Id
      BY DEF Id
    <3>2. /\ creds[<<t, n>>] # Missing <=> n <= nonces[t]
          /\ n < nonces[t] => creds[<<t, n>>].revoked
      BY <1>1 DEF IssuedInOrder, OlderRevoked, CredExists
    <3>3. CASE <<t, n>> = id
      <4>1. creds[<<t, n>>] # Missing /\ ~creds[<<t, n>>].revoked
        BY <2>2, <3>3 DEF Live, CredExists, MovedTo
      <4>2. creds'[<<t, n>>] = c
        BY <1>1, <2>2, <3>1, <3>3 DEF CredTypeOK, MovedTo
      <4> QED BY <2>2, <3>2, <4>1, <4>2 DEF CredExists, MovedTo
    <3>4. CASE <<t, n>> # id
      <4>1. creds'[<<t, n>>] = creds[<<t, n>>]
        BY <1>1, <2>2, <3>1, <3>4 DEF CredTypeOK, MovedTo
      <4> QED BY <2>2, <3>2, <4>1 DEF CredExists, MovedTo
    <3> QED BY <3>3, <3>4
  <2> QED BY <2>3 DEF IssuedInOrder, OlderRevoked
<1> QED BY <1>1, <1>2, <1>3, <1>4, <1>5, StepKinds

\* A request never outlives the move of its credential, and whoever comes to
\* hold a credential gets it listed.
LEMMA HolderStep ==
    ASSUME Consistent, [CredNext]_credVars
    PROVE  RequestFromHolder' /\ ListedUnderHolder'
<1> USE AbsentAssumption
<1>1. CredTypeOK /\ RequestFromHolder /\ ListedUnderHolder /\ IssuedInOrder
  BY DEF Consistent
<1> DEFINE Right(id) == /\ requests[id] # Missing =>
                              CredExists(id) /\ requests[id].from_subject = creds[id].subject
                        /\ CredExists(id) => id \in subject_creds[creds[id].subject]
<1>2. \A id \in Id : Right(id)
  BY <1>1 DEF RequestFromHolder, ListedUnderHolder
<1> SUFFICES ASSUME NEW j \in Id PROVE Right(j)'
  BY DEF RequestFromHolder, ListedUnderHolder
<1>3. Right(j)
  BY <1>2
<1>4. ASSUME Quiet PROVE Right(j)'
  BY <1>3, <1>4 DEF Quiet, CredExists
<1>5. ASSUME Edits PROVE Right(j)'
  BY <1>3, <1>5 DEF Edits, CredExists, Live
<1>6. ASSUME Asks PROVE Right(j)'
  BY <1>3, <1>6 DEF Asks, CredExists
<1>7. ASSUME Issues PROVE Right(j)'
  <2>1. PICK t \in Triple, e \in ExpiryInput : IssueCredential(t, e, TRUE)
    BY <1>7 DEF Issues
  <2>2. PICK id \in Id, c \in Credential : IssuedTo(t, id, c)
    BY <1>1, <2>1, IssuedRecord
  <2>3. creds[id] = Missing
    <3>1. nonces[t] \in Nat /\ id = <<t, nonces[t] + 1>> /\ nonces[t] + 1 \in 1..MaxNonce
      BY <1>1, <2>2 DEF IssuedTo, CredTypeOK
    <3>2. ~(nonces[t] + 1 <= nonces[t])
      BY <3>1
    <3> QED BY <1>1, <3>1, <3>2 DEF IssuedInOrder, CredExists
  <2>4. requests[id] = Missing
    BY <1>2, <2>3 DEF CredExists
  <2>5. \A a \in Party : subject_creds[a] \subseteq subject_creds'[a]
    BY <1>1, <2>2 DEF IssuedTo, CredTypeOK
  <2>6. CASE j = id
    <3>1. creds'[j] = c /\ requests'[j] = Missing
      BY <1>1, <2>2, <2>4, <2>6 DEF IssuedTo, CredTypeOK
    <3>2. id \in subject_creds'[c.subject]
      BY <1>1, <2>2 DEF IssuedTo, CredTypeOK
    <3> QED BY <2>6, <3>1, <3>2
  <2>7. CASE j # id
    <3>1. creds'[j] = creds[j] /\ requests'[j] = requests[j]
      BY <1>1, <2>2, <2>7 DEF IssuedTo, CredTypeOK
    <3>2. CredExists(j) => creds[j].subject \in Party
      BY <1>1, Stored DEF Credential
    <3> QED BY <1>3, <2>5, <3>1, <3>2 DEF CredExists
  <2> QED BY <2>6, <2>7
<1>8. ASSUME Moves PROVE Right(j)'
  <2>1. PICK id \in Id, to \in Party : complete_transfer(id, to)
    BY <1>8 DEF Moves
  <2>2. PICK c \in Credential : MovedTo(to, id, c)
    BY <1>1, <2>1, MovedRecord
  <2>3. \A a \in Party : subject_creds[a] \subseteq subject_creds'[a]
    BY <1>1, <2>2 DEF MovedTo, CredTypeOK
  <2>4. CASE j = id
    <3>1. creds'[j] = c /\ requests'[j] = Missing /\ j \in subject_creds'[c.subject]
      BY <1>1, <2>2, <2>4 DEF MovedTo, CredTypeOK
    <3> QED BY <3>1
  <2>5. CASE j # id
    <3>1. creds'[j] = creds[j] /\ requests'[j] = requests[j]
      BY <1>1, <2>2, <2>5 DEF MovedTo, CredTypeOK
    <3>2. CredExists(j) => creds[j].subject \in Party
      BY <1>1, Stored DEF Credential
    <3> QED BY <1>3, <2>3, <3>1, <3>2 DEF CredExists
  <2> QED BY <2>4, <2>5
<1> QED BY <1>1, <1>4, <1>5, <1>6, <1>7, <1>8, StepKinds

\* set_prerequisites is the only writer of the graph, and writes both sides.
LEMMA GraphStep ==
    ASSUME Consistent, [CredNext]_credVars
    PROVE  DependantsMatchPrerequisites'
<1>1. CredTypeOK /\ DependantsMatchPrerequisites
  BY DEF Consistent
<1>2. ASSUME UNCHANGED graph PROVE DependantsMatchPrerequisites'
  BY <1>1, <1>2 DEF graph, DependantsMatchPrerequisites
<1>3. ASSUME NEW i \in Issuers, NEW id \in Id, NEW new \in SUBSET Id,
             SetPrerequisites(i, id, new)
      PROVE  DependantsMatchPrerequisites'
  <2> SUFFICES ASSUME NEW k \in Id, NEW p \in Id
               PROVE  p \in prereqs'[k] <=> k \in dependants'[p]
    BY DEF DependantsMatchPrerequisites
  <2>1. p \in prereqs[k] <=> k \in dependants[p]
    BY <1>1 DEF DependantsMatchPrerequisites
  <2>2. p \in prereqs[id] <=> id \in dependants[p]
    BY <1>1 DEF DependantsMatchPrerequisites
  <2>3. prereqs'[k] = IF k = id THEN new ELSE prereqs[k]
    BY <1>1, <1>3 DEF SetPrerequisites, CredTypeOK
  <2>4. dependants'[p] = IF p \in new THEN dependants[p] \cup {id}
                         ELSE IF p \in prereqs[id] THEN dependants[p] \ {id}
                         ELSE dependants[p]
    BY <1>3 DEF SetPrerequisites, Relinked
  <2> QED BY <2>1, <2>2, <2>3, <2>4
<1>4. CASE UNCHANGED credVars
  BY <1>2, <1>4 DEF credVars
<1>5. CASE CredAdminNext \/ Tick
  BY <1>2, <1>5 DEF CredAdminNext, SetPaused, AddIssuer, RemoveIssuer, SetTransferAutoApprove,
                    SetTransferPolicy, Tick
<1>6. CASE HolderNext
  BY <1>2, <1>6 DEF HolderNext, ExpireCredential, AcceptTransfer, RejectTransfer,
                    InitiateTransfer, TransferCredential, TransferFrame
<1>7. CASE IssuerNext
  BY <1>2, <1>3, <1>7 DEF IssuerNext, IssueCredential, RevokeCredentialsBatch,
     RevokeCredential, SuspendCredential, ReactivateCredential, AmendCredential,
     RenewCredential, ConfirmTransfer, TransferFrame
<1> QED BY <1>4, <1>5, <1>6, <1>7 DEF CredNext

\* The conjunction is inductive.
LEMMA AlwaysConsistent == CredSpec => []Consistent
<1>1. Consistent /\ [CredNext]_credVars => Consistent'
  <2> SUFFICES ASSUME Consistent, [CredNext]_credVars PROVE Consistent'
    OBVIOUS
  <2>1. CredTypeOK'
    BY TypeStep DEF Consistent
  <2> QED BY <2>1, IssuanceStep, HolderStep, GraphStep DEF Consistent
<1> QED BY <1>1, InitConsistent, PTL DEF CredSpec

-----------------------------------------------------------------------------
(* The prerequisite graph.  Level and ReachableFrom are defined by         *)
(* recursion on a number; the lemmas say that both recursions have a       *)
(* solution, by least counterexample.                                      *)

LEMMA LeastNumber ==
    ASSUME NEW T \in SUBSET Nat, T # {}
    PROVE  \E m \in T : \A n \in T : m <= n
<1>1. PICK m \in T : \A n \in T : ~(<<n, m>> \in OpToRel(<, Nat))
  BY NatLessThanWellFounded, WFMin
<1>2. \A n \in T : ~(n < m)
  BY <1>1 DEF OpToRel
<1> QED BY <1>2

\* f unrolls the function F from B for N rounds.
Unrolls(f, B, F, N) ==
    f = [n \in 0..N |-> IF n = 0 THEN B ELSE F[f[n - 1]]]

LEMMA UnrollingExists ==
    ASSUME NEW S, NEW B \in S, NEW F \in [S -> S], NEW N \in Nat
    PROVE  \E f \in [0..N -> S] : Unrolls(f, B, F, N)
<1> DEFINE Bad == {n \in Nat : ~ \E f \in [0..n -> S] : Unrolls(f, B, F, n)}
<1> SUFFICES ASSUME Bad # {} PROVE FALSE
  OBVIOUS
<1>1. PICK m \in Bad : \A n \in Bad : m <= n
  <2>1. Bad \in SUBSET Nat
    OBVIOUS
  <2> HIDE DEF Bad
  <2> QED BY <2>1, LeastNumber
<1>2. m \in Nat
  OBVIOUS
<1>3. CASE m = 0
  <2> DEFINE f == [n \in 0..0 |-> B]
  <2>1. f \in [0..m -> S] /\ Unrolls(f, B, F, m)
    BY <1>3 DEF Unrolls
  <2> QED BY <1>1, <2>1
<1>4. CASE m # 0
  <2>1. m - 1 \in Nat /\ m - 1 \notin Bad
    BY <1>1, <1>2, <1>4
  <2>2. PICK g \in [0..(m - 1) -> S] : Unrolls(g, B, F, m - 1)
    BY <2>1
  <2> DEFINE f == [n \in 0..m |-> IF n = m THEN F[g[m - 1]] ELSE g[n]]
  <2>3. g[m - 1] \in S
    BY <2>1
  <2>4. f \in [0..m -> S]
    BY <1>2, <2>3
  <2>5. \A n \in 0..m : f[n] = IF n = 0 THEN B ELSE F[f[n - 1]]
    <3> TAKE n \in 0..m
    <3>1. CASE n = m
      BY <1>2, <1>4, <3>1
    <3>2. CASE n # m
      <4>1. n \in 0..(m - 1) /\ f[n] = g[n]
        BY <1>2, <3>2
      <4>2. g[n] = IF n = 0 THEN B ELSE F[g[n - 1]]
        BY <2>2, <4>1 DEF Unrolls
      <4>3. n # 0 => n - 1 \in 0..m /\ n - 1 # m /\ f[n - 1] = g[n - 1]
        BY <1>2, <4>1
      <4> QED BY <4>1, <4>2, <4>3
    <3> QED BY <3>1, <3>2
  <2>6. f = [n \in 0..m |-> f[n]]
    OBVIOUS
  <2>7. Unrolls(f, B, F, m)
    <3> HIDE DEF f
    <3> QED BY <2>5, <2>6 DEF Unrolls
  <2> QED BY <1>1, <2>4, <2>7
<1> QED BY <1>3, <1>4

\* The graph as a function on sets, and what the two recursions demand.
Successors(S) == UNION {prereqs[p] : p \in S}
IsLevel(f, id) ==
    f = [d \in 0..MAX_DEP_DEPTH |->
           IF d = 0 THEN {id} ELSE UNION {prereqs[p] : p \in f[d - 1]}]
IsReach(f, id) ==
    f = [n \in 0..Cardinality(Id) |->
           IF n = 0 THEN prereqs[id]
           ELSE f[n - 1] \cup UNION {prereqs[p] : p \in f[n - 1]}]

LEMMA SuccessorsInId ==
    ASSUME CredTypeOK, NEW S \in SUBSET Id
    PROVE  Successors(S) \in SUBSET Id
  BY DEF CredTypeOK, Successors

LEMMA LevelSteps ==
    ASSUME CredTypeOK, NEW id \in Id
    PROVE  /\ Level(id) \in [0..MAX_DEP_DEPTH -> SUBSET Id]
           /\ Level(id)[0] = {id}
           /\ \A d \in 1..MAX_DEP_DEPTH : Level(id)[d] = Successors(Level(id)[d - 1])
<1> DEFINE F == [S \in SUBSET Id |-> Successors(S)]
<1>1. MAX_DEP_DEPTH \in Nat /\ {id} \in SUBSET Id
  BY LimitAssumption
<1>2. F \in [SUBSET Id -> SUBSET Id]
  BY SuccessorsInId
<1>3. PICK f \in [0..MAX_DEP_DEPTH -> SUBSET Id] : Unrolls(f, {id}, F, MAX_DEP_DEPTH)
  <2> HIDE DEF F
  <2> QED BY <1>1, <1>2, UnrollingExists
<1>4. IsLevel(f, id)
  <2>1. \A d \in 0..MAX_DEP_DEPTH :
          f[d] = IF d = 0 THEN {id} ELSE UNION {prereqs[p] : p \in f[d - 1]}
    <3> TAKE d \in 0..MAX_DEP_DEPTH
    <3>1. f[d] = IF d = 0 THEN {id} ELSE F[f[d - 1]]
      BY <1>3 DEF Unrolls
    <3>2. d # 0 => f[d - 1] \in SUBSET Id
      BY <1>1
    <3> QED BY <3>1, <3>2 DEF Successors
  <2> QED BY <2>1 DEF IsLevel
<1>5. IsLevel(Level(id), id)
  <2>1. Level(id) = CHOOSE g : IsLevel(g, id)
    BY DEF Level, IsLevel
  <2> QED BY <1>4, <2>1
<1>6. Level(id)[0] = {id}
      /\ \A d \in 1..MAX_DEP_DEPTH : Level(id)[d] = Successors(Level(id)[d - 1])
  <2> HIDE DEF Level
  <2>1. Level(id) = [d \in 0..MAX_DEP_DEPTH |->
                       IF d = 0 THEN {id} ELSE UNION {prereqs[p] : p \in Level(id)[d - 1]}]
    BY <1>5 DEF IsLevel
  <2>2. \A d \in 0..MAX_DEP_DEPTH : Level(id)[d]
          = IF d = 0 THEN {id} ELSE UNION {prereqs[p] : p \in Level(id)[d - 1]}
    BY <2>1, Zenon
  <2>3. 0 \in 0..MAX_DEP_DEPTH
        /\ \A d \in 1..MAX_DEP_DEPTH : d \in 0..MAX_DEP_DEPTH /\ d # 0
    BY <1>1
  <2>4. Level(id)[0] = {id}
    BY <2>2, <2>3
  <2>5. ASSUME NEW d \in 1..MAX_DEP_DEPTH PROVE Level(id)[d] = Successors(Level(id)[d - 1])
    <3>1. d \in 0..MAX_DEP_DEPTH /\ d # 0
      BY <2>3
    <3>2. Level(id)[d] = UNION {prereqs[p] : p \in Level(id)[d - 1]}
      BY <2>2, <3>1, Zenon
    <3> QED BY <3>2 DEF Successors
  <2> QED BY <2>4, <2>5
<1>7. \A d \in 0..MAX_DEP_DEPTH : Level(id)[d] \in SUBSET Id
  <2> DEFINE Bad == {d \in 0..MAX_DEP_DEPTH : Level(id)[d] \notin SUBSET Id}
  <2> SUFFICES ASSUME Bad # {} PROVE FALSE
    OBVIOUS
  <2>1. PICK m \in Bad : \A n \in Bad : m <= n
    <3>1. Bad \in SUBSET Nat
      BY <1>1
    <3> HIDE DEF Bad
    <3> QED BY <3>1, LeastNumber
  <2>2. m # 0
    BY <1>6
  <2>3. m \in 1..MAX_DEP_DEPTH /\ m - 1 \in 0..MAX_DEP_DEPTH /\ m - 1 \notin Bad
    BY <1>1, <2>1, <2>2
  <2> QED BY <1>6, <2>3, SuccessorsInId
<1>8. Level(id) = [d \in 0..MAX_DEP_DEPTH |-> Level(id)[d]]
  BY <1>5 DEF IsLevel
<1> HIDE DEF Level
<1> QED BY <1>6, <1>7, <1>8

LEMMA ReachSteps ==
    ASSUME CredTypeOK, NEW id \in Id, IsFiniteSet(Id)
    PROVE  \E f \in [0..Cardinality(Id) -> SUBSET Id] :
             /\ ReachableFrom(id) = f[Cardinality(Id)] /\ f[0] = prereqs[id]
             /\ \A n \in 1..Cardinality(Id) : f[n] = f[n - 1] \cup Successors(f[n - 1])
<1> DEFINE N == Cardinality(Id)
           F == [S \in SUBSET Id |-> S \cup Successors(S)]
           R == CHOOSE g : IsReach(g, id)
<1>1. N \in Nat /\ prereqs[id] \in SUBSET Id
  BY FS_CardinalityType DEF CredTypeOK
<1>2. F \in [SUBSET Id -> SUBSET Id]
  BY SuccessorsInId
<1>3. PICK f \in [0..N -> SUBSET Id] : Unrolls(f, prereqs[id], F, N)
  <2> HIDE DEF F, N
  <2> QED BY <1>1, <1>2, UnrollingExists
<1>4. IsReach(f, id)
  <2>1. \A n \in 0..N : f[n] = IF n = 0 THEN prereqs[id]
                                ELSE f[n - 1] \cup UNION {prereqs[p] : p \in f[n - 1]}
    <3> TAKE n \in 0..N
    <3>1. f[n] = IF n = 0 THEN prereqs[id] ELSE F[f[n - 1]]
      BY <1>3 DEF Unrolls
    <3>2. n # 0 => f[n - 1] \in SUBSET Id
      BY <1>1
    <3> QED BY <3>1, <3>2 DEF Successors
  <2> QED BY <2>1 DEF IsReach
<1>5. ReachableFrom(id) = R[N]
  BY DEF ReachableFrom, IsReach
<1>6. IsReach(R, id)
  BY <1>4
<1> HIDE DEF R, N
<1>7. R[0] = prereqs[id] /\ \A n \in 1..N : R[n] = R[n - 1] \cup Successors(R[n - 1])
  <2>1. R = [n \in 0..N |-> IF n = 0 THEN prereqs[id]
                                     ELSE R[n - 1] \cup UNION {prereqs[p] : p \in R[n - 1]}]
    BY <1>6 DEF IsReach, N
  <2>2. \A n \in 0..N : R[n] = IF n = 0 THEN prereqs[id]
                                ELSE R[n - 1] \cup UNION {prereqs[p] : p \in R[n - 1]}
    BY <2>1, Zenon
  <2>3. 0 \in 0..N /\ \A n \in 1..N : n \in 0..N /\ n # 0
    BY <1>1
  <2>4. R[0] = prereqs[id]
    BY <2>2, <2>3
  <2>5. ASSUME NEW n \in 1..N PROVE R[n] = R[n - 1] \cup Successors(R[n - 1])
    <3>1. n \in 0..N /\ n # 0
      BY <2>3
    <3>2. R[n] = R[n - 1] \cup UNION {prereqs[p] : p \in R[n - 1]}
      BY <2>2, <3>1, Zenon
    <3> QED BY <3>2 DEF Successors
  <2> QED BY <2>4, <2>5
<1>8. \A n \in 0..N : R[n] \in SUBSET Id
  <2> DEFINE Bad == {n \in 0..N : R[n] \notin SUBSET Id}
  <2> SUFFICES ASSUME Bad # {} PROVE FALSE
    OBVIOUS
  <2>1. PICK m \in Bad : \A n \in Bad : m <= n
    <3>1. Bad \in SUBSET Nat
      BY <1>1
    <3> HIDE DEF Bad
    <3> QED BY <3>1, LeastNumber
  <2>2. m # 0
    BY <1>1, <1>7
  <2>3. m \in 1..N /\ m - 1 \in 0..N /\ m - 1 \notin Bad
    BY <1>1, <2>1, <2>2
  <2> QED BY <1>7, <2>3, SuccessorsInId
<1>9. R = [n \in 0..N |-> R[n]]
  BY <1>6 DEF IsReach, N
<1>10. R \in [0..N -> SUBSET Id]
  BY <1>8, <1>9
<1> QED BY <1>5, <1>7, <1>10 DEF N

-----------------------------------------------------------------------------
(* Reachability without recursion: what lies below x in graph G is in every *)
(* set that holds the neighbours of x and is closed under G.                *)
Graph == [Id -> SUBSET Id]
Closed(G, C) == \A q \in C : G[q] \subseteq C
Below(G, x) ==
    {y \in Id : \A C \in SUBSET Id : G[x] \subseteq C /\ Closed(G, C) => y \in C}
Acyclic(G) == \A x, y \in Id : x # y /\ y \in Below(G, x) => x \notin Below(G, y)

LEMMA BelowLeast ==
    ASSUME NEW G \in Graph, NEW x \in Id, NEW C \in SUBSET Id, G[x] \subseteq C, Closed(G, C)
    PROVE  Below(G, x) \subseteq C
  BY DEF Below

LEMMA BelowClosed ==
    ASSUME NEW G \in Graph, NEW x \in Id
    PROVE  /\ Below(G, x) \in SUBSET Id /\ G[x] \subseteq Below(G, x)
           /\ Closed(G, Below(G, x))
<1>1. Below(G, x) \in SUBSET Id /\ G[x] \subseteq Below(G, x)
  BY DEF Below, Graph
<1>2. ASSUME NEW q \in Below(G, x), NEW y \in G[q] PROVE y \in Below(G, x)
  <2>1. q \in Id /\ y \in Id
    BY <1>1, <1>2 DEF Graph
  <2>2. ASSUME NEW C \in SUBSET Id, G[x] \subseteq C, Closed(G, C) PROVE y \in C
    <3>1. q \in C
      BY <1>2, <2>2 DEF Below
    <3> QED BY <1>2, <2>2, <3>1 DEF Closed
  <2> QED BY <2>1, <2>2 DEF Below
<1> QED BY <1>1, <1>2 DEF Closed

LEMMA BelowTransitive ==
    ASSUME NEW G \in Graph, NEW x \in Id, NEW y \in Below(G, x)
    PROVE  y \in Id /\ Below(G, y) \subseteq Below(G, x)
<1>1. y \in Id /\ G[y] \subseteq Below(G, x)
  BY BelowClosed DEF Closed
<1> QED BY <1>1, BelowClosed, BelowLeast

\* Below a node from which id is out of reach, id's edges do not matter.
LEMMA BelowElsewhere ==
    ASSUME NEW G \in Graph, NEW H \in Graph, NEW id \in Id,
           \A q \in Id \ {id} : H[q] = G[q],
           NEW x \in Id \ {id}, NEW L \in SUBSET Id, G[x] \subseteq L, Closed(G, L), id \notin L
    PROVE  Below(H, x) \subseteq L /\ Below(H, x) \subseteq Below(G, x)
<1>1. Below(G, x) \subseteq L
  BY BelowLeast
<1>2. \A C \in SUBSET Id : id \notin C /\ Closed(G, C) => Closed(H, C)
  BY DEF Closed
<1>3. H[x] \subseteq Below(G, x) /\ Closed(H, Below(G, x)) /\ Below(G, x) \in SUBSET Id
  BY <1>1, <1>2, BelowClosed
<1>4. Below(H, x) \subseteq Below(G, x)
  BY <1>3, BelowLeast
<1> QED BY <1>1, <1>4

\* Giving id new neighbours keeps the graph acyclic if id is not below any of them.
LEMMA RelinkAcyclic ==
    ASSUME NEW G \in Graph, Acyclic(G), NEW id \in Id, NEW new \in SUBSET Id,
           NEW H \in Graph, H[id] = new, \A q \in Id \ {id} : H[q] = G[q],
           \A p \in new : \E L \in SUBSET Id : G[p] \subseteq L /\ Closed(G, L) /\ id \notin L
    PROVE  Acyclic(H)
\* Everything below id now: a new neighbour, or below one in the old graph
<1> DEFINE C == new \cup UNION {Below(G, p) : p \in new}
<1>1. ASSUME NEW p \in new PROVE id \notin Below(G, p)
  BY <1>1, BelowLeast
<1>2. C \in SUBSET Id
  BY BelowClosed
<1>3. ASSUME NEW q \in C, q # id
      PROVE  /\ q \in Id /\ Below(H, q) \subseteq Below(G, q) /\ id \notin Below(H, q)
             /\ H[q] \subseteq C
  <2>1. PICK p \in new : q = p \/ q \in Below(G, p)
    BY <1>3
  <2>2. /\ p \in Id /\ q \in Id /\ Below(G, p) \in SUBSET Id /\ G[q] \subseteq Below(G, p)
        /\ Closed(G, Below(G, p)) /\ id \notin Below(G, p)
    BY <1>1, <2>1, BelowClosed DEF Closed
  <2>3. Below(H, q) \subseteq Below(G, p) /\ Below(H, q) \subseteq Below(G, q)
    BY <1>3, <2>2, BelowElsewhere
  <2>4. H[q] \subseteq Below(G, p)
    BY <1>3, <2>2
  <2> QED BY <2>2, <2>3, <2>4
<1>4. Below(H, id) \subseteq C
  <2>1. Closed(H, C)
    BY <1>3 DEF Closed
  <2> HIDE DEF C
  <2>2. H[id] \subseteq C
    BY DEF C
  <2> QED BY <1>2, <2>1, <2>2, BelowLeast
<1>5. ASSUME NEW x \in Id, NEW y \in Id, x # y, y \in Below(H, x), x \in Below(H, y)
      PROVE  FALSE
  <2> HIDE DEF C
  <2>1. x # id /\ y # id
    BY <1>3, <1>4, <1>5
  <2>2. CASE x \in Below(H, id) \/ y \in Below(H, id)
    <3>1. x \in C /\ y \in C
      BY <1>4, <1>5, <2>2, BelowTransitive
    <3>2. y \in Below(G, x) /\ x \in Below(G, y)
      BY <1>3, <1>5, <2>1, <3>1
    <3> QED BY <1>5, <3>2 DEF Acyclic
  <2>3. CASE x \notin Below(H, id) /\ y \notin Below(H, id)
    \* No path between the two goes through id, so the old graph had them
    <3>1. ASSUME NEW u \in Id, NEW v \in Id, u # id, v # id, v \in Below(H, u), v \notin Below(H, id)
          PROVE  v \in Below(G, u)
      <4> SUFFICES ASSUME NEW D \in SUBSET Id, G[u] \subseteq D, Closed(G, D) PROVE v \in D
        BY DEF Below
      <4> DEFINE E == D \cup {id} \cup Below(H, id)
      <4>1. E \in SUBSET Id /\ H[u] \subseteq E
        BY <3>1, BelowClosed
      <4>2. H[id] \subseteq E /\ \A q \in Below(H, id) : H[q] \subseteq E
        BY BelowClosed DEF Closed
      <4>3. \A q \in D \ {id} : H[q] \subseteq E
        BY DEF Closed
      <4>4. Closed(H, E)
        BY <4>2, <4>3 DEF Closed
      <4>5. v \in E
        <5> HIDE DEF E
        <5> QED BY <3>1, <4>1, <4>4, BelowLeast
      <4> QED BY <3>1, <4>5
    <3>2. y \in Below(G, x) /\ x \in Below(G, y)
      BY <1>5, <2>1, <2>3, <3>1
    <3> QED BY <1>5, <3>2 DEF Acyclic
  <2> QED BY <2>2, <2>3
<1> QED BY <1>5 DEF Acyclic

LEMMA ReachIsBelow ==
    ASSUME CredTypeOK, NEW id \in Id, IsFiniteSet(Id)
    PROVE  ReachableFrom(id) \subseteq Below(prereqs, id)
<1> DEFINE N == Cardinality(Id)
<1>1. PICK f \in [0..N -> SUBSET Id] :
         /\ ReachableFrom(id) = f[N] /\ f[0] = prereqs[id]
         /\ \A n \in 1..N : f[n] = f[n - 1] \cup Successors(f[n - 1])
  BY ReachSteps
<1>2. N \in Nat /\ prereqs \in Graph
  BY FS_CardinalityType DEF CredTypeOK, Graph
<1> HIDE DEF N
<1> DEFINE Bad == {n \in 0..N : ~(f[n] \subseteq Below(prereqs, id))}
<1>3. ASSUME Bad # {} PROVE FALSE
  <2>1. PICK m \in Bad : \A n \in Bad : m <= n
    <3>1. Bad \in SUBSET Nat
      BY <1>2
    <3> HIDE DEF Bad
    <3> QED BY <1>3, <3>1, LeastNumber
  <2>2. m # 0
    BY <1>1, <1>2, BelowClosed
  <2>3. m \in 1..N /\ m - 1 \in 0..N /\ m - 1 \notin Bad
    BY <1>2, <2>1, <2>2
  <2>4. f[m - 1] \subseteq Below(prereqs, id)
    BY <2>3
  <2>5. Successors(f[m - 1]) \subseteq Below(prereqs, id)
    BY <1>2, <2>4, BelowClosed DEF Successors, Closed
  <2> QED BY <1>1, <2>3, <2>4, <2>5
<1> QED BY <1>1, <1>2, <1>3

\* A walk that ends before the depth limit has seen everything below its start.
LEMMA WalkClosed ==
    ASSUME CredTypeOK, NEW p \in Id, Level(p)[MAX_DEP_DEPTH] = {}
    PROVE  /\ MAX_DEP_DEPTH \in Nat \ {0}
           /\ LET L == UNION {Level(p)[d] : d \in 1..MAX_DEP_DEPTH}
              IN L \in SUBSET Id /\ prereqs[p] \subseteq L /\ Closed(prereqs, L)
<1> DEFINE M == MAX_DEP_DEPTH
           L == UNION {Level(p)[d] : d \in 1..M}
<1>1. /\ Level(p) \in [0..M -> SUBSET Id] /\ Level(p)[0] = {p}
      /\ \A d \in 1..M : Level(p)[d] = Successors(Level(p)[d - 1])
  BY LevelSteps
<1>2. M \in Nat /\ M # 0
  BY <1>1, LimitAssumption
<1>3. L \in SUBSET Id
  BY <1>1, <1>2
<1>4. prereqs[p] \subseteq L
  <2>1. 1 \in 1..M /\ 1 - 1 = 0
    BY <1>2
  <2>2. Level(p)[1] = Successors({p})
    BY <1>1, <2>1
  <2> QED BY <2>1, <2>2 DEF Successors
<1>5. ASSUME NEW q \in L PROVE prereqs[q] \subseteq L
  <2>1. PICK d \in 1..M : q \in Level(p)[d]
    BY <1>5
  <2>2. d # M
    BY <2>1
  <2>3. d + 1 \in 1..M /\ (d + 1) - 1 = d
    BY <1>2, <2>2
  <2>4. Level(p)[d + 1] = Successors(Level(p)[d])
    BY <1>1, <2>3
  <2>5. prereqs[q] \subseteq Level(p)[d + 1]
    BY <2>1, <2>4 DEF Successors
  <2> QED BY <2>3, <2>5
<1> QED BY <1>2, <1>3, <1>4, <1>5 DEF Closed

LEMMA IdFinite == IsFiniteSet(Id)
<1>1. IsFiniteSet(1..MaxNonce)
  BY LimitAssumption, FS_Interval
<1> QED BY <1>1, FiniteAssumption, FS_Product DEF Id

\* check_no_cycle establishes what RelinkAcyclic needs, and nobody else writes
\* the graph.
LEMMA AcyclicStep ==
    ASSUME CredTypeOK, Acyclic(prereqs), [CredNext]_credVars
    PROVE  Acyclic(prereqs')
<1>1. ASSUME UNCHANGED graph PROVE Acyclic(prereqs')
  BY <1>1 DEF graph
<1>2. ASSUME NEW i \in Issuers, NEW id \in Id, NEW new \in SUBSET Id,
             SetPrerequisites(i, id, new)
      PROVE  Acyclic(prereqs')
  <2>1. /\ prereqs \in Graph /\ prereqs' \in Graph /\ prereqs'[id] = new
        /\ \A q \in Id \ {id} : prereqs'[q] = prereqs[q]
    BY <1>2 DEF SetPrerequisites, CredTypeOK, Graph
  <2>2. ASSUME NEW p \in new
        PROVE  \E L \in SUBSET Id : prereqs[p] \subseteq L /\ Closed(prereqs, L) /\ id \notin L
    <3> DEFINE L == UNION {Level(p)[d] : d \in 1..MAX_DEP_DEPTH}
    <3>1. /\ \A d \in 1..MAX_DEP_DEPTH : id \notin Level(p)[d]
          /\ Level(p)[MAX_DEP_DEPTH] = {}
      BY <1>2 DEF SetPrerequisites, check_no_cycle
    <3>2. L \in SUBSET Id /\ prereqs[p] \subseteq L /\ Closed(prereqs, L)
      BY <3>1, WalkClosed
    <3>3. id \notin L
      BY <3>1
    <3> QED BY <3>2, <3>3
  <2> QED BY <2>1, <2>2, RelinkAcyclic
<1>3. CASE UNCHANGED credVars
  BY <1>1, <1>3 DEF credVars
<1>4. CASE CredAdminNext \/ Tick
  BY <1>1, <1>4 DEF CredAdminNext, SetPaused, AddIssuer, RemoveIssuer, SetTransferAutoApprove,
                    SetTransferPolicy, Tick
<1>5. CASE HolderNext
  BY <1>1, <1>5 DEF HolderNext, ExpireCredential, AcceptTransfer, RejectTransfer,
                    InitiateTransfer, TransferCredential, TransferFrame
<1>6. CASE IssuerNext
  BY <1>1, <1>2, <1>6 DEF IssuerNext, IssueCredential, RevokeCredentialsBatch,
     RevokeCredential, SuspendCredential, ReactivateCredential, AmendCredential,
     RenewCredential, ConfirmTransfer, TransferFrame
<1> QED BY <1>3, <1>4, <1>5, <1>6 DEF CredNext

LEMMA AcyclicInit == CredInit => Acyclic(prereqs)
<1> SUFFICES ASSUME CredInit PROVE Acyclic(prereqs)
  OBVIOUS
<1>1. prereqs \in Graph /\ \A x \in Id : prereqs[x] = {}
  BY DEF CredInit, Graph
<1>2. ASSUME NEW x \in Id PROVE Below(prereqs, x) \subseteq {}
  <2>1. Closed(prereqs, {}) /\ {} \in SUBSET Id /\ prereqs[x] \subseteq {}
    BY <1>1 DEF Closed
  <2> QED BY <1>1, <2>1, BelowLeast
<1> QED BY <1>2 DEF Acyclic

-----------------------------------------------------------------------------
(* Theorems. *)

\* Every storage entry of the credential manager keeps its type, for every
\* set of addresses and triples and every limit.
THEOREM TypeCorrect == CredSpec => []CredTypeOK
<1>1. Consistent => CredTypeOK
  BY DEF Consistent
<1> QED BY <1>1, AlwaysConsistent, PTL

\* issue_credential never puts a second unrevoked credential out for one
\* issuer, subject and type, although it looks at the latest nonce only.
THEOREM SingleLiveCredential == CredSpec => []OneLivePerTriple
<1>1. Consistent => OneLivePerTriple
  <2> SUFFICES ASSUME Consistent, NEW t \in Triple
               PROVE  Cardinality({n \in 1..MaxNonce : Live(<<t, n>>)}) <= 1
    BY DEF OneLivePerTriple
  <2> DEFINE S == {n \in 1..MaxNonce : Live(<<t, n>>)}
  <2>1. nonces[t] \in Nat
    BY LimitAssumption DEF Consistent, CredTypeOK
  <2>2. S \subseteq {nonces[t]}
    <3> SUFFICES ASSUME NEW n \in S PROVE n = nonces[t]
      OBVIOUS
    <3>1. n \in 1..MaxNonce /\ Live(<<t, n>>)
      OBVIOUS
    <3>2. n <= nonces[t]
      BY <3>1 DEF Consistent, IssuedInOrder, Live
    <3>3. ~(n < nonces[t])
      BY <3>1 DEF Consistent, OlderRevoked, Live
    <3> QED BY <2>1, <3>1, <3>2, <3>3, LimitAssumption
  <2> HIDE DEF S
  <2>3. IsFiniteSet({nonces[t]}) /\ Cardinality({nonces[t]}) = 1
    BY FS_Singleton
  <2>4. Cardinality(S) <= Cardinality({nonces[t]})
    BY <2>2, <2>3, FS_Subset
  <2> QED BY <2>3, <2>4 DEF S
<1> QED BY <1>1, AlwaysConsistent, PTL

\* A transfer request always comes from the present holder and the holder's index
\* lists the credential: whichever of the three paths completes a transfer, no
\* request is left over from before the move and no index misses it.
THEOREM HolderRecordsFollow == CredSpec => []HolderRecordsAgree
<1>1. Consistent => HolderRecordsAgree
  BY DEF Consistent, HolderRecordsAgree
<1> QED BY <1>1, AlwaysConsistent, PTL

\* The two sides of the prerequisite graph agree after every replacement.
THEOREM GraphSidesAgree == CredSpec => []DependantsMatchPrerequisites
<1>1. Consistent => DependantsMatchPrerequisites
  BY DEF Consistent
<1> QED BY <1>1, AlwaysConsistent, PTL

\* Nothing that any entry point does touches a revoked credential again.
THEOREM RevocationIsFinal == CredSpec => RevokedIsFinal
<1>1. ASSUME Consistent, [CredNext]_credVars, NEW j \in Id, CredExists(j), creds[j].revoked
      PROVE  creds'[j] = creds[j]
  <2>1. CredTypeOK /\ IssuedInOrder
    BY <1>1 DEF Consistent
  <2>2. CASE Quiet \/ Asks
    BY <2>2 DEF Quiet, Asks
  <2>3. CASE Edits
    BY <1>1, <2>3 DEF Edits, Live
  <2>4. CASE Issues
    <3>1. PICK t \in Triple, e \in ExpiryInput : IssueCredential(t, e, TRUE)
      BY <2>4 DEF Issues
    <3>2. PICK id \in Id, c \in Credential : IssuedTo(t, id, c)
      BY <2>1, <3>1, IssuedRecord
    <3>3. nonces[t] \in Nat /\ id = <<t, nonces[t] + 1>> /\ nonces[t] + 1 \in 1..MaxNonce
      BY <2>1, <3>2, LimitAssumption DEF IssuedTo, CredTypeOK
    <3>4. ~(nonces[t] + 1 <= nonces[t])
      BY <3>3
    <3>5. ~CredExists(id)
      BY <2>1, <3>3, <3>4 DEF IssuedInOrder
    <3>6. j # id
      BY <1>1, <3>5
    <3> QED BY <2>1, <3>2, <3>6 DEF IssuedTo, CredTypeOK
  <2>5. CASE Moves
    <3>1. PICK id \in Id, to \in Party : complete_transfer(id, to)
      BY <2>5 DEF Moves
    <3>2. PICK c \in Credential : MovedTo(to, id, c)
      BY <2>1, <3>1, MovedRecord
    <3>3. j # id
      BY <1>1, <3>2 DEF MovedTo, Live
    <3> QED BY <2>1, <3>2, <3>3 DEF MovedTo, CredTypeOK
  <2> QED BY <1>1, <2>1, <2>2, <2>3, <2>4, <2>5, StepKinds
<1>2. Consistent /\ [CredNext]_credVars =>
        [\A id \in Id : CredExists(id) /\ creds[id].revoked => creds'[id] = creds[id]]_credVars
  BY <1>1
<1> QED BY <1>2, AlwaysConsistent, PTL DEF CredSpec, RevokedIsFinal

\* set_prerequisites never lets two credentials depend on each other through any
\* chain, although check_no_cycle walks MAX_DEP_DEPTH levels only and each call
\* sees the graph as the earlier ones left it.
THEOREM NoMutualDependencyArises == CredSpec => []NoMutualDependency
<1>1. CredInit => Consistent /\ Acyclic(prereqs)
  BY InitConsistent, AcyclicInit
<1>2. Consistent /\ Acyclic(prereqs) /\ [CredNext]_credVars => Acyclic(prereqs)'
  BY AcyclicStep DEF Consistent
<1>3. Consistent /\ Acyclic(prereqs) => NoMutualDependency
  <2> SUFFICES ASSUME CredTypeOK, Acyclic(prereqs), NEW id \in Id, NEW p \in Id,
                      id # p, p \in ReachableFrom(id), id \in ReachableFrom(p)
               PROVE  FALSE
    BY DEF NoMutualDependency, Consistent
  <2>1. p \in Below(prereqs, id) /\ id \in Below(prereqs, p)
    BY ReachIsBelow, IdFinite
  <2> QED BY <2>1 DEF Acyclic
<1> QED BY <1>1, <1>2, <1>3, AlwaysConsistent, PTL DEF CredSpec

\* verify_credential answers Ok only when the credential and all it depends on, at
\* any depth, is unrevoked, unsuspended and unexpired: a walk that ends before the
\* depth limit has seen everything.
THEOREM VerifiedStands == CredSpec => []VerifiedStandsThroughout
<1>1. Consistent => VerifiedStandsThroughout
  <2> SUFFICES ASSUME CredTypeOK, NEW id \in Id, verify_credential(id)
               PROVE  StandsAlone(id) /\ \A p \in ReachableFrom(id) : StandsAlone(p)
    BY DEF VerifiedStandsThroughout, Consistent
  <2> DEFINE Walk(q) == {q} \cup UNION {Level(q)[d] : d \in 1..MAX_DEP_DEPTH}
             C == UNION {Walk(q) : q \in prereqs[id]}
  <2>1. prereqs \in Graph /\ prereqs[id] \in SUBSET Id
    BY DEF CredTypeOK, Graph
  <2>2. ASSUME NEW q \in prereqs[id]
        PROVE  /\ Walk(q) \in SUBSET Id /\ q \in Walk(q)
               /\ \A r \in Walk(q) : prereqs[r] \subseteq Walk(q) /\ StandsAlone(r)
    <3>1. /\ \A d \in 0..(MAX_DEP_DEPTH - 1) : \A r \in Level(q)[d] : StandsAlone(r)
          /\ Level(q)[MAX_DEP_DEPTH] = {} /\ q \in Id
      BY <2>1, <2>2 DEF verify_credential, check_credential_valid
    <3>2. /\ MAX_DEP_DEPTH \in Nat \ {0}
          /\ UNION {Level(q)[d] : d \in 1..MAX_DEP_DEPTH} \in SUBSET Id
          /\ prereqs[q] \subseteq UNION {Level(q)[d] : d \in 1..MAX_DEP_DEPTH}
          /\ Closed(prereqs, UNION {Level(q)[d] : d \in 1..MAX_DEP_DEPTH})
      BY <3>1, WalkClosed
    <3>3. Level(q)[0] = {q}
      BY <3>1, LevelSteps
    <3>4. StandsAlone(q)
      BY <3>1, <3>2, <3>3
    <3>5. ASSUME NEW d \in 1..MAX_DEP_DEPTH, NEW r \in Level(q)[d] PROVE StandsAlone(r)
      <4>1. d # MAX_DEP_DEPTH
        BY <3>1, <3>5
      <4>2. d \in 0..(MAX_DEP_DEPTH - 1)
        BY <3>2, <4>1
      <4> QED BY <3>1, <3>5, <4>2
    <3> QED BY <3>1, <3>2, <3>4, <3>5 DEF Closed
  <2> HIDE DEF Walk
  <2>3. C \in SUBSET Id /\ prereqs[id] \subseteq C /\ Closed(prereqs, C)
    BY <2>2 DEF Closed
  <2>4. \A r \in C : StandsAlone(r)
    BY <2>2
  <2> HIDE DEF C
  <2>5. ReachableFrom(id) \subseteq C
    BY <2>1, <2>3, BelowLeast, ReachIsBelow, IdFinite
  <2> QED BY <2>4, <2>5 DEF verify_credential
<1> QED BY <1>1, AlwaysConsistent, PTL
=============================================================================
