----------------------------- MODULE MCContracts -----------------------------
(***************************************************************************)
(* The contracts checked side by side in one run.  No state is shared: a   *)
(* behaviour belongs to one part and the others stay as deployed.          *)
(*                                                                         *)
(* The registry and the credential manager each have two parts, with       *)
(* inputs of their own: recovery between two accounts, the documents of    *)
(* one; one credential on its way between holders, three that depend on    *)
(* each other.                                                             *)
(*                                                                         *)
(* Governance has an ordinary weight table and one whose sum does not fit  *)
(* in the (scaled) word; neither names every voter.  The bridge has two    *)
(* trees that disagree about the document of one DID, as before and after  *)
(* an update on the other chain.                                           *)
(***************************************************************************)
EXTENDS Governance, DidBridge, IdentityRegistry, CredentialManager, TLC

CONSTANTS v1, v2, v3, a1, a2, i1, h1, h2, h3, s1, s2, s3, ethereum, did1, doc1, doc2

VARIABLES
  contract,
  admin1, pending_admin1, paused1, docs1, did_count1, total_dids1, recovery_addr1,
  recovery_pend1, ledger1, quiet1,
  issuers1, creds_paused1, creds1, nonces1, subject_creds1, revoked_cnt1, suspended1,
  requests1, auto_approve1, blocked_types1, prereqs1, dependants1, now1

-----------------------------------------------------------------------------
(* Inputs. *)

SmallTable == v1 :> 1 @@ v2 :> 3
HugeTable == v1 :> U64 - 1 @@ v2 :> 2
Tables == {SmallTable, HugeTable}

Trees == {{<<did1, doc1>>}, {<<did1, doc2>>}}

OneMetadata == {[entries |-> 1, key_len |-> 1, value_len |-> 1]}

\* A valid and an empty map, one with too many entries, one with a key and one with a
\* value that is one character too long
AllMetadata ==
  {[entries |-> 0, key_len |-> 0, value_len |-> 0],
   [entries |-> 10, key_len |-> 64, value_len |-> 256],
   [entries |-> 11, key_len |-> 64, value_len |-> 256],
   [entries |-> 1, key_len |-> 65, value_len |-> 1],
   [entries |-> 1, key_len |-> 1, value_len |-> 257]}

\* One issuer, which knows one subject: issued, revoked and issued again
OneSubject == {[issuer |-> i1, subject |-> h1, type |-> "Kyc"]}

\* One issuer and a credential for each of several subjects
OneEach == {[issuer |-> i1, subject |-> h, type |-> "Kyc"] : h \in {h1, h2, h3}}

D == INSTANCE IdentityRegistry WITH
       Address <- {a1}, ServiceId <- {s1, s2, s3}, Url <- {doc1, doc2},
       MetadataInput <- AllMetadata, MAX_SERVICES <- 2, MAX_BATCH_DIDS <- 2,
       MAX_BATCH_UPDATE_SIZE <- 2, RECOVERY_TIMELOCK_LEDGERS <- 1, MaxLedger <- 0,
       admin <- admin1, pending_admin <- pending_admin1, paused <- paused1,
       docs <- docs1, did_count <- did_count1, total_dids <- total_dids1,
       recovery_addr <- recovery_addr1, recovery_pend <- recovery_pend1,
       ledger <- ledger1, quiet <- quiet1

G == INSTANCE CredentialManager WITH
       Party <- {i1, h1, h2, h3}, Triple <- OneEach, Recipient <- {}, ExpiryInput <- {0},
       MaxNonce <- 1, MaxVersion <- 1, MaxSuspended <- 3, MaxTime <- 0,
       MAX_ISSUERS <- 1, MAX_PREREQS <- 1, MAX_DEP_DEPTH <- 1,
       issuers <- issuers1, creds_paused <- creds_paused1, creds <- creds1,
       nonces <- nonces1, subject_creds <- subject_creds1, revoked_cnt <- revoked_cnt1,
       suspended <- suspended1, requests <- requests1, auto_approve <- auto_approve1,
       blocked_types <- blocked_types1, prereqs <- prereqs1, dependants <- dependants1,
       now <- now1

ASSUME BridgeAssumption == BridgeConstants

-----------------------------------------------------------------------------
documentVars == <<admin1, pending_admin1, paused1, docs1, did_count1, total_dids1,
                  recovery_addr1, recovery_pend1, ledger1, quiet1>>
dependencyVars == <<issuers1, creds_paused1, creds1, nonces1, subject_creds1,
                    revoked_cnt1, suspended1, requests1, auto_approve1, blocked_types1,
                    prereqs1, dependants1, now1>>
contractVars == <<contract, govVars, bridgeVars, vars, credVars, documentVars,
                  dependencyVars>>

ContractsInit ==
  /\ contract \in {"governance", "bridge", "recovery", "documents", "transfers",
                   "dependencies"}
  /\ GovInit /\ BridgeInit /\ Init /\ CredInit /\ D!Init /\ G!CredInit

Vote_ == /\ contract = "governance" /\ GovNext
         /\ UNCHANGED <<contract, bridgeVars, vars, credVars, documentVars, dependencyVars>>
Resolve == /\ contract = "bridge" /\ BridgeNext
           /\ UNCHANGED <<contract, govVars, vars, credVars, documentVars, dependencyVars>>
Recover == /\ contract = "recovery" /\ Next
           /\ UNCHANGED <<contract, govVars, bridgeVars, credVars, documentVars,
                          dependencyVars>>
Edit == /\ contract = "documents" /\ D!Next
        /\ UNCHANGED <<contract, govVars, bridgeVars, vars, credVars, dependencyVars>>
Transfer == /\ contract = "transfers" /\ CredNext
            /\ UNCHANGED <<contract, govVars, bridgeVars, vars, documentVars,
                           dependencyVars>>
Depend == /\ contract = "dependencies" /\ G!CredNext
          /\ UNCHANGED <<contract, govVars, bridgeVars, vars, credVars, documentVars>>

ContractsNext == Vote_ \/ Resolve \/ Recover \/ Edit \/ Transfer \/ Depend

ContractsSpec == ContractsInit /\ [][ContractsNext]_contractVars

-----------------------------------------------------------------------------
\* identity-registry: metadata within the limits and distinct, bounded service ids in
\* every document, with metadata on both sides of every limit.
DocumentsStayWellFormed == D!DocumentsWellFormed

\* credential-manager: the prerequisite lists and their reverse index are each other's
\* converse, through replacement of the lists.
PrerequisitesListed == G!CredTypeOK /\ G!DependantsMatchPrerequisites

\* credential-manager: no two credentials depend on each other, with chains that outgrow
\* the depth limit of the cycle check.
PrerequisitesAcyclic == G!NoMutualDependency

\* credential-manager: what verifies rests on nothing revoked, suspended or expired,
\* with chains that outgrow the depth limit of the verification walk.
VerifiedStandsOnValid == G!VerifiedStandsThroughout
=============================================================================
