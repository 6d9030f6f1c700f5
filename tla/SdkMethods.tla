----------------------------- MODULE SdkMethods -----------------------------
(***************************************************************************)
(* The methods of the SDK's three contract clients (sdk/src/credentials.ts,*)
(* identity.ts, reputation.ts) and the requests each of them awaits, in    *)
(* order.  Arguments and decoded values are left out; SdkClient says what  *)
(* a request does, how often it is retried and how it may end.             *)
(*                                                                         *)
(*   account   getAccount, no retry                                        *)
(*   prepare   retryWithBackoff(prepareTransaction);  prepareOnce without  *)
(*   send      retryWithBackoff(sendTransaction);     sendOnce without     *)
(*   poll      pollTransactionStatus                                       *)
(*   confirm   getTransaction once more, for the returned value            *)
(*   read      retryWithBackoff(simulateTransaction), an error rejects     *)
(*   ask       the same, but an error is answered with a value             *)
(*   resolve   simulateTransaction, "not found" is retried as well         *)
(*   quiet     a read whose failure is swallowed                           *)
(*   schema    fetch of a JSON schema, a failure rejects                   *)
(*   probe     executeWithFailover(simulateTransaction), errors are values *)
(*   submit    executeWithFailover(send and poll a signed transaction)     *)
(***************************************************************************)
EXTENDS Sequences

\* guarded: arguments may be refused before any request is made
\* raced: the requests race against a timer that rejects the call
Method(guarded, raced, steps) == [guarded |-> guarded, raced |-> raced, steps |-> steps]
Plain(steps) == Method(FALSE, FALSE, steps)
Guarded(steps) == Method(TRUE, FALSE, steps)

Submission == <<"account", "prepare", "send", "poll">>

-----------------------------------------------------------------------------
(* CredentialClient *)
submitWriteWithResult == Plain(Submission \o <<"confirm">>)
submitWrite == submitWriteWithResult
simulateRead == Guarded(<<"read">>)

estimateIssuanceFee == Plain(<<"account", "prepare">>)
issueCredential == Method(TRUE, TRUE, Submission \o <<"confirm">>)
issueCredentialBySchema == Method(TRUE, TRUE, <<"schema">> \o Submission \o <<"confirm">>)
revokeCredential == Plain(Submission \o <<"confirm", "read">>)
renewCredential == Plain(Submission)
revokeBatch == Guarded(Submission)
cancelActivation == Plain(Submission)
updateMerkleRoot == Guarded(Submission)
batchRevoke == Guarded(Submission)
registerOracle == Guarded(submitWrite.steps)
setFeedSchema == Guarded(submitWrite.steps)
setOracleFee == Guarded(submitWrite.steps)
setFallbackOracles == Guarded(submitWrite.steps)
requestOffchainData == Guarded(submitWriteWithResult.steps)
oracleCallback == Guarded(submitWrite.steps)
registerTemplate == submitWriteWithResult
publishTemplateVersion == submitWrite
listTemplateForSale == submitWrite
buyTemplate == submitWrite
setSigners == Guarded(submitWrite.steps)
updateSigners == Guarded(submitWrite.steps)

credentialsInitialized == Plain(<<"probe">>)
getPendingActivations == Guarded(<<"read">>)
getCredential == Guarded(<<"read">>)
isIssuer == Guarded(<<"read">>)
getCredentialCount == Guarded(<<"read">>)
getIssuers == Guarded(<<"read">>)
getRevocations == Guarded(<<"account", "read">>)
getRevocationRecord == simulateRead
getRevokedByReason == simulateRead
credentialStorageStats == Guarded(<<"read">>)
listCredentialsBySubject == Guarded(<<"read">>)
listIssuers == Guarded(<<"read">>)
listCredentialsByIssuer == Guarded(<<"read">>)
getMerkleRoot == simulateRead
verifyMerkleProofOnChain == simulateRead
credentialsPing == Plain(<<"read">>)
isResponseFresh == simulateRead
validateAgainstTemplate == simulateRead
validateThreshold == simulateRead
aggregateSignatures == simulateRead
generateRevocationProof == simulateRead
verifyRevocationProofOnChain == simulateRead
getRevocationStats == simulateRead
\* The ids, then (when there are any) each credential; the first failure rejects
getCredentialsBySubject == Guarded(<<"read", "read">>)
getCredentialsByClaimKey == getCredentialsBySubject
getCredentialsByIssuer == Guarded(<<"read", "read">>)
getRevocationList == getCredentialsByIssuer
\* One to three rounds: ask the contract and, on a bare "false", look for the reason
VerifyRound == {<<"ask">>, <<"ask", "quiet">>}
verifyCredential ==
  {Guarded(r) : r \in VerifyRound} \cup {Guarded(r \o s) : r, s \in VerifyRound}
    \cup {Guarded(r \o s \o t) : r, s, t \in VerifyRound}

-----------------------------------------------------------------------------
(* IdentityClient *)
createDid == Plain(Submission \o <<"confirm">>)
updateDid == Plain(Submission)
deactivateDid == Guarded(<<"read", "account", "prepareOnce", "sendOnce", "poll">>)
registerDidMethod == Plain(Submission)
initiateSignerRotation == Plain(Submission \o <<"confirm">>)
approveSignerRotation == Plain(Submission)
completeSignerRotation == Plain(Submission)
registerResolverPlugin == Guarded(Submission)
setFallbackChain == Guarded(Submission)

identityInitialized == Plain(<<"probe">>)
resolveDid == Guarded(<<"resolve">>)
resolveDidString == Guarded(<<"resolve">>)
hasActiveDid == Guarded(<<"ask">>)
getDidCount == Plain(<<"read">>)
listDIDs == Guarded(<<"read">>)
identityStorageStats == Guarded(<<"read">>)
getDidMethods == Plain(<<"read">>)
resolveDID == Guarded(<<"read">>)
getCachedDID == Guarded(<<"read">>)
validateDIDDocument == Guarded(<<"read">>)
identityPing == Plain(<<"read">>)

-----------------------------------------------------------------------------
(* ReputationClient *)
submitScore == Plain(Submission)
submitStakeTx == Plain(Submission)
depositStake == submitStakeTx
requestUnstake == submitStakeTx
withdrawStake == submitStakeTx
slashStake == Guarded(submitStakeTx.steps)
distributeRewards == submitStakeTx
delegateStake == Guarded(submitStakeTx.steps)
revokeDelegation == Guarded(submitStakeTx.steps)

reputationInitialized == Plain(<<"probe">>)
getReporters == Guarded(<<"read">>)
getReputation == Guarded(<<"read">>)
getScore == getReputation
getScoreHistory == Guarded(<<"read">>)
passesSybilCheckDefault == Guarded(<<"ask">>)
passesSybilCheck == Guarded(<<"ask">>)
reputationStorageStats == Guarded(<<"read">>)
listReporters == Guarded(<<"read">>)
listScoreHistory == Guarded(<<"read">>)
getStake == Guarded(<<"read">>)
getStakingHistory == Guarded(<<"read">>)
reputationPing == Plain(<<"read">>)

-----------------------------------------------------------------------------
(* BaseClient: a transaction built offline, from a sequence number that was *)
(* read earlier, signed elsewhere and submitted through the failover        *)
submitSignedTransaction == Plain(<<"account", "submit">>)

WriteMethods ==
  {issueCredential, issueCredentialBySchema, revokeCredential, renewCredential,
   revokeBatch, cancelActivation, updateMerkleRoot, batchRevoke, registerOracle,
   setFeedSchema, setOracleFee, setFallbackOracles, requestOffchainData,
   oracleCallback, registerTemplate, publishTemplateVersion, listTemplateForSale,
   buyTemplate, setSigners, updateSigners, createDid, updateDid, deactivateDid,
   registerDidMethod, initiateSignerRotation, approveSignerRotation,
   completeSignerRotation, registerResolverPlugin, setFallbackChain, submitScore,
   depositStake, requestUnstake, withdrawStake, slashStake, distributeRewards,
   delegateStake, revokeDelegation, submitSignedTransaction}

ReadMethods ==
  verifyCredential \cup
  {estimateIssuanceFee, credentialsInitialized, getPendingActivations,
   getCredential, isIssuer, getCredentialCount, getIssuers, getRevocations,
   getRevocationRecord, getRevokedByReason, credentialStorageStats,
   listCredentialsBySubject, listIssuers, listCredentialsByIssuer, getMerkleRoot,
   verifyMerkleProofOnChain, credentialsPing, isResponseFresh,
   validateAgainstTemplate, validateThreshold, aggregateSignatures,
   generateRevocationProof, verifyRevocationProofOnChain, getRevocationStats,
   getCredentialsBySubject, getCredentialsByClaimKey, getCredentialsByIssuer,
   getRevocationList, identityInitialized, resolveDid, resolveDidString,
   hasActiveDid, getDidCount, listDIDs, identityStorageStats, getDidMethods,
   resolveDID, getCachedDID, validateDIDDocument, identityPing,
   reputationInitialized, getReporters, getReputation, getScore, getScoreHistory,
   passesSybilCheckDefault, passesSybilCheck, reputationStorageStats,
   listReporters, listScoreHistory, getStake, getStakingHistory, reputationPing}
=============================================================================
