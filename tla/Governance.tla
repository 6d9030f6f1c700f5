------------------------------ MODULE Governance ------------------------------
(***************************************************************************)
(* The governance contract: weighted votes on proposals, a voting window,  *)
(* quorum and approval thresholds, and a timelock before execution.        *)
(*                                                                         *)
(* Only successful calls are actions: an Err or a panic is rolled back.    *)
(* Tallies are u64 and the release profile of the workspace has no         *)
(* overflow checks, so sums and products wrap modulo U64.                  *)
(***************************************************************************)
EXTENDS Integers, Sequences, FiniteSets, Functions

CONSTANTS
    Voter,
    Unset,                      \* an absent storage entry
    WeightTables,               \* the weight maps the admin may install
    PctInput,                   \* percentages passed to initialize
    U64,                        \* the modulus of u64 arithmetic, 2^64
    VOTING_PERIOD,              \* 86_400 seconds
    DEFAULT_TIMELOCK_SECONDS,
    MaxProposals,               \* bound on proposal ids
    MaxDelegations,             \* bound on the delegations that stand at a time
    MaxGovTime                  \* bound on the ledger timestamp

DEFAULT_QUORUM == 30
DEFAULT_THRESHOLD == 60
DEFAULT_EMERGENCY_THRESHOLD == 75
DEFAULT_EMERGENCY_QUORUM == 60

ProposalId == 1..MaxProposals

\* proposal_type, target, payload and description decide nothing here.
Proposal ==
    [emergency: BOOLEAN, voting_ends_at: Nat, timelock_seconds: Nat,
     yes_votes: Nat, no_votes: Nat, executed: BOOLEAN, voters: Seq(Voter)]

ASSUME ConstantsAssumption ==
    /\ Unset \notin Voter
    /\ Unset \notin Proposal
    /\ \A w \in WeightTables : /\ IsFiniteSet(DOMAIN w) /\ DOMAIN w \subseteq Voter
                               /\ Range(w) \subseteq 0..(U64 - 1)
    /\ PctInput \subseteq Nat
    /\ U64 \in Nat /\ U64 > 1
    /\ {VOTING_PERIOD, DEFAULT_TIMELOCK_SECONDS} \subseteq Nat
    /\ {MaxProposals, MaxDelegations, MaxGovTime} \subseteq Nat

VARIABLES
    gov_admin,      \* ADMIN
    quorum_pct,     \* QUORUM, the default until initialize
    threshold_pct,  \* THRESHOLD, likewise
    weights,        \* VOTING_POWER, a map from some addresses to u64
    delegations,    \* (DELEGATIONS, voter)
    proposal_seq,   \* PROPOSAL_SEQ
    proposals,      \* (PROPOSAL, id)
    gov_now         \* the ledger timestamp

gov_config == <<gov_admin, quorum_pct, threshold_pct, weights>>
govVars == <<gov_config, delegations, proposal_seq, proposals, gov_now>>

-----------------------------------------------------------------------------
Wrap(n) == n % U64

\* An address missing from the map votes with power 1.
voting_power(v) == IF v \in DOMAIN weights THEN weights[v] ELSE 1

total_voting_power ==
    LET total == Wrap(SumFunction(weights))
    IN  IF total = 0 THEN 1 ELSE total

TotalVotes(p) == Wrap(p.yes_votes + p.no_votes)

QuorumRequired(p) == IF p.emergency THEN DEFAULT_EMERGENCY_QUORUM ELSE quorum_pct

ThresholdRequired(p) ==
    IF p.emergency THEN DEFAULT_EMERGENCY_THRESHOLD ELSE threshold_pct

MeetsQuorum(p, pct) == Wrap(TotalVotes(p) * 100) \div total_voting_power >= pct

MeetsThreshold(p, pct) ==
    TotalVotes(p) # 0 /\ Wrap(p.yes_votes * 100) \div TotalVotes(p) >= pct

GovInit ==
    /\ gov_admin = Unset
    /\ quorum_pct = DEFAULT_QUORUM
    /\ threshold_pct = DEFAULT_THRESHOLD
    /\ weights = [a \in {} |-> 0]
    /\ delegations = [a \in Voter |-> Unset]
    /\ proposal_seq = 0
    /\ proposals = [i \in ProposalId |-> Unset]
    /\ gov_now = 0

-----------------------------------------------------------------------------
ValidPct(pct) == pct # 0 /\ pct <= 100

\* Also resets the id counter, while calls before initialize already use it.
InitializeGovernance(a, quorum, threshold) ==
    /\ gov_admin = Unset
    /\ ValidPct(quorum)
    /\ ValidPct(threshold)
    /\ gov_admin' = a
    /\ quorum_pct' = quorum
    /\ threshold_pct' = threshold
    /\ proposal_seq' = 0
    /\ UNCHANGED <<weights, delegations, proposals, gov_now>>

SetVotingWeights(caller, table) ==
    /\ gov_admin = caller
    /\ weights' = table
    /\ UNCHANGED <<gov_admin, quorum_pct, threshold_pct, delegations, proposal_seq,
                   proposals, gov_now>>

Propose(emergency) ==
    LET id == proposal_seq + 1
    IN  /\ id \in ProposalId
        /\ proposal_seq' = id
        /\ proposals' = [proposals EXCEPT ![id] =
             [emergency |-> emergency, voting_ends_at |-> gov_now + VOTING_PERIOD,
              timelock_seconds |-> DEFAULT_TIMELOCK_SECONDS,
              yes_votes |-> 0, no_votes |-> 0, executed |-> FALSE, voters |-> <<>>]]
        /\ UNCHANGED <<gov_config, delegations, gov_now>>

\* Mutant: the window check is dropped.
Mut_VotingOpen(p) == ~p.executed

VotingOpen(p) == ~p.executed /\ gov_now <= p.voting_ends_at

\* Mutant: only the latest voter is remembered.
Mut_HasVoted(p, v) == p.voters # <<>> /\ p.voters[Len(p.voters)] = v

HasVoted(p, v) == v \in Range(p.voters)

Vote(v, id, yes) ==
    LET p == proposals[id]
        power == voting_power(v)
    IN  /\ p # Unset
        /\ VotingOpen(p)
        /\ ~HasVoted(p, v)
        /\ proposals' = [proposals EXCEPT ![id] =
             [p EXCEPT !.yes_votes = IF yes THEN Wrap(@ + power) ELSE @,
                       !.no_votes = IF yes THEN @ ELSE Wrap(@ + power),
                       !.voters = Append(@, v)]]
        /\ UNCHANGED <<gov_config, delegations, proposal_seq, gov_now>>

\* A new delegation replaces the one the voter had.  No tally and no weight reads it.
DelegateVote(v, d) ==
    /\ v # d
    /\ Cardinality({u \in Voter \ {v} : delegations[u] # Unset}) < MaxDelegations
    /\ delegations' = [delegations EXCEPT ![v] = d]
    /\ UNCHANGED <<gov_config, proposal_seq, proposals, gov_now>>

RevokeVoteDelegation(v) ==
    /\ delegations' = [delegations EXCEPT ![v] = Unset]
    /\ UNCHANGED <<gov_config, proposal_seq, proposals, gov_now>>

TimelockOver(p) == gov_now >= p.voting_ends_at + p.timelock_seconds

\* Anyone may execute.
ExecuteProposal(id) ==
    LET p == proposals[id]
    IN  /\ p # Unset
        /\ ~p.executed
        /\ gov_now >= p.voting_ends_at
        /\ MeetsQuorum(p, QuorumRequired(p))
        /\ MeetsThreshold(p, ThresholdRequired(p))
        /\ TimelockOver(p)
        /\ proposals' = [proposals EXCEPT ![id].executed = TRUE]
        /\ UNCHANGED <<gov_config, delegations, proposal_seq, gov_now>>

GovTick ==
    /\ gov_now < MaxGovTime
    /\ gov_now' = gov_now + 1
    /\ UNCHANGED <<gov_config, delegations, proposal_seq, proposals>>

GovNext ==
    \/ \E a \in Voter, q, t \in PctInput : InitializeGovernance(a, q, t)
    \/ \E a \in Voter, table \in WeightTables : SetVotingWeights(a, table)
    \/ \E emergency \in BOOLEAN : Propose(emergency)
    \/ \E v \in Voter, id \in ProposalId, yes \in BOOLEAN : Vote(v, id, yes)
    \/ \E v, d \in Voter : DelegateVote(v, d)
    \/ \E v \in Voter : RevokeVoteDelegation(v)
    \/ \E id \in ProposalId : ExecuteProposal(id)
    \/ GovTick

GovSpec == GovInit /\ [][GovNext]_govVars

-----------------------------------------------------------------------------
(* Properties. *)

\* The type of every storage entry.
GovTypeOK ==
    /\ gov_admin \in Voter \cup {Unset}
    /\ quorum_pct \in 1..100
    /\ threshold_pct \in 1..100
    /\ weights \in WeightTables \cup {[a \in {} |-> 0]}
    /\ delegations \in [Voter -> Voter \cup {Unset}]
    /\ proposal_seq \in 0..MaxProposals
    /\ proposals \in [ProposalId -> Proposal \cup {Unset}]
    /\ gov_now \in Nat

\* TP-GOV-1: execute_proposal divides by the votes cast only after the quorum
\* check, and no reachable configuration lets an empty (or wrapped to zero)
\* tally through that check.
ThresholdDivisionSafe ==
    \A id \in ProposalId :
        proposals[id] # Unset /\ MeetsQuorum(proposals[id], QuorumRequired(proposals[id]))
            => TotalVotes(proposals[id]) # 0

\* TP-GOV-2: each address is counted at most once per proposal, however votes,
\* weight changes and delegations interleave.
OneVotePerAddress ==
    \A id \in ProposalId : proposals[id] # Unset => IsInjective(proposals[id].voters)

\* TP-GOV-3, second half: nothing executed is younger than its voting window
\* and its timelock.
ExecutedAfterTimelock ==
    \A id \in ProposalId :
        proposals[id] # Unset /\ proposals[id].executed
            => gov_now >= proposals[id].voting_ends_at + proposals[id].timelock_seconds

\* governance: an address votes once, a passed proposal is executed only after its
\* timelock, and the tallies execute() divides by are never zero.
GovernanceSound ==
    /\ GovTypeOK
    /\ OneVotePerAddress
    /\ ThresholdDivisionSafe
    /\ ExecutedAfterTimelock

\* Once voting has closed the tally of a proposal is final, so what the
\* timelock delays is exactly what was voted; execution is final too.  Said of
\* the ids the counter still covers.
DecidedIsFinal ==
    [][\A id \in 1..proposal_seq :
          gov_now > proposals[id].voting_ends_at =>
             /\ proposals'[id].yes_votes = proposals[id].yes_votes
             /\ proposals'[id].no_votes = proposals[id].no_votes
             /\ proposals[id].executed => proposals'[id].executed]_govVars
=============================================================================
