---------------------------- MODULE Deliberation ----------------------------
(***************************************************************************)
(* The ways participants weigh in on a goal: priority votes, which move    *)
(* the goal's root task up or down, and mechanism rounds (votes, rankings, *)
(* auctions), which end in a decision once a quorum has answered.  Both    *)
(* are GoalState methods that the coordinator's exclusive handlers call.   *)
(***************************************************************************)
EXTENDS Integers, FiniteSets, FiniteSetsExt, Sequences

CONSTANTS
    RankingPolicy,      \* GoalRankingPolicy
    PriorityVotes,      \* requests: [source, direction, weight]
    MaxPriorityVotes,   \* bound: votes on record
    MechanismPolicy,    \* MechanismPolicy
    RoundRequests,      \* requests: [mechanism, proposals, quorum, min, ratify]
    Ballots             \* requests: [participant, source, allocations]

ASSUME DeliberationAssumption ==
    /\ MechanismPolicy.quorum \in Nat /\ MechanismPolicy.min \in Nat
    /\ \A r \in RoundRequests :
        /\ IsFiniteSet(r.proposals) /\ r.proposals \subseteq Nat
        /\ r.quorum \in Nat /\ r.min \in Nat
    /\ \A b \in Ballots : \A p \in DOMAIN b.allocations :
        /\ b.allocations[p].support \in Int
        /\ b.allocations[p].rank \in Nat /\ b.allocations[p].bid \in Nat

VARIABLES ranking, rounds

deliberationVars == <<ranking, rounds>>

Unasked == 0    \* an optional number that a request leaves out

\* allow_human_votes, allow_coordinator_votes, allow_agent_votes and the same
\* three flags of the mechanism policy: the sources a policy lets through.
SourceAllowed(policy, source) ==
    (IF source = "System" THEN "Coordinator" ELSE source) \in policy.sources
-----------------------------------------------------------------------------
(* Priority votes *)

VoteWeight(r) == Min({Max({r.weight, 1}), Max({RankingPolicy.maxWeight, 1})})
SignedWeight(r) == IF r.direction = "Up" THEN VoteWeight(r) ELSE 0 - VoteWeight(r)
VoteScore(votes) ==
    LET sum[k \in 0..Len(votes)] == IF k = 0 THEN 0 ELSE sum[k - 1] + votes[k]
    IN  sum[Len(votes)]

NewRanking == [votes |-> <<>>, outcome |-> "none", priority |-> "High",
               role |-> "PeerGoal", rootPriority |-> "High", rootRole |-> "none"]

Standing(outcome, priority, role) == [outcome |-> outcome, priority |-> priority, role |-> role]

\* compute_goal_ranking_decision; a pending one repeats the latest standing.
RankingDecision(r) ==
    IF Len(r.votes) < RankingPolicy.minVotes THEN Standing("Pending", r.priority, r.role)
    ELSE IF VoteScore(r.votes) >= RankingPolicy.promotion
    THEN Standing("Promoted", "Critical", "OverarchingGoal")
    ELSE IF VoteScore(r.votes) <= RankingPolicy.demotion
    THEN Standing("Demoted", "Low", "Subgoal")
    ELSE Standing("Unchanged", "High", "PeerGoal")

\* apply_goal_ranking_decision
ApplyRanking(r) ==
    LET d == RankingDecision(r)
        decided == [r EXCEPT !.outcome = d.outcome, !.priority = d.priority, !.role = d.role]
    IN  IF d.outcome = "Pending" THEN decided
        ELSE [decided EXCEPT !.rootPriority = d.priority, !.rootRole = d.role]

RecordGoalPriorityVote(r) ==
    /\ RankingPolicy.enabled /\ SourceAllowed(RankingPolicy, r.source)
    /\ Len(ranking.votes) < MaxPriorityVotes
    /\ ranking' = ApplyRanking([ranking EXCEPT !.votes = Append(@, SignedWeight(r))])
    /\ UNCHANGED rounds
-----------------------------------------------------------------------------
(* Mechanism rounds *)

IsAuction(m) == m \in {"SealedBidAuction", "VickreyAuction", "ContractNet"}
RoundClosed(round) == round.status \in {"Decided", "RatificationRequired"}
Pending == [selected |-> "none", score |-> 0, price |-> Unasked]

Asked(value, otherwise) == IF value = Unasked THEN otherwise ELSE value

\* start_mechanism_round
StartMechanismRound(r) ==
    /\ MechanismPolicy.enabled
    /\ Len(rounds) < MechanismPolicy.maxRounds
    /\ r.proposals # {}
    /\ rounds' = Append(rounds,
            [mechanism |-> r.mechanism, status |-> "Open", proposals |-> r.proposals,
             ballots |-> {}, quorum |-> Max({Asked(r.quorum, MechanismPolicy.quorum), 1}),
             min |-> Max({Asked(r.min, MechanismPolicy.min), 1}),
             ratify |-> IF r.ratify = "unset" THEN MechanismPolicy.ratify ELSE r.ratify = "yes",
             decision |-> Pending])
    /\ UNCHANGED ranking

\* What an allocation adds to its proposal: a bid, or support and rank bonus.
Worth(round, a) ==
    IF IsAuction(round.mechanism) THEN a.bid
    ELSE a.support + IF a.rank = Unasked THEN 0 ELSE 1000 \div a.rank

\* The allocations that count: in an auction, the ones with a bid.
Counted(round) ==
    {<<b.participant, p>> : b \in round.ballots, p \in round.proposals} \cap
    UNION {{<<b.participant, p>> : p \in {q \in DOMAIN b.allocations :
                ~IsAuction(round.mechanism) \/ b.allocations[q].bid # Unasked}} :
           b \in round.ballots}
BallotOf(round, participant) == CHOOSE b \in round.ballots : b.participant = participant
WorthOf(round, c) == Worth(round, BallotOf(round, c[1]).allocations[c[2]])

ProposalScore(round, p) ==
    FoldSet(LAMBDA c, sum : sum + WorthOf(round, c), 0, {c \in Counted(round) : c[2] = p})
ScoredProposals(round) == {c[2] : c \in Counted(round)}

QuorumMet(round) ==
    Cardinality(round.ballots) >= round.quorum /\ Cardinality(round.ballots) >= round.min

\* The highest score wins, ties go to the smaller proposal id.
Winners(round) ==
    {p \in ScoredProposals(round) :
        \A q \in ScoredProposals(round) :
            \/ ProposalScore(round, p) > ProposalScore(round, q)
            \/ ProposalScore(round, p) = ProposalScore(round, q) /\ p <= q}

\* The second highest of all bids of a Vickrey auction.
ClearingPrice(round) ==
    LET bids == Counted(round)
        top == CHOOSE c \in bids : \A d \in bids : WorthOf(round, c) >= WorthOf(round, d)
    IN  IF round.mechanism # "VickreyAuction" \/ Cardinality(bids) < 2 THEN Unasked
        ELSE Max({WorthOf(round, c) : c \in bids \ {top}})

\* tally_mechanism_round
Tally(round) ==
    IF ~QuorumMet(round)
    THEN [round EXCEPT !.status = "QuorumPending", !.decision = Pending]
    ELSE [round EXCEPT
            !.status = IF round.ratify THEN "RatificationRequired" ELSE "Decided",
            !.decision =
                IF Winners(round) = {} THEN Pending
                ELSE LET p == CHOOSE w \in Winners(round) : TRUE
                     IN  [selected |-> p, score |-> ProposalScore(round, p),
                          price |-> ClearingPrice(round)]]

\* A participant's new ballot replaces its old one.
ReplaceBallot(round, b) ==
    [round EXCEPT !.ballots = {c \in @ : c.participant # b.participant} \cup {b}]

\* Mutant of BallotAccepted: a closed round still takes ballots.
BallotAcceptedLate(round, b) == DOMAIN b.allocations \subseteq round.proposals

BallotAccepted(round, b) ==
    /\ ~RoundClosed(round)
    /\ DOMAIN b.allocations \subseteq round.proposals
    /\ IsAuction(round.mechanism) =>
            \E p \in DOMAIN b.allocations : b.allocations[p].bid # Unasked

\* record_mechanism_ballot
RecordMechanismBallot(i, r) ==
    LET b == [participant |-> r.participant, allocations |-> r.allocations]
    IN  /\ MechanismPolicy.enabled /\ SourceAllowed(MechanismPolicy, r.source)
        /\ BallotAccepted(rounds[i], b)
        /\ rounds' = [rounds EXCEPT ![i] = Tally(ReplaceBallot(rounds[i], b))]
        /\ UNCHANGED ranking
-----------------------------------------------------------------------------
DeliberationInit == ranking = NewRanking /\ rounds = <<>>

RankingNext == \E r \in PriorityVotes : RecordGoalPriorityVote(r)
MechanismNext ==
    \/ \E r \in RoundRequests : StartMechanismRound(r)
    \/ \E i \in DOMAIN rounds, r \in Ballots : RecordMechanismBallot(i, r)

DeliberationNext == RankingNext \/ MechanismNext
DeliberationSpec == DeliberationInit /\ [][DeliberationNext]_deliberationVars

\* A round is decided by as many different participants as it asked for, each
\* with the last ballot it sent, for a proposal that none of the proposals they
\* gave an allocation outscores; and a decided round, or one that waits for
\* ratification, never changes again however ballots, retries and other rounds
\* interleave
\* (record_mechanism_ballot, tally_mechanism_round).
DecidedRoundsStand ==
    [][\A i \in DOMAIN rounds :
        /\ RoundClosed(rounds[i]) => rounds'[i] = rounds[i]
        /\ RoundClosed(rounds'[i]) =>
            /\ Cardinality({b.participant : b \in rounds'[i].ballots})
                    >= Max({rounds'[i].quorum, rounds'[i].min})
            /\ \A p \in ScoredProposals(rounds'[i]) :
                    ProposalScore(rounds'[i], p) <= rounds'[i].decision.score
      ]_deliberationVars
=============================================================================
