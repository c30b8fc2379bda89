------------------------- MODULE GovernanceVoting -------------------------
(***************************************************************************)
(* The voting side of the on-chain governance contract                     *)
(* (contracts/governance/src/lib.rs): proposals, one-hop delegation,       *)
(* token-weighted ballots, finalisation and execution.                     *)
(*                                                                         *)
(* A contract call is one transaction: it either runs to its end or, on an *)
(* Err, leaves no trace, so a call is one action whose guard is the        *)
(* conjunction of its early returns.  What interleaves is the calls of     *)
(* different accounts, the passage of ledger time, the pause switch and    *)
(* transfers of the governance token, which this contract does not see.    *)
(***************************************************************************)
EXTENDS Integers, FiniteSets, FiniteSetsExt

CONSTANTS Accounts,      \* addresses that may hold the governance token
          NoOne,         \* stands for an absent Delegation entry
          NoConfig,      \* stands for an absent Config entry
          MaxProposals,  \* bound: proposals created
          MaxTime,       \* bound: the last ledger timestamp reached
          I128Max,       \* the largest i128
          U64Max,        \* the largest u64
          Configs,       \* the configurations initialize may be called with
          InitialBalances, \* the token distributions to start from
          TransferAmounts  \* the amounts one token transfer may move

ProposalIds == 1 .. MaxProposals
BasisPoints == 10000

Statuses == {"Active", "Passed", "Rejected", "Executed"}
VoteChoice  == {"For", "Against"}

(* The part of a Config that voting reads.                                 *)
Config == [voting_period : Nat, quorum_bps : Nat, total_supply : Nat]

(* Proposal(id), absent while its status is "None".                        *)
Proposal == [votes_for : Nat, votes_against : Nat,
             status : Statuses \cup {"None"}, voting_ends_at : Nat]
NoProposal == [votes_for |-> 0, votes_against |-> 0,
               status |-> "None", voting_ends_at |-> 0]

(* Vote(id, voter), absent while its choice is "None".                     *)
Vote   == [choice : VoteChoice \cup {"None"}, weight : Nat]
NoVote == [choice |-> "None", weight |-> 0]

ASSUME AbsentAssumption ==
  /\ NoOne \notin Accounts
  /\ NoConfig \notin Config
(* A ledger holds finitely many addresses.                                 *)
ASSUME FiniteAssumption == IsFiniteSet(Accounts)
ASSUME BoundsAssumption ==
  /\ MaxProposals \in Nat
  /\ MaxTime \in Nat
  /\ I128Max \in Nat
  /\ U64Max \in Nat
ASSUME InputsAssumption ==
  /\ Configs \subseteq Config
  /\ InitialBalances \subseteq [Accounts -> Nat]
  /\ TransferAmounts \subseteq Nat \ {0}

VARIABLES
  config,        \* Config, or NoConfig before initialize
  proposalCount, \* ProposalCount
  proposals,     \* Proposal(id)
  votes,         \* Vote(id, voter)
  voteUsed,      \* the <<id, account>> for which VoteUsed(id, account) is set
  delegation,    \* Delegation(delegator), NoOne when absent
  delegators,    \* Delegators(delegatee): how often the list holds an account
  paused,        \* PauseScope("Global")
  now,           \* the ledger timestamp
  balance,       \* the governance token's balances (another contract)
  counted        \* history: how often an account's power entered a tally

contractVars == <<config, proposalCount, proposals, votes, voteUsed,
                  delegation, delegators, paused>>
vars == <<contractVars, now, balance, counted>>

Init ==
  /\ config = NoConfig
  /\ proposalCount = 0
  /\ proposals = [p \in ProposalIds |-> NoProposal]
  /\ votes = [p \in ProposalIds |-> [a \in Accounts |-> NoVote]]
  /\ voteUsed = {}
  /\ delegation = [a \in Accounts |-> NoOne]
  /\ delegators = [a \in Accounts |-> [d \in Accounts |-> 0]]
  /\ paused = FALSE
  /\ now = 0
  /\ balance \in InitialBalances
  /\ counted = [p \in ProposalIds |-> [a \in Accounts |-> 0]]

-----------------------------------------------------------------------------
(* Helpers.  A Delegators list is only ever appended to, scanned for one   *)
(* address and iterated, so what it says is how often it holds an address. *)

Initialized == config # NoConfig

HasInbound(a) == \E d \in Accounts : delegators[a][d] > 0

(* Faulty: the old delegatee keeps its entry.                              *)
KeepDelegator(lists, delegatee, delegator) == lists

(* remove_delegator: drop the first occurrence, if there is one.           *)
RemoveDelegator(lists, delegatee, delegator) ==
  [lists EXCEPT ![delegatee][delegator] = IF @ > 0 THEN @ - 1 ELSE @]

(* push_back onto the delegatee's list.                                    *)
PushDelegator(lists, delegatee, delegator) ==
  [lists EXCEPT ![delegatee][delegator] = @ + 1]

(* How often `represented`, the voter followed by its delegators, holds a. *)
Represented(voter, a) == (IF a = voter THEN 1 ELSE 0) + delegators[voter][a]

(* The combined balance of the represented accounts, read now.             *)
BallotWeight(voter) ==
  MapThenSumSet(LAMBDA a : Represented(voter, a) * balance[a], Accounts)

(* total_supply * quorum_bps / 10_000, and whether the product fits.       *)
QuorumProduct == config.total_supply * config.quorum_bps
RequiredParticipation == QuorumProduct \div BasisPoints

-----------------------------------------------------------------------------
(* The contract's calls.                                                   *)

Initialize(c) ==
  /\ ~Initialized
  /\ c.voting_period # 0
  /\ c.quorum_bps <= BasisPoints
  /\ c.total_supply > 0
  /\ config' = c
  /\ UNCHANGED <<proposalCount, proposals, votes, voteUsed, delegation,
                 delegators, paused, now, balance, counted>>

(* Faulty: a paused contract takes new proposals.                          *)
CreateUnpaused ==
  /\ Initialized
  /\ proposalCount < MaxProposals
  /\ now + config.voting_period <= U64Max
  /\ proposalCount' = proposalCount + 1
  /\ proposals' = [proposals EXCEPT ![proposalCount'] =
                     [votes_for |-> 0, votes_against |-> 0,
                      status |-> "Active",
                      voting_ends_at |-> now + config.voting_period]]
  /\ UNCHANGED <<config, votes, voteUsed, delegation, delegators, paused,
                 now, balance, counted>>

CreateProposal ==
  /\ Initialized
  /\ ~paused
  /\ proposalCount < MaxProposals
  /\ now + config.voting_period <= U64Max
  /\ proposalCount' = proposalCount + 1
  /\ proposals' = [proposals EXCEPT ![proposalCount'] =
                     [votes_for |-> 0, votes_against |-> 0,
                      status |-> "Active",
                      voting_ends_at |-> now + config.voting_period]]
  /\ UNCHANGED <<config, votes, voteUsed, delegation, delegators, paused,
                 now, balance, counted>>

Delegate(delegator, delegatee) ==
  /\ Initialized
  /\ delegator # delegatee
  /\ balance[delegator] > 0
  /\ ~HasInbound(delegator)
  /\ delegation[delegatee] = NoOne
  /\ LET previous == delegation[delegator]
         released == IF previous = NoOne THEN delegators
                     ELSE RemoveDelegator(delegators, previous, delegator)
     IN IF previous = delegatee
        THEN UNCHANGED <<delegation, delegators>>
        ELSE /\ delegation' = [delegation EXCEPT ![delegator] = delegatee]
             /\ delegators' = PushDelegator(released, delegatee, delegator)
  /\ UNCHANGED <<config, proposalCount, proposals, votes, voteUsed, paused,
                 now, balance, counted>>

Undelegate(delegator) ==
  /\ Initialized
  /\ delegation[delegator] # NoOne
  /\ delegators' =
       RemoveDelegator(delegators, delegation[delegator], delegator)
  /\ delegation' = [delegation EXCEPT ![delegator] = NoOne]
  /\ UNCHANGED <<config, proposalCount, proposals, votes, voteUsed, paused,
                 now, balance, counted>>

(* Faulty: only the voter's own power is looked up, not its delegators'.   *)
VoterUnspent(p, voter) == <<p, voter>> \notin voteUsed /\ votes[p][voter] = NoVote

(* No account this ballot would represent has been consumed or has voted.  *)
Unspent(p, voter) ==
  \A a \in Accounts : Represented(voter, a) > 0 =>
    /\ <<p, a>> \notin voteUsed
    /\ votes[p][a] = NoVote

(* Faulty: every ballot is added in favour.                                *)
AddToFor(p, choice, weight) ==
  /\ proposals[p].votes_for + weight <= I128Max
  /\ proposals' = [proposals EXCEPT ![p].votes_for = @ + weight]

(* The chosen side of the tally gains the weight, unless it overflows.     *)
AddToTally(p, choice, weight) ==
  \/ /\ choice = "For"
     /\ proposals[p].votes_for + weight <= I128Max
     /\ proposals' = [proposals EXCEPT ![p].votes_for = @ + weight]
  \/ /\ choice = "Against"
     /\ proposals[p].votes_against + weight <= I128Max
     /\ proposals' = [proposals EXCEPT ![p].votes_against = @ + weight]

(* The voting window of an active proposal, its last instant included.     *)
AcceptsBallots(p) ==
  proposals[p].status = "Active" /\ now <= proposals[p].voting_ends_at

CastVote(p, choice, voter) ==
  LET weight == BallotWeight(voter)
  IN /\ Initialized
     /\ ~paused
     /\ delegation[voter] = NoOne
     /\ AcceptsBallots(p)
     /\ Unspent(p, voter)
     /\ weight \in 1 .. I128Max
     /\ AddToTally(p, choice, weight)
     /\ votes' = [votes EXCEPT ![p][voter] =
                    [choice |-> choice, weight |-> weight]]
     /\ voteUsed' = voteUsed \cup
          {<<p, a>> : a \in {b \in Accounts : Represented(voter, b) > 0}}
     /\ counted' = [counted EXCEPT ![p] =
          [a \in Accounts |-> @[a] + Represented(voter, a)]]
     /\ UNCHANGED <<config, proposalCount, delegation, delegators, paused,
                    now, balance>>

FinalizeProposal(p) ==
  /\ proposals[p].status = "Active"
  /\ now > proposals[p].voting_ends_at
  /\ proposals' = [proposals EXCEPT ![p].status =
       IF proposals[p].votes_for > proposals[p].votes_against
       THEN "Passed" ELSE "Rejected"]
  /\ UNCHANGED <<config, proposalCount, votes, voteUsed, delegation,
                 delegators, paused, now, balance, counted>>

(* Faulty: an executed proposal is executed again, a rejected one too.     *)
ExecuteClosed(p) ==
  /\ Initialized
  /\ proposals[p].status \notin {"None", "Active"}
  /\ proposals[p].votes_for + proposals[p].votes_against >= RequiredParticipation
  /\ proposals' = [proposals EXCEPT ![p].status = "Executed"]
  /\ UNCHANGED <<config, proposalCount, votes, voteUsed, delegation,
                 delegators, paused, now, balance, counted>>

ExecuteProposal(p) ==
  LET participation == proposals[p].votes_for + proposals[p].votes_against
  IN /\ Initialized
     /\ proposals[p].status = "Passed"
     /\ participation <= I128Max
     /\ QuorumProduct <= I128Max
     /\ participation >= RequiredParticipation
     /\ proposals' = [proposals EXCEPT ![p].status = "Executed"]
     /\ UNCHANGED <<config, proposalCount, votes, voteUsed, delegation,
                    delegators, paused, now, balance, counted>>

(* The calls after initialize.                                             *)
VotingCall ==
  \/ CreateProposal
  \/ \E d, e \in Accounts : Delegate(d, e)
  \/ \E d \in Accounts : Undelegate(d)
  \/ \E p \in ProposalIds, choice \in VoteChoice, v \in Accounts :
       CastVote(p, choice, v)
  \/ \E p \in ProposalIds : FinalizeProposal(p)
  \/ \E p \in ProposalIds : ExecuteProposal(p)

-----------------------------------------------------------------------------
(* The contract's surroundings.                                            *)

(* execute_pause and execute_unpause on the global scope, at any time a    *)
(* holder of the Pause role chooses (GovernanceAdmin models the role).     *)
SetGlobalPause(flag) ==
  /\ paused' = flag
  /\ UNCHANGED <<config, proposalCount, proposals, votes, voteUsed,
                 delegation, delegators, now, balance, counted>>

(* A transfer in the governance token's own contract.                      *)
TransferTokens(from, to, amount) ==
  /\ from # to
  /\ balance[from] >= amount
  /\ balance' = [balance EXCEPT ![from] = @ - amount, ![to] = @ + amount]
  /\ UNCHANGED <<contractVars, now, counted>>

(* A ledger closes at a later time.                                        *)
Tick ==
  /\ now < MaxTime
  /\ now' = now + 1
  /\ UNCHANGED <<contractVars, balance, counted>>

Next ==
  \/ \E c \in Configs : Initialize(c)
  \/ VotingCall
  \/ \E flag \in BOOLEAN : SetGlobalPause(flag)
  \/ \E from, to \in Accounts, amount \in TransferAmounts :
       TransferTokens(from, to, amount)
  \/ Tick

Spec == Init /\ [][Next]_vars

-----------------------------------------------------------------------------
(* Properties.                                                             *)

(* Every stored record has the type its storage key gives it.              *)
TypeOK ==
  /\ config \in Config \cup {NoConfig}
  /\ proposalCount \in 0 .. MaxProposals
  /\ proposals \in [ProposalIds -> Proposal]
  /\ votes \in [ProposalIds -> [Accounts -> Vote]]
  /\ voteUsed \subseteq ProposalIds \X Accounts
  /\ delegation \in [Accounts -> Accounts \cup {NoOne}]
  /\ delegators \in [Accounts -> [Accounts -> Nat]]
  /\ paused \in BOOLEAN
  /\ now \in Nat
  /\ balance \in [Accounts -> Nat]
  /\ counted \in [ProposalIds -> [Accounts -> Nat]]

(* The two sides of the delegation index, written by separate storage      *)
(* calls in delegate and undelegate, always agree: an account is in the    *)
(* Delegators list of its delegatee exactly once and in no other list.     *)
DelegationIndexed ==
  \A a, d \in Accounts :
    delegators[a][d] = IF delegation[d] = a THEN 1 ELSE 0

(* Delegation stays one hop (the contract's comment on delegate): whoever  *)
(* is delegated to has not delegated, so there is no chain and no cycle.   *)
OneHop ==
  \A d \in Accounts :
    delegation[d] # NoOne => delegation[delegation[d]] = NoOne

(* Whatever is delegated, delegated anew and revoked, the two sides of the *)
(* index agree and delegation stays one hop (delegate, undelegate).        *)
DelegationSound == DelegationIndexed /\ OneHop

(* However accounts vote, delegate, revoke and move tokens between votes,  *)
(* no account's power enters the tallies of one proposal twice (README of  *)
(* the contract: "every represented address is consumed"), and VoteUsed    *)
(* marks exactly the accounts whose power did.                             *)
CountedOnce ==
  \A p \in ProposalIds, a \in Accounts :
    counted[p][a] = IF <<p, a>> \in voteUsed THEN 1 ELSE 0

(* The tally get_proposal returns is the sum of the ballots get_vote       *)
(* returns, side by side: cast_vote never leaves one without the other.    *)
WeightCast(p, choice) ==
  MapThenSumSet(LAMBDA a : IF votes[p][a].choice = choice
                           THEN votes[p][a].weight ELSE 0, Accounts)

TallyMatchesBallots ==
  \A p \in ProposalIds :
    /\ proposals[p].votes_for = WeightCast(p, "For")
    /\ proposals[p].votes_against = WeightCast(p, "Against")

(* A recorded ballot's own caster is among the accounts it consumed.       *)
BallotsConsumeTheirCaster ==
  \A p \in ProposalIds, a \in Accounts :
    votes[p][a] # NoVote => <<p, a>> \in voteUsed

(* What cast_vote makes of VoteUsed: power enters once, and a ballot's own *)
(* caster cannot have power left.                                          *)
PowerSpentOnce == CountedOnce /\ BallotsConsumeTheirCaster

(* execute_proposal only succeeds on a majority with a quorum, and neither *)
(* can be lost afterwards.                                                 *)
ExecutedIsQuorate ==
  \A p \in ProposalIds :
    LET q == proposals[p]
    IN /\ q.status \in {"Passed", "Executed"} => q.votes_for > q.votes_against
       /\ q.status = "Executed" =>
            /\ Initialized
            /\ q.votes_for + q.votes_against >= RequiredParticipation

(* Tallies stay within an i128, whatever the weights are.                  *)
TalliesFit ==
  \A p \in ProposalIds :
    /\ proposals[p].votes_for <= I128Max
    /\ proposals[p].votes_against <= I128Max

(* As long as no token moves, the participation of a proposal never        *)
(* exceeds the tokens there are, whatever is delegated and revoked between *)
(* the ballots.  (Transfers between two ballots break this: a token then   *)
(* votes with each of its holders.)                                        *)
ParticipationWithinHoldings ==
  \A p \in ProposalIds :
    proposals[p].votes_for + proposals[p].votes_against
      <= MapThenSumSet(LAMBDA a : balance[a], Accounts)

(* What the tallies of cast_vote add up to, at any balances.               *)
TalliesSound == TallyMatchesBallots /\ TalliesFit

(* Once the voting window has passed, no call changes the tallies or the   *)
(* set of consumed accounts: when finalize_proposal runs does not matter.  *)
WindowClosed(p) ==
  proposals[p].status # "None" /\ now > proposals[p].voting_ends_at

KeepsTally(p) ==
  /\ proposals'[p].votes_for = proposals[p].votes_for
  /\ proposals'[p].votes_against = proposals[p].votes_against
  /\ \A a \in Accounts : <<p, a>> \in voteUsed' <=> <<p, a>> \in voteUsed

ClosedWindowFrozen ==
  [][\A p \in ProposalIds : WindowClosed(p) => KeepsTally(p)]_vars

(* The contract implements the abstract ballot: accounts spend their power *)
(* once per ballot, ballots close once, by comparing the sides, and are    *)
(* enacted at most once, from Passed and with a quorum.                    *)
Ballot == INSTANCE GovernanceBallot WITH
  status        <- [p \in ProposalIds |-> proposals[p].status],
  forWeight     <- [p \in ProposalIds |-> proposals[p].votes_for],
  againstWeight <- [p \in ProposalIds |-> proposals[p].votes_against],
  spent         <- [p \in ProposalIds |->
                      {a \in Accounts : counted[p][a] > 0}],
  quorum        <- IF Initialized THEN RequiredParticipation ELSE -1

ImplementsBallot == Ballot!Spec
=============================================================================
