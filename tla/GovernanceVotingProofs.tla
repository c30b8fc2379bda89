----------------------- MODULE GovernanceVotingProofs -----------------------
(***************************************************************************)
(* Proofs about GovernanceVoting for any finite set of accounts, any       *)
(* number of proposals, any configuration and any token distribution; and, *)
(* in the last parts, about Compliance and Listings, which are checked     *)
(* beside it: an allowance that is the same kind of sum, and a walk        *)
(* through pages that misses no row.                                       *)
(***************************************************************************)
EXTENDS MCGovernanceVoting, Sequences, FiniteSetTheorems, WellFoundedInduction, TLAPS

USE DEF ProposalIds

-----------------------------------------------------------------------------
(* Adding to and removing from one Delegators list leaves lists of counts. *)
Lists == [Accounts -> [Accounts -> Nat]]

LEMMA ListsUpdated ==
  ASSUME NEW lists \in Lists, NEW a \in Accounts, NEW d \in Accounts
  PROVE  /\ PushDelegator(lists, a, d) \in Lists
         /\ RemoveDelegator(lists, a, d) \in Lists
<1>1. ASSUME NEW n \in Nat
      PROVE  [lists EXCEPT ![a] = [lists[a] EXCEPT ![d] = n]] \in Lists
  BY DEF Lists
<1>2. lists[a][d] \in Nat
  BY DEF Lists
<1>3. PushDelegator(lists, a, d) \in Lists
  <2>1. PushDelegator(lists, a, d) =
          [lists EXCEPT ![a] = [lists[a] EXCEPT ![d] = lists[a][d] + 1]]
    BY DEF PushDelegator, Lists
  <2>2. lists[a][d] + 1 \in Nat
    BY <1>2
  <2>3. QED
    BY <1>1, <2>1, <2>2
<1>4. RemoveDelegator(lists, a, d) \in Lists
  <2> DEFINE n == IF lists[a][d] > 0 THEN lists[a][d] - 1 ELSE lists[a][d]
  <2>1. RemoveDelegator(lists, a, d) =
          [lists EXCEPT ![a] = [lists[a] EXCEPT ![d] = n]]
    BY DEF RemoveDelegator, Lists
  <2>2. n \in Nat
    BY <1>2
  <2> HIDE DEF n
  <2>3. QED
    BY <1>1, <2>1, <2>2
<1>5. QED
  BY <1>3, <1>4

(* Adding a weight to either side of a proposal leaves a proposal.         *)
LEMMA TallyTyped ==
  ASSUME NEW q \in Proposal, NEW w \in Nat
  PROVE  /\ [q EXCEPT !.votes_for = @ + w] \in Proposal
         /\ [q EXCEPT !.votes_against = @ + w] \in Proposal
<1>1. q.votes_for + w \in Nat /\ q.votes_against + w \in Nat
  BY DEF Proposal
<1>2. [q EXCEPT !.votes_for = @ + w] \in Proposal
  BY <1>1 DEF Proposal
<1>3. [q EXCEPT !.votes_against = @ + w] \in Proposal
  BY <1>1 DEF Proposal
<1>4. QED
  BY <1>2, <1>3

(* Every record keeps its type through every call of the contract.         *)
THEOREM TypeCorrect == Spec => []TypeOK
<1>1. Init => TypeOK
  <2> SUFFICES ASSUME Init PROVE TypeOK
    OBVIOUS
  <2>1. NoProposal \in Proposal /\ NoVote \in Vote
    BY DEF NoProposal, Proposal, NoVote, Vote
  <2>2. QED
    <3>1. proposals \in [ProposalIds -> Proposal]
      BY <2>1 DEF Init
    <3>2. votes \in [ProposalIds -> [Accounts -> Vote]]
      BY <2>1 DEF Init
    <3>3. /\ delegation \in [Accounts -> Accounts \cup {NoOne}]
          /\ delegators \in [Accounts -> [Accounts -> Nat]]
          /\ counted \in [ProposalIds -> [Accounts -> Nat]]
      BY DEF Init
    <3>4. balance \in [Accounts -> Nat]
      BY InputsAssumption DEF Init
    <3>5. proposalCount \in 0 .. MaxProposals /\ now \in Nat
      BY BoundsAssumption DEF Init
    <3>6. /\ config \in Config \cup {NoConfig}
          /\ voteUsed \subseteq ProposalIds \X Accounts
          /\ paused \in BOOLEAN
      BY DEF Init
    <3>7. QED
      BY <3>1, <3>2, <3>3, <3>4, <3>5, <3>6 DEF TypeOK
<1>2. TypeOK /\ [Next]_vars => TypeOK'
  <2> SUFFICES ASSUME TypeOK, [Next]_vars PROVE TypeOK'
    OBVIOUS
  <2> USE DEF TypeOK
  <2>1. ASSUME NEW c \in Configs, Initialize(c) PROVE TypeOK'
    BY <2>1, InputsAssumption DEF Initialize
  <2>2. CASE CreateProposal
    <3>1. config.voting_period \in Nat
      BY <2>2 DEF CreateProposal, Initialized, Config
    <3>2. [votes_for |-> 0, votes_against |-> 0, status |-> "Active",
           voting_ends_at |-> now + config.voting_period] \in Proposal
      BY <3>1 DEF Proposal, Statuses
    <3>3. QED
      BY <2>2, <3>2, BoundsAssumption DEF CreateProposal
  <2>3. ASSUME NEW d \in Accounts, NEW e \in Accounts, Delegate(d, e)
        PROVE  TypeOK'
    <3>1. delegators \in Lists
      BY DEF Lists
    <3>2. delegators' \in Lists
      <4> DEFINE previous == delegation[d]
                 released == IF previous = NoOne THEN delegators
                             ELSE RemoveDelegator(delegators, previous, d)
      <4>1. released \in Lists
        BY <3>1, ListsUpdated
      <4>2. PushDelegator(released, e, d) \in Lists
        BY <4>1, ListsUpdated
      <4>3. delegators' \in {delegators, PushDelegator(released, e, d)}
        BY <2>3 DEF Delegate
      <4>4. QED
        BY <3>1, <4>2, <4>3
    <3>3. delegation' \in [Accounts -> Accounts \cup {NoOne}]
      BY <2>3 DEF Delegate
    <3>4. QED
      BY <2>3, <3>2, <3>3 DEF Delegate, Lists
  <2>4. ASSUME NEW d \in Accounts, Undelegate(d) PROVE TypeOK'
    <3>1. delegators \in Lists /\ delegation[d] \in Accounts
      BY <2>4 DEF Lists, Undelegate
    <3>2. delegators' \in Lists
      BY <2>4, <3>1, ListsUpdated DEF Undelegate
    <3>3. QED
      BY <2>4, <3>2 DEF Undelegate, Lists
  <2>5. ASSUME NEW p \in ProposalIds, NEW choice \in VoteChoice,
               NEW v \in Accounts, CastVote(p, choice, v)
        PROVE  TypeOK'
    <3> DEFINE weight == BallotWeight(v)
    <3> HIDE DEF weight
    <3>1. weight \in Nat /\ AddToTally(p, choice, weight)
      <4>1. weight \in 1 .. I128Max
        BY <2>5 DEF CastVote, weight
      <4>2. AddToTally(p, choice, weight)
        BY <2>5 DEF CastVote, weight
      <4>3. QED
        BY <4>1, <4>2, BoundsAssumption
    <3>2. proposals' \in [ProposalIds -> Proposal]
      <4>1. proposals[p] \in Proposal
        OBVIOUS
      <4>2. /\ [proposals[p] EXCEPT !.votes_for = @ + weight] \in Proposal
            /\ [proposals[p] EXCEPT !.votes_against = @ + weight] \in Proposal
        BY <3>1, <4>1, TallyTyped
      <4>3. \/ proposals' = [proposals EXCEPT ![p] =
                 [proposals[p] EXCEPT !.votes_for = @ + weight]]
            \/ proposals' = [proposals EXCEPT ![p] =
                 [proposals[p] EXCEPT !.votes_against = @ + weight]]
        BY <3>1 DEF AddToTally
      <4>4. \A q \in Proposal :
              [proposals EXCEPT ![p] = q] \in [ProposalIds -> Proposal]
        OBVIOUS
      <4>5. QED
        BY <4>2, <4>3, <4>4, Zenon
    <3>3. votes' = [votes EXCEPT ![p][v] =
                      [choice |-> choice, weight |-> weight]]
      BY <2>5 DEF CastVote, weight
    <3>4. [choice |-> choice, weight |-> weight] \in Vote
      BY <3>1 DEF Vote
    <3>5. votes' \in [ProposalIds -> [Accounts -> Vote]]
      BY <3>3, <3>4
    <3>6. voteUsed' \subseteq ProposalIds \X Accounts
      BY <2>5 DEF CastVote
    <3>7. \A a \in Accounts : Represented(v, a) \in Nat
      BY DEF Represented
    <3>8. counted' \in [ProposalIds -> [Accounts -> Nat]]
      BY <2>5, <3>7, SMTT(20) DEF CastVote, AcceptsBallots
    <3>9. QED
      BY <2>5, <3>2, <3>5, <3>6, <3>8 DEF CastVote
  <2>6. ASSUME NEW p \in ProposalIds, FinalizeProposal(p) PROVE TypeOK'
    BY <2>6, ZenonT(30) DEF FinalizeProposal, Proposal, Statuses
  <2>7. ASSUME NEW p \in ProposalIds, ExecuteProposal(p) PROVE TypeOK'
    BY <2>7, ZenonT(30) DEF ExecuteProposal, Proposal, Statuses
  <2>8. ASSUME NEW flag \in BOOLEAN, SetGlobalPause(flag) PROVE TypeOK'
    BY <2>8 DEF SetGlobalPause
  <2>9. ASSUME NEW from \in Accounts, NEW to \in Accounts,
               NEW amount \in TransferAmounts,
               TransferTokens(from, to, amount)
        PROVE  TypeOK'
    <3>1. /\ amount \in Nat
          /\ balance[from] - amount \in Nat
          /\ balance[to] + amount \in Nat
      BY <2>9, InputsAssumption DEF TransferTokens
    <3>2. balance' \in [Accounts -> Nat]
      BY <2>9, <3>1 DEF TransferTokens
    <3>3. QED
      BY <2>9, <3>2 DEF TransferTokens, contractVars
  <2>10. CASE Tick
    BY <2>10 DEF Tick, contractVars
  <2>11. CASE UNCHANGED vars
    BY <2>11 DEF vars, contractVars
  <2>12. QED
    BY <2>1, <2>2, <2>3, <2>4, <2>5, <2>6, <2>7, <2>8, <2>9, <2>10, <2>11
       DEF Next, VotingCall
<1>3. QED
  BY <1>1, <1>2, PTL DEF Spec

-----------------------------------------------------------------------------
(* The delegation index.  DelegationIndexed and OneHop are inductive only  *)
(* together: that an account with inbound delegations is not removed from  *)
(* anyone's list is OneHop, that HasInbound sees every delegator is the    *)
(* index.                                                                  *)
DelegationInv == DelegationIndexed /\ OneHop

(* What the two list operations leave in the lists, entry by entry.        *)
LEMMA ListEntries ==
  ASSUME NEW lists \in Lists, NEW a \in Accounts, NEW d \in Accounts,
         NEW b \in Accounts, NEW x \in Accounts
  PROVE  /\ PushDelegator(lists, a, d)[b][x] =
              IF b = a /\ x = d THEN lists[a][d] + 1 ELSE lists[b][x]
         /\ RemoveDelegator(lists, a, d)[b][x] =
              IF b = a /\ x = d /\ lists[a][d] > 0
              THEN lists[a][d] - 1 ELSE lists[b][x]
<1>1. PushDelegator(lists, a, d)[b][x] =
        IF b = a /\ x = d THEN lists[a][d] + 1 ELSE lists[b][x]
  BY DEF PushDelegator, Lists
<1>2. RemoveDelegator(lists, a, d)[b][x] =
        IF b = a /\ x = d /\ lists[a][d] > 0
        THEN lists[a][d] - 1 ELSE lists[b][x]
  BY DEF RemoveDelegator, Lists
<1>3. QED
  BY <1>1, <1>2

LEMMA DelegationStep ==
  TypeOK /\ DelegationInv /\ [Next]_vars => DelegationInv'
<1> SUFFICES ASSUME TypeOK, DelegationInv, [Next]_vars
             PROVE  DelegationInv'
  OBVIOUS
<1> USE DEF DelegationInv, DelegationIndexed, OneHop
<1>1. delegators \in Lists /\ delegation \in [Accounts -> Accounts \cup {NoOne}]
  BY DEF TypeOK, Lists
<1>2. CASE UNCHANGED <<delegation, delegators>>
  BY <1>2
<1>3. ASSUME NEW d \in Accounts, NEW e \in Accounts, Delegate(d, e)
      PROVE  DelegationInv'
  <2>1. CASE delegation[d] = e
    BY <2>1, <1>2, <1>3 DEF Delegate
  <2>2. CASE delegation[d] # e
    <3> DEFINE released == IF delegation[d] = NoOne THEN delegators
                           ELSE RemoveDelegator(delegators, delegation[d], d)
    <3>1. /\ d # e
          /\ delegation[e] = NoOne
          /\ \A x \in Accounts : ~(delegators[d][x] > 0)
          /\ delegation' = [delegation EXCEPT ![d] = e]
          /\ delegators' = PushDelegator(released, e, d)
      BY <1>3, <2>2 DEF Delegate, HasInbound
    <3>2. released \in Lists
      BY <1>1, ListsUpdated
    <3>3. \A b, x \in Accounts :
            released[b][x] = IF x = d THEN 0 ELSE delegators[b][x]
      <4>1. CASE delegation[d] = NoOne
        BY <4>1, AbsentAssumption
      <4>2. CASE delegation[d] # NoOne
        BY <1>1, <4>2, ListEntries
      <4>3. QED
        BY <4>1, <4>2
    <3> HIDE DEF released
    <3>4. DelegationIndexed'
      <4> SUFFICES ASSUME NEW b \in Accounts, NEW x \in Accounts
                   PROVE  delegators'[b][x] = IF delegation'[x] = b THEN 1 ELSE 0
        BY DEF DelegationIndexed
      <4>1. delegators'[b][x] =
              IF b = e /\ x = d THEN released[e][d] + 1 ELSE released[b][x]
        BY <3>1, <3>2, ListEntries
      <4>2. CASE x = d
        BY <1>1, <3>1, <3>3, <4>1, <4>2
      <4>3. CASE x # d
        BY <1>1, <3>1, <3>3, <4>1, <4>3
      <4>4. QED
        BY <4>2, <4>3
    <3>5. OneHop'
      BY <1>1, <3>1, AbsentAssumption
    <3>6. QED
      BY <3>4, <3>5
  <2>3. QED
    BY <2>1, <2>2
<1>4. ASSUME NEW d \in Accounts, Undelegate(d)
      PROVE  DelegationInv'
  <2>1. /\ delegation[d] \in Accounts
        /\ delegators' = RemoveDelegator(delegators, delegation[d], d)
        /\ delegation' = [delegation EXCEPT ![d] = NoOne]
    BY <1>1, <1>4 DEF Undelegate
  <2>2. DelegationIndexed'
    <3> SUFFICES ASSUME NEW b \in Accounts, NEW x \in Accounts
                 PROVE  delegators'[b][x] = IF delegation'[x] = b THEN 1 ELSE 0
      BY DEF DelegationIndexed
    <3>1. delegators'[b][x] =
            IF b = delegation[d] /\ x = d /\ delegators[delegation[d]][d] > 0
            THEN delegators[delegation[d]][d] - 1 ELSE delegators[b][x]
      BY <1>1, <2>1, ListEntries
    <3>2. QED
      BY <1>1, <2>1, <3>1, AbsentAssumption
  <2>3. OneHop'
    BY <1>1, <2>1, AbsentAssumption
  <2>4. QED
    BY <2>2, <2>3
<1>5. QED
  BY <1>2, <1>3, <1>4
     DEF Next, VotingCall, Initialize, CreateProposal, CastVote, FinalizeProposal,
         ExecuteProposal, SetGlobalPause, TransferTokens, Tick, vars,
         contractVars

(* For any number of accounts: the two storage maps of delegations agree   *)
(* and no delegation chain or cycle can be built by any sequence of calls. *)
THEOREM DelegationConsistent == Spec => []DelegationSound
<1>1. Init => DelegationInv
  BY AbsentAssumption
     DEF Init, DelegationInv, DelegationIndexed, OneHop
<1>2. QED
  BY <1>1, DelegationStep, TypeCorrect, PTL DEF Spec, DelegationInv, DelegationSound

-----------------------------------------------------------------------------
(* Consumption of voting power.                                            *)
SpendInv == CountedOnce /\ BallotsConsumeTheirCaster

(* A ballot's list of represented accounts never names an account twice.   *)
LEMMA RepresentedOnce ==
  ASSUME TypeOK, DelegationInv, NEW v \in Accounts, NEW a \in Accounts
  PROVE  /\ Represented(v, a) \in {0, 1}
         /\ Represented(v, v) = 1
<1>1. delegation[v] # v
  BY AbsentAssumption DEF DelegationInv, OneHop
<1>2. QED
  BY <1>1 DEF Represented, DelegationInv, DelegationIndexed

LEMMA SpendStep ==
  TypeOK /\ DelegationInv /\ SpendInv /\ [Next]_vars => SpendInv'
<1> SUFFICES ASSUME TypeOK, DelegationInv, SpendInv, [Next]_vars
             PROVE  SpendInv'
  OBVIOUS
<1>1. CASE UNCHANGED <<votes, voteUsed, counted>>
  BY <1>1 DEF SpendInv, CountedOnce, BallotsConsumeTheirCaster
<1>2. ASSUME NEW p \in ProposalIds, NEW choice \in VoteChoice,
             NEW v \in Accounts, CastVote(p, choice, v)
      PROVE  SpendInv'
  <2> DEFINE ballot == [choice |-> choice, weight |-> BallotWeight(v)]
             group  == {a \in Accounts : Represented(v, a) > 0}
  <2>1. /\ Unspent(p, v)
        /\ votes' = [votes EXCEPT ![p] = [votes[p] EXCEPT ![v] = ballot]]
        /\ voteUsed' = voteUsed \cup {<<p, a>> : a \in group}
        /\ counted' = [counted EXCEPT ![p] =
                         [a \in Accounts |-> counted[p][a] + Represented(v, a)]]
    BY <1>2 DEF CastVote, TypeOK
  <2> HIDE DEF ballot
  <2>2. ASSUME NEW q \in ProposalIds, NEW a \in Accounts
        PROVE  <<q, a>> \in voteUsed' <=>
                 \/ <<q, a>> \in voteUsed
                 \/ q = p /\ Represented(v, a) = 1
    BY <2>1, RepresentedOnce
  <2>3. CountedOnce'
    <3> SUFFICES ASSUME NEW q \in ProposalIds, NEW a \in Accounts
                 PROVE  counted'[q][a] = IF <<q, a>> \in voteUsed' THEN 1 ELSE 0
      BY DEF CountedOnce
    <3>1. CASE q = p /\ Represented(v, a) = 1
      <4>1. <<p, a>> \notin voteUsed
        BY <2>1, <3>1 DEF Unspent
      <4>2. counted[p][a] = 0
        BY <4>1 DEF SpendInv, CountedOnce
      <4>3. counted'[q][a] = 1
        BY <2>1, <3>1, <4>2 DEF TypeOK
      <4>4. QED
        BY <2>2, <3>1, <4>3
    <3>2. CASE q = p /\ Represented(v, a) = 0
      <4> DEFINE n == counted[p][a]
      <4>0. n \in Nat
        BY ZenonT(30) DEF TypeOK
      <4>1. counted'[p][a] = n + Represented(v, a)
        BY <2>1 DEF TypeOK
      <4>2. QED
        BY <2>2, <3>2, <4>0, <4>1 DEF SpendInv, CountedOnce
    <3>3. CASE q # p
      <4>1. counted'[q][a] = counted[q][a]
        BY <2>1, <3>3 DEF TypeOK
      <4>2. QED
        BY <2>2, <3>3, <4>1 DEF SpendInv, CountedOnce
    <3>4. QED
      BY <3>1, <3>2, <3>3, RepresentedOnce
  <2>4. BallotsConsumeTheirCaster'
    <3> SUFFICES ASSUME NEW q \in ProposalIds, NEW a \in Accounts,
                        votes'[q][a] # NoVote
                 PROVE  <<q, a>> \in voteUsed'
      BY DEF BallotsConsumeTheirCaster
    <3>1. CASE q = p /\ a = v
      BY <2>2, <3>1, RepresentedOnce
    <3>2. CASE ~(q = p /\ a = v)
      <4>1. votes'[q][a] = votes[q][a]
        BY <2>1, <3>2 DEF TypeOK
      <4>2. QED
        BY <2>2, <4>1 DEF SpendInv, BallotsConsumeTheirCaster
    <3>3. QED
      BY <3>1, <3>2
  <2>5. QED
    BY <2>3, <2>4 DEF SpendInv
<1>3. QED
  BY <1>1, <1>2
     DEF Next, VotingCall, Initialize, CreateProposal, Delegate, Undelegate,
         FinalizeProposal, ExecuteProposal, SetGlobalPause, TransferTokens,
         Tick, vars, contractVars

(* No sequence of votes, delegations, revocations and token transfers      *)
(* makes cast_vote add one account's power to a proposal twice, and a      *)
(* voter's own power is always among what its ballot consumed.             *)
THEOREM PowerCountedOnce == Spec => []PowerSpentOnce
<1>1. Init => SpendInv
  BY DEF Init, SpendInv, CountedOnce, BallotsConsumeTheirCaster
<1>2. Spec => []DelegationInv
  BY DelegationConsistent DEF DelegationInv, DelegationSound
<1>3. QED
  BY <1>1, <1>2, SpendStep, TypeCorrect, PTL DEF Spec, SpendInv, PowerSpentOnce

-----------------------------------------------------------------------------
(* The life of a proposal.  Fresh is what makes a new proposal start from  *)
(* empty tallies; Founded, that execution finds a configuration.           *)
Fresh == \A p \in ProposalIds : p > proposalCount => proposals[p] = NoProposal
Founded == ~Initialized => proposalCount = 0
LifeInv == Fresh /\ Founded /\ ExecutedIsQuorate

(* What a vote does to the proposals, side left open.                      *)
LEMMA VoteChanges ==
  ASSUME TypeOK, NEW p \in ProposalIds, NEW choice \in VoteChoice,
         NEW v \in Accounts, CastVote(p, choice, v)
  PROVE  \E w \in Nat \ {0} :
           \/ proposals' = [proposals EXCEPT ![p] =
                [proposals[p] EXCEPT !.votes_for = proposals[p].votes_for + w]]
           \/ proposals' = [proposals EXCEPT ![p] =
                [proposals[p] EXCEPT !.votes_against =
                                       proposals[p].votes_against + w]]
<1> DEFINE w == BallotWeight(v)
<1> HIDE DEF w
<1>1. w \in 1 .. I128Max /\ AddToTally(p, choice, w)
  BY DEF CastVote, w
<1>2. w \in Nat \ {0}
  BY <1>1, BoundsAssumption
<1>3. \/ proposals' = [proposals EXCEPT ![p] =
            [proposals[p] EXCEPT !.votes_for = proposals[p].votes_for + w]]
      \/ proposals' = [proposals EXCEPT ![p] =
            [proposals[p] EXCEPT !.votes_against =
                                   proposals[p].votes_against + w]]
  BY <1>1 DEF AddToTally
<1>4. QED
  BY <1>2, <1>3

(* What a vote leaves alone.                                               *)
LEMMA VoteKeeps ==
  ASSUME TypeOK, NEW p \in ProposalIds, NEW choice \in VoteChoice,
         NEW v \in Accounts, CastVote(p, choice, v)
  PROVE  /\ \A q \in ProposalIds : q # p => proposals'[q] = proposals[q]
         /\ proposals'[p].status = proposals[p].status
         /\ proposals'[p].voting_ends_at = proposals[p].voting_ends_at
<1>1. PICK w \in Nat \ {0} :
        \/ proposals' = [proposals EXCEPT ![p] =
             [proposals[p] EXCEPT !.votes_for = proposals[p].votes_for + w]]
        \/ proposals' = [proposals EXCEPT ![p] =
             [proposals[p] EXCEPT !.votes_against =
                                    proposals[p].votes_against + w]]
  BY VoteChanges
<1>2. proposals[p] \in Proposal /\ p \in DOMAIN proposals
  BY DEF TypeOK
<1>3. \/ proposals'[p] =
            [proposals[p] EXCEPT !.votes_for = proposals[p].votes_for + w]
      \/ proposals'[p] =
            [proposals[p] EXCEPT !.votes_against = proposals[p].votes_against + w]
  BY <1>1, <1>2
<1>4. /\ proposals'[p].status = proposals[p].status
      /\ proposals'[p].voting_ends_at = proposals[p].voting_ends_at
  BY <1>2, <1>3 DEF Proposal
<1>5. \A q \in ProposalIds : q # p => proposals'[q] = proposals[q]
  BY <1>1 DEF TypeOK
<1>6. QED
  BY <1>4, <1>5

LEMMA LifeStep ==
  TypeOK /\ LifeInv /\ [Next]_vars => LifeInv'
<1> SUFFICES ASSUME TypeOK, LifeInv, [Next]_vars PROVE LifeInv'
  OBVIOUS
<1> USE DEF LifeInv, Fresh, Founded, ExecutedIsQuorate
<1>1. CASE UNCHANGED <<config, proposalCount, proposals>>
  BY <1>1 DEF Initialized, RequiredParticipation, QuorumProduct
<1>2. ASSUME NEW c \in Configs, Initialize(c) PROVE LifeInv'
  <2>1. \A p \in ProposalIds : proposals[p] = NoProposal
    BY <1>2 DEF Initialize, TypeOK
  <2>2. config' # NoConfig /\ UNCHANGED <<proposalCount, proposals>>
    BY <1>2, AbsentAssumption, InputsAssumption DEF Initialize
  <2>3. QED
    BY <2>1, <2>2 DEF Initialized, NoProposal
<1>3. CASE CreateProposal
  <2> DEFINE new == proposalCount + 1
  <2>1. /\ new \in ProposalIds
        /\ proposalCount' = new
        /\ Initialized
        /\ config' = config
        /\ proposals' = [proposals EXCEPT ![new] =
             [votes_for |-> 0, votes_against |-> 0, status |-> "Active",
              voting_ends_at |-> now + config.voting_period]]
    BY <1>3, BoundsAssumption DEF CreateProposal, TypeOK
  <2>2. \A p \in ProposalIds : p # new => proposals'[p] = proposals[p]
    BY <2>1 DEF TypeOK
  <2>3. proposals'[new].status = "Active"
    BY <2>1 DEF TypeOK
  <2>4. Fresh' /\ Founded'
    BY <2>1, <2>2 DEF TypeOK, Initialized
  <2>5. ExecutedIsQuorate'
    BY <2>1, <2>2, <2>3 DEF Initialized, RequiredParticipation, QuorumProduct
  <2>6. QED
    BY <2>4, <2>5
<1>4. ASSUME NEW p \in ProposalIds, NEW choice \in VoteChoice,
             NEW v \in Accounts, CastVote(p, choice, v)
      PROVE  LifeInv'
  <2>1. /\ proposals[p].status = "Active"
        /\ UNCHANGED <<config, proposalCount>>
    BY <1>4 DEF CastVote, AcceptsBallots
  <2>2. /\ proposals'[p].status = "Active"
        /\ \A q \in ProposalIds : q # p => proposals'[q] = proposals[q]
    BY <1>4, <2>1, VoteChanges, VoteKeeps
  <2>3. p <= proposalCount
    BY <2>1 DEF NoProposal, TypeOK
  <2>4. Fresh' /\ Founded'
    <3>1. \A q \in ProposalIds : q > proposalCount => q # p
      BY <2>3 DEF TypeOK
    <3>2. Fresh'
      BY <2>1, <2>2, <3>1
    <3>3. Founded'
      BY <2>1 DEF Initialized
    <3>4. QED
      BY <3>2, <3>3
  <2>5. ExecutedIsQuorate'
    BY <2>1, <2>2 DEF Initialized, RequiredParticipation, QuorumProduct
  <2>6. QED
    BY <2>4, <2>5
<1>5. ASSUME NEW p \in ProposalIds,
             FinalizeProposal(p) \/ ExecuteProposal(p)
      PROVE  LifeInv'
  <2>1. /\ proposals[p].status \in {"Active", "Passed"}
        /\ UNCHANGED <<config, proposalCount>>
        /\ \A q \in ProposalIds : q # p => proposals'[q] = proposals[q]
    BY <1>5 DEF FinalizeProposal, ExecuteProposal, TypeOK
  <2>2. /\ proposals'[p].votes_for = proposals[p].votes_for
        /\ proposals'[p].votes_against = proposals[p].votes_against
        /\ proposals'[p].status \in {"Passed", "Executed"} =>
             proposals[p].votes_for > proposals[p].votes_against
        /\ proposals'[p].status = "Executed" =>
             /\ Initialized
             /\ proposals[p].votes_for + proposals[p].votes_against
                  >= RequiredParticipation
    <3>1. CASE FinalizeProposal(p)
      BY <3>1 DEF FinalizeProposal, TypeOK, Proposal
    <3>2. CASE ExecuteProposal(p)
      BY <3>2 DEF ExecuteProposal, TypeOK, Proposal
    <3>3. QED
      BY <1>5, <3>1, <3>2
  <2>3. p <= proposalCount
    BY <2>1 DEF NoProposal, TypeOK
  <2>4. Fresh' /\ Founded'
    BY <2>1, <2>3 DEF Initialized, TypeOK
  <2>5. ExecutedIsQuorate'
    BY <2>1, <2>2 DEF Initialized, RequiredParticipation, QuorumProduct
  <2>6. QED
    BY <2>4, <2>5
<1>6. QED
  BY <1>1, <1>2, <1>3, <1>4, <1>5
     DEF Next, VotingCall, Delegate, Undelegate, SetGlobalPause, TransferTokens, Tick,
         vars, contractVars

LEMMA LifeInvariant == Spec => []LifeInv
<1>1. Init => LifeInv
  BY BoundsAssumption
     DEF Init, LifeInv, Fresh, Founded, ExecutedIsQuorate, NoProposal,
         Initialized
<1>2. QED
  BY <1>1, LifeStep, TypeCorrect, PTL DEF Spec

(* No proposal is ever executed without a majority and a quorum.           *)
THEOREM ExecutionQuorate == Spec => []ExecutedIsQuorate
<1>1. LifeInv => ExecutedIsQuorate
  BY DEF LifeInv
<1>2. QED
  BY <1>1, LifeInvariant, PTL

-----------------------------------------------------------------------------
(* After the window, nothing any account calls moves the tallies or the    *)
(* set of consumed accounts.                                               *)
THEOREM WindowFreezesTally == Spec => ClosedWindowFrozen
<1>1. TypeOK /\ LifeInv /\ [Next]_vars =>
        [\A p \in ProposalIds : WindowClosed(p) => KeepsTally(p)]_vars
  <2> SUFFICES ASSUME TypeOK, LifeInv, [Next]_vars,
                      NEW p \in ProposalIds, WindowClosed(p)
               PROVE  KeepsTally(p)
    OBVIOUS
  <2> USE DEF KeepsTally
  <2>1. CASE UNCHANGED <<proposals, voteUsed>>
    BY <2>1
  <2>2. CASE CreateProposal
    <3>1. p # proposalCount + 1
      BY DEF WindowClosed, LifeInv, Fresh, NoProposal, TypeOK
    <3>2. proposals'[p] = proposals[p] /\ voteUsed' = voteUsed
      BY <2>2, <3>1 DEF CreateProposal, TypeOK
    <3>3. QED
      BY <3>2
  <2>3. ASSUME NEW q \in ProposalIds, NEW choice \in VoteChoice,
               NEW v \in Accounts, CastVote(q, choice, v)
        PROVE  KeepsTally(p)
    <3>1. q # p
      <4>1. now \in Nat /\ proposals[p].voting_ends_at \in Nat
        BY DEF TypeOK, Proposal
      <4>2. now <= proposals[q].voting_ends_at
        BY <2>3 DEF CastVote, AcceptsBallots
      <4>3. QED
        BY <4>1, <4>2 DEF WindowClosed
    <3>2. proposals'[p] = proposals[p]
      BY <2>3, <3>1, VoteKeeps
    <3>3. \A a \in Accounts : <<p, a>> \in voteUsed' <=> <<p, a>> \in voteUsed
      BY <2>3, <3>1 DEF CastVote
    <3>4. QED
      BY <3>2, <3>3
  <2>4. ASSUME NEW q \in ProposalIds,
               FinalizeProposal(q) \/ ExecuteProposal(q)
        PROVE  KeepsTally(p)
    <3>1. \E status : proposals' = [proposals EXCEPT ![q].status = status]
      BY <2>4 DEF FinalizeProposal, ExecuteProposal
    <3>2. voteUsed' = voteUsed
      BY <2>4 DEF FinalizeProposal, ExecuteProposal
    <3>3. /\ proposals'[p].votes_for = proposals[p].votes_for
          /\ proposals'[p].votes_against = proposals[p].votes_against
      BY <3>1 DEF TypeOK, Proposal
    <3>4. QED
      BY <3>2, <3>3
  <2>5. QED
    BY <2>1, <2>2, <2>3, <2>4
       DEF Next, VotingCall, Initialize, Delegate, Undelegate, SetGlobalPause,
           TransferTokens, Tick, vars, contractVars
<1>2. QED
  BY <1>1, TypeCorrect, LifeInvariant, PTL DEF Spec, ClosedWindowFrozen

-----------------------------------------------------------------------------
(* Sums over a finite set S.  MapThenSumSet takes one element after        *)
(* another out of the set; IsSum is the function of subsets it defines on  *)
(* the way, and Total its value for the whole set.  That the function      *)
(* exists, is unique and adds up is shown from a subset of least size for  *)
(* which it does not.                                                      *)
Pick(s) == CHOOSE x \in s : TRUE

IsSum(S, it, f) ==
  it = [s \in SUBSET S |->
          IF s = {} THEN 0 ELSE f[Pick(s)] + it[s \ {Pick(s)}]]

Total(S, f) == (CHOOSE it : IsSum(S, it, f))[S]

LEMMA PickIn == ASSUME NEW s, s # {} PROVE Pick(s) \in s
BY DEF Pick

LEMMA LeastNat ==
  ASSUME NEW T \in SUBSET Nat, T # {}
  PROVE  \E n \in T : \A m \in T : n <= m
<1>1. PICK n \in T : \A m \in T : ~ (<<m, n>> \in OpToRel(<, Nat))
  <2>1. \E n \in T : \A m \in T : ~ (<<m, n>> \in OpToRel(<, Nat))
    BY NatLessThanWellFounded, WFMin
  <2>2. QED
    BY <2>1
<1>2. ASSUME NEW m \in T, m < n PROVE FALSE
  <2>1. <<m, n>> \in Nat \X Nat /\ <<m, n>>[1] < <<m, n>>[2]
    BY <1>2
  <2>2. <<m, n>> \in OpToRel(<, Nat)
    BY <2>1 DEF OpToRel
  <2>3. QED
    BY <1>1, <2>2
<1>3. \A m \in T : m \in Nat /\ n \in Nat /\ ~ (m < n)
  BY <1>2
<1>4. QED
  BY <1>3

LEMMA SubsetsFinite ==
  ASSUME NEW S, IsFiniteSet(S)
  PROVE  \A s \in SUBSET S : IsFiniteSet(s) /\ Cardinality(s) \in Nat
BY FS_Subset, FS_CardinalityType

(* What holds of a subset whenever it holds of what is left without any    *)
(* one of its elements, or without the picked one, holds of every subset.  *)
LEMMA SubsetInduction ==
  ASSUME NEW S, IsFiniteSet(S), NEW Good \in SUBSET (SUBSET S),
         \A s \in SUBSET S : (\A x \in s : s \ {x} \in Good) => s \in Good
  PROVE  Good = SUBSET S
<1> DEFINE Bad == {Cardinality(s) : s \in (SUBSET S) \ Good}
<1> SUFFICES ASSUME Bad # {} PROVE FALSE
  OBVIOUS
<1>1. PICK n \in Bad : \A m \in Bad : n <= m
  <2>1. Bad \in SUBSET Nat
    BY SubsetsFinite
  <2>2. QED
    BY <2>1, LeastNat
<1>2. PICK s \in (SUBSET S) \ Good : n = Cardinality(s)
  BY <1>1
<1>3. PICK x \in s : s \ {x} \notin Good
  BY <1>2
<1>4. Cardinality(s \ {x}) \in Bad
  BY <1>2, <1>3
<1>5. Cardinality(s \ {x}) = Cardinality(s) - 1
  BY SubsetsFinite, <1>2, <1>3, FS_RemoveElement
<1>6. Cardinality(s) \in Nat /\ Cardinality(s) <= Cardinality(s) - 1
  BY SubsetsFinite, <1>1, <1>2, <1>4, <1>5
<1>7. QED
  BY <1>6

LEMMA PickInduction ==
  ASSUME NEW S, IsFiniteSet(S), NEW Good \in SUBSET (SUBSET S),
         \A s \in SUBSET S : (s # {} => s \ {Pick(s)} \in Good) => s \in Good
  PROVE  Good = SUBSET S
<1>1. \A s \in SUBSET S : (\A x \in s : s \ {x} \in Good) => s \in Good
  BY PickIn
<1>2. QED
  BY <1>1, SubsetInduction

LEMMA SumExists ==
  ASSUME NEW S, IsFiniteSet(S), NEW f \in [S -> Int]
  PROVE  \E it : IsSum(S, it, f)
<1> DEFINE step(it) == [s \in SUBSET S |->
                          IF s = {} THEN 0 ELSE f[Pick(s)] + it[s \ {Pick(s)}]]
           Upto(it, n) ==
             \A s \in SUBSET S : Cardinality(s) <= n => it[s] = step(it)[s]
           Bad == {n \in Nat : ~ \E it \in [SUBSET S -> Int] : Upto(it, n)}
<1>1. Bad = {}
  <2> SUFFICES ASSUME Bad # {} PROVE FALSE
    OBVIOUS
  <2>1. PICK n \in Bad : \A m \in Bad : n <= m
    BY LeastNat
  <2>2. CASE n = 0
    <3> DEFINE it == [s \in SUBSET S |-> 0]
    <3>1. it \in [SUBSET S -> Int]
      OBVIOUS
    <3>2. \A s \in SUBSET S : Cardinality(s) <= 0 => s = {}
      BY SubsetsFinite, FS_EmptySet
    <3>3. Upto(it, 0)
      BY <3>2
    <3>4. QED
      BY <2>2, <3>1, <3>3
  <2>3. CASE n # 0
    <3>1. n \in Nat /\ n - 1 \in Nat /\ n - 1 \notin Bad
      <4>1. n \in Nat
        OBVIOUS
      <4> HIDE DEF Bad
      <4>2. n - 1 \in Nat /\ ~ (n <= n - 1)
        BY <2>3, <4>1
      <4>3. QED
        BY <2>1, <4>1, <4>2
    <3>2. PICK it \in [SUBSET S -> Int] : Upto(it, n - 1)
      BY <3>1
    <3>3. step(it) \in [SUBSET S -> Int]
      <4> SUFFICES ASSUME NEW s \in SUBSET S, s # {}
                   PROVE  f[Pick(s)] + it[s \ {Pick(s)}] \in Int
        OBVIOUS
      <4>1. Pick(s) \in S /\ s \ {Pick(s)} \in SUBSET S
        BY PickIn
      <4>2. QED
        BY <4>1
    <3>4. Upto(step(it), n)
      <4> SUFFICES ASSUME NEW s \in SUBSET S, Cardinality(s) <= n, s # {}
                   PROVE  step(it)[s] = f[Pick(s)] + step(it)[s \ {Pick(s)}]
        OBVIOUS
      <4> DEFINE r == s \ {Pick(s)}
      <4>1. r \in SUBSET S /\ Cardinality(r) <= n - 1
        <5>1. Pick(s) \in s /\ IsFiniteSet(s)
          BY SubsetsFinite, PickIn
        <5>2. Cardinality(r) = Cardinality(s) - 1
          BY <5>1, FS_RemoveElement, ZenonT(30)
        <5>3. Cardinality(s) \in Nat /\ n \in Nat /\ Cardinality(s) <= n
          BY SubsetsFinite, <3>1
        <5>4. Cardinality(r) <= n - 1
          BY <5>2, <5>3
        <5>5. QED
          BY <5>4
      <4>2. step(it)[r] = it[r]
        BY <3>2, <4>1
      <4>3. step(it)[s] = f[Pick(s)] + it[r]
        OBVIOUS
      <4>4. QED
        BY <4>2, <4>3
    <3>5. QED
      BY <2>1, <3>1, <3>3, <3>4
  <2>4. QED
    BY <2>2, <2>3
<1>2. Cardinality(S) \in Nat
  BY SubsetsFinite
<1>3. PICK it \in [SUBSET S -> Int] : Upto(it, Cardinality(S))
  BY <1>1, <1>2
<1>4. \A s \in SUBSET S : Cardinality(s) <= Cardinality(S)
  BY FS_Subset
<1>5. \A s \in SUBSET S : it[s] = step(it)[s]
  BY <1>3, <1>4
<1>6. QED
  BY <1>5 DEF IsSum

(* The sum of every subset is a number, and there is only one.    *)
LEMMA SumUnique ==
  ASSUME NEW S, IsFiniteSet(S), NEW f \in [S -> Int], NEW i, IsSum(S, i, f)
  PROVE  i \in [SUBSET S -> Int] /\ i[S] = Total(S, f)
<1> DEFINE j == CHOOSE it : IsSum(S, it, f)
<1>1. IsSum(S, j, f)
  OBVIOUS
<1> HIDE DEF j
<1> DEFINE Good == {s \in SUBSET S : i[s] \in Int /\ i[s] = j[s]}
<1>2. ASSUME NEW s \in SUBSET S, s # {} => s \ {Pick(s)} \in Good
      PROVE  s \in Good
  <2>1. /\ i[s] = IF s = {} THEN 0 ELSE f[Pick(s)] + i[s \ {Pick(s)}]
        /\ j[s] = IF s = {} THEN 0 ELSE f[Pick(s)] + j[s \ {Pick(s)}]
    BY <1>1 DEF IsSum
  <2>2. s # {} => f[Pick(s)] \in Int
    BY PickIn
  <2>3. QED
    BY <1>2, <2>1, <2>2
<1>3. Good = SUBSET S
  <2>1. Good \in SUBSET (SUBSET S)
    OBVIOUS
  <2> HIDE DEF Good
  <2>2. QED
    BY <1>2, <2>1, PickInduction
<1>4. \A s \in SUBSET S : i[s] \in Int /\ i[s] = j[s]
  BY <1>3
<1>5. i = [s \in SUBSET S |-> i[s]]
  BY DEF IsSum
<1>6. QED
  BY <1>4, <1>5 DEF Total, j

(* A sum can be taken apart at any of its elements.                        *)
LEMMA SumWithout ==
  ASSUME NEW S, IsFiniteSet(S), NEW f \in [S -> Int], NEW it, IsSum(S, it, f),
         NEW x \in S
  PROVE  it[S] = f[x] + it[S \ {x}]
<1> DEFINE Good == {s \in SUBSET S : \A y \in s : it[s] = f[y] + it[s \ {y}]}
<1>1. it \in [SUBSET S -> Int]
  BY SumUnique
<1>2. ASSUME NEW s \in SUBSET S, \A y \in s : s \ {y} \in Good, NEW y \in s
      PROVE  it[s] = f[y] + it[s \ {y}]
  <2> DEFINE z == Pick(s)
             rest == (s \ {y}) \ {z}
  <2>1. z \in s /\ it[s] = f[z] + it[s \ {z}]
    BY PickIn DEF IsSum
  <2>2. CASE z = y
    BY <2>1, <2>2
  <2>3. CASE z # y
    <3>1. s \ {z} \in Good /\ s \ {y} \in Good
      BY <1>2, <2>1
    <3>2. it[s \ {z}] = f[y] + it[(s \ {z}) \ {y}]
      BY <2>3, <3>1
    <3>3. it[s \ {y}] = f[z] + it[rest]
      BY <2>1, <2>3, <3>1
    <3>4. (s \ {z}) \ {y} = rest /\ rest \in SUBSET S
      OBVIOUS
    <3>5. f[y] \in Int /\ f[z] \in Int /\ it[rest] \in Int
      BY <1>1, <2>1, <3>4
    <3>6. it[s \ {z}] = f[y] + it[rest]
      BY <3>2, <3>4
    <3> HIDE DEF z, rest, Good
    <3>7. it[s] = f[z] + (f[y] + it[rest])
      BY <2>1, <3>6
    <3>8. f[z] + (f[y] + it[rest]) = f[y] + (f[z] + it[rest])
      BY <3>5
    <3>9. QED
      BY <3>3, <3>7, <3>8
  <2>4. QED
    BY <2>2, <2>3
<1>3. Good = SUBSET S
  <2>1. Good \in SUBSET (SUBSET S)
    OBVIOUS
  <2>2. \A s \in SUBSET S : (\A y \in s : s \ {y} \in Good) => s \in Good
    BY <1>2
  <2> HIDE DEF Good
  <2>3. QED
    BY <2>1, <2>2, SubsetInduction
<1>4. QED
  BY <1>3

LEMMA TotalWithout ==
  ASSUME NEW S, IsFiniteSet(S), NEW f \in [S -> Int], NEW x \in S
  PROVE  /\ Total(S \ {x}, [y \in S \ {x} |-> f[y]]) \in Int
         /\ Total(S, f) = f[x] + Total(S \ {x}, [y \in S \ {x} |-> f[y]])
<1> DEFINE T == S \ {x}
           g == [y \in T |-> f[y]]
<1>1. PICK it : IsSum(S, it, f)
  BY SumExists
<1>2. it \in [SUBSET S -> Int] /\ it[S] = Total(S, f)
  BY <1>1, SumUnique
<1> DEFINE inner == [s \in SUBSET T |-> it[s]]
<1>3. IsFiniteSet(T) /\ g \in [T -> Int]
  BY FS_Subset
<1>4. IsSum(T, inner, g)
  <2>1. ASSUME NEW s \in SUBSET T
        PROVE  inner[s] = IF s = {} THEN 0 ELSE g[Pick(s)] + inner[s \ {Pick(s)}]
    <3>1. it[s] = IF s = {} THEN 0 ELSE f[Pick(s)] + it[s \ {Pick(s)}]
      BY <1>1 DEF IsSum
    <3>2. s # {} => Pick(s) \in T /\ s \ {Pick(s)} \in SUBSET T
      BY PickIn
    <3>3. QED
      BY <3>1, <3>2
  <2>2. QED
    BY <2>1 DEF IsSum
<1>5. inner[T] \in Int /\ inner[T] = Total(T, g)
  <2> HIDE DEF inner, T, g
  <2>1. inner \in [SUBSET T -> Int] /\ inner[T] = Total(T, g)
    BY <1>3, <1>4, SumUnique
  <2>2. QED
    BY <2>1
<1>6. it[S] = f[x] + it[T]
  BY <1>1, SumWithout
<1>7. QED
  BY <1>2, <1>5, <1>6

(* Sums add up element by element.                                         *)
LEMMA TotalPlus ==
  ASSUME NEW S, IsFiniteSet(S), NEW f \in [S -> Int], NEW g \in [S -> Int],
         NEW h \in [S -> Int], \A a \in S : h[a] = f[a] + g[a]
  PROVE  /\ Total(S, f) \in Int /\ Total(S, g) \in Int
         /\ Total(S, h) = Total(S, f) + Total(S, g)
<1>1. PICK i : IsSum(S, i, f)
  BY SumExists
<1>2. PICK j : IsSum(S, j, g)
  BY SumExists
<1>3. PICK k : IsSum(S, k, h)
  BY SumExists
<1>4. /\ i \in [SUBSET S -> Int] /\ i[S] = Total(S, f)
      /\ j \in [SUBSET S -> Int] /\ j[S] = Total(S, g)
      /\ k \in [SUBSET S -> Int] /\ k[S] = Total(S, h)
  BY <1>1, <1>2, <1>3, SumUnique
<1> DEFINE Good == {s \in SUBSET S : k[s] = i[s] + j[s]}
<1>5. ASSUME NEW s \in SUBSET S, s # {} => s \ {Pick(s)} \in Good
      PROVE  s \in Good
  <2>1. CASE s = {}
    <3>1. i[s] = 0 /\ j[s] = 0 /\ k[s] = 0
      BY <1>1, <1>2, <1>3, <2>1 DEF IsSum
    <3>2. QED
      BY <3>1
  <2>2. CASE s # {}
    <3> DEFINE x == Pick(s)
               r == s \ {x}
    <3>1. x \in S /\ r \in SUBSET S /\ k[r] = i[r] + j[r]
      BY <1>5, <2>2, PickIn
    <3>2. i[s] = f[x] + i[r] /\ j[s] = g[x] + j[r] /\ k[s] = h[x] + k[r]
      BY <1>1, <1>2, <1>3, <2>2 DEF IsSum
    <3>3. /\ f[x] \in Int /\ g[x] \in Int /\ h[x] = f[x] + g[x]
          /\ i[r] \in Int /\ j[r] \in Int
      BY <1>4, <3>1
    <3> HIDE DEF x, r
    <3>4. k[s] = i[s] + j[s]
      BY <3>1, <3>2, <3>3
    <3>5. QED
      BY <3>4
  <2>3. QED
    BY <2>1, <2>2
<1>6. Good = SUBSET S
  <2>1. Good \in SUBSET (SUBSET S)
    OBVIOUS
  <2> HIDE DEF Good
  <2>2. QED
    BY <1>5, <2>1, PickInduction
<1>7. k[S] = i[S] + j[S]
  BY <1>6
<1>8. i[S] \in Int /\ j[S] \in Int
  BY <1>4
<1>9. QED
  BY <1>4, <1>7, <1>8

(* The sum of a function that is zero but at one element.                  *)
LEMMA TotalOne ==
  ASSUME NEW S, IsFiniteSet(S), NEW f \in [S -> Int], NEW b \in S,
         \A a \in S : a # b => f[a] = 0
  PROVE  Total(S, f) = f[b]
<1>1. PICK i : IsSum(S, i, f)
  BY SumExists
<1>2. i \in [SUBSET S -> Int] /\ i[S] = Total(S, f)
  BY <1>1, SumUnique
<1> DEFINE Good == {s \in SUBSET S : i[s] = IF b \in s THEN f[b] ELSE 0}
<1>3. ASSUME NEW s \in SUBSET S, s # {} => s \ {Pick(s)} \in Good
      PROVE  s \in Good
  <2>1. CASE s = {}
    BY <1>1, <2>1 DEF IsSum
  <2>2. CASE s # {}
    <3> DEFINE x == Pick(s)
               r == s \ {x}
    <3>1. x \in s /\ r \in SUBSET S
          /\ i[r] = IF b \in r THEN f[b] ELSE 0
      BY <1>3, <2>2, PickIn
    <3>2. i[s] = f[x] + i[r]
      BY <1>1, <2>2 DEF IsSum
    <3>3. /\ x # b => f[x] = 0
          /\ b \in r <=> b \in s /\ b # x
          /\ f[b] \in Int
      BY <3>1
    <3> HIDE DEF x, r
    <3>4. i[s] = IF b \in s THEN f[b] ELSE 0
      BY <3>1, <3>2, <3>3
    <3>5. QED
      BY <3>4
  <2>3. QED
    BY <2>1, <2>2
<1>4. Good = SUBSET S
  <2>1. Good \in SUBSET (SUBSET S)
    OBVIOUS
  <2> HIDE DEF Good
  <2>2. QED
    BY <1>3, <2>1, PickInduction
<1>5. i[S] = f[b]
  BY <1>4
<1>6. QED
  BY <1>2, <1>5

LEMMA TotalZero ==
  ASSUME NEW S, IsFiniteSet(S), NEW f \in [S -> Int], \A a \in S : f[a] = 0
  PROVE  Total(S, f) = 0
<1>1. \A a \in S : f[a] = f[a] + f[a]
  OBVIOUS
<1>2. Total(S, f) \in Int /\ Total(S, f) = Total(S, f) + Total(S, f)
  BY <1>1, TotalPlus
<1>3. \A n \in Int : n = n + n => n = 0
  OBVIOUS
<1>4. QED
  BY <1>2, <1>3

(* A sum without negative terms is not negative.                           *)
LEMMA TotalNat ==
  ASSUME NEW S, IsFiniteSet(S), NEW f \in [S -> Nat]
  PROVE  Total(S, f) \in Nat
<1>0. f \in [S -> Int]
  OBVIOUS
<1>1. PICK i : IsSum(S, i, f)
  BY <1>0, SumExists
<1>2. i \in [SUBSET S -> Int] /\ i[S] = Total(S, f)
  BY <1>0, <1>1, SumUnique
<1> DEFINE Good == {s \in SUBSET S : i[s] \in Nat}
<1>3. ASSUME NEW s \in SUBSET S, s # {} => s \ {Pick(s)} \in Good
      PROVE  s \in Good
  <2>1. i[s] = IF s = {} THEN 0 ELSE f[Pick(s)] + i[s \ {Pick(s)}]
    BY <1>1 DEF IsSum
  <2>2. s # {} => f[Pick(s)] \in Nat
    BY PickIn
  <2>3. QED
    BY <1>3, <2>1, <2>2
<1>4. Good = SUBSET S
  <2>1. Good \in SUBSET (SUBSET S)
    OBVIOUS
  <2> HIDE DEF Good
  <2>2. QED
    BY <1>3, <2>1, PickInduction
<1>5. QED
  BY <1>2, <1>4
-----------------------------------------------------------------------------
(* The tallies.                                                            *)

(* The weights an account's ballots v add to one side.                     *)
Weights(v, choice) ==
  [a \in Accounts |-> IF v[a].choice = choice THEN v[a].weight ELSE 0]

LEMMA WeightsTyped ==
  ASSUME NEW v \in [Accounts -> Vote], NEW choice
  PROVE  Weights(v, choice) \in [Accounts -> Int]
BY DEF Weights, Vote

(* WeightCast is that sum. *)
CastIsTotal ==
  \A p \in ProposalIds, choice \in VoteChoice :
    WeightCast(p, choice) = Total(Accounts, Weights(votes[p], choice))

LEMMA WeightIsTotal == TypeOK => CastIsTotal
<1> SUFFICES ASSUME TypeOK, NEW p \in ProposalIds, NEW choice \in VoteChoice
             PROVE  WeightCast(p, choice) = Total(Accounts, Weights(votes[p], choice))
  BY DEF CastIsTotal
<1> DEFINE f == Weights(votes[p], choice)
           step(it) == [s \in SUBSET Accounts |->
             IF s = {} THEN 0
             ELSE (IF votes[p][Pick(s)].choice = choice
                   THEN votes[p][Pick(s)].weight ELSE 0)
                    + it[s \ {Pick(s)}]]
           sum == CHOOSE it : it = step(it)
<1>1. WeightCast(p, choice) = sum[Accounts]
  BY DEF WeightCast, MapThenSumSet, MapThenFoldSet, Pick
<1>2. \A it : it = step(it) <=> IsSum(Accounts, it, f)
  <2>1. \A s \in SUBSET Accounts : s # {} =>
          f[Pick(s)] = IF votes[p][Pick(s)].choice = choice
                       THEN votes[p][Pick(s)].weight ELSE 0
    BY PickIn DEF Weights
  <2> HIDE DEF f
  <2>2. QED
    BY <2>1 DEF IsSum
<1>3. f \in [Accounts -> Int]
  BY WeightsTyped DEF TypeOK
<1> HIDE DEF f
<1>4. sum = step(sum)
  <2>1. \E it : it = step(it)
    BY <1>2, <1>3, SumExists, FiniteAssumption
  <2>2. QED
    BY <2>1
<1> HIDE DEF sum, step
<1>5. sum[Accounts] = Total(Accounts, f)
  BY <1>2, <1>3, <1>4, SumUnique, FiniteAssumption
<1>6. QED
  BY <1>1, <1>5 DEF f

(* Only a ballot moves a tally or what is recorded of the ballots.         *)
KeepsTallies ==
  /\ UNCHANGED <<votes, voteUsed>>
  /\ \A p \in ProposalIds :
       /\ proposals'[p].votes_for = proposals[p].votes_for
       /\ proposals'[p].votes_against = proposals[p].votes_against

LEMMA OnlyBallotsCount ==
  ASSUME TypeOK, LifeInv, [Next]_vars
  PROVE  \/ KeepsTallies
         \/ \E p \in ProposalIds, choice \in VoteChoice, v \in Accounts :
              CastVote(p, choice, v)
<1>1. CASE UNCHANGED <<proposals, votes, voteUsed>>
  BY <1>1 DEF KeepsTallies
<1>2. CASE CreateProposal
  <2>1. PICK new \in ProposalIds : new = proposalCount + 1
    BY <1>2, BoundsAssumption DEF CreateProposal, TypeOK
  <2>2. proposals[new] = NoProposal
    BY <2>1 DEF LifeInv, Fresh, TypeOK
  <2>3. /\ proposals[new].votes_for = 0
        /\ proposals[new].votes_against = 0
    BY <2>2 DEF NoProposal
  <2>4. QED
    BY <1>2, <2>1, <2>3 DEF CreateProposal, KeepsTallies, TypeOK
<1>3. ASSUME NEW q \in ProposalIds, FinalizeProposal(q) \/ ExecuteProposal(q)
      PROVE  KeepsTallies
  <2>1. \E status : proposals' = [proposals EXCEPT ![q].status = status]
    BY <1>3 DEF FinalizeProposal, ExecuteProposal
  <2>2. UNCHANGED <<votes, voteUsed>>
    BY <1>3 DEF FinalizeProposal, ExecuteProposal
  <2>3. QED
    BY <2>1, <2>2 DEF KeepsTallies, TypeOK, Proposal
<1>4. QED
  BY <1>1, <1>2, <1>3
     DEF Next, VotingCall, Initialize, Delegate, Undelegate, SetGlobalPause,
         TransferTokens, Tick, vars, contractVars

(* What a ballot adds to the tallies, and to which.                        *)
LEMMA BallotAdds ==
  ASSUME TypeOK, NEW p \in ProposalIds, NEW choice \in VoteChoice,
         NEW v \in Accounts, CastVote(p, choice, v)
  PROVE  /\ BallotWeight(v) \in Nat
         /\ proposals'[p].votes_for =
              proposals[p].votes_for
                + IF choice = "For" THEN BallotWeight(v) ELSE 0
         /\ proposals'[p].votes_against =
              proposals[p].votes_against
                + IF choice = "Against" THEN BallotWeight(v) ELSE 0
         /\ choice = "For" => proposals'[p].votes_for <= I128Max
         /\ choice = "Against" => proposals'[p].votes_against <= I128Max
<1> DEFINE w == BallotWeight(v)
<1> HIDE DEF w
<1>1. w \in 1 .. I128Max /\ AddToTally(p, choice, w)
  BY DEF CastVote, w
<1>2. w \in Nat
  BY <1>1, BoundsAssumption
<1>3. /\ proposals[p] \in Proposal /\ p \in DOMAIN proposals
      /\ proposals[p].votes_for \in Nat /\ proposals[p].votes_against \in Nat
  BY DEF TypeOK, Proposal
<1>4. CASE choice = "For"
  <2>1. /\ proposals[p].votes_for + w <= I128Max
        /\ proposals' = [proposals EXCEPT ![p] =
             [proposals[p] EXCEPT !.votes_for = proposals[p].votes_for + w]]
    BY <1>1, <1>4 DEF AddToTally
  <2>2. /\ proposals'[p].votes_for = proposals[p].votes_for + w
        /\ proposals'[p].votes_against = proposals[p].votes_against
    BY <1>3, <2>1 DEF Proposal
  <2>3. QED
    BY <1>2, <1>3, <1>4, <2>1, <2>2 DEF w
<1>5. CASE choice = "Against"
  <2>1. /\ proposals[p].votes_against + w <= I128Max
        /\ proposals' = [proposals EXCEPT ![p] =
             [proposals[p] EXCEPT !.votes_against =
                                    proposals[p].votes_against + w]]
    BY <1>1, <1>5 DEF AddToTally
  <2>2. /\ proposals'[p].votes_against = proposals[p].votes_against + w
        /\ proposals'[p].votes_for = proposals[p].votes_for
    BY <1>3, <2>1 DEF Proposal
  <2>3. QED
    BY <1>2, <1>3, <1>5, <2>1, <2>2 DEF w
<1>6. QED
  BY <1>4, <1>5 DEF VoteChoice

LEMMA AccountsPlus ==
  \A f, g, h \in [Accounts -> Int] :
    (\A a \in Accounts : h[a] = f[a] + g[a])
      => Total(Accounts, h) = Total(Accounts, f) + Total(Accounts, g)
BY TotalPlus, FiniteAssumption

(* A first ballot adds its weight to the sum of its side and to no other.  *)
LEMMA BallotAddsWeight ==
  ASSUME NEW u \in [Accounts -> Vote], NEW b \in Accounts, u[b] = NoVote,
         NEW k \in VoteChoice, NEW n \in Nat, NEW choice \in VoteChoice
  PROVE  Total(Accounts, Weights([u EXCEPT ![b] = [choice |-> k, weight |-> n]], choice))
           = Total(Accounts, Weights(u, choice)) + IF choice = k THEN n ELSE 0
<1> DEFINE w == [u EXCEPT ![b] = [choice |-> k, weight |-> n]]
           f == Weights(u, choice)
           g == [a \in Accounts |-> IF a = b /\ choice = k THEN n ELSE 0]
           h == Weights(w, choice)
<1>1. w \in [Accounts -> Vote]
  BY DEF Vote
<1>2. f \in [Accounts -> Int] /\ g \in [Accounts -> Int] /\ h \in [Accounts -> Int]
  <2> HIDE DEF w
  <2>1. QED
    BY <1>1, WeightsTyped
<1>3. \A a \in Accounts : h[a] = f[a] + g[a]
  <2> SUFFICES ASSUME NEW a \in Accounts PROVE h[a] = f[a] + g[a]
    OBVIOUS
  <2>1. CASE a = b
    <3>1. w[b] = [choice |-> k, weight |-> n]
      OBVIOUS
    <3>2. h[b] = IF k = choice THEN n ELSE 0
      BY <3>1 DEF Weights
    <3>3. f[b] = 0
      BY DEF Weights, NoVote, VoteChoice
    <3>4. QED
      BY <2>1, <3>2, <3>3
  <2>2. CASE a # b
    <3>1. h[a] = f[a] /\ f[a] \in Int
      BY <2>2, <1>2 DEF Weights
    <3>2. QED
      BY <2>2, <3>1
  <2>3. QED
    BY <2>1, <2>2
<1>4. Total(Accounts, g) = g[b]
  <2>1. \A a \in Accounts : a # b => g[a] = 0
    OBVIOUS
  <2> HIDE DEF g
  <2>2. QED
    BY <1>2, <2>1, TotalOne, FiniteAssumption
<1>5. g[b] = IF choice = k THEN n ELSE 0
  OBVIOUS
<1> HIDE DEF f, g, h
<1>6. Total(Accounts, h) = Total(Accounts, f) + Total(Accounts, g)
  BY <1>2, <1>3, AccountsPlus
<1>7. QED
  BY <1>4, <1>5, <1>6 DEF f, h

LEMMA TalliesStep ==
  /\ TypeOK /\ DelegationInv /\ LifeInv /\ TalliesSound
  /\ [Next]_vars /\ TypeOK'
  => TalliesSound'
<1>0. (TypeOK => CastIsTotal) /\ (TypeOK' => CastIsTotal')
  BY WeightIsTotal, PTL
<1> SUFFICES ASSUME TypeOK, DelegationInv, LifeInv, TalliesSound, [Next]_vars,
                    TypeOK'
             PROVE  TalliesSound'
  OBVIOUS
<1>1. CASE KeepsTallies
  <2>1. TallyMatchesBallots'
    <3> SUFFICES ASSUME NEW p \in ProposalIds
                 PROVE  /\ proposals'[p].votes_for = WeightCast(p, "For")'
                        /\ proposals'[p].votes_against =
                             WeightCast(p, "Against")'
      BY DEF TallyMatchesBallots
    <3>1. \A c \in VoteChoice : WeightCast(p, c)' = WeightCast(p, c)
      BY <1>0, <1>1 DEF CastIsTotal, KeepsTallies
    <3>2. QED
      BY <1>1, <3>1
         DEF KeepsTallies, TalliesSound, TallyMatchesBallots, VoteChoice
  <2>2. TalliesFit'
    BY <1>1 DEF KeepsTallies, TalliesSound, TalliesFit
  <2>3. QED
    BY <2>1, <2>2 DEF TalliesSound
<1>2. ASSUME NEW p \in ProposalIds, NEW choice \in VoteChoice,
             NEW v \in Accounts, CastVote(p, choice, v)
      PROVE  TalliesSound'
  <2> DEFINE w == BallotWeight(v)
  <2>1. /\ Unspent(p, v)
        /\ votes' = [votes EXCEPT ![p] =
             [votes[p] EXCEPT ![v] = [choice |-> choice, weight |-> w]]]
    BY <1>2 DEF CastVote
  <2>2. votes[p][v] = NoVote
    <3>1. Represented(v, v) > 0
      <4>1. Represented(v, v) = 1
        BY RepresentedOnce
      <4>2. QED
        BY <4>1
    <3>2. QED
      BY <2>1, <3>1 DEF Unspent
  <2>3. /\ w \in Nat
        /\ proposals'[p].votes_for =
             proposals[p].votes_for + IF choice = "For" THEN w ELSE 0
        /\ proposals'[p].votes_against =
             proposals[p].votes_against + IF choice = "Against" THEN w ELSE 0
        /\ choice = "For" => proposals'[p].votes_for <= I128Max
        /\ choice = "Against" => proposals'[p].votes_against <= I128Max
    BY <1>2, BallotAdds
  <2> HIDE DEF w
  <2>4. \A q \in ProposalIds : q # p =>
          proposals'[q] = proposals[q] /\ votes'[q] = votes[q]
    BY <1>2, <2>1, VoteKeeps DEF TypeOK
  <2>5. TallyMatchesBallots'
    <3>1. ASSUME NEW c \in VoteChoice
          PROVE  WeightCast(p, c)' =
                   WeightCast(p, c) + IF c = choice THEN w ELSE 0
      <4> DEFINE u == [votes[p] EXCEPT ![v] = [choice |-> choice, weight |-> w]]
      <4>1. votes[p] \in [Accounts -> Vote] /\ votes'[p] = u
        BY <2>1 DEF TypeOK
      <4>3. Total(Accounts, Weights(u, c)) =
              Total(Accounts, Weights(votes[p], c)) + IF c = choice THEN w ELSE 0
        BY <2>2, <2>3, <4>1, BallotAddsWeight
      <4> HIDE DEF u
      <4>4. WeightCast(p, c) = Total(Accounts, Weights(votes[p], c))
        BY <1>0 DEF CastIsTotal
      <4>5. WeightCast(p, c)' = Total(Accounts, Weights(votes'[p], c))
        BY <1>0 DEF CastIsTotal
      <4>6. QED
        BY <4>1, <4>3, <4>4, <4>5
    <3>2. ASSUME NEW q \in ProposalIds
          PROVE  /\ proposals'[q].votes_for = WeightCast(q, "For")'
                 /\ proposals'[q].votes_against = WeightCast(q, "Against")'
      <4>1. /\ proposals[q].votes_for = WeightCast(q, "For")
            /\ proposals[q].votes_against = WeightCast(q, "Against")
        BY DEF TalliesSound, TallyMatchesBallots
      <4>2. CASE q = p
        BY <2>3, <3>1, <4>1, <4>2 DEF VoteChoice
      <4>3. CASE q # p
        <5>1. \A c \in VoteChoice : WeightCast(q, c)' = WeightCast(q, c)
          BY <1>0, <2>4, <4>3 DEF CastIsTotal
        <5>2. QED
          BY <2>4, <4>1, <4>3, <5>1 DEF VoteChoice
      <4>4. QED
        BY <4>2, <4>3
    <3>3. QED
      BY <3>2 DEF TallyMatchesBallots
  <2>6. TalliesFit'
    <3> SUFFICES ASSUME NEW q \in ProposalIds
                 PROVE  /\ proposals'[q].votes_for <= I128Max
                        /\ proposals'[q].votes_against <= I128Max
      BY DEF TalliesFit
    <3>1. /\ proposals[q].votes_for <= I128Max
          /\ proposals[q].votes_against <= I128Max
          /\ proposals[q].votes_for \in Nat
          /\ proposals[q].votes_against \in Nat
      BY DEF TalliesSound, TalliesFit, TypeOK, Proposal
    <3>2. QED
      BY <2>3, <2>4, <3>1
  <2>7. QED
    BY <2>5, <2>6 DEF TalliesSound
<1>3. QED
  BY <1>1, <1>2, OnlyBallotsCount

(* For any number of accounts and ballots: each side of a tally is the sum *)
(* of the ballots recorded for it, and fits an i128.                       *)
THEOREM TalliesAddUp == Spec => []TalliesSound
<1>1. Init /\ TypeOK => TalliesSound
  <2> SUFFICES ASSUME Init, TypeOK PROVE TalliesSound
    OBVIOUS
  <2>1. ASSUME NEW p \in ProposalIds, NEW choice \in VoteChoice
        PROVE  WeightCast(p, choice) = 0
    <3>1. votes[p] = [a \in Accounts |-> NoVote] /\ votes[p] \in [Accounts -> Vote]
      BY DEF Init, TypeOK
    <3>2. \A a \in Accounts : Weights(votes[p], choice)[a] = 0
      BY <3>1 DEF Weights, NoVote
    <3>3. Total(Accounts, Weights(votes[p], choice)) = 0
      BY <3>1, <3>2, WeightsTyped, TotalZero, FiniteAssumption
    <3>4. QED
      BY <3>3, WeightIsTotal DEF CastIsTotal
  <2>2. \A p \in ProposalIds :
          proposals[p].votes_for = 0 /\ proposals[p].votes_against = 0
    BY DEF Init, NoProposal
  <2>3. QED
    BY <2>1, <2>2, BoundsAssumption
       DEF TalliesSound, TallyMatchesBallots, TalliesFit, VoteChoice
<1>2. Spec => []DelegationInv
  BY DelegationConsistent DEF DelegationInv, DelegationSound
<1>3. QED
  BY <1>1, <1>2, TalliesStep, TypeCorrect, LifeInvariant, PTL DEF Spec

-----------------------------------------------------------------------------
(* Participation.  While no token moves, the tallies of a proposal add up  *)
(* to the holdings of the accounts it consumed: each once, each as it is.  *)
Consumed(p) == [a \in Accounts |-> IF <<p, a>> \in voteUsed THEN balance[a] ELSE 0]

ParticipationInv ==
  \A p \in ProposalIds :
    proposals[p].votes_for + proposals[p].votes_against = Total(Accounts, Consumed(p))

(* The power of a voter and of those it represents.                        *)
Power(v) == [a \in Accounts |-> IF Represented(v, a) > 0 THEN balance[a] ELSE 0]

LEMMA WeightIsPower ==
  ASSUME TypeOK, DelegationInv, NEW v \in Accounts
  PROVE  BallotWeight(v) = Total(Accounts, Power(v))
<1> DEFINE f == Power(v)
           step(it) == [s \in SUBSET Accounts |->
             IF s = {} THEN 0
             ELSE Represented(v, Pick(s)) * balance[Pick(s)]
                    + it[s \ {Pick(s)}]]
           sum == CHOOSE it : it = step(it)
<1>1. BallotWeight(v) = sum[Accounts]
  BY DEF BallotWeight, MapThenSumSet, MapThenFoldSet, Pick
<1>2. \A a \in Accounts : f[a] = Represented(v, a) * balance[a]
  <2> SUFFICES ASSUME NEW a \in Accounts
               PROVE  f[a] = Represented(v, a) * balance[a]
    OBVIOUS
  <2>1. Represented(v, a) \in {0, 1}
    BY RepresentedOnce
  <2>2. balance[a] \in Nat
    BY DEF TypeOK
  <2>3. \A n \in Nat : 0 * n = 0 /\ 1 * n = n
    OBVIOUS
  <2>4. CASE Represented(v, a) = 0
    BY <2>2, <2>3, <2>4 DEF Power
  <2>5. CASE Represented(v, a) = 1
    BY <2>2, <2>3, <2>5 DEF Power
  <2>6. QED
    BY <2>1, <2>4, <2>5
<1>3. f \in [Accounts -> Int]
  BY DEF Power, TypeOK
<1> HIDE DEF f
<1>4. \A it : it = step(it) <=> IsSum(Accounts, it, f)
  <2>1. \A s \in SUBSET Accounts : s # {} =>
          f[Pick(s)] = Represented(v, Pick(s)) * balance[Pick(s)]
    BY <1>2, PickIn
  <2>2. QED
    BY <2>1 DEF IsSum
<1>5. sum = step(sum)
  <2>1. \E it : it = step(it)
    BY <1>3, <1>4, SumExists, FiniteAssumption
  <2>2. QED
    BY <2>1
<1> HIDE DEF sum, step
<1>6. sum[Accounts] = Total(Accounts, f)
  BY <1>3, <1>4, <1>5, SumUnique, FiniteAssumption
<1>7. QED
  BY <1>1, <1>6 DEF f

LEMMA HoldingsAreTotal ==
  ASSUME TypeOK
  PROVE  MapThenSumSet(LAMBDA a : balance[a], Accounts) = Total(Accounts, balance)
<1> DEFINE step(it) == [s \in SUBSET Accounts |->
             IF s = {} THEN 0 ELSE balance[Pick(s)] + it[s \ {Pick(s)}]]
           sum == CHOOSE it : it = step(it)
<1>1. MapThenSumSet(LAMBDA a : balance[a], Accounts) = sum[Accounts]
  BY DEF MapThenSumSet, MapThenFoldSet, Pick
<1>2. balance \in [Accounts -> Int]
  BY DEF TypeOK
<1>3. \A it : it = step(it) <=> IsSum(Accounts, it, balance)
  BY DEF IsSum
<1>4. sum = step(sum)
  <2>1. \E it : it = step(it)
    BY <1>2, <1>3, SumExists, FiniteAssumption
  <2>2. QED
    BY <2>1
<1> HIDE DEF sum, step
<1>5. sum[Accounts] = Total(Accounts, balance)
  BY <1>2, <1>3, <1>4, SumUnique, FiniteAssumption
<1>6. QED
  BY <1>1, <1>5

LEMMA ParticipationStep ==
  /\ TypeOK /\ DelegationInv /\ LifeInv /\ ParticipationInv
  /\ [Next]_vars /\ UNCHANGED balance
  => ParticipationInv'
<1> SUFFICES ASSUME TypeOK, DelegationInv, LifeInv, ParticipationInv,
                    [Next]_vars, balance' = balance,
                    NEW q \in ProposalIds
             PROVE  proposals'[q].votes_for + proposals'[q].votes_against
                      = Total(Accounts, Consumed(q)')
  BY DEF ParticipationInv
<1>0. proposals[q].votes_for + proposals[q].votes_against = Total(Accounts, Consumed(q))
  BY DEF ParticipationInv
<1>1. CASE KeepsTallies
  <2>1. Consumed(q)' = Consumed(q)
    BY <1>1 DEF KeepsTallies, Consumed
  <2>2. QED
    BY <1>0, <1>1, <2>1 DEF KeepsTallies
<1>2. ASSUME NEW p \in ProposalIds, NEW choice \in VoteChoice,
             NEW v \in Accounts, CastVote(p, choice, v)
      PROVE  proposals'[q].votes_for + proposals'[q].votes_against
               = Total(Accounts, Consumed(q)')
  <2>1. /\ Unspent(p, v)
        /\ voteUsed' = voteUsed \cup
             {<<p, a>> : a \in {b \in Accounts : Represented(v, b) > 0}}
    BY <1>2 DEF CastVote
  <2>2. CASE q # p
    <3>1. Consumed(q)' = Consumed(q)
      BY <2>1, <2>2 DEF Consumed
    <3>2. proposals'[q] = proposals[q]
      BY <1>2, <2>2, VoteKeeps
    <3>3. QED
      BY <1>0, <3>1, <3>2
  <2>3. CASE q = p
    <3>1. /\ Consumed(p) \in [Accounts -> Int]
          /\ Power(v) \in [Accounts -> Int]
          /\ Consumed(p)' \in [Accounts -> Int]
      BY DEF Consumed, Power, TypeOK
    <3>2. \A a \in Accounts : Consumed(p)'[a] = Consumed(p)[a] + Power(v)[a]
      <4> SUFFICES ASSUME NEW a \in Accounts
                   PROVE  Consumed(p)'[a] = Consumed(p)[a] + Power(v)[a]
        OBVIOUS
      <4>1. balance[a] \in Nat
        BY DEF TypeOK
      <4>2. CASE Represented(v, a) > 0
        <5>1. <<p, a>> \notin voteUsed /\ <<p, a>> \in voteUsed'
          BY <2>1, <4>2 DEF Unspent
        <5>2. QED
          BY <4>1, <4>2, <5>1 DEF Consumed, Power
      <4>3. CASE ~ (Represented(v, a) > 0)
        <5>1. <<p, a>> \in voteUsed' <=> <<p, a>> \in voteUsed
          BY <2>1, <4>3
        <5>2. QED
          BY <4>1, <4>3, <5>1 DEF Consumed, Power
      <4>4. QED
        BY <4>2, <4>3
    <3>3. /\ Total(Accounts, Consumed(p)') = Total(Accounts, Consumed(p)) + Total(Accounts, Power(v))
          /\ Total(Accounts, Consumed(p)) \in Int
      BY <3>1, <3>2, TotalPlus, FiniteAssumption
    <3>4. /\ BallotWeight(v) \in Nat
          /\ proposals'[p].votes_for =
               proposals[p].votes_for
                 + IF choice = "For" THEN BallotWeight(v) ELSE 0
          /\ proposals'[p].votes_against =
               proposals[p].votes_against
                 + IF choice = "Against" THEN BallotWeight(v) ELSE 0
      BY <1>2, BallotAdds
    <3>5. /\ proposals[p].votes_for \in Nat
          /\ proposals[p].votes_against \in Nat
      BY DEF TypeOK, Proposal
    <3>6. proposals'[p].votes_for + proposals'[p].votes_against =
            proposals[p].votes_for + proposals[p].votes_against
              + BallotWeight(v)
      BY <3>4, <3>5 DEF VoteChoice
    <3>7. BallotWeight(v) = Total(Accounts, Power(v))
      BY WeightIsPower
    <3>8. QED
      BY <1>0, <2>3, <3>3, <3>6, <3>7
  <2>4. QED
    BY <2>2, <2>3
<1>3. QED
  BY <1>1, <1>2, OnlyBallotsCount

(* As long as no token moves, no sequence of ballots and delegations makes *)
(* the participation of a proposal exceed what the accounts hold: a quorum *)
(* is never reached with power that is not there.                          *)
THEOREM ParticipationBounded ==
  Spec /\ [][UNCHANGED balance]_vars => []ParticipationWithinHoldings
<1>1. Init /\ TypeOK => ParticipationInv
  <2> SUFFICES ASSUME Init, TypeOK, NEW p \in ProposalIds
               PROVE  proposals[p].votes_for + proposals[p].votes_against
                        = Total(Accounts, Consumed(p))
    BY DEF ParticipationInv
  <2>1. /\ Consumed(p) \in [Accounts -> Int]
        /\ \A a \in Accounts : Consumed(p)[a] = 0
    BY DEF Init, Consumed
  <2>2. Total(Accounts, Consumed(p)) = 0
    BY <2>1, TotalZero, FiniteAssumption
  <2>3. proposals[p].votes_for = 0 /\ proposals[p].votes_against = 0
    BY DEF Init, NoProposal
  <2>4. QED
    BY <2>2, <2>3
<1>2. ParticipationInv /\ UNCHANGED vars => ParticipationInv'
  BY DEF ParticipationInv, Consumed, vars, contractVars
<1>3. TypeOK /\ ParticipationInv => ParticipationWithinHoldings
  <2> SUFFICES ASSUME TypeOK, ParticipationInv, NEW p \in ProposalIds
               PROVE  proposals[p].votes_for + proposals[p].votes_against
                        <= MapThenSumSet(LAMBDA a : balance[a], Accounts)
    BY DEF ParticipationWithinHoldings
  <2> DEFINE rest == [a \in Accounts |->
                        IF <<p, a>> \in voteUsed THEN 0 ELSE balance[a]]
  <2>1. /\ Consumed(p) \in [Accounts -> Int]
        /\ balance \in [Accounts -> Int]
        /\ rest \in [Accounts -> Nat]
        /\ rest \in [Accounts -> Int]
        /\ \A a \in Accounts : balance[a] = Consumed(p)[a] + rest[a]
    BY DEF TypeOK, Consumed
  <2> HIDE DEF rest
  <2>2. /\ Total(Accounts, balance) = Total(Accounts, Consumed(p)) + Total(Accounts, rest)
        /\ Total(Accounts, Consumed(p)) \in Int
    BY <2>1, TotalPlus, FiniteAssumption
  <2>3. Total(Accounts, rest) \in Nat
    BY <2>1, TotalNat, FiniteAssumption
  <2>4. Total(Accounts, Consumed(p)) <= Total(Accounts, balance)
    BY <2>2, <2>3
  <2>5. MapThenSumSet(LAMBDA a : balance[a], Accounts) = Total(Accounts, balance)
    BY HoldingsAreTotal
  <2>6. QED
    BY <2>4, <2>5 DEF ParticipationInv
<1>4. Spec => []DelegationInv
  BY DelegationConsistent DEF DelegationInv, DelegationSound
<1>5. QED
  BY <1>1, <1>2, <1>3, <1>4, ParticipationStep, TypeCorrect, LifeInvariant, PTL
     DEF Spec

-----------------------------------------------------------------------------
(* The contract implements the abstract ballot.                            *)

LEMMA QuorumNatural ==
  ASSUME TypeOK, Initialized
  PROVE  RequiredParticipation \in Nat
<1>1. config.total_supply \in Nat /\ config.quorum_bps \in Nat
  BY DEF TypeOK, Initialized, Config
<1>2. \A m, n \in Nat : m * n \in Nat
  OBVIOUS
<1>3. QuorumProduct \in Nat
  BY <1>1, <1>2 DEF QuorumProduct
<1>4. QED
  BY <1>3 DEF RequiredParticipation, BasisPoints

LEMMA BallotInit == Init => Ballot!Init
<1> SUFFICES ASSUME Init PROVE Ballot!Init
  OBVIOUS
<1>1. \A p \in ProposalIds :
        /\ proposals[p] = NoProposal
        /\ {a \in Accounts : counted[p][a] > 0} = {}
  BY DEF Init
<1>2. ~Initialized
  BY DEF Init, Initialized
<1>3. QED
  BY <1>1, <1>2 DEF Ballot!Init, NoProposal

LEMMA BallotStep ==
  /\ TypeOK /\ DelegationInv /\ SpendInv /\ LifeInv
  /\ [Next]_vars
  => [Ballot!Next]_(Ballot!ballotVars)
<1> SUFFICES ASSUME TypeOK, DelegationInv, SpendInv, LifeInv, [Next]_vars
             PROVE  [Ballot!Next]_(Ballot!ballotVars)
  OBVIOUS
<1> DEFINE statusOf  == [p \in ProposalIds |-> proposals[p].status]
           forOf     == [p \in ProposalIds |-> proposals[p].votes_for]
           againstOf == [p \in ProposalIds |-> proposals[p].votes_against]
           spentOf   == [p \in ProposalIds |->
                           {a \in Accounts : counted[p][a] > 0}]
           quorumOf  == IF Initialized THEN RequiredParticipation ELSE -1
<1>1. CASE UNCHANGED <<config, proposals, counted>>
  <2>1. UNCHANGED <<statusOf, forOf, againstOf, spentOf, quorumOf>>
    BY <1>1 DEF Initialized, RequiredParticipation, QuorumProduct
  <2>2. QED
    BY <2>1 DEF Ballot!ballotVars
<1>2. ASSUME NEW c \in Configs, Initialize(c)
      PROVE  Ballot!Configure
  <2>1. Initialized' /\ TypeOK'
    <3>1. c \in Config /\ c # NoConfig
      BY InputsAssumption, AbsentAssumption
    <3>2. QED
      BY <1>2, <3>1 DEF Initialize, Initialized, TypeOK
  <2>2. RequiredParticipation' \in Nat
    <3>1. /\ c.total_supply \in Nat /\ c.quorum_bps \in Nat
      BY InputsAssumption DEF Config
    <3>2. \A m, n \in Nat : m * n \in Nat
      OBVIOUS
    <3>3. c.total_supply * c.quorum_bps \in Nat
      BY <3>1, <3>2
    <3>4. RequiredParticipation' =
            (c.total_supply * c.quorum_bps) \div BasisPoints
      BY <1>2 DEF Initialize, RequiredParticipation, QuorumProduct
    <3>5. QED
      BY <3>3, <3>4 DEF BasisPoints
  <2>3. ~Initialized /\ UNCHANGED <<proposals, counted>>
    BY <1>2 DEF Initialize
  <2>4. quorumOf = -1 /\ quorumOf' \in Nat
    BY <2>1, <2>2, <2>3
  <2>5. UNCHANGED <<statusOf, forOf, againstOf, spentOf>>
    BY <2>3
  <2>6. QED
    BY <2>4, <2>5 DEF Ballot!Configure
<1>3. ASSUME CreateProposal
      PROVE  \E p \in ProposalIds : Ballot!Open(p)
  <2>0. PICK new \in ProposalIds : new = proposalCount + 1
    BY <1>3, BoundsAssumption DEF CreateProposal, TypeOK
  <2>1. /\ new \in ProposalIds
        /\ Initialized
        /\ config' = config
        /\ counted' = counted
        /\ proposals' = [proposals EXCEPT ![new] =
             [votes_for |-> 0, votes_against |-> 0, status |-> "Active",
              voting_ends_at |-> now + config.voting_period]]
    BY <1>3, <2>0 DEF CreateProposal
  <2>2. proposals[new] = NoProposal
    BY <2>0 DEF LifeInv, Fresh, TypeOK
  <2>3. statusOf[new] = "None"
    BY <2>1, <2>2 DEF NoProposal
  <2>4. statusOf' = [statusOf EXCEPT ![new] = "Active"]
    BY <2>1 DEF TypeOK
  <2>5. forOf' = forOf /\ againstOf' = againstOf
    BY <2>1, <2>2 DEF TypeOK, NoProposal
  <2>6. UNCHANGED <<spentOf, quorumOf>>
    BY <2>1 DEF Initialized, RequiredParticipation, QuorumProduct
  <2>7. quorumOf # -1
    <3>1. RequiredParticipation \in Nat
      BY <2>1, QuorumNatural
    <3>2. QED
      BY <2>1, <3>1
  <2> HIDE DEF statusOf, forOf, againstOf, spentOf, quorumOf
  <2>8. Ballot!Open(new)
    BY <2>3, <2>4, <2>5, <2>6, <2>7
       DEF Ballot!Open, statusOf, forOf, againstOf, spentOf, quorumOf
  <2>9. QED
    BY <2>8
<1>4. ASSUME NEW p \in ProposalIds, NEW choice \in VoteChoice,
             NEW v \in Accounts, CastVote(p, choice, v)
      PROVE  \E group \in SUBSET Accounts : Ballot!Count(p, group)
  <2>0. PICK group \in SUBSET Accounts :
          group = {a \in Accounts : Represented(v, a) > 0}
    OBVIOUS
  <2>1. /\ Unspent(p, v)
        /\ counted' = [counted EXCEPT ![p] =
                         [a \in Accounts |-> counted[p][a] + Represented(v, a)]]
        /\ UNCHANGED config
        /\ proposals[p].status = "Active"
    BY <1>4 DEF CastVote, AcceptsBallots
  <2>2. group # {}
    <3>1. v \in group
      BY <2>0, RepresentedOnce
    <3>2. QED
      BY <3>1
  <2>3. group \cap spentOf[p] = {}
    <3> SUFFICES ASSUME NEW a \in Accounts, Represented(v, a) > 0
                 PROVE  ~(counted[p][a] > 0)
      BY <2>0
    <3>1. <<p, a>> \notin voteUsed
      BY <2>1 DEF Unspent
    <3>2. QED
      BY <3>1 DEF SpendInv, CountedOnce
  <2>4. spentOf' = [spentOf EXCEPT ![p] = spentOf[p] \cup group]
    <3>1. ASSUME NEW q \in ProposalIds, q # p
          PROVE  spentOf'[q] = spentOf[q]
      <4>1. counted'[q] = counted[q]
        BY <2>1, <3>1 DEF TypeOK
      <4>2. QED
        BY <4>1
    <3>2. spentOf'[p] = spentOf[p] \cup group
      <4>1. \A a \in Accounts :
              counted'[p][a] = counted[p][a] + Represented(v, a)
        BY <2>1 DEF TypeOK
      <4>2. \A a \in Accounts :
              counted[p][a] \in Nat /\ Represented(v, a) \in {0, 1}
        <5>1. \A a \in Accounts : counted[p][a] \in Nat
          BY DEF TypeOK
        <5>2. \A a \in Accounts : Represented(v, a) \in {0, 1}
          BY RepresentedOnce
        <5>3. QED
          BY <5>1, <5>2
      <4>3. \A a \in Accounts :
              counted'[p][a] > 0 <=> counted[p][a] > 0 \/ Represented(v, a) > 0
        BY <4>1, <4>2
      <4>4. QED
        BY <2>0, <4>3
    <3>3. QED
      BY <3>1, <3>2
  <2>5. UNCHANGED <<statusOf, quorumOf>>
    <3>1. UNCHANGED statusOf
      BY <1>4, VoteKeeps
    <3>2. UNCHANGED quorumOf
      BY <2>1 DEF Initialized, RequiredParticipation, QuorumProduct
    <3>3. QED
      BY <3>1, <3>2
  <2>6. \/ /\ forOf'[p] > forOf[p]
           /\ forOf' = [forOf EXCEPT ![p] = forOf'[p]]
           /\ UNCHANGED againstOf
        \/ /\ againstOf'[p] > againstOf[p]
           /\ againstOf' = [againstOf EXCEPT ![p] = againstOf'[p]]
           /\ UNCHANGED forOf
    <3>1. PICK w \in Nat \ {0} :
            \/ proposals' = [proposals EXCEPT ![p] =
                 [proposals[p] EXCEPT !.votes_for = proposals[p].votes_for + w]]
            \/ proposals' = [proposals EXCEPT ![p] =
                 [proposals[p] EXCEPT !.votes_against =
                                        proposals[p].votes_against + w]]
      BY <1>4, VoteChanges
    <3>2. \A q \in ProposalIds : q # p => proposals'[q] = proposals[q]
      BY <1>4, VoteKeeps
    <3>3. /\ proposals[p] \in Proposal /\ p \in DOMAIN proposals
          /\ proposals[p].votes_for \in Nat
          /\ proposals[p].votes_against \in Nat
      BY DEF TypeOK, Proposal
    <3>4. CASE proposals' = [proposals EXCEPT ![p] =
                 [proposals[p] EXCEPT !.votes_for = proposals[p].votes_for + w]]
      <4>1. /\ proposals'[p].votes_for = proposals[p].votes_for + w
            /\ proposals'[p].votes_against = proposals[p].votes_against
        BY <3>3, <3>4 DEF Proposal
      <4>2. forOf'[p] > forOf[p] /\ UNCHANGED againstOf
        BY <3>2, <3>3, <4>1
      <4>3. forOf' = [forOf EXCEPT ![p] = forOf'[p]]
        BY <3>2
      <4>4. QED
        BY <4>2, <4>3
    <3>5. CASE proposals' = [proposals EXCEPT ![p] =
                 [proposals[p] EXCEPT !.votes_against =
                                        proposals[p].votes_against + w]]
      <4>1. /\ proposals'[p].votes_against = proposals[p].votes_against + w
            /\ proposals'[p].votes_for = proposals[p].votes_for
        BY <3>3, <3>5 DEF Proposal
      <4>2. againstOf'[p] > againstOf[p] /\ UNCHANGED forOf
        BY <3>2, <3>3, <4>1
      <4>3. againstOf' = [againstOf EXCEPT ![p] = againstOf'[p]]
        BY <3>2
      <4>4. QED
        BY <4>2, <4>3
    <3>6. QED
      BY <3>1, <3>4, <3>5
  <2>7. statusOf[p] = "Active"
    BY <2>1
  <2> HIDE DEF statusOf, forOf, againstOf, spentOf, quorumOf
  <2>8. Ballot!Count(p, group)
    BY <2>2, <2>3, <2>4, <2>5, <2>6, <2>7
       DEF Ballot!Count, Ballot!Gains, statusOf, forOf, againstOf, spentOf,
           quorumOf
  <2>9. QED
    BY <2>8
<1>5. ASSUME NEW p \in ProposalIds, FinalizeProposal(p)
      PROVE  Ballot!Close(p)
  <2>1. /\ proposals[p].status = "Active"
        /\ UNCHANGED <<config, counted>>
        /\ proposals' = [proposals EXCEPT ![p].status =
             IF proposals[p].votes_for > proposals[p].votes_against
             THEN "Passed" ELSE "Rejected"]
    BY <1>5 DEF FinalizeProposal
  <2>2. statusOf[p] = "Active"
    BY <2>1
  <2>3. statusOf' = [statusOf EXCEPT ![p] =
          IF forOf[p] > againstOf[p] THEN "Passed" ELSE "Rejected"]
    BY <2>1 DEF TypeOK, Proposal
  <2>4. UNCHANGED <<forOf, againstOf>>
    BY <2>1 DEF TypeOK, Proposal
  <2>5. UNCHANGED <<spentOf, quorumOf>>
    BY <2>1 DEF Initialized, RequiredParticipation, QuorumProduct
  <2> HIDE DEF statusOf, forOf, againstOf, spentOf, quorumOf
  <2>6. QED
    BY <2>2, <2>3, <2>4, <2>5
       DEF Ballot!Close, statusOf, forOf, againstOf, spentOf, quorumOf
<1>6. ASSUME NEW p \in ProposalIds, ExecuteProposal(p)
      PROVE  Ballot!Enact(p)
  <2>1. /\ proposals[p].status = "Passed"
        /\ UNCHANGED <<config, counted>>
        /\ Initialized
        /\ proposals[p].votes_for + proposals[p].votes_against
             >= RequiredParticipation
        /\ proposals' = [proposals EXCEPT ![p].status = "Executed"]
    BY <1>6 DEF ExecuteProposal
  <2>2. statusOf[p] = "Passed" /\ forOf[p] + againstOf[p] >= quorumOf
    BY <2>1
  <2>3. statusOf' = [statusOf EXCEPT ![p] = "Executed"]
    BY <2>1 DEF TypeOK, Proposal
  <2>4. UNCHANGED <<forOf, againstOf>>
    BY <2>1 DEF TypeOK, Proposal
  <2>5. UNCHANGED <<spentOf, quorumOf>>
    BY <2>1 DEF Initialized, RequiredParticipation, QuorumProduct
  <2> HIDE DEF statusOf, forOf, againstOf, spentOf, quorumOf
  <2>6. QED
    BY <2>2, <2>3, <2>4, <2>5
       DEF Ballot!Enact, statusOf, forOf, againstOf, spentOf, quorumOf
<1>7. CASE UNCHANGED vars \/ (\E d, e \in Accounts : Delegate(d, e))
           \/ (\E d \in Accounts : Undelegate(d))
           \/ (\E flag \in BOOLEAN : SetGlobalPause(flag))
           \/ (\E from, to \in Accounts, amount \in TransferAmounts :
                 TransferTokens(from, to, amount))
           \/ Tick
  BY <1>1, <1>7 DEF Delegate, Undelegate, SetGlobalPause, TransferTokens,
                    Tick, vars, contractVars
<1>8. QED
  BY <1>2, <1>3, <1>4, <1>5, <1>6, <1>7 DEF Next, VotingCall, Ballot!Next

(* Voting on chain, with its delegations, windows, pauses and token        *)
(* transfers, does nothing the abstract ballot does not allow.             *)
THEOREM VotingImplementsBallot == Spec => ImplementsBallot
<1>1. Spec => [](TypeOK /\ DelegationInv /\ SpendInv /\ LifeInv)
  BY TypeCorrect, DelegationConsistent, PowerCountedOnce, LifeInvariant, PTL
     DEF DelegationInv, SpendInv, DelegationSound, PowerSpentOnce
<1>2. QED
  BY <1>1, BallotInit, BallotStep, PTL DEF Spec, ImplementsBallot, Ballot!Spec

-----------------------------------------------------------------------------
(* KYC records.  An initiation that restarts a record holds its row, so    *)
(* nobody else does and the record is still the one it found.              *)
Restarts(i, a) ==
  x3[i] # NoOne /\ x3[i].stage = "restart" /\ x3[i].account = a

KycInv ==
  /\ x2 \in [Payers -> Compliance!KycRecord \cup {NoOne}]
  /\ x3 \in [Initiations ->
               [account : Payers, stage : {"insert", "restart"}] \cup {NoOne}]
  /\ Compliance!RecordsConsistent
  /\ \A i \in Initiations, a \in Payers : Restarts(i, a) =>
       /\ x2[a] # NoOne
       /\ ~Compliance!Has(a, {"verified", "pending", "submitted"})
  /\ \A i, j \in Initiations, a \in Payers :
       Restarts(i, a) /\ Restarts(j, a) => i = j

LEMMA KycStep ==
  ASSUME KycInv, Compliance!Next
  PROVE  KycInv' /\ Compliance!VerdictsStand
<1> USE ComplianceAssumption
<1>1. CASE UNCHANGED <<x2, x3>>
  BY <1>1 DEF KycInv, Compliance!RecordsConsistent, Compliance!VerdictsStand,
              Restarts, Compliance!Has
<1>2. ASSUME NEW i \in Initiations, Compliance!BeginInitiation(i)
      PROVE  KycInv' /\ Compliance!VerdictsStand
  <2>1. PICK a \in Payers :
          /\ ~Compliance!RowLocked(a)
          /\ ~Compliance!Has(a, {"verified", "pending", "submitted"})
          /\ x2' = x2
          /\ x3' = [x3 EXCEPT ![i] =
               [account |-> a,
                stage |-> IF x2[a] = NoOne THEN "insert" ELSE "restart"]]
    BY <1>2 DEF Compliance!BeginInitiation
  <2>2. x3' \in [Initiations ->
               [account : Payers, stage : {"insert", "restart"}] \cup {NoOne}]
    BY <2>1 DEF KycInv
  <2>3. ASSUME NEW j \in Initiations, NEW b \in Payers, Restarts(j, b)'
        PROVE  /\ x2[b] # NoOne
               /\ ~Compliance!Has(b, {"verified", "pending", "submitted"})
    BY <2>1, <2>3 DEF KycInv, Restarts
  <2>a. ASSUME NEW j \in Initiations, NEW k \in Initiations, NEW b \in Payers,
               Restarts(j, b)', Restarts(k, b)'
        PROVE  j = k
    <3>1. ~Restarts(j, a) /\ ~Restarts(k, a)
      BY <2>1 DEF Compliance!RowLocked, Restarts
    <3>2. QED
      BY <2>1, <2>a, <3>1 DEF KycInv, Restarts
  <2>4. KycInv'
    BY <2>1, <2>2, <2>3, <2>a
       DEF KycInv, Compliance!RecordsConsistent, Compliance!Has
  <2>5. QED
    BY <2>1, <2>4 DEF Compliance!VerdictsStand
<1>3. ASSUME NEW i \in Initiations, Compliance!EndInitiation(i)
      PROVE  KycInv' /\ Compliance!VerdictsStand
  <2> DEFINE a == x3[i].account
             new == Compliance!Record("pending", FALSE, FALSE)
  <2>1. /\ x3[i] # NoOne /\ a \in Payers
        /\ x3' = [x3 EXCEPT ![i] = NoOne]
        /\ \/ /\ x3[i].stage = "restart" \/ x2[a] = NoOne
              /\ x2' = [x2 EXCEPT ![a] = new]
           \/ x2' = x2
    BY <1>3 DEF Compliance!EndInitiation, Compliance!InitiationEnds, KycInv
  <2>2. /\ new \in Compliance!KycRecord
        /\ new.status = "pending" /\ new.reason = FALSE
    BY DEF Compliance!Record, Compliance!KycRecord, Compliance!Statuses
  <2>3. ~Compliance!Has(a, {"verified", "pending", "submitted"}) \/ x2' = x2
    BY <2>1 DEF KycInv, Restarts, Compliance!Has
  <2> HIDE DEF new
  <2>4. Compliance!VerdictsStand
    BY <2>1, <2>3 DEF Compliance!VerdictsStand, Compliance!Has, KycInv
  <2>5. /\ x2' \in [Payers -> Compliance!KycRecord \cup {NoOne}]
        /\ x3' \in [Initiations ->
               [account : Payers, stage : {"insert", "restart"}] \cup {NoOne}]
        /\ Compliance!RecordsConsistent'
    BY <2>1, <2>2 DEF KycInv, Compliance!RecordsConsistent
  <2>6. ASSUME NEW j \in Initiations, NEW b \in Payers, Restarts(j, b)'
        PROVE  /\ x2'[b] # NoOne
               /\ ~Compliance!Has(b, {"verified", "pending", "submitted"})'
    <3>1. Restarts(j, b) /\ j # i
      BY <2>1, <2>6 DEF Restarts, KycInv
    <3>2. /\ x2[b] # NoOne
          /\ ~Compliance!Has(b, {"verified", "pending", "submitted"})
      BY <3>1 DEF KycInv
    <3>3. b = a => x2' = x2
      <4>1. ~Restarts(i, b)
        BY <3>1 DEF KycInv
      <4>2. b = a => x3[i].stage # "restart"
        BY <2>1, <4>1 DEF Restarts
      <4>3. QED
        BY <2>1, <3>2, <4>2
    <3>4. x2'[b] = x2[b]
      BY <2>1, <3>3 DEF KycInv
    <3>5. QED
      BY <3>2, <3>4 DEF Compliance!Has
  <2>7. ASSUME NEW j \in Initiations, NEW k \in Initiations, NEW b \in Payers,
               Restarts(j, b)', Restarts(k, b)'
        PROVE  j = k
    BY <2>1, <2>7 DEF KycInv, Restarts
  <2>8. QED
    BY <2>4, <2>5, <2>6, <2>7 DEF KycInv
<1>4. CASE Compliance!KycWebhook
  <2>1. PICK a \in Payers, status \in Compliance!Statuses :
          /\ ~Compliance!RowLocked(a)
          /\ x2' = [x2 EXCEPT ![a] =
               Compliance!Record(status, Compliance!VerifiedAt(a, status),
                                 status = "rejected")]
          /\ x3' = x3
    BY <1>4 DEF Compliance!KycWebhook
  <2> DEFINE new == Compliance!Record(status, Compliance!VerifiedAt(a, status),
                                      status = "rejected")
  <2>2. /\ new \in Compliance!KycRecord
        /\ new.status = "verified" => new.verifiedAt
        /\ new.reason <=> new.status = "rejected"
    BY DEF Compliance!Record, Compliance!KycRecord, Compliance!VerifiedAt, KycInv
  <2> HIDE DEF new
  <2>3. /\ x2' \in [Payers -> Compliance!KycRecord \cup {NoOne}]
        /\ Compliance!RecordsConsistent'
    BY <2>1, <2>2 DEF KycInv, Compliance!RecordsConsistent, new
  <2>4. \A j \in Initiations, b \in Payers : Restarts(j, b)' => x2'[b] = x2[b]
    BY <2>1 DEF Restarts, Compliance!RowLocked, KycInv
  <2>5. QED
    BY <2>1, <2>3, <2>4
       DEF KycInv, Compliance!VerdictsStand, Compliance!Has, Restarts
<1>5. CASE Compliance!Crash
  <2>1. x2' = x2 /\ x3' = [i \in Initiations |-> NoOne]
    BY <1>5 DEF Compliance!Crash
  <2>2. QED
    BY <2>1 DEF KycInv, Compliance!RecordsConsistent, Compliance!VerdictsStand,
                Restarts
<1>6. QED
  BY <1>1, <1>2, <1>3, <1>4, <1>5
     DEF Compliance!Next, Compliance!BeginTransfer, Compliance!AcquireLock,
         Compliance!CountUsage, Compliance!Reserve, Compliance!ReservationFails,
         Compliance!SubmissionApplied, Compliance!SubmissionRefused,
         Compliance!SubmissionUnanswered, Compliance!MarkTransferSubmitted,
         Compliance!MarkTransferFailed, Compliance!AppliedLate,
         Compliance!Midnight, Compliance!kycVars

(* Whatever overlaps, a KYC record says what happened to it, and no         *)
(* initiation overwrites one that is pending or decided.                    *)
THEOREM KycConsistent == MCSpec => KycSound
<1> DEFINE Inv == part = "Compliance" => KycInv
<1>1. MCInit => Inv
  <2> SUFFICES ASSUME Compliance!Init PROVE KycInv
    BY DEF MCInit
  <2>1. QED
    BY DEF Compliance!Init, KycInv, Compliance!RecordsConsistent, Restarts
<1>2. Inv /\ [MCNext]_<<part, vars, xs>> =>
        /\ Inv'
        /\ [part = "Compliance" => Compliance!VerdictsStand]_<<part, vars, xs>>
  <2> SUFFICES ASSUME Inv, [MCNext]_<<part, vars, xs>>
               PROVE  /\ Inv'
                      /\ [part = "Compliance" => Compliance!VerdictsStand]_<<part, vars, xs>>
    OBVIOUS
  <2>1. CASE part = "Compliance" /\ Compliance!Next /\ part' = part
    BY <2>1, KycStep
  <2>2. CASE UNCHANGED <<part, vars, xs>>
    BY <2>2 DEF xs, KycInv, Compliance!RecordsConsistent, Restarts, Compliance!Has
  <2>3. CASE part # "Compliance" /\ part' = part
    BY <2>3
  <2>4. QED
    BY <2>1, <2>2, <2>3 DEF MCNext
<1>3. Inv => (part = "Compliance" => Compliance!RecordsConsistent)
  BY DEF KycInv
<1> HIDE DEF Inv
<1>4. QED
  BY <1>1, <1>2, <1>3, PTL DEF MCSpec, KycSound

-----------------------------------------------------------------------------
(* The daily allowance.  What an account has used of a day is a sum over   *)
(* the rows that count; a reservation that has been counted holds the      *)
(* account's lock, so what it found is still so when it inserts its row.   *)
UsedOn(a, day) == Compliance!Total(Compliance!Counted(a, day))

Spent(ts) == [t \in ts |-> x4[t].amount]

Counts(t) == x5[t] \in {"reserved", "submitted"}

Reserving(t) == Compliance!In(t, "locked") \/ Compliance!In(t, "counted")

(* What the row of a transfer and the network's ledger say of it at each   *)
(* stage.                                                                  *)
Accounted(t) ==
  /\ \/ x4[t] = NoOne
     \/ Compliance!In(t, "waiting") \/ Reserving(t)
     => x5[t] = NoOne /\ t \notin x6 /\ t \notin x7
  /\ Compliance!In(t, "sending") =>
       x5[t] \in {NoOne, "reserved"} /\ t \notin x6 /\ t \notin x7
  /\ Compliance!In(t, "mark") => x5[t] \in {NoOne, "reserved"} /\ t \in x6
  /\ Compliance!In(t, "release") =>
       x5[t] \in {NoOne, "reserved"} /\ (t \in x6 => t \in x7)
  /\ x5[t] = "submitted" => t \in x6
  /\ x5[t] = "failed" /\ t \in x6 => t \in x7

LockExclusive ==
  \A t, u \in Transfers :
    Reserving(t) /\ Reserving(u) /\ x4[t].account = x4[u].account => t = u

HasRoom(t) ==
  \A a \in Payers, day \in 0 .. MaxDay :
    Compliance!In(t, "counted") /\ x4[t].account = a /\ x4[t].day = day
      => UsedOn(a, day) + x4[t].amount <= DailyLimit

TransfersTyped ==
  /\ x1 \in 0 .. MaxDay /\ x8 \in 0 .. MaxCrashes
  /\ x4 \in [Transfers -> Compliance!Transfer \cup {NoOne}]
  /\ x5 \in [Transfers -> {"reserved", "submitted", "failed", NoOne}]
  /\ x6 \subseteq Transfers /\ x7 \subseteq Transfers

TransfersInv ==
  TransfersTyped /\ LockExclusive /\ \A t \in Transfers : Accounted(t)

AllowanceInv ==
  /\ TransfersInv
  /\ Compliance!WithinAllowance
  /\ \A t \in Transfers : HasRoom(t)

(* A transfer that counts has been begun, so what is used is a sum of      *)
(* natural numbers.                                                        *)
CountedHere ==
  \A t \in Transfers : Counts(t) => x4[t] \in Compliance!Transfer

UsageIsTotal ==
  \A a \in Payers, day \in 0 .. MaxDay :
    LET ts == Compliance!Counted(a, day)
    IN /\ ts \in SUBSET Transfers
       /\ Spent(ts) \in [ts -> Nat]
       /\ UsedOn(a, day) = Total(ts, Spent(ts))
       /\ UsedOn(a, day) \in Nat

LEMMA UsageAddsUp == CountedHere => UsageIsTotal
<1> USE ComplianceAssumption
<1> SUFFICES ASSUME CountedHere, NEW a \in Payers, NEW day \in 0 .. MaxDay
             PROVE  LET ts == Compliance!Counted(a, day)
                    IN /\ ts \in SUBSET Transfers
                       /\ Spent(ts) \in [ts -> Nat]
                       /\ UsedOn(a, day) = Total(ts, Spent(ts))
                       /\ UsedOn(a, day) \in Nat
  BY DEF UsageIsTotal
<1> DEFINE ts == Compliance!Counted(a, day)
           f == Spent(ts)
           step(it) == [s \in SUBSET ts |->
             IF s = {} THEN 0 ELSE x4[Pick(s)].amount + it[s \ {Pick(s)}]]
           sum == CHOOSE it : it = step(it)
<1>1. UsedOn(a, day) = sum[ts]
  BY DEF UsedOn, Compliance!Total, Compliance!MapThenSumSet,
         Compliance!MapThenFoldSet, Pick
<1>2. ts \in SUBSET Transfers /\ IsFiniteSet(ts)
  BY FS_Subset DEF Compliance!Counted
<1>3. \A t \in ts : x4[t] \in Compliance!Transfer
  BY DEF CountedHere, Counts, Compliance!Counted
<1> HIDE DEF ts
<1>4. f \in [ts -> Nat] /\ f \in [ts -> Int]
  <2>1. \A q \in Compliance!Transfer : q.amount \in Nat
    BY DEF Compliance!Transfer
  <2>2. \A t \in ts : x4[t].amount \in Nat
    BY <1>3, <2>1
  <2>3. QED
    BY <2>2 DEF Spent
<1>5. \A it : it = step(it) <=> IsSum(ts, it, f)
  <2>1. \A s \in SUBSET ts : s # {} => f[Pick(s)] = x4[Pick(s)].amount
    BY PickIn DEF Spent
  <2> HIDE DEF f
  <2>2. QED
    BY <2>1 DEF IsSum
<1> HIDE DEF f
<1>6. sum = step(sum)
  <2>1. \E it : it = step(it)
    BY <1>2, <1>4, <1>5, SumExists
  <2>2. QED
    BY <2>1
<1> HIDE DEF sum, step
<1>7. sum[ts] = Total(ts, f)
  BY <1>2, <1>4, <1>5, <1>6, SumUnique
<1>8. Total(ts, f) \in Nat
  BY <1>2, <1>4, TotalNat
<1>9. QED
  BY <1>1, <1>2, <1>4, <1>7, <1>8 DEF f, ts

LEMMA CountedBegun == TransfersInv => CountedHere
<1> SUFFICES ASSUME TransfersInv, NEW t \in Transfers, Counts(t)
             PROVE  x4[t] \in Compliance!Transfer
  BY DEF CountedHere
<1>1. x5[t] # NoOne
  BY ComplianceAssumption DEF Counts
<1>2. x4[t] # NoOne
  BY <1>1 DEF TransfersInv, Accounted
<1>3. QED
  BY <1>2 DEF TransfersInv, TransfersTyped

(* A transfer goes to another stage, and nothing else of it changes.       *)
SameTransfer(t) ==
  /\ x4'[t].account = x4[t].account
  /\ x4'[t].amount = x4[t].amount
  /\ x4'[t].day = x4[t].day

Stages == {"waiting", "locked", "counted", "sending", "mark", "release", "done"}

LEMMA TransferGoes ==
  ASSUME x4 \in [Transfers -> Compliance!Transfer \cup {NoOne}],
         NEW t \in Transfers, NEW from, NEW to \in Stages,
         Compliance!In(t, from), Compliance!Goes(t, to)
  PROVE  /\ x4' \in [Transfers -> Compliance!Transfer \cup {NoOne}]
         /\ x4[t] \in Compliance!Transfer /\ x4'[t] \in Compliance!Transfer
         /\ x4[t].stage = from /\ x4'[t].stage = to
         /\ SameTransfer(t)
         /\ \A u \in Transfers : u # t => x4'[u] = x4[u]
<1>1. x4[t] \in Compliance!Transfer /\ x4[t].stage = from
  BY DEF Compliance!In
<1>2. x4' = [x4 EXCEPT ![t] = [x4[t] EXCEPT !.stage = to]]
  BY <1>1 DEF Compliance!Goes
<1>3. [x4[t] EXCEPT !.stage = to] \in Compliance!Transfer
  BY <1>1 DEF Compliance!Transfer, Stages
<1>4. QED
  BY <1>1, <1>2, <1>3 DEF SameTransfer, Compliance!Transfer

(* What is used stays if the same transfers count for the same.            *)
LEMMA UsageKept ==
  ASSUME AllowanceInv, CountedHere',
         \A t \in Transfers : Counts(t)' <=> Counts(t),
         \A t \in Transfers : Counts(t) => SameTransfer(t)
  PROVE  \A a \in Payers, day \in 0 .. MaxDay : UsedOn(a, day)' = UsedOn(a, day)
<1>1. UsageIsTotal /\ UsageIsTotal'
  <2>1. CountedHere
    BY CountedBegun DEF AllowanceInv
  <2>2. CountedHere => UsageIsTotal
    BY UsageAddsUp
  <2>3. CountedHere' => UsageIsTotal'
    BY UsageAddsUp, PTL
  <2>4. QED
    BY <2>1, <2>2, <2>3
<1> SUFFICES ASSUME NEW a \in Payers, NEW day \in 0 .. MaxDay
             PROVE  UsedOn(a, day)' = UsedOn(a, day)
  OBVIOUS
<1> DEFINE ts == Compliance!Counted(a, day)
<1>2. ts' = ts
  BY DEF Compliance!Counted, Counts, SameTransfer
<1>3. \A t \in ts : x4'[t].amount = x4[t].amount
  BY DEF Compliance!Counted, Counts, SameTransfer
<1>4. UsedOn(a, day) = Total(ts, Spent(ts)) /\ UsedOn(a, day)' = Total(ts', Spent(ts)')
  BY <1>1 DEF UsageIsTotal
<1> HIDE DEF ts
<1>5. Spent(ts)' = Spent(ts)
  BY <1>2, <1>3 DEF Spent
<1>6. QED
  BY <1>2, <1>4, <1>5

(* Where a row begins or ceases to count, its amount is added or taken.    *)
LEMMA UsageChanges ==
  ASSUME AllowanceInv, CountedHere', NEW t \in Transfers,
         x4[t] \in Compliance!Transfer,
         \A u \in Transfers : u # t => (Counts(u)' <=> Counts(u)),
         \A u \in Transfers : Counts(u) \/ u = t => SameTransfer(u)
  PROVE  \A a \in Payers, day \in 0 .. MaxDay :
           /\ x4[t].account # a \/ x4[t].day # day =>
                UsedOn(a, day)' = UsedOn(a, day)
           /\ x4[t].account = a /\ x4[t].day = day =>
                /\ ~Counts(t) /\ Counts(t)' =>
                     UsedOn(a, day)' = UsedOn(a, day) + x4[t].amount
                /\ Counts(t) /\ ~Counts(t)' =>
                     UsedOn(a, day) = UsedOn(a, day)' + x4[t].amount
<1> USE ComplianceAssumption
<1>1. UsageIsTotal /\ UsageIsTotal'
  <2>1. CountedHere
    BY CountedBegun DEF AllowanceInv
  <2>2. CountedHere => UsageIsTotal
    BY UsageAddsUp
  <2>3. CountedHere' => UsageIsTotal'
    BY UsageAddsUp, PTL
  <2>4. QED
    BY <2>1, <2>2, <2>3
<1> SUFFICES ASSUME NEW a \in Payers, NEW day \in 0 .. MaxDay
             PROVE  /\ x4[t].account # a \/ x4[t].day # day =>
                         UsedOn(a, day)' = UsedOn(a, day)
                    /\ x4[t].account = a /\ x4[t].day = day =>
                         /\ ~Counts(t) /\ Counts(t)' =>
                              UsedOn(a, day)' = UsedOn(a, day) + x4[t].amount
                         /\ Counts(t) /\ ~Counts(t)' =>
                              UsedOn(a, day) = UsedOn(a, day)' + x4[t].amount
  OBVIOUS
<1> DEFINE ts == Compliance!Counted(a, day)
           us == Compliance!Counted(a, day)'
           f == Spent(ts)
           g == Spent(ts)'
<1>2. /\ UsedOn(a, day) = Total(ts, f) /\ ts \in SUBSET Transfers
      /\ f \in [ts -> Nat] /\ UsedOn(a, day) \in Nat
  BY <1>1 DEF UsageIsTotal
<1>3. /\ UsedOn(a, day)' = Total(us, g) /\ us \in SUBSET Transfers
      /\ g \in [us -> Nat] /\ UsedOn(a, day)' \in Nat
  BY <1>1 DEF UsageIsTotal
<1>4. \A u \in Transfers : u # t => (u \in us <=> u \in ts)
  BY DEF Compliance!Counted, Counts, SameTransfer
<1>5. /\ t \in ts <=> Counts(t) /\ x4[t].account = a /\ x4[t].day = day
      /\ t \in us <=> Counts(t)' /\ x4[t].account = a /\ x4[t].day = day
  BY DEF Compliance!Counted, Counts, SameTransfer
<1>6. /\ f = [u \in ts |-> x4[u].amount]
      /\ g = [u \in us |-> x4'[u].amount]
  BY DEF Spent
<1>7. \A u \in ts \cup us : x4'[u].amount = x4[u].amount
  BY <1>4, <1>5 DEF Compliance!Counted, Counts, SameTransfer
<1> HIDE DEF ts, us, f, g
<1>8. CASE t \in ts <=> t \in us
  <2>1. us = ts
    BY <1>2, <1>3, <1>4, <1>8
  <2>2. f = g
    BY <1>6, <1>7, <2>1
  <2>3. QED
    BY <1>2, <1>3, <1>5, <2>1, <2>2
<1>9. CASE t \in us /\ t \notin ts
  <2>1. us \ {t} = ts
    BY <1>2, <1>3, <1>4, <1>9
  <2>2. [u \in us \ {t} |-> g[u]] = f /\ g[t] = x4[t].amount
    BY <1>6, <1>7, <1>9, <2>1
  <2>3. IsFiniteSet(us) /\ g \in [us -> Int]
    BY <1>3, FS_Subset
  <2>4. Total(us, g) = g[t] + Total(us \ {t}, [u \in us \ {t} |-> g[u]])
    BY <1>9, <2>3, TotalWithout
  <2>5. Total(us, g) = x4[t].amount + Total(ts, f)
    BY <2>1, <2>2, <2>4
  <2>6. x4[t].amount \in Nat
    BY <1>3, <1>9, <2>2
  <2>7. QED
    BY <1>2, <1>3, <1>5, <1>9, <2>5, <2>6
<1>10. CASE t \in ts /\ t \notin us
  <2>1. ts \ {t} = us
    BY <1>2, <1>3, <1>4, <1>10
  <2>2. [u \in ts \ {t} |-> f[u]] = g /\ f[t] = x4[t].amount
    BY <1>6, <1>7, <1>10, <2>1
  <2>3. IsFiniteSet(ts) /\ f \in [ts -> Int]
    BY <1>2, FS_Subset
  <2>4. Total(ts, f) = f[t] + Total(ts \ {t}, [u \in ts \ {t} |-> f[u]])
    BY <1>10, <2>3, TotalWithout
  <2>5. Total(ts, f) = x4[t].amount + Total(us, g)
    BY <2>1, <2>2, <2>4
  <2>6. x4[t].amount \in Nat
    BY <1>2, <1>10, <2>2
  <2>7. QED
    BY <1>2, <1>3, <1>5, <1>10, <2>5, <2>6
<1>11. QED
  BY <1>8, <1>9, <1>10

(* If nothing is used that was not, and no reservation is newly counted,   *)
(* the allowance is still kept.                                            *)
LEMMA RoomKept ==
  ASSUME AllowanceInv, CountedHere',
         \A a \in Payers, day \in 0 .. MaxDay : UsedOn(a, day)' <= UsedOn(a, day),
         \A t \in Transfers : Compliance!In(t, "counted")' =>
           Compliance!In(t, "counted") /\ SameTransfer(t)
  PROVE  Compliance!WithinAllowance' /\ \A t \in Transfers : HasRoom(t)'
<1> USE ComplianceAssumption
<1>1. UsageIsTotal /\ UsageIsTotal'
  <2>1. CountedHere
    BY CountedBegun DEF AllowanceInv
  <2>2. CountedHere => UsageIsTotal
    BY UsageAddsUp
  <2>3. CountedHere' => UsageIsTotal'
    BY UsageAddsUp, PTL
  <2>4. QED
    BY <2>1, <2>2, <2>3
<1>2. \A a \in Payers, day \in 0 .. MaxDay :
        /\ UsedOn(a, day) \in Nat /\ UsedOn(a, day)' \in Nat
        /\ UsedOn(a, day)' <= UsedOn(a, day)
        /\ UsedOn(a, day) <= DailyLimit
  BY <1>1 DEF UsageIsTotal, AllowanceInv, Compliance!WithinAllowance, UsedOn
<1>3. \A a \in Payers, day \in 0 .. MaxDay : UsedOn(a, day)' <= DailyLimit
  BY <1>2
<1>4. Compliance!WithinAllowance'
  BY <1>3 DEF Compliance!WithinAllowance, UsedOn
<1>5. ASSUME NEW t \in Transfers, NEW a \in Payers, NEW day \in 0 .. MaxDay,
             Compliance!In(t, "counted")',
             x4'[t].account = a, x4'[t].day = day
      PROVE  UsedOn(a, day)' + x4'[t].amount <= DailyLimit
  <2>1. /\ Compliance!In(t, "counted")
        /\ x4[t].account = a /\ x4[t].day = day /\ x4'[t].amount = x4[t].amount
    BY <1>5 DEF SameTransfer
  <2>2. UsedOn(a, day) + x4[t].amount <= DailyLimit
    BY <2>1 DEF AllowanceInv, HasRoom
  <2>3. x4[t].amount \in Nat
    <3>1. x4[t] \in Compliance!Transfer
      BY <2>1 DEF AllowanceInv, TransfersInv, TransfersTyped, Compliance!In
    <3>2. \A q \in Compliance!Transfer : q.amount \in Nat
      BY DEF Compliance!Transfer
    <3>3. QED
      BY <3>1, <3>2
  <2>4. UsedOn(a, day)' + x4[t].amount <= DailyLimit
    <3>1. /\ UsedOn(a, day) \in Nat /\ UsedOn(a, day)' \in Nat
          /\ UsedOn(a, day)' <= UsedOn(a, day) /\ DailyLimit \in Nat
      BY <1>2
    <3>2. QED
      BY <2>2, <2>3, <3>1
  <2>5. QED
    BY <2>1, <2>4
<1>6. \A t \in Transfers : HasRoom(t)'
  BY <1>5 DEF HasRoom
<1>7. QED
  BY <1>4, <1>6

(* Steps of one transfer: what it becomes is enough to know.               *)
LEMMA TransferStep ==
  ASSUME TransfersInv, NEW t \in Transfers, NEW from, NEW to \in Stages,
         Compliance!In(t, from), Compliance!Goes(t, to),
         x5' \in [Transfers -> {"reserved", "submitted", "failed", NoOne}],
         x6' \subseteq Transfers, x7' \subseteq Transfers,
         UNCHANGED <<x1, x8>>,
         \A u \in Transfers : u # t =>
           x5'[u] = x5[u] /\ (u \in x6' <=> u \in x6) /\ (u \in x7' <=> u \in x7),
         Accounted(t)',
         to \in {"locked", "counted"} =>
           Reserving(t) \/ Compliance!LockFree(t)
  PROVE  TransfersInv'
<1>1. /\ x4' \in [Transfers -> Compliance!Transfer \cup {NoOne}]
      /\ x4[t] \in Compliance!Transfer /\ x4'[t] \in Compliance!Transfer
      /\ x4[t].stage = from /\ x4'[t].stage = to
      /\ SameTransfer(t)
      /\ \A u \in Transfers : u # t => x4'[u] = x4[u]
  BY TransferGoes DEF TransfersInv, TransfersTyped
<1>2. TransfersTyped'
  BY <1>1 DEF TransfersInv, TransfersTyped
<1>3. ASSUME NEW u \in Transfers
      PROVE  Accounted(u)'
  <2>1. CASE u = t
    BY <2>1
  <2>2. CASE u # t
    BY <1>1, <2>2 DEF TransfersInv, Accounted, Reserving, Compliance!In
  <2>3. QED
    BY <2>1, <2>2
<1>4. LockExclusive'
  <2> SUFFICES ASSUME NEW u \in Transfers, NEW w \in Transfers,
                      Reserving(u)', Reserving(w)',
                      x4'[u].account = x4'[w].account, u # w
               PROVE  FALSE
    BY DEF LockExclusive
  <2>1. \A v \in Transfers : v # t => (Reserving(v)' <=> Reserving(v))
    BY <1>1 DEF Reserving, Compliance!In
  <2>2. \A v \in Transfers : v # t => x4'[v].account = x4[v].account
    BY <1>1
  <2>3. x4'[t].account = x4[t].account
    BY <1>1 DEF SameTransfer
  <2>4. Reserving(t)' => to \in {"locked", "counted"}
    BY <1>1 DEF Reserving, Compliance!In
  <2>5. ASSUME NEW v \in Transfers, v # t, Reserving(t)', Reserving(v),
               x4[v].account = x4[t].account
        PROVE  FALSE
    <3>1. CASE Reserving(t)
      BY <2>5, <3>1 DEF TransfersInv, LockExclusive
    <3>2. CASE Compliance!LockFree(t)
      BY <2>5, <3>2 DEF Compliance!LockFree, Reserving
    <3>3. QED
      BY <2>4, <2>5, <3>1, <3>2
  <2>6. QED
    BY <2>1, <2>2, <2>3, <2>5 DEF TransfersInv, LockExclusive
<1>5. QED
  BY <1>2, <1>3, <1>4 DEF TransfersInv

LEMMA ReserveStep ==
  ASSUME TransfersInv, NEW t \in Transfers,
         \/ Compliance!AcquireLock(t)
         \/ Compliance!CountUsage(t)
         \/ Compliance!Reserve(t)
         \/ Compliance!ReservationFails(t)
  PROVE  TransfersInv'
<1> USE ComplianceAssumption
<1> USE DEF Stages, Compliance!kycVars
<1>1. CASE Compliance!AcquireLock(t)
  <2>1. /\ Compliance!In(t, "waiting") /\ Compliance!LockFree(t)
        /\ Compliance!Goes(t, "locked")
        /\ UNCHANGED <<x1, x5, x6, x7, x8>>
    BY <1>1 DEF Compliance!AcquireLock
  <2>2. x4'[t] # NoOne /\ x4'[t].stage = "locked"
    BY <2>1, TransferGoes DEF TransfersInv, TransfersTyped
  <2>3. Accounted(t)'
    BY <2>1, <2>2 DEF TransfersInv, Accounted, Reserving, Compliance!In
  <2>4. QED
    BY <2>1, <2>3, TransferStep DEF TransfersInv, TransfersTyped
<1>2. CASE Compliance!CountUsage(t)
  <2>1. /\ Compliance!In(t, "locked")
        /\ UNCHANGED <<x1, x5, x6, x7, x8>>
    BY <1>2 DEF Compliance!CountUsage
  <2>2. PICK to \in {"done", "counted"} : Compliance!Goes(t, to)
    BY <1>2 DEF Compliance!CountUsage
  <2>3. x4'[t] # NoOne /\ x4'[t].stage = to
    BY <2>1, <2>2, TransferGoes DEF TransfersInv, TransfersTyped
  <2>4. Accounted(t)'
    BY <2>1, <2>2, <2>3 DEF TransfersInv, Accounted, Reserving, Compliance!In
  <2>5. Reserving(t)
    BY <2>1 DEF Reserving
  <2>6. QED
    BY <2>1, <2>2, <2>4, <2>5, TransferStep DEF TransfersInv, TransfersTyped
<1>3. CASE Compliance!Reserve(t)
  <2>1. /\ Compliance!In(t, "counted")
        /\ x5' = [x5 EXCEPT ![t] = "reserved"]
        /\ UNCHANGED <<x1, x6, x7, x8>>
    BY <1>3 DEF Compliance!Reserve
  <2>2. PICK to \in {"done", "sending"} : Compliance!Goes(t, to)
    BY <1>3 DEF Compliance!Reserve
  <2>3. x4'[t] # NoOne /\ x4'[t].stage = to
    BY <2>1, <2>2, TransferGoes DEF TransfersInv, TransfersTyped
  <2>4. /\ x5'[t] = "reserved"
        /\ x5' \in [Transfers -> {"reserved", "submitted", "failed", NoOne}]
        /\ \A u \in Transfers : u # t => x5'[u] = x5[u]
    BY <2>1 DEF TransfersInv, TransfersTyped
  <2>5. Accounted(t)'
    BY <2>1, <2>2, <2>3, <2>4
       DEF TransfersInv, Accounted, Reserving, Compliance!In
  <2>6. QED
    BY <2>1, <2>2, <2>4, <2>5, TransferStep DEF TransfersInv, TransfersTyped
<1>4. CASE Compliance!ReservationFails(t)
  <2>1. PICK from \in {"waiting", "locked", "counted"} :
          Compliance!In(t, from)
    BY <1>4 DEF Compliance!ReservationFails
  <2>2. /\ Compliance!Goes(t, "done")
        /\ UNCHANGED <<x1, x5, x6, x7, x8>>
    BY <1>4 DEF Compliance!ReservationFails
  <2>3. x4'[t] # NoOne /\ x4'[t].stage = "done"
    BY <2>1, <2>2, TransferGoes DEF TransfersInv, TransfersTyped
  <2>4. Accounted(t)'
    BY <2>1, <2>2, <2>3 DEF TransfersInv, Accounted, Reserving, Compliance!In
  <2>5. QED
    BY <2>1, <2>2, <2>4, TransferStep DEF TransfersInv, TransfersTyped
<1>5. QED
  BY <1>1, <1>2, <1>3, <1>4

LEMMA SubmissionStep ==
  ASSUME TransfersInv, NEW t \in Transfers,
         \/ Compliance!SubmissionApplied(t)
         \/ Compliance!SubmissionRefused(t)
         \/ Compliance!SubmissionUnanswered(t)
         \/ Compliance!MarkTransferSubmitted(t)
         \/ Compliance!MarkTransferFailed(t)
  PROVE  TransfersInv'
<1> USE ComplianceAssumption
<1> USE DEF Stages, Compliance!kycVars
<1>1. CASE Compliance!SubmissionApplied(t)
  <2>1. /\ Compliance!In(t, "sending") /\ Compliance!Goes(t, "mark")
        /\ x6' = x6 \cup {t} /\ UNCHANGED <<x1, x5, x7, x8>>
    BY <1>1 DEF Compliance!SubmissionApplied
  <2>2. x4'[t] # NoOne /\ x4'[t].stage = "mark"
    BY <2>1, TransferGoes DEF TransfersInv, TransfersTyped
  <2>3. Accounted(t)'
    BY <2>1, <2>2 DEF TransfersInv, Accounted, Reserving, Compliance!In
  <2>4. QED
    BY <2>1, <2>3, TransferStep DEF TransfersInv, TransfersTyped
<1>2. CASE Compliance!SubmissionRefused(t)
  <2>1. /\ Compliance!In(t, "sending") /\ Compliance!Goes(t, "release")
        /\ t \notin x6 /\ UNCHANGED <<x1, x5, x6, x7, x8>>
    BY <1>2 DEF Compliance!SubmissionRefused
  <2>2. x4'[t] # NoOne /\ x4'[t].stage = "release"
    BY <2>1, TransferGoes DEF TransfersInv, TransfersTyped
  <2>3. Accounted(t)'
    BY <2>1, <2>2 DEF TransfersInv, Accounted, Reserving, Compliance!In
  <2>4. QED
    BY <2>1, <2>3, TransferStep DEF TransfersInv, TransfersTyped
<1>3. CASE Compliance!SubmissionUnanswered(t)
  <2>1. /\ Compliance!In(t, "sending") /\ Compliance!Goes(t, "release")
        /\ x7' = x7 \cup {t} /\ UNCHANGED <<x1, x5, x6, x8>>
    BY <1>3 DEF Compliance!SubmissionUnanswered
  <2>2. x4'[t] # NoOne /\ x4'[t].stage = "release"
    BY <2>1, TransferGoes DEF TransfersInv, TransfersTyped
  <2>3. Accounted(t)'
    BY <2>1, <2>2 DEF TransfersInv, Accounted, Reserving, Compliance!In
  <2>4. QED
    BY <2>1, <2>3, TransferStep DEF TransfersInv, TransfersTyped
<1>4. CASE Compliance!MarkTransferSubmitted(t)
  <2>1. /\ Compliance!In(t, "mark") /\ Compliance!Goes(t, "done")
        /\ UNCHANGED <<x1, x6, x7, x8>>
        /\ x5' = [x5 EXCEPT ![t] = "submitted"] \/ x5' = x5
    BY <1>4 DEF Compliance!MarkTransferSubmitted, Compliance!Marked
  <2>2. x4'[t] # NoOne /\ x4'[t].stage = "done"
    BY <2>1, TransferGoes DEF TransfersInv, TransfersTyped
  <2>3. /\ x5'[t] \in {x5[t], "submitted"}
        /\ x5' \in [Transfers -> {"reserved", "submitted", "failed", NoOne}]
        /\ \A u \in Transfers : u # t => x5'[u] = x5[u]
    BY <2>1 DEF TransfersInv, TransfersTyped
  <2>4. Accounted(t)'
    BY <2>1, <2>2, <2>3 DEF TransfersInv, Accounted, Reserving, Compliance!In
  <2>5. QED
    BY <2>1, <2>3, <2>4, TransferStep DEF TransfersInv, TransfersTyped
<1>5. CASE Compliance!MarkTransferFailed(t)
  <2>1. /\ Compliance!In(t, "release") /\ Compliance!Goes(t, "done")
        /\ UNCHANGED <<x1, x6, x7, x8>>
        /\ x5' = [x5 EXCEPT ![t] = "failed"] \/ x5' = x5
    BY <1>5 DEF Compliance!MarkTransferFailed, Compliance!Marked
  <2>2. x4'[t] # NoOne /\ x4'[t].stage = "done"
    BY <2>1, TransferGoes DEF TransfersInv, TransfersTyped
  <2>3. /\ x5'[t] \in {x5[t], "failed"}
        /\ x5' \in [Transfers -> {"reserved", "submitted", "failed", NoOne}]
        /\ \A u \in Transfers : u # t => x5'[u] = x5[u]
    BY <2>1 DEF TransfersInv, TransfersTyped
  <2>4. Accounted(t)'
    BY <2>1, <2>2, <2>3 DEF TransfersInv, Accounted, Reserving, Compliance!In
  <2>5. QED
    BY <2>1, <2>3, <2>4, TransferStep DEF TransfersInv, TransfersTyped
<1>6. QED
  BY <1>1, <1>2, <1>3, <1>4, <1>5

(* A transfer begins; the network, the calendar and the process move.      *)
LEMMA BeginStep ==
  ASSUME TransfersInv, NEW t \in Transfers, Compliance!BeginTransfer(t)
  PROVE  /\ TransfersInv'
         /\ x4[t] = NoOne /\ x5' = x5
         /\ \A u \in Transfers : u # t => x4'[u] = x4[u]
         /\ ~Compliance!In(t, "counted")'
<1> USE ComplianceAssumption
<1> USE DEF Compliance!kycVars
<1>1. PICK a \in Payers, amount \in Amounts, stage \in {"sending", "waiting"} :
        x4' = [x4 EXCEPT ![t] = [stage |-> stage, account |-> a,
                                 amount |-> amount, day |-> x1]]
  BY DEF Compliance!BeginTransfer
<1> DEFINE q == [stage |-> stage, account |-> a, amount |-> amount, day |-> x1]
<1>2. x4[t] = NoOne /\ UNCHANGED <<x1, x5, x6, x7, x8>>
  BY DEF Compliance!BeginTransfer
<1>3. q \in Compliance!Transfer /\ q.stage = stage
  BY DEF TransfersInv, TransfersTyped, Compliance!Transfer
<1> HIDE DEF q
<1>4. /\ x4' \in [Transfers -> Compliance!Transfer \cup {NoOne}]
      /\ x4'[t] = q /\ \A u \in Transfers : u # t => x4'[u] = x4[u]
  BY <1>1, <1>3 DEF TransfersInv, TransfersTyped, q
<1>5. TransfersTyped'
  BY <1>2, <1>4 DEF TransfersInv, TransfersTyped
<1>6. ASSUME NEW u \in Transfers PROVE Accounted(u)'
  <2>1. CASE u = t
    BY <1>2, <1>3, <1>4, <2>1
       DEF TransfersInv, Accounted, Reserving, Compliance!In
  <2>2. CASE u # t
    BY <1>2, <1>4, <2>2 DEF TransfersInv, Accounted, Reserving, Compliance!In
  <2>3. QED
    BY <2>1, <2>2
<1>7. ~Reserving(t)'
  BY <1>3, <1>4 DEF Reserving, Compliance!In
<1>8. LockExclusive'
  BY <1>4, <1>7 DEF TransfersInv, LockExclusive, Reserving, Compliance!In
<1>9. QED
  BY <1>2, <1>4, <1>5, <1>6, <1>7, <1>8 DEF TransfersInv, Reserving

LEMMA CrashEnds ==
  ASSUME TransfersInv, Compliance!Crash
  PROVE  \A t \in Transfers :
           /\ x4'[t] \in Compliance!Transfer \cup {NoOne}
           /\ x4'[t] = NoOne <=> x4[t] = NoOne
           /\ x4[t] # NoOne => SameTransfer(t) /\ x4'[t].stage = "done"
<1> USE ComplianceAssumption
<1> SUFFICES ASSUME NEW t \in Transfers, x4[t] # NoOne
             PROVE  /\ x4'[t] \in Compliance!Transfer
                    /\ SameTransfer(t) /\ x4'[t].stage = "done"
  BY DEF Compliance!Crash
<1>1. x4[t] \in Compliance!Transfer /\ x4'[t] = [x4[t] EXCEPT !.stage = "done"]
  BY DEF Compliance!Crash, TransfersInv, TransfersTyped
<1>2. QED
  BY <1>1 DEF SameTransfer, Compliance!Transfer

LEMMA OutsideStep ==
  ASSUME TransfersInv,
         Compliance!AppliedLate \/ Compliance!Midnight \/ Compliance!Crash
  PROVE  TransfersInv'
<1> USE ComplianceAssumption
<1> USE DEF Compliance!kycVars, Compliance!transferVars
<1>1. CASE Compliance!AppliedLate
  <2>1. PICK t \in x7 : x6' = x6 \cup {t}
    BY <1>1 DEF Compliance!AppliedLate
  <2>2. UNCHANGED <<x1, x4, x5, x7, x8>>
    BY <1>1 DEF Compliance!AppliedLate
  <2>3. TransfersTyped' /\ LockExclusive'
    BY <2>1, <2>2 DEF TransfersInv, TransfersTyped, LockExclusive, Reserving,
                      Compliance!In
  <2>4. ASSUME NEW u \in Transfers PROVE Accounted(u)'
    BY <2>1, <2>2 DEF TransfersInv, Accounted, Reserving, Compliance!In
  <2>5. QED
    BY <2>3, <2>4 DEF TransfersInv
<1>2. CASE Compliance!Midnight
  <2>1. x1' = x1 + 1 /\ x1 < MaxDay /\ UNCHANGED <<x4, x5, x6, x7, x8>>
    BY <1>2 DEF Compliance!Midnight
  <2>2. x1' \in 0 .. MaxDay
    BY <2>1 DEF TransfersInv, TransfersTyped
  <2>3. QED
    BY <2>1, <2>2 DEF TransfersInv, TransfersTyped, LockExclusive, Accounted,
                      Reserving, Compliance!In
<1>3. CASE Compliance!Crash
  <2>1. /\ x4' = [t \in Transfers |->
             IF x4[t] = NoOne THEN NoOne ELSE [x4[t] EXCEPT !.stage = "done"]]
        /\ x7' = x7 \cup {t \in Transfers : Compliance!In(t, "sending")}
        /\ x8 < MaxCrashes /\ x8' = x8 + 1
        /\ UNCHANGED <<x1, x5, x6>>
    BY <1>3 DEF Compliance!Crash
  <2>2. x4' \in [Transfers -> Compliance!Transfer \cup {NoOne}]
    BY <1>3, <2>1, CrashEnds
  <2>3. x8' \in 0 .. MaxCrashes
    BY <2>1 DEF TransfersInv, TransfersTyped
  <2>4. TransfersTyped'
    BY <2>1, <2>2, <2>3 DEF TransfersInv, TransfersTyped
  <2>5. ASSUME NEW u \in Transfers PROVE Accounted(u)'
    <3>1. ~Reserving(u)' /\ (x4'[u] # NoOne => x4'[u].stage = "done")
      BY <1>3, CrashEnds DEF Reserving, Compliance!In
    <3>2. x4'[u] = NoOne <=> x4[u] = NoOne
      BY <1>3, CrashEnds
    <3>3. x5'[u] = x5[u] /\ (u \in x6' <=> u \in x6)
          /\ (u \in x7 => u \in x7')
          /\ (x4[u] = NoOne => (u \in x7' <=> u \in x7))
      BY <2>1 DEF Compliance!In
    <3>4. QED
      BY <3>1, <3>2, <3>3 DEF TransfersInv, Accounted, Compliance!In
  <2>6. LockExclusive'
    BY <1>3, CrashEnds DEF LockExclusive, Reserving, Compliance!In
  <2>7. QED
    BY <2>4, <2>5, <2>6 DEF TransfersInv
<1>4. QED
  BY <1>1, <1>2, <1>3

(* Steps by which no row begins or ceases to count and no reservation is   *)
(* newly counted.                                                          *)
LEMMA QuietStep ==
  ASSUME AllowanceInv, TransfersInv',
         \A t \in Transfers :
           /\ Counts(t)' <=> Counts(t)
           /\ Counts(t) => SameTransfer(t)
           /\ Compliance!In(t, "counted")' =>
                Compliance!In(t, "counted") /\ SameTransfer(t)
  PROVE  AllowanceInv'
<1>1. CountedHere'
  BY CountedBegun, PTL
<1>2. \A a \in Payers, day \in 0 .. MaxDay : UsedOn(a, day)' = UsedOn(a, day)
  BY <1>1, UsageKept
<1>3. UsageIsTotal
  BY CountedBegun, UsageAddsUp DEF AllowanceInv
<1>4. \A a \in Payers, day \in 0 .. MaxDay : UsedOn(a, day)' <= UsedOn(a, day)
  BY <1>2, <1>3 DEF UsageIsTotal
<1>5. QED
  BY <1>1, <1>4, RoomKept DEF AllowanceInv

LEMMA CountStep ==
  ASSUME AllowanceInv, NEW t \in Transfers, Compliance!CountUsage(t)
  PROVE  AllowanceInv'
<1> USE ComplianceAssumption
<1> USE DEF Stages, Compliance!kycVars
<1>1. TransfersInv'
  BY ReserveStep DEF AllowanceInv
<1>2. Compliance!In(t, "locked") /\ x5' = x5 /\ x4[t] \in Compliance!Transfer
  BY DEF Compliance!CountUsage, AllowanceInv, TransfersInv, TransfersTyped,
         Compliance!In
<1>3. PICK a \in Payers, day \in 0 .. MaxDay, n \in Nat :
        x4[t].account = a /\ x4[t].day = day /\ x4[t].amount = n
  BY <1>2 DEF Compliance!Transfer
<1>4. PICK to \in {"done", "counted"} :
        /\ Compliance!Goes(t, to)
        /\ to = "counted" => ~(UsedOn(a, day) + n > DailyLimit)
  BY <1>3 DEF Compliance!CountUsage, UsedOn
<1>5. /\ x4'[t].stage = to /\ SameTransfer(t)
      /\ \A u \in Transfers : u # t => x4'[u] = x4[u]
  BY <1>2, <1>4, TransferGoes DEF AllowanceInv, TransfersInv, TransfersTyped
<1>6. \A u \in Transfers :
        /\ Counts(u)' <=> Counts(u)
        /\ SameTransfer(u)
        /\ u # t => (Compliance!In(u, "counted")' <=> Compliance!In(u, "counted"))
  BY <1>2, <1>5 DEF Counts, SameTransfer, Compliance!In
<1>7. CASE to = "done"
  <2>1. ~Compliance!In(t, "counted")'
    BY <1>5, <1>7 DEF Compliance!In
  <2>2. QED
    BY <1>1, <1>6, <2>1, QuietStep
<1>8. CASE to = "counted"
  <2>1. CountedHere'
    BY <1>1, CountedBegun, PTL
  <2>2. \A b \in Payers, d \in 0 .. MaxDay : UsedOn(b, d)' = UsedOn(b, d)
    BY <1>6, <2>1, UsageKept
  <2>3. UsageIsTotal
    BY CountedBegun, UsageAddsUp DEF AllowanceInv
  <2>4. Compliance!WithinAllowance'
    BY <2>2 DEF AllowanceInv, Compliance!WithinAllowance, UsedOn
  <2>5. HasRoom(t)'
    <3>1. UsedOn(a, day)' + n <= DailyLimit
      <4>1. UsedOn(a, day)' = UsedOn(a, day) /\ UsedOn(a, day) \in Nat
        BY <2>2, <2>3 DEF UsageIsTotal
      <4>2. QED
        BY <1>4, <1>8, <4>1
    <3>2. x4'[t].account = a /\ x4'[t].day = day /\ x4'[t].amount = n
      BY <1>3, <1>5 DEF SameTransfer
    <3>3. QED
      BY <3>1, <3>2 DEF HasRoom
  <2>6. ASSUME NEW u \in Transfers, u # t PROVE HasRoom(u)'
    BY <1>6, <2>2, <2>6 DEF AllowanceInv, HasRoom, SameTransfer
  <2>7. QED
    BY <1>1, <2>4, <2>5, <2>6 DEF AllowanceInv
<1>9. QED
  BY <1>7, <1>8

(* The row of a reservation is inserted: what was counted under the lock   *)
(* is still so, and no other of the account is counted.                    *)
LEMMA InsertStep ==
  ASSUME AllowanceInv, NEW t \in Transfers, Compliance!Reserve(t)
  PROVE  AllowanceInv'
<1> USE ComplianceAssumption
<1> USE DEF Stages, Compliance!kycVars
<1>1. TransfersInv' /\ CountedHere'
  <2>1. TransfersInv'
    BY ReserveStep DEF AllowanceInv
  <2>2. QED
    BY <2>1, CountedBegun, PTL
<1>2. /\ Compliance!In(t, "counted") /\ x4[t] \in Compliance!Transfer
      /\ x5' = [x5 EXCEPT ![t] = "reserved"]
  BY DEF Compliance!Reserve, AllowanceInv, TransfersInv, TransfersTyped,
         Compliance!In
<1>3. PICK a \in Payers, day \in 0 .. MaxDay, n \in Nat :
        x4[t].account = a /\ x4[t].day = day /\ x4[t].amount = n
  BY <1>2 DEF Compliance!Transfer
<1>4. PICK to \in {"done", "sending"} : Compliance!Goes(t, to)
  BY DEF Compliance!Reserve
<1>5. /\ x4'[t].stage = to /\ SameTransfer(t)
      /\ \A u \in Transfers : u # t => x4'[u] = x4[u]
  BY <1>2, <1>4, TransferGoes DEF AllowanceInv, TransfersInv, TransfersTyped
<1>6. /\ ~Counts(t) /\ Counts(t)' /\ ~Compliance!In(t, "counted")'
      /\ \A u \in Transfers :
           /\ SameTransfer(u)
           /\ u # t => /\ Counts(u)' <=> Counts(u)
                       /\ Compliance!In(u, "counted")' <=> Compliance!In(u, "counted")
  <2>1. x5[t] = NoOne
    BY <1>2 DEF AllowanceInv, TransfersInv, Accounted, Reserving
  <2>2. x5'[t] = "reserved" /\ \A u \in Transfers : u # t => x5'[u] = x5[u]
    BY <1>2 DEF AllowanceInv, TransfersInv, TransfersTyped
  <2>3. QED
    BY <1>5, <2>1, <2>2 DEF Counts, SameTransfer, Compliance!In
<1>7. \A b \in Payers, d \in 0 .. MaxDay :
        /\ a # b \/ day # d => UsedOn(b, d)' = UsedOn(b, d)
        /\ a = b /\ day = d => UsedOn(b, d)' = UsedOn(b, d) + n
  BY <1>1, <1>2, <1>3, <1>6, UsageChanges
<1>8. UsedOn(a, day) + n <= DailyLimit
  BY <1>2, <1>3 DEF AllowanceInv, HasRoom
<1>9. Compliance!WithinAllowance'
  BY <1>7, <1>8 DEF AllowanceInv, Compliance!WithinAllowance, UsedOn
<1>10. ASSUME NEW u \in Transfers PROVE HasRoom(u)'
  <2>1. CASE u = t
    BY <1>6, <2>1 DEF HasRoom
  <2>2. CASE u # t
    <3>1. Compliance!In(u, "counted") => x4[u].account # a
      BY <1>2, <1>3, <2>2 DEF AllowanceInv, TransfersInv, LockExclusive, Reserving
    <3>2. QED
      BY <1>6, <1>7, <2>2, <3>1 DEF AllowanceInv, HasRoom, SameTransfer
  <2>3. QED
    BY <2>1, <2>2
<1>11. QED
  BY <1>1, <1>9, <1>10 DEF AllowanceInv

(* A failed transfer gives its amount back.                                *)
LEMMA ReleaseStep ==
  ASSUME AllowanceInv, NEW t \in Transfers, Compliance!MarkTransferFailed(t)
  PROVE  AllowanceInv'
<1> USE ComplianceAssumption
<1> USE DEF Stages, Compliance!kycVars
<1>1. TransfersInv' /\ CountedHere'
  <2>1. TransfersInv'
    BY SubmissionStep DEF AllowanceInv
  <2>2. QED
    BY <2>1, CountedBegun, PTL
<1>2. /\ Compliance!In(t, "release") /\ x4[t] \in Compliance!Transfer
      /\ Compliance!Goes(t, "done")
      /\ \/ x5[t] = "reserved" /\ x5' = [x5 EXCEPT ![t] = "failed"]
         \/ x5' = x5
  BY DEF Compliance!MarkTransferFailed, Compliance!Marked, AllowanceInv,
         TransfersInv, TransfersTyped, Compliance!In
<1>3. PICK a \in Payers, day \in 0 .. MaxDay, n \in Nat :
        x4[t].account = a /\ x4[t].day = day /\ x4[t].amount = n
  BY <1>2 DEF Compliance!Transfer
<1>4. /\ x4'[t].stage = "done" /\ SameTransfer(t)
      /\ \A u \in Transfers : u # t => x4'[u] = x4[u]
  BY <1>2, TransferGoes DEF AllowanceInv, TransfersInv, TransfersTyped
<1>5. \A u \in Transfers :
        /\ SameTransfer(u)
        /\ Compliance!In(u, "counted")' => Compliance!In(u, "counted")
  BY <1>4 DEF SameTransfer, Compliance!In
<1>6. CASE x5' = x5
  <2>1. \A u \in Transfers : Counts(u)' <=> Counts(u)
    BY <1>6 DEF Counts
  <2>2. QED
    BY <1>1, <1>5, <2>1, QuietStep
<1>7. CASE x5[t] = "reserved" /\ x5' = [x5 EXCEPT ![t] = "failed"]
  <2>1. /\ Counts(t) /\ ~Counts(t)'
        /\ \A u \in Transfers : u # t => (Counts(u)' <=> Counts(u))
    BY <1>7 DEF Counts, AllowanceInv, TransfersInv, TransfersTyped
  <2>2. \A b \in Payers, d \in 0 .. MaxDay :
          /\ a # b \/ day # d => UsedOn(b, d)' = UsedOn(b, d)
          /\ a = b /\ day = d => UsedOn(b, d) = UsedOn(b, d)' + n
    BY <1>1, <1>2, <1>3, <1>5, <2>1, UsageChanges
  <2>3. UsageIsTotal /\ UsageIsTotal'
    <3>1. UsageIsTotal
      BY CountedBegun, UsageAddsUp DEF AllowanceInv
    <3>2. CountedHere' => UsageIsTotal'
      BY UsageAddsUp, PTL
    <3>3. QED
      BY <1>1, <3>1, <3>2
  <2>4. \A b \in Payers, d \in 0 .. MaxDay :
          UsedOn(b, d) \in Nat /\ UsedOn(b, d)' \in Nat
    BY <2>3 DEF UsageIsTotal
  <2>5. ASSUME NEW b \in Payers, NEW d \in 0 .. MaxDay
        PROVE  UsedOn(b, d)' <= UsedOn(b, d)
    <3>1. UsedOn(b, d) \in Nat /\ UsedOn(b, d)' \in Nat
      BY <2>4
    <3>2. UsedOn(b, d)' = UsedOn(b, d) \/ UsedOn(b, d) = UsedOn(b, d)' + n
      BY <2>2
    <3>3. QED
      BY <3>1, <3>2
  <2>6. QED
    BY <1>1, <1>5, <2>5, RoomKept DEF AllowanceInv
<1>8. QED
  BY <1>2, <1>6, <1>7

LEMMA AllowanceStep ==
  ASSUME AllowanceInv, Compliance!Next
  PROVE  AllowanceInv'
<1> USE ComplianceAssumption
<1> USE DEF Stages, Compliance!kycVars, Compliance!transferVars
<1>0. TransfersInv
  BY DEF AllowanceInv
<1>1. CASE UNCHANGED <<x1, x4, x5, x6, x7, x8>>
  <2>1. TransfersInv'
    BY <1>0, <1>1 DEF TransfersInv, TransfersTyped, LockExclusive, Accounted,
                      Reserving, Compliance!In
  <2>2. QED
    BY <1>1, <2>1, QuietStep DEF Counts, SameTransfer, Compliance!In
<1>2. ASSUME NEW t \in Transfers, Compliance!BeginTransfer(t)
      PROVE  AllowanceInv'
  <2>1. /\ TransfersInv'
        /\ x4[t] = NoOne /\ x5' = x5
        /\ \A u \in Transfers : u # t => x4'[u] = x4[u]
        /\ ~Compliance!In(t, "counted")'
    BY <1>0, <1>2, BeginStep
  <2>2. ~Counts(t)
    BY <1>0, <2>1 DEF TransfersInv, Accounted, Counts
  <2>3. QED
    BY <2>1, <2>2, QuietStep DEF Counts, SameTransfer, Compliance!In
<1>3. ASSUME NEW t \in Transfers, NEW from, NEW to \in Stages,
             Compliance!In(t, from), Compliance!Goes(t, to), to # "counted",
             TransfersInv', \A u \in Transfers : Counts(u)' <=> Counts(u)
      PROVE  AllowanceInv'
  <2>1. /\ x4'[t].stage = to /\ SameTransfer(t)
        /\ \A u \in Transfers : u # t => x4'[u] = x4[u]
    BY <1>0, <1>3, TransferGoes DEF TransfersInv, TransfersTyped
  <2>2. \A u \in Transfers :
          /\ SameTransfer(u)
          /\ Compliance!In(u, "counted")' => Compliance!In(u, "counted")
    BY <1>3, <2>1 DEF SameTransfer, Compliance!In
  <2>3. QED
    BY <1>3, <2>2, QuietStep
<1>4. ASSUME NEW t \in Transfers,
             \/ Compliance!AcquireLock(t) \/ Compliance!ReservationFails(t)
             \/ Compliance!SubmissionApplied(t)
             \/ Compliance!SubmissionRefused(t)
             \/ Compliance!SubmissionUnanswered(t)
      PROVE  AllowanceInv'
  <2>1. TransfersInv'
    BY <1>0, <1>4, ReserveStep, SubmissionStep
  <2>2. x5' = x5
    BY <1>4 DEF Compliance!AcquireLock, Compliance!ReservationFails,
                Compliance!SubmissionApplied, Compliance!SubmissionRefused,
                Compliance!SubmissionUnanswered
  <2>3. PICK from \in Stages, to \in Stages :
          Compliance!In(t, from) /\ Compliance!Goes(t, to) /\ to # "counted"
    BY <1>4 DEF Compliance!AcquireLock, Compliance!ReservationFails,
                Compliance!SubmissionApplied, Compliance!SubmissionRefused,
                Compliance!SubmissionUnanswered
  <2>4. QED
    BY <1>3, <2>1, <2>2, <2>3 DEF Counts
<1>5. ASSUME NEW t \in Transfers, Compliance!MarkTransferSubmitted(t)
      PROVE  AllowanceInv'
  <2>1. TransfersInv'
    BY <1>0, <1>5, SubmissionStep
  <2>2. /\ Compliance!In(t, "mark") /\ Compliance!Goes(t, "done")
        /\ \/ x5[t] = "reserved" /\ x5' = [x5 EXCEPT ![t] = "submitted"]
           \/ x5' = x5
    BY <1>5 DEF Compliance!MarkTransferSubmitted, Compliance!Marked
  <2>3. \A u \in Transfers : Counts(u)' <=> Counts(u)
    BY <1>0, <2>2 DEF Counts, TransfersInv, TransfersTyped
  <2>4. QED
    BY <1>3, <2>1, <2>2, <2>3
<1>6. CASE Compliance!AppliedLate \/ Compliance!Midnight
  <2>1. x4' = x4 /\ x5' = x5 /\ TransfersInv'
    BY <1>0, <1>6, OutsideStep DEF Compliance!AppliedLate, Compliance!Midnight
  <2>2. QED
    BY <2>1, QuietStep DEF Counts, SameTransfer, Compliance!In
<1>7. CASE Compliance!Crash
  <2>1. x5' = x5 /\ TransfersInv'
    BY <1>0, <1>7, OutsideStep DEF Compliance!Crash
  <2>2. \A u \in Transfers : Counts(u) => x4[u] # NoOne
    BY <1>0 DEF TransfersInv, Accounted, Counts
  <2>3. \A u \in Transfers : /\ x4[u] # NoOne => SameTransfer(u)
                             /\ ~Compliance!In(u, "counted")'
    BY <1>0, <1>7, CrashEnds DEF Compliance!In
  <2>4. QED
    BY <2>1, <2>2, <2>3, QuietStep DEF Counts
<1>8. QED
  BY <1>1, <1>2, <1>4, <1>5, <1>6, <1>7, CountStep, InsertStep, ReleaseStep
     DEF Compliance!Next, Compliance!BeginInitiation, Compliance!EndInitiation,
         Compliance!KycWebhook

(* However many transfers of an account are reserved at once, around       *)
(* midnight and across restarts, what counts of a day stays within the     *)
(* limit, and every row tells what became of its transfer.                 *)
THEOREM AllowanceHolds == MCSpec => []AllowanceKept
<1> DEFINE Inv == part = "Compliance" => KycInv /\ AllowanceInv
<1>1. MCInit => Inv
  <2> SUFFICES ASSUME Compliance!Init PROVE KycInv /\ AllowanceInv
    BY DEF MCInit
  <2> USE ComplianceAssumption
  <2> USE DEF Compliance!Init
  <2>1. KycInv
    BY DEF KycInv, Compliance!RecordsConsistent, Restarts
  <2>2. TransfersInv
    BY DEF TransfersInv, TransfersTyped, LockExclusive, Accounted, Reserving,
           Compliance!In
  <2>3. UsageIsTotal
    BY <2>2, CountedBegun, UsageAddsUp
  <2>4. ASSUME NEW a \in Payers, NEW day \in 0 .. MaxDay
        PROVE  UsedOn(a, day) <= DailyLimit
    <3> DEFINE ts == Compliance!Counted(a, day)
    <3>1. ts = {}
      BY DEF Compliance!Counted
    <3>2. UsedOn(a, day) = Total(ts, Spent(ts)) /\ Spent(ts) \in [ts -> Nat]
      BY <2>3 DEF UsageIsTotal
    <3> HIDE DEF ts
    <3>3. IsFiniteSet(ts) /\ Spent(ts) \in [ts -> Int]
          /\ \A t \in ts : Spent(ts)[t] = 0
      BY <3>1, <3>2, FS_EmptySet
    <3>4. Total(ts, Spent(ts)) = 0
      BY <3>3, TotalZero
    <3>5. QED
      BY <3>2, <3>4
  <2>5. Compliance!WithinAllowance
    BY <2>4 DEF Compliance!WithinAllowance, UsedOn
  <2>6. QED
    BY <2>1, <2>2, <2>5 DEF AllowanceInv, HasRoom, Compliance!In
<1>2. Inv /\ [MCNext]_<<part, vars, xs>> => Inv'
  <2> SUFFICES ASSUME Inv, [MCNext]_<<part, vars, xs>> PROVE Inv'
    OBVIOUS
  <2>1. CASE part = "Compliance" /\ Compliance!Next /\ part' = part
    BY <2>1, KycStep, AllowanceStep
  <2>2. CASE UNCHANGED <<part, vars, xs>>
    <3>1. UNCHANGED <<part, x1, x2, x3, x4, x5, x6, x7, x8>>
      BY <2>2 DEF xs
    <3>2. CASE part = "Compliance"
      <4>1. TransfersInv'
        BY <3>1, <3>2 DEF AllowanceInv, TransfersInv, TransfersTyped,
             LockExclusive, Accounted, Reserving, Compliance!In
      <4>2. AllowanceInv'
        BY <3>1, <3>2, <4>1, QuietStep DEF Counts, SameTransfer, Compliance!In
      <4>3. QED
        BY <3>1, <3>2, <4>2
           DEF KycInv, Compliance!RecordsConsistent, Restarts, Compliance!Has
    <3>3. QED
      BY <3>1, <3>2
  <2>3. CASE part # "Compliance" /\ part' = part
    BY <2>3
  <2>4. QED
    BY <2>1, <2>2, <2>3 DEF MCNext
<1>3. Inv => AllowanceKept
  <2> SUFFICES ASSUME KycInv, AllowanceInv
               PROVE  Compliance!TypeOK /\ Compliance!WithinAllowance
                      /\ Compliance!RowsTellTheTruth
    BY DEF AllowanceKept
  <2>1. Compliance!TypeOK
    BY DEF Compliance!TypeOK, KycInv, AllowanceInv, TransfersInv, TransfersTyped
  <2>2. Compliance!RowsTellTheTruth
    BY DEF Compliance!RowsTellTheTruth, AllowanceInv, TransfersInv, Accounted
  <2>3. QED
    BY <2>1, <2>2 DEF AllowanceInv
<1> HIDE DEF Inv
<1>4. QED
  BY <1>1, <1>2, <1>3, PTL DEF MCSpec

-----------------------------------------------------------------------------
(* Listings.  A walk that nothing disturbs has passed over no row: what is *)
(* ahead of a row it has not seen only grows, and fills the pages it has   *)
(* asked for.  Rows are told apart by their ids, since their contents may  *)
(* change where they stand.                                                *)
GoodListing(l) ==
  /\ l.by \in {"made", "changed"} /\ l.newest \in BOOLEAN /\ l.paged \in BOOLEAN
  /\ l.rows \subseteq Listings!Stored
  /\ \A r, t \in l.rows : r.id = t.id => r = t

IdsAhead(l, r) == {t.id : t \in {u \in l.rows : Listings!Ahead(l, u, r)}}

LEMMA SameCardinality == \A S : Listings!Cardinality(S) = Cardinality(S)
BY DEF Listings!Cardinality, Cardinality

LEMMA MomentsAreNat ==
  ASSUME NEW r \in Listings!Stored, NEW by \in {"made", "changed"}
  PROVE  r[by] \in Nat /\ r.id \in Ids
BY DEF Listings!Stored

LEMMA ListingFinite ==
  ASSUME NEW l, GoodListing(l)
  PROVE  IsFiniteSet(l.rows) /\ Cardinality(l.rows) \in Nat
<1> DEFINE g == [r \in l.rows |-> r.id]
<1>1. g \in Injection(l.rows, Ids)
  BY MomentsAreNat DEF GoodListing, Injection, IsInjective
<1>2. QED
  BY <1>1, FS_Injection, FS_CardinalityType, ListingsAssumption

LEMMA AheadFinite ==
  ASSUME NEW l, GoodListing(l), NEW r
  PROVE  /\ IdsAhead(l, r) \subseteq Ids /\ IsFiniteSet(IdsAhead(l, r))
         /\ Cardinality(IdsAhead(l, r)) \in Nat
<1>1. IdsAhead(l, r) \subseteq Ids
  BY MomentsAreNat DEF GoodListing, IdsAhead
<1>2. QED
  BY <1>1, FS_Subset, FS_CardinalityType, ListingsAssumption

(* Fewer rows are ahead of a row than there are.                           *)
LEMMA AheadFewer ==
  ASSUME NEW l, GoodListing(l), NEW r \in l.rows
  PROVE  Cardinality(IdsAhead(l, r)) < Cardinality(l.rows)
<1> DEFINE A == {u \in l.rows : Listings!Ahead(l, u, r)}
           B == IdsAhead(l, r)
           g == [u \in A |-> u.id]
<1>1. A \subseteq l.rows \ {r}
  BY MomentsAreNat DEF GoodListing, Listings!Ahead
<1>2. /\ IsFiniteSet(l.rows) /\ IsFiniteSet(l.rows \ {r})
      /\ Cardinality(l.rows \ {r}) = Cardinality(l.rows) - 1
      /\ Cardinality(l.rows) \in Nat
  BY ListingFinite, FS_RemoveElement
<1>3. IsFiniteSet(A) /\ Cardinality(A) <= Cardinality(l.rows \ {r}) /\ Cardinality(A) \in Nat
  BY <1>1, <1>2, FS_Subset, FS_CardinalityType
<1>4. g \in Surjection(A, B)
  BY DEF Surjection, IdsAhead
<1> HIDE DEF A, g
<1>5. Cardinality(B) <= Cardinality(A) /\ Cardinality(B) \in Nat
  BY <1>3, <1>4, FS_Surjection, AheadFinite
<1> HIDE DEF B
<1>6. Cardinality(B) < Cardinality(l.rows)
  BY <1>2, <1>3, <1>5
<1>7. QED
  BY <1>6 DEF B

(* In every order of a list without ties, a row stands behind exactly the  *)
(* rows that are ahead of it.                                              *)
LEMMA Positions ==
  ASSUME NEW l, GoodListing(l), ~ Listings!Tied(l), NEW s \in Listings!Orders(l),
         NEW r \in l.rows
  PROVE  /\ s \in [1 .. Cardinality(l.rows) -> l.rows]
         /\ \E j \in 1 .. Cardinality(l.rows) :
              s[j] = r /\ Cardinality(IdsAhead(l, r)) = j - 1
<1> DEFINE n == Cardinality(l.rows)
<1>1. /\ s \in [1 .. n -> l.rows]
      /\ \A i, j \in 1 .. n : i # j => s[i] # s[j]
      /\ \A i, j \in 1 .. n : i < j => ~ Listings!Ahead(l, s[j], s[i])
  BY SameCardinality DEF Listings!Orders, Listings!SetToSeqs
<1>2. n \in Nat /\ IsFiniteSet(l.rows)
  BY ListingFinite
<1>3. PICK j \in 1 .. n : s[j] = r
  <2>1. s \in Injection(1 .. n, l.rows)
    BY <1>1 DEF Injection, IsInjective
  <2>2. Cardinality(1 .. n) = n
    BY <1>2, FS_Interval
  <2>3. s \in Surjection(1 .. n, l.rows)
    BY <1>2, <2>1, <2>2, FS_Injection
  <2>4. QED
    BY <2>3 DEF Surjection
<1>4. ASSUME NEW i \in 1 .. n PROVE Listings!Ahead(l, s[i], r) <=> i < j
  <2>1. s[i] \in l.rows /\ s[i][l.by] \in Nat /\ r[l.by] \in Nat
    BY <1>1, MomentsAreNat DEF GoodListing
  <2>2. CASE i < j
    <3>1. ~ Listings!Ahead(l, r, s[i]) /\ s[i] # r
      BY <1>1, <1>2, <1>3, <2>2
    <3>2. s[i][l.by] # r[l.by]
      BY <2>1, <3>1 DEF Listings!Tied
    <3>3. QED
      BY <2>1, <2>2, <3>1, <3>2 DEF Listings!Ahead
  <2>3. CASE i = j
    BY <1>3, <2>1, <2>3 DEF Listings!Ahead
  <2>4. CASE j < i
    <3>1. ~ Listings!Ahead(l, s[i], r) /\ ~ (i < j)
      BY <1>1, <1>2, <1>3, <2>4
    <3>2. QED
      BY <3>1
  <2>5. i \in Int /\ j \in Int
    OBVIOUS
  <2>6. QED
    BY <2>2, <2>3, <2>4, <2>5
<1> DEFINE g == [i \in 1 .. (j - 1) |-> s[i].id]
<1>5. \A i \in 1 .. (j - 1) : i \in 1 .. n /\ i < j
  BY <1>2, <1>3
<1>6. \A i \in 1 .. n : i < j => i \in 1 .. (j - 1)
  BY <1>2, <1>3
<1>7. g \in Bijection(1 .. (j - 1), IdsAhead(l, r))
  <2>1. \A i \in 1 .. (j - 1) : g[i] \in IdsAhead(l, r)
    BY <1>1, <1>4, <1>5 DEF IdsAhead
  <2>2. ASSUME NEW i \in 1 .. (j - 1), NEW k \in 1 .. (j - 1), g[i] = g[k] PROVE i = k
    <3>1. s[i] = s[k]
      BY <1>1, <1>5, <2>2 DEF GoodListing
    <3>2. QED
      BY <1>1, <1>5, <3>1
  <2>3. ASSUME NEW x \in IdsAhead(l, r) PROVE \E i \in 1 .. (j - 1) : g[i] = x
    <3>1. PICK u \in l.rows : Listings!Ahead(l, u, r) /\ x = u.id
      BY <2>3 DEF IdsAhead
    <3>2. PICK i \in 1 .. n : s[i] = u
      <4>1. s \in Injection(1 .. n, l.rows)
        BY <1>1 DEF Injection, IsInjective
      <4>2. Cardinality(1 .. n) = n
        BY <1>2, FS_Interval
      <4>3. s \in Surjection(1 .. n, l.rows)
        BY <1>2, <4>1, <4>2, FS_Injection
      <4>4. QED
        BY <4>3 DEF Surjection
    <3>3. i \in 1 .. (j - 1)
      BY <1>4, <1>6, <3>1, <3>2
    <3>4. QED
      BY <3>1, <3>2, <3>3
  <2> HIDE DEF g
  <2>4. DOMAIN g = 1 .. (j - 1) /\ g \in [1 .. (j - 1) -> IdsAhead(l, r)]
    BY <2>1 DEF g
  <2>5. QED
    BY <2>2, <2>3, <2>4 DEF Bijection, Injection, Surjection, IsInjective
<1> HIDE DEF g
<1>8. IsFiniteSet(1 .. (j - 1)) /\ Cardinality(1 .. (j - 1)) = j - 1
  <2>1. j \in Int /\ j - 1 \in Int /\ j >= 1
    BY <1>2, <1>3
  <2>2. /\ IsFiniteSet(1 .. (j - 1))
        /\ Cardinality(1 .. (j - 1)) = IF 1 > j - 1 THEN 0 ELSE (j - 1) - 1 + 1
    BY <2>1, FS_Interval
  <2>3. QED
    BY <2>1, <2>2
<1>9. Cardinality(IdsAhead(l, r)) = j - 1
  BY <1>7, <1>8, FS_Bijection DEF ExistsBijection
<1>10. QED
  BY <1>1, <1>3, <1>9

-----------------------------------------------------------------------------
(* What other requests do to a list: b is the list before a write, a after *)
(* it.                                                                     *)
Alike(b, a) == a.by = b.by /\ a.newest = b.newest /\ a.paged = b.paged
Stays(b, a) == \A r \in b.rows : \E t \in a.rows : t.id = r.id /\ t[b.by] = r[b.by]

LEMMA AheadStays ==
  ASSUME NEW b, NEW a, GoodListing(b), GoodListing(a), Alike(b, a), Stays(b, a),
         NEW r \in b.rows, NEW t \in a.rows, t.id = r.id
  PROVE  /\ t[b.by] = r[b.by]
         /\ IdsAhead(b, r) \subseteq IdsAhead(a, t)
         /\ Cardinality(IdsAhead(b, r)) <= Cardinality(IdsAhead(a, t))
<1>1. t[b.by] = r[b.by]
  BY DEF Stays, GoodListing
<1>2. ASSUME NEW u \in b.rows, Listings!Ahead(b, u, r) PROVE u.id \in IdsAhead(a, t)
  <2>1. PICK v \in a.rows : v.id = u.id /\ v[b.by] = u[b.by]
    BY DEF Stays
  <2>2. Listings!Ahead(a, v, t)
    BY <1>1, <1>2, <2>1 DEF Listings!Ahead, Alike
  <2>3. QED
    BY <2>1, <2>2 DEF IdsAhead
<1>3. IdsAhead(b, r) \subseteq IdsAhead(a, t)
  BY <1>2 DEF IdsAhead
<1>4. QED
  BY <1>1, <1>3, AheadFinite, FS_Subset

LEMMA NothingAhead ==
  ASSUME NEW b, NEW a, GoodListing(b), GoodListing(a), Alike(b, a), Stays(b, a),
         ~ \E t \in a.rows, r \in b.rows :
             t.id \notin Listings!Numbers(b.rows) /\ Listings!Ahead(b, t, r),
         NEW r \in b.rows, NEW t \in a.rows, t.id = r.id
  PROVE  Cardinality(IdsAhead(a, t)) <= Cardinality(IdsAhead(b, r))
<1>1. t[b.by] = r[b.by]
  BY AheadStays
<1>2. ASSUME NEW u \in a.rows, Listings!Ahead(a, u, t) PROVE u.id \in IdsAhead(b, r)
  <2>1. Listings!Ahead(b, u, r)
    BY <1>1, <1>2 DEF Listings!Ahead, Alike
  <2>2. PICK v \in b.rows : v.id = u.id
    BY <2>1 DEF Listings!Numbers
  <2>3. u[b.by] = v[b.by]
    BY <2>2, AheadStays
  <2>4. Listings!Ahead(b, v, r)
    BY <2>1, <2>3 DEF Listings!Ahead
  <2>5. QED
    BY <2>2, <2>4 DEF IdsAhead
<1>3. IdsAhead(a, t) \subseteq IdsAhead(b, r)
  BY <1>2 DEF IdsAhead
<1>4. QED
  BY <1>3, AheadFinite, FS_Subset

-----------------------------------------------------------------------------
(* The lists of the API are such lists, and stay alike.                    *)
TableTyped(rows) ==
  /\ rows \in [Ids -> Listings!Stored \cup {NoOne}]
  /\ \A i \in Ids : rows[i] # NoOne => rows[i].id = i

LEMMA RowsGood ==
  ASSUME TableTyped(x2)
  PROVE  /\ Listings!Rows \subseteq Listings!Stored
         /\ \A r, t \in Listings!Rows : r.id = t.id => r = t
BY SMTT(20) DEF TableTyped, Listings!Rows

LEMMA ListIs ==
  ASSUME NEW q \in Listings!Query
  PROVE  \E rows \in SUBSET Listings!Rows, after \in SUBSET Listings!Rows',
            by \in {"made", "changed"}, newest \in BOOLEAN, paged \in BOOLEAN :
           /\ Listings!List(q) = Listings!Listing(rows, by, newest, paged)
           /\ Listings!List(q)' = Listings!Listing(after, by, newest, paged)
<1>1. q.by \in {"made", "changed"} /\ q.newest \in BOOLEAN /\ q.name \in Listings!Names
  BY DEF Listings!Query
<1> USE DEF Listings!List
<1>2. CASE q.name = "communities"
  BY <1>1, <1>2 DEF Listings!ListCommunities, Listings!Sorted, Listings!InState, Listings!Live
<1>3. CASE q.name = "search"
  BY <1>1, <1>3 DEF Listings!SearchCommunities, Listings!Sorted, Listings!Live
<1>4. CASE q.name = "members"
  BY <1>1, <1>4 DEF Listings!ListMembers, Listings!InState, Listings!Of, Listings!Live
<1>5. CASE q.name = "transactions"
  BY <1>1, <1>5 DEF Listings!ListTransactions, Listings!InState, Listings!Of
<1>6. CASE q.name = "tokens"
  BY <1>1, <1>6 DEF Listings!ListTokens, Listings!Sorted
<1>7. CASE q.name = "loans"
  BY <1>1, <1>7 DEF Listings!ListLoans, Listings!Sorted, Listings!InState, Listings!Of
<1>8. CASE q.name = "loan events"
  BY <1>1, <1>8 DEF Listings!ListLoanEvents, Listings!Of
<1>9. CASE q.name = "requests"
  BY <1>1, <1>9 DEF Listings!ListRequests, Listings!InState, Listings!Of
<1>10. CASE q.name = "reputation"
  BY <1>1, <1>10 DEF Listings!ListReputation, Listings!Sorted, Listings!Of
<1>11. CASE q.name = "history"
  BY <1>1, <1>11 DEF Listings!BalanceHistory
<1>12. CASE q.name = "account loans"
  BY <1>1, <1>12 DEF Listings!AccountLoans
<1>13. CASE q.name = "community loans"
  BY <1>1, <1>13 DEF Listings!CommunityLoans, Listings!Of
<1>14. CASE q.name = "proposals"
  BY <1>1, <1>14 DEF Listings!ListProposals, Listings!InState, Listings!Of
<1>15. CASE q.name = "loan"
  BY <1>1, <1>15 DEF Listings!LoanDetail, Listings!Of
<1>16. CASE q.name = "address"
  BY <1>1, <1>16 DEF Listings!AddressReputation
<1>17. CASE q.name = "community"
  BY <1>1, <1>17 DEF Listings!CommunityDetail, Listings!Of
<1>18. QED
  BY <1>1, <1>2, <1>3, <1>4, <1>5, <1>6, <1>7, <1>8, <1>9, <1>10, <1>11, <1>12, <1>13,
     <1>14, <1>15, <1>16, <1>17 DEF Listings!Names

LEMMA ListGood ==
  ASSUME TableTyped(x2), NEW q \in Listings!Query
  PROVE  GoodListing(Listings!List(q))
<1>1. PICK rows \in SUBSET Listings!Rows, by \in {"made", "changed"},
           newest \in BOOLEAN, paged \in BOOLEAN :
        Listings!List(q) = Listings!Listing(rows, by, newest, paged)
  BY ListIs
<1>2. QED
  BY <1>1, RowsGood DEF GoodListing, Listings!Listing

AllGood == TableTyped(x2) => \A q \in Listings!Query : GoodListing(Listings!List(q))

LEMMA ListsGood == AllGood
BY ListGood DEF AllGood

LEMMA ListAlike ==
  ASSUME NEW q \in Listings!Query
  PROVE  Alike(Listings!List(q), Listings!List(q)')
<1>1. PICK rows \in SUBSET Listings!Rows, after \in SUBSET Listings!Rows',
           by \in {"made", "changed"}, newest \in BOOLEAN, paged \in BOOLEAN :
        /\ Listings!List(q) = Listings!Listing(rows, by, newest, paged)
        /\ Listings!List(q)' = Listings!Listing(after, by, newest, paged)
  BY ListIs
<1>2. QED
  BY <1>1 DEF Alike, Listings!Listing

LEMMA ListSame ==
  ASSUME NEW q, UNCHANGED x2
  PROVE  Listings!List(q)' = Listings!List(q)
<1>1. Listings!Rows' = Listings!Rows
  BY DEF Listings!Rows
<1>2. QED
  BY <1>1 DEF Listings!List, Listings!ListCommunities, Listings!SearchCommunities,
     Listings!ListMembers, Listings!ListTransactions, Listings!ListTokens,
     Listings!ListLoans, Listings!ListLoanEvents, Listings!ListRequests,
     Listings!ListReputation, Listings!BalanceHistory, Listings!AccountLoans,
     Listings!CommunityLoans, Listings!ListProposals, Listings!LoanDetail,
     Listings!AddressReputation, Listings!CommunityDetail, Listings!Live, Listings!Of,
     Listings!InState, Listings!Sorted

-----------------------------------------------------------------------------
(* Pages.                                                                  *)
LEMMA LimitPositive ==
  ASSUME NEW q \in Listings!Query
  PROVE  Listings!Limit(q) \in Nat /\ Listings!Limit(q) >= 1
<1>1. q.limit \in Int
  BY ListingsAssumption DEF Listings!Query
<1>2. QED
  BY <1>1, ListingsAssumption DEF Listings!Limit

LEMMA OffsetIs ==
  ASSUME NEW q \in Listings!Query, NEW page \in Nat \ {0}
  PROVE  /\ Listings!Offset(q, page) \in Nat /\ Listings!Offset(q, 1) = 0
         /\ Listings!Offset(q, page + 1) = Listings!Offset(q, page) + Listings!Limit(q)
         /\ Listings!Offset(q, page + 1) = page * Listings!Limit(q)
<1> DEFINE d == Listings!Limit(q)
<1>1. d \in Nat /\ page - 1 \in Nat /\ page \in Nat
  BY LimitPositive
<1> HIDE DEF d
<1>2. (page - 1) * d \in Nat /\ (1 - 1) * d = 0
  BY <1>1
<1>3. ((page + 1) - 1) * d = (page - 1) * d + d
  BY <1>1
<1>4. ((page + 1) - 1) * d = page * d
  BY <1>1
<1>5. QED
  BY <1>2, <1>3, <1>4 DEF Listings!Offset, d

LEMMA PagesEnough ==
  ASSUME NEW count \in Nat, NEW limit \in Nat, limit >= 1,
         NEW page \in Nat, page >= Listings!Pages(count, limit)
  PROVE  page * limit >= count
<1> DEFINE p == Listings!Pages(count, limit)
<1>1. p \in Nat /\ p * limit >= count /\ page >= p
  BY DEF Listings!Pages
<1> HIDE DEF p
<1>2. page * limit >= p * limit
  BY <1>1
<1>3. p * limit \in Nat /\ page * limit \in Nat
  BY <1>1
<1>4. QED
  BY <1>1, <1>2, <1>3

LEMMA PagesNat ==
  ASSUME NEW count \in Nat, NEW limit \in Nat, limit >= 1
  PROVE  Listings!Pages(count, limit) \in Nat
BY DEF Listings!Pages

(* The walk, once it has begun.                                            *)
Going(w) == ~ (w.stage = "idle" /\ w.page = 1) /\ w.stage # "missing"
Passed(w) ==
  IF w.stage = "shown" THEN Listings!Offset(w.query, w.page + 1)
                       ELSE Listings!Offset(w.query, w.page)

Steady(l, w) ==
  /\ w.stage = "finished" => w.start \subseteq w.seen
  /\ w.stage # "finished" =>
       /\ ~ Listings!Tied(l) /\ w.start \subseteq Listings!Numbers(l.rows)
       /\ l.paged => \A r \in l.rows :
            r.id \in w.start \ w.seen => Cardinality(IdsAhead(l, r)) >= Passed(w)
       /\ l.paged /\ w.stage = "selecting" => \A r \in l.rows :
            r.id \in w.start => Cardinality(IdsAhead(l, r)) < w.count
       /\ w.stage = "shown" /\ w.page >= w.pages => w.start \subseteq w.seen

ListingsTyped ==
  /\ x1 \in FirstTime .. LastWrite /\ TableTyped(x2)
  /\ \A i \in Ids : x2[i] # NoOne => x2[i].made <= x1
  /\ x3 \in SUBSET Communities /\ x4 \in Listings!Walk

WalkInv ==
  /\ ListingsTyped
  /\ Going(x4) /\ ~ x4.disturbed => Steady(Listings!List(x4.query), x4)

(* A write that does not disturb a walk.                                   *)
LEMMA WriteSteady ==
  ASSUME NEW b, NEW a, GoodListing(b), GoodListing(a), Alike(b, a),
         x4.stage # "finished", ~ Listings!Disturbs(b, a), x4 \in Listings!Walk, Steady(b, x4)
  PROVE  Steady(a, x4)
<1>1. Stays(b, a) /\ ~ Listings!Tied(a)
  BY DEF Listings!Disturbs, Stays
<1>2. x4.start \subseteq Listings!Numbers(a.rows)
  BY <1>1 DEF Steady, Stays, Listings!Numbers
<1>3. ASSUME NEW t \in a.rows, t.id \in x4.start
      PROVE  \E r \in b.rows : t.id = r.id
  BY <1>3 DEF Steady, Listings!Numbers
<1>4. ASSUME a.paged, NEW t \in a.rows, t.id \in x4.start \ x4.seen
      PROVE  Cardinality(IdsAhead(a, t)) >= Passed(x4)
  <2>1. PICK r \in b.rows : t.id = r.id
    BY <1>3, <1>4
  <2>2. Cardinality(IdsAhead(b, r)) >= Passed(x4)
    BY <1>4, <2>1 DEF Steady, Alike
  <2>3. Cardinality(IdsAhead(b, r)) <= Cardinality(IdsAhead(a, t))
    BY <1>1, <2>1, AheadStays
  <2>4. Passed(x4) \in Nat
    BY OffsetIs DEF Passed, Listings!Walk
  <2>5. Cardinality(IdsAhead(b, r)) \in Nat /\ Cardinality(IdsAhead(a, t)) \in Nat
    BY AheadFinite
  <2>6. QED
    BY <2>2, <2>3, <2>4, <2>5
<1>5. ASSUME a.paged, x4.stage = "selecting", NEW t \in a.rows, t.id \in x4.start
      PROVE  Cardinality(IdsAhead(a, t)) < x4.count
  <2>1. PICK r \in b.rows : t.id = r.id
    BY <1>3, <1>5
  <2>2. Cardinality(IdsAhead(b, r)) < x4.count
    BY <1>5, <2>1 DEF Steady, Alike
  <2>3. Cardinality(IdsAhead(a, t)) <= Cardinality(IdsAhead(b, r))
    <3>1. ~ \E u \in a.rows, v \in b.rows :
              u.id \notin Listings!Numbers(b.rows) /\ Listings!Ahead(b, u, v)
      BY <1>5 DEF Listings!Disturbs
    <3>2. QED
      BY <1>1, <2>1, <3>1, NothingAhead
  <2>4. x4.count \in Nat
    BY DEF Listings!Walk
  <2>5. Cardinality(IdsAhead(b, r)) \in Nat /\ Cardinality(IdsAhead(a, t)) \in Nat
    BY AheadFinite
  <2>6. QED
    BY <2>2, <2>3, <2>4, <2>5
<1>6. QED
  BY <1>1, <1>2, <1>4, <1>5 DEF Steady

(* What a page shows: a row that was ahead of it has been passed, and one  *)
(* that is not in it stands behind it.                                     *)
LEMMA SelectSteady ==
  ASSUME NEW l, GoodListing(l), NEW w \in Listings!Walk, NEW v \in Listings!Walk,
         w.stage = "selecting", Steady(l, w), NEW order \in Listings!Orders(l),
         v.stage = "shown", v.query = w.query, v.page = w.page, v.start = w.start,
         v.seen = w.seen \cup
           {order[i].id : i \in IF l.paged
                                  THEN Listings!Window(w.query, w.page, Len(order))
                                  ELSE DOMAIN order},
         v.pages = IF l.paged THEN Listings!Pages(w.count, Listings!Limit(w.query)) ELSE 1
  PROVE  Steady(l, v)
<1> DEFINE n == Cardinality(l.rows)
           d == Listings!Limit(w.query)
<1>0. /\ w.query \in Listings!Query /\ w.page \in Nat \ {0} /\ w.count \in Nat
      /\ ~ Listings!Tied(l) /\ w.start \subseteq Listings!Numbers(l.rows) /\ n \in Nat
  BY ListingFinite DEF Listings!Walk, Steady
<1>1. ASSUME l.paged, NEW r \in l.rows, r.id \in v.start \ v.seen
      PROVE  Cardinality(IdsAhead(l, r)) >= Listings!Offset(w.query, w.page + 1)
  <2> DEFINE c == Cardinality(IdsAhead(l, r))
             o == Listings!Offset(w.query, w.page)
  <2>1. PICK j \in 1 .. n : order[j] = r /\ c = j - 1
    BY <1>0, Positions
  <2>2. Len(order) = n
    <3>1. order \in [1 .. n -> l.rows]
      BY <1>0, Positions
    <3>2. QED
      BY <1>0, <3>1
  <2>3. o \in Nat /\ d \in Nat /\ Listings!Offset(w.query, w.page + 1) = o + d
    BY <1>0, OffsetIs, LimitPositive
  <2>4. c >= o
    BY <1>1 DEF Steady, Passed
  <2>5. j \notin Listings!Window(w.query, w.page, n)
    BY <1>1, <2>1, <2>2
  <2>6. ~ (o < j /\ j <= o + d)
    BY <2>5 DEF Listings!Window
  <2> HIDE DEF c, o, d, n
  <2>7. c >= o + d
    <3>1. j \in Int
      BY <2>1
    <3>2. QED
      BY <2>1, <2>3, <2>4, <2>6, <3>1
  <2>8. QED
    BY <2>3, <2>7 DEF c
<1>2. ASSUME ~ l.paged PROVE v.start \subseteq v.seen
  <2>1. ASSUME NEW r \in l.rows PROVE r.id \in v.seen
    <3>1. PICK j \in 1 .. n : order[j] = r
      BY <1>0, Positions
    <3>2. j \in DOMAIN order
      BY <1>0, Positions
    <3>3. QED
      BY <1>2, <3>1, <3>2
  <2>2. QED
    BY <1>0, <2>1 DEF Listings!Numbers
<1>3. ASSUME l.paged, v.page >= v.pages PROVE v.start \subseteq v.seen
  <2> SUFFICES ASSUME NEW r \in l.rows, r.id \in v.start \ v.seen PROVE FALSE
    BY <1>0 DEF Listings!Numbers
  <2>1. Cardinality(IdsAhead(l, r)) >= w.page * d
    BY <1>0, <1>1, <1>3, OffsetIs
  <2>2. w.page * d >= w.count
    BY <1>0, <1>3, PagesEnough, LimitPositive
  <2>3. Cardinality(IdsAhead(l, r)) < w.count
    BY <1>3 DEF Steady
  <2>4. Cardinality(IdsAhead(l, r)) \in Nat /\ w.page * d \in Nat /\ w.count \in Nat
    BY <1>0, AheadFinite, LimitPositive
  <2>5. QED
    BY <2>1, <2>2, <2>3, <2>4
<1>4. QED
  BY <1>0, <1>1, <1>2, <1>3 DEF Steady, Passed

-----------------------------------------------------------------------------
(* The client's own steps leave the tables alone.                          *)
LEMMA WalkStep ==
  ASSUME WalkInv, UNCHANGED <<x1, x2, x3>>, x4' \in Listings!Walk, x4'.query = x4.query,
         Going(x4') /\ ~ x4'.disturbed => Steady(Listings!List(x4.query), x4')
  PROVE  WalkInv'
<1>1. PICK q \in {x4.query} : q = x4.query
  OBVIOUS
<1>2. Listings!List(q)' = Listings!List(q)
  BY ListSame
<1>3. Going(x4') /\ ~ x4'.disturbed => Steady(Listings!List(q)', x4')
  BY <1>1, <1>2
<1>4. (Going(x4) /\ ~ x4.disturbed => Steady(Listings!List(x4.query), x4))'
  BY <1>1, <1>3
<1>5. ListingsTyped'
  BY DEF WalkInv, ListingsTyped, TableTyped
<1>6. QED
  BY <1>4, <1>5 DEF WalkInv

LEMMA WalkList ==
  ASSUME WalkInv
  PROVE  /\ x4 \in Listings!Walk /\ x4.query \in Listings!Query
         /\ GoodListing(Listings!List(x4.query)) /\ Listings!Listed = Listings!List(x4.query)
         /\ IsFiniteSet(Listings!List(x4.query).rows)
         /\ Listings!Numbers(Listings!List(x4.query).rows) \in SUBSET Ids
         /\ Going(x4) /\ ~ x4.disturbed => Steady(Listings!List(x4.query), x4)
<1>1. TableTyped(x2) /\ x4 \in Listings!Walk
  BY DEF WalkInv, ListingsTyped
<1>2. x4.query \in Listings!Query
  BY <1>1 DEF Listings!Walk
<1>3. GoodListing(Listings!List(x4.query))
  BY <1>1, <1>2, ListGood
<1>4. Listings!Numbers(Listings!List(x4.query).rows) \in SUBSET Ids
  BY <1>3, MomentsAreNat DEF Listings!Numbers, GoodListing
<1>5. QED
  BY <1>1, <1>2, <1>3, <1>4, ListingFinite DEF WalkInv, Listings!Listed

LEMMA RequestKeeps ==
  ASSUME WalkInv, Listings!Request
  PROVE  WalkInv'
<1> DEFINE l == Listings!List(x4.query)
<1>1. /\ x4 \in Listings!Walk /\ x4.query \in Listings!Query /\ GoodListing(l)
      /\ Listings!Listed = l /\ Listings!Numbers(l.rows) \in SUBSET Ids
      /\ Going(x4) /\ ~ x4.disturbed => Steady(l, x4)
  BY WalkList
<1> HIDE DEF l
<1>2. /\ x4' \in Listings!Walk /\ x4'.query = x4.query /\ x4'.page = x4.page
      /\ x4'.stage \in {"missing", "counting", "selecting"}
      /\ x4'.stage = "selecting" => ~ l.paged
      /\ x4'.start = IF x4.page = 1 THEN Listings!Numbers(l.rows) ELSE x4.start
      /\ x4'.seen = x4.seen /\ x4'.disturbed = (x4.disturbed \/ Listings!Tied(l))
  <2>1. x4.stage = "idle"
    BY DEF Listings!Request
  <2> DEFINE stage == IF Listings!Guarded(x4.query) /\ x4.query.community \notin x3
                        THEN "missing" ELSE IF l.paged THEN "counting" ELSE "selecting"
             start == IF x4.page = 1 THEN Listings!Numbers(l.rows) ELSE x4.start
             disturbed == x4.disturbed \/ Listings!Tied(l)
  <2>2. x4' = [x4 EXCEPT !.stage = stage, !.start = start, !.disturbed = disturbed]
    BY <1>1 DEF Listings!Request, Listings!Walk
  <2>4. /\ stage \in {"missing", "counting", "selecting"}
        /\ stage = "selecting" => ~ l.paged
    OBVIOUS
  <2>5. start \in SUBSET Ids
    BY <1>1 DEF Listings!Walk
  <2>6. disturbed \in BOOLEAN
    OBVIOUS
  <2> HIDE DEF stage, start, disturbed
  <2>7. /\ x4' \in Listings!Walk /\ x4'.query = x4.query /\ x4'.page = x4.page
        /\ x4'.stage = stage /\ x4'.start = start /\ x4'.seen = x4.seen
        /\ x4'.disturbed = disturbed
    BY <1>1, <2>2, <2>4, <2>5, <2>6 DEF Listings!Walk
  <2>3. QED
    BY <2>4, <2>7 DEF start, disturbed
<1>3. Going(x4') /\ ~ x4'.disturbed => Steady(l, x4')
  <2> SUFFICES ASSUME Going(x4'), ~ x4'.disturbed PROVE Steady(l, x4')
    OBVIOUS
  <2>1. CASE x4.page = 1
    <3>1. Passed(x4') = 0
      BY <1>1, <1>2, <2>1, OffsetIs DEF Passed
    <3>2. \A r \in l.rows : Cardinality(IdsAhead(l, r)) >= 0
      BY <1>1, AheadFinite
    <3>3. QED
      BY <1>2, <2>1, <3>1, <3>2 DEF Steady
  <2>2. CASE x4.page # 1
    <3>1. Steady(l, x4) /\ x4.stage = "idle"
      BY <1>1, <1>2, <2>2 DEF Going, Listings!Request
    <3>2. Passed(x4') = Passed(x4)
      BY <1>2, <3>1 DEF Passed
    <3>3. QED
      BY <1>2, <2>2, <3>1, <3>2 DEF Steady
  <2>3. QED
    BY <2>1, <2>2
<1>4. UNCHANGED <<x1, x2, x3>>
  BY DEF Listings!Request
<1>5. QED
  BY <1>2, <1>3, <1>4, WalkStep DEF l

LEMMA CountKeeps ==
  ASSUME WalkInv, Listings!CountRows
  PROVE  WalkInv'
<1> DEFINE l == Listings!List(x4.query)
<1>1. /\ x4 \in Listings!Walk /\ GoodListing(l) /\ Listings!Listed = l
      /\ Going(x4) /\ ~ x4.disturbed => Steady(l, x4)
  BY WalkList
<1> HIDE DEF l
<1>2. /\ x4.stage = "counting"
      /\ x4' = [x4 EXCEPT !.stage = "selecting", !.count = Cardinality(l.rows)]
  BY <1>1, SameCardinality DEF Listings!CountRows
<1>3. x4' \in Listings!Walk
  BY <1>1, <1>2, ListingFinite DEF Listings!Walk
<1>4. /\ x4'.query = x4.query /\ x4'.page = x4.page /\ x4'.stage = "selecting"
      /\ x4'.start = x4.start /\ x4'.seen = x4.seen /\ x4'.disturbed = x4.disturbed
      /\ x4'.count = Cardinality(l.rows)
  BY <1>1, <1>2 DEF Listings!Walk
<1>5. ASSUME Going(x4'), ~ x4'.disturbed PROVE Steady(l, x4')
  <2>1. Steady(l, x4)
    BY <1>1, <1>2, <1>4, <1>5 DEF Going
  <2>2. Passed(x4') = Passed(x4)
    BY <1>2, <1>4 DEF Passed
  <2>3. \A r \in l.rows : Cardinality(IdsAhead(l, r)) < x4'.count
    BY <1>1, <1>4, AheadFewer
  <2>4. QED
    BY <1>2, <1>4, <2>1, <2>2, <2>3 DEF Steady
<1>6. UNCHANGED <<x1, x2, x3>>
  BY DEF Listings!CountRows
<1>7. QED
  BY <1>3, <1>4, <1>5, <1>6, WalkStep DEF l

LEMMA SelectKeeps ==
  ASSUME WalkInv, Listings!SelectRows
  PROVE  WalkInv'
<1> DEFINE l == Listings!List(x4.query)
<1>1. /\ x4 \in Listings!Walk /\ x4.query \in Listings!Query
      /\ GoodListing(l) /\ Listings!Listed = l
      /\ Going(x4) /\ ~ x4.disturbed => Steady(l, x4)
  BY WalkList, SMTT(20)
<1> HIDE DEF l
<1>2. PICK order \in Listings!Orders(l) :
        x4' = [x4 EXCEPT !.stage = "shown",
                 !.seen = @ \cup {order[i].id : i \in IF l.paged
                                     THEN Listings!Window(x4.query, x4.page, Len(order))
                                     ELSE DOMAIN order},
                 !.pages = IF l.paged THEN Listings!Pages(x4.count, Listings!Limit(x4.query))
                                      ELSE 1]
  BY <1>1 DEF Listings!SelectRows
<1> DEFINE shown == {order[i].id : i \in IF l.paged
                        THEN Listings!Window(x4.query, x4.page, Len(order))
                        ELSE DOMAIN order}
           pages == IF l.paged THEN Listings!Pages(x4.count, Listings!Limit(x4.query)) ELSE 1
<1>3. shown \subseteq Ids
  <2>1. order \in [1 .. Cardinality(l.rows) -> l.rows] /\ Cardinality(l.rows) \in Nat
    BY <1>1, ListingFinite, SameCardinality DEF Listings!Orders, Listings!SetToSeqs
  <2>2. Len(order) = Cardinality(l.rows)
    BY <2>1
  <2>3. \A i \in 1 .. Cardinality(l.rows) : order[i].id \in Ids
    BY <1>1, <2>1, MomentsAreNat DEF GoodListing
  <2>4. QED
    BY <2>1, <2>2, <2>3 DEF Listings!Window
<1>4. pages \in Nat
  BY <1>1, PagesNat, LimitPositive DEF Listings!Walk
<1>5. x4' = [x4 EXCEPT !.stage = "shown", !.seen = x4.seen \cup shown, !.pages = pages]
  BY <1>1, <1>2 DEF Listings!Walk
<1>6. /\ x4' \in Listings!Walk /\ x4'.query = x4.query /\ x4'.page = x4.page
      /\ x4'.stage = "shown" /\ x4'.start = x4.start /\ x4'.seen = x4.seen \cup shown
      /\ x4'.pages = pages /\ x4'.disturbed = x4.disturbed
  <2> HIDE DEF shown, pages
  <2>1. QED
    BY <1>1, <1>3, <1>4, <1>5 DEF Listings!Walk
<1>7. x4.stage = "selecting" /\ UNCHANGED <<x1, x2, x3>>
  BY DEF Listings!SelectRows
<1>8. ASSUME Going(x4'), ~ x4'.disturbed PROVE Steady(l, x4')
  <2>1. Steady(l, x4)
    BY <1>1, <1>6, <1>7, <1>8 DEF Going
  <2>2. PICK v \in {x4'} : v = x4'
    OBVIOUS
  <2>3. PICK w \in {x4} : w = x4
    OBVIOUS
  <2>4. Steady(l, v)
    BY <1>1, <1>6, <1>7, <2>1, <2>2, SelectSteady
  <2>5. QED
    BY <2>2, <2>4
<1>9. QED
  BY <1>6, <1>7, <1>8, WalkStep DEF l

LEMMA FailKeeps ==
  ASSUME WalkInv, Listings!RequestFails
  PROVE  WalkInv'
<1> DEFINE l == Listings!List(x4.query)
<1>1. /\ x4 \in Listings!Walk
      /\ Going(x4) /\ ~ x4.disturbed => Steady(l, x4)
  BY WalkList
<1> HIDE DEF l
<1>2. /\ x4.stage \in {"counting", "selecting"} /\ x4' = [x4 EXCEPT !.stage = "idle"]
      /\ UNCHANGED <<x1, x2, x3>>
  BY DEF Listings!RequestFails
<1>3. /\ x4' \in Listings!Walk /\ x4'.query = x4.query /\ x4'.page = x4.page
      /\ x4'.stage = "idle" /\ x4'.start = x4.start /\ x4'.seen = x4.seen
      /\ x4'.disturbed = x4.disturbed
  BY <1>1, <1>2 DEF Listings!Walk
<1>4. ASSUME Going(x4'), ~ x4'.disturbed PROVE Steady(l, x4')
  <2>1. Steady(l, x4) /\ Passed(x4') = Passed(x4)
    BY <1>1, <1>2, <1>3, <1>4 DEF Going, Passed
  <2>2. QED
    BY <1>2, <1>3, <2>1 DEF Steady
<1>5. QED
  BY <1>2, <1>3, <1>4, WalkStep DEF l

LEMMA NextPageKeeps ==
  ASSUME WalkInv, Listings!NextPage
  PROVE  WalkInv'
<1> DEFINE l == Listings!List(x4.query)
<1>1. /\ x4 \in Listings!Walk
      /\ Going(x4) /\ ~ x4.disturbed => Steady(l, x4)
  BY WalkList
<1> HIDE DEF l
<1>2. /\ x4.stage = "shown" /\ UNCHANGED <<x1, x2, x3>>
      /\ x4' = IF x4.page < x4.pages THEN [x4 EXCEPT !.page = x4.page + 1, !.stage = "idle"]
                                     ELSE [x4 EXCEPT !.stage = "finished"]
  BY DEF Listings!NextPage
<1>3. x4.page \in Nat \ {0} /\ x4.page + 1 \in Nat \ {0} /\ x4.pages \in Nat
  BY <1>1 DEF Listings!Walk
<1>4. /\ x4' \in Listings!Walk /\ x4'.query = x4.query
      /\ x4'.start = x4.start /\ x4'.seen = x4.seen /\ x4'.disturbed = x4.disturbed
      /\ \/ x4'.page = x4.page + 1 /\ x4'.stage = "idle"
         \/ x4.page >= x4.pages /\ x4'.stage = "finished"
  <2>1. CASE x4.page < x4.pages
    BY <1>1, <1>2, <1>3, <2>1 DEF Listings!Walk
  <2>2. CASE ~ (x4.page < x4.pages)
    BY <1>1, <1>2, <1>3, <2>2 DEF Listings!Walk
  <2>3. QED
    BY <2>1, <2>2
<1>5. ASSUME Going(x4'), ~ x4'.disturbed PROVE Steady(l, x4')
  <2>1. Steady(l, x4)
    BY <1>1, <1>2, <1>4, <1>5 DEF Going
  <2>2. CASE x4'.page = x4.page + 1 /\ x4'.stage = "idle"
    <3>1. Passed(x4') = Passed(x4)
      BY <1>2, <1>4, <2>2 DEF Passed
    <3>2. QED
      BY <1>2, <1>4, <2>1, <2>2, <3>1 DEF Steady
  <2>3. CASE x4.page >= x4.pages /\ x4'.stage = "finished"
    BY <1>2, <1>4, <2>1, <2>3 DEF Steady
  <2>4. QED
    BY <1>4, <2>2, <2>3
<1>6. QED
  BY <1>2, <1>4, <1>5, WalkStep DEF l

-----------------------------------------------------------------------------
(* The other requests.                                                     *)
LEMMA TableWritten ==
  ASSUME TableTyped(x2), NEW i \in Ids, NEW row \in Listings!Stored, row.id = i,
         x2' = [x2 EXCEPT ![i] = row]
  PROVE  /\ TableTyped(x2')
         /\ \A j \in Ids : x2'[j] = IF j = i THEN row ELSE x2[j]
<1>1. x2 \in [Ids -> Listings!Stored \cup {NoOne}]
  BY DEF TableTyped
<1>2. /\ x2' \in [Ids -> Listings!Stored \cup {NoOne}]
      /\ \A j \in Ids : x2'[j] = IF j = i THEN row ELSE x2[j]
  BY <1>1
<1>3. QED
  BY <1>2 DEF TableTyped

LEMMA WriteKeeps ==
  ASSUME WalkInv, NEW i \in Ids, NEW row \in Listings!Stored, row.id = i,
         x1' \in FirstTime .. LastWrite, x1' >= x1, row.made <= x1',
         x4.stage # "finished", Listings!Write(i, row)
  PROVE  WalkInv'
<1>1. /\ TableTyped(x2) /\ x1 \in FirstTime .. LastWrite /\ x3 \in SUBSET Communities
      /\ \A j \in Ids : x2[j] # NoOne => x2[j].made <= x1
  BY DEF WalkInv, ListingsTyped
<1>2. /\ x4 \in Listings!Walk /\ x4.query \in Listings!Query
      /\ Going(x4) /\ ~ x4.disturbed => Steady(Listings!List(x4.query), x4)
  BY WalkList
<1>3. x2' = [x2 EXCEPT ![i] = row] /\ x3' = x3
  BY DEF Listings!Write
<1>4. PICK q \in {x4.query} :
        x4' = [x4 EXCEPT !.disturbed = x4.disturbed \/ (x4.stage # "finished"
                 /\ Listings!Disturbs(Listings!List(q), Listings!List(q)'))]
  BY <1>2 DEF Listings!Write, Listings!Walk
<1>5. q \in Listings!Query /\ q = x4.query
  BY <1>2, <1>4
<1> DEFINE disturbed == x4.disturbed \/
             (x4.stage # "finished" /\ Listings!Disturbs(Listings!List(q), Listings!List(q)'))
<1>6. x4' = [x4 EXCEPT !.disturbed = disturbed] /\ disturbed \in BOOLEAN
  BY <1>4
<1>7. disturbed \/ ~ Listings!Disturbs(Listings!List(q), Listings!List(q)')
  OBVIOUS
<1>8. x4.disturbed => disturbed
  OBVIOUS
<1> HIDE DEF disturbed
<1>9. /\ x4' \in Listings!Walk /\ x4'.query = x4.query /\ x4'.page = x4.page
      /\ x4'.stage = x4.stage /\ x4'.start = x4.start /\ x4'.seen = x4.seen
      /\ x4'.count = x4.count /\ x4'.pages = x4.pages /\ x4'.disturbed = disturbed
  BY <1>2, <1>6 DEF Listings!Walk
<1>10. TableTyped(x2') /\ \A j \in Ids : x2'[j] = IF j = i THEN row ELSE x2[j]
  BY <1>1, <1>3, TableWritten
<1>11. GoodListing(Listings!List(q)) /\ Alike(Listings!List(q), Listings!List(q)')
  BY <1>1, <1>5, ListGood, ListAlike
<1>12. GoodListing(Listings!List(q)')
  <2>1. AllGood'
    BY ListsGood, PTL
  <2>2. QED
    BY <1>5, <1>10, <2>1 DEF AllGood
<1>13. ASSUME Going(x4'), ~ x4'.disturbed PROVE Steady(Listings!List(q)', x4')
  <2>1. Steady(Listings!List(q), x4) /\ ~ Listings!Disturbs(Listings!List(q), Listings!List(q)')
    BY <1>2, <1>5, <1>7, <1>8, <1>9, <1>13 DEF Going
  <2>2. PICK b \in {Listings!List(q)} : b = Listings!List(q)
    OBVIOUS
  <2>3. PICK a \in {Listings!List(q)'} : a = Listings!List(q)'
    OBVIOUS
  <2>4. Steady(a, x4)
    BY <1>2, <1>11, <1>12, <2>1, <2>2, <2>3, WriteSteady
  <2>5. Steady(a, x4')
    BY <1>9, <2>4 DEF Steady, Passed
  <2>6. QED
    BY <2>3, <2>5
<1>14. (Going(x4) /\ ~ x4.disturbed => Steady(Listings!List(x4.query), x4))'
  BY <1>5, <1>9, <1>13
<1>15. ListingsTyped'
  <2>1. \A j \in Ids : x2'[j] # NoOne => x2'[j].made <= x1'
    <3>1. TAKE j \in Ids
    <3>2. CASE j = i
      BY <1>10, <3>2
    <3>3. CASE j # i
      <4>1. x2'[j] = x2[j] /\ x2[j] \in Listings!Stored \cup {NoOne}
        BY <1>1, <1>10, <3>3 DEF TableTyped
      <4>2. CASE x2[j] # NoOne
        <5>1. x2[j].made \in Nat /\ x2[j].made <= x1
          BY <1>1, <4>1, <4>2 DEF Listings!Stored
        <5>2. x1 \in Int /\ x1' \in Int
          BY <1>1, ListingsAssumption
        <5>3. QED
          BY <4>1, <5>1, <5>2
      <4>3. QED
        BY <4>1, <4>2
    <3>4. QED
      BY <3>2, <3>3
  <2>2. QED
    BY <1>1, <1>3, <1>9, <1>10, <2>1 DEF ListingsTyped
<1>16. QED
  BY <1>14, <1>15 DEF WalkInv

LEMMA NextMoment ==
  ASSUME WalkInv, Listings!Tick
  PROVE  x1' \in FirstTime .. LastWrite /\ x1' >= x1 /\ x1 \in Nat /\ x1' \in Nat
<1>1. x1 \in FirstTime .. LastWrite
  BY DEF WalkInv, ListingsTyped
<1>2. QED
  BY <1>1, ListingsAssumption DEF Listings!Tick

LEMMA InsertKeeps ==
  ASSUME WalkInv, NEW i \in Ids, NEW shape \in Shapes, Listings!Insert(i, shape)
  PROVE  WalkInv'
<1>1. /\ x4.stage # "finished" /\ Listings!Tick
      /\ Listings!Write(i, Listings!Row(i, shape, x1'))
  BY DEF Listings!Insert
<1>2. PICK m \in {x1'} : m = x1'
  OBVIOUS
<1>3. m \in Nat /\ x1' \in FirstTime .. LastWrite /\ x1' >= x1 /\ m <= x1'
  BY <1>1, <1>2, NextMoment
<1>4. PICK row \in {Listings!Row(i, shape, m)} : row = Listings!Row(i, shape, m)
  OBVIOUS
<1>5. row \in Listings!Stored /\ row.id = i /\ row.made = m
  BY <1>3, <1>4 DEF Listings!Row, Listings!Stored
<1>6. Listings!Write(i, row)
  BY <1>1, <1>2, <1>4
<1>7. QED
  BY <1>1, <1>3, <1>5, <1>6, WriteKeeps

LEMMA StoredAt ==
  ASSUME WalkInv, NEW i \in Ids, x2[i] # NoOne
  PROVE  x2[i] \in Listings!Stored /\ x2[i].id = i /\ x2[i].made <= x1 /\ x2[i].made \in Nat
<1>1. x2[i] \in Listings!Stored
  BY DEF WalkInv, ListingsTyped, TableTyped
<1>2. QED
  BY <1>1 DEF WalkInv, ListingsTyped, TableTyped, Listings!Stored

LEMMA UpdateKeeps ==
  ASSUME WalkInv, NEW i \in Ids, NEW state \in States, Listings!Update(i, state)
  PROVE  WalkInv'
<1>1. /\ x4.stage # "finished" /\ Listings!Tick /\ x2[i] # NoOne
      /\ Listings!Write(i, [x2[i] EXCEPT !.state = state, !.changed = x1'])
  BY DEF Listings!Update
<1>2. PICK m \in {x1'} : m = x1'
  OBVIOUS
<1>3. m \in Nat /\ x1' \in FirstTime .. LastWrite /\ x1' >= x1 /\ x1 \in Nat /\ x1' \in Nat
  BY <1>1, <1>2, NextMoment
<1>4. PICK old \in Listings!Stored : old = x2[i] /\ old.id = i /\ old.made <= x1 /\ old.made \in Nat
  BY <1>1, StoredAt
<1>5. PICK row \in {[old EXCEPT !.state = state, !.changed = m]} :
        row = [old EXCEPT !.state = state, !.changed = m]
  OBVIOUS
<1>6. row \in Listings!Stored /\ row.id = i /\ row.made = old.made
  BY <1>3, <1>4, <1>5 DEF Listings!Stored
<1>7. Listings!Write(i, row)
  BY <1>1, <1>2, <1>4, <1>5
<1>8. row.made <= x1'
  BY <1>3, <1>4, <1>6
<1>9. QED
  BY <1>1, <1>3, <1>6, <1>7, <1>8, WriteKeeps

LEMMA DeleteKeeps ==
  ASSUME WalkInv, NEW i \in Ids, Listings!Delete(i)
  PROVE  WalkInv'
<1>1. /\ x4.stage # "finished" /\ Listings!Tick /\ x2[i] # NoOne
      /\ Listings!Write(i, [x2[i] EXCEPT !.live = FALSE])
  BY DEF Listings!Delete
<1>2. x1' \in FirstTime .. LastWrite /\ x1' >= x1 /\ x1 \in Nat /\ x1' \in Nat
  BY <1>1, NextMoment
<1>3. PICK old \in Listings!Stored : old = x2[i] /\ old.id = i /\ old.made <= x1 /\ old.made \in Nat
  BY <1>1, StoredAt
<1>4. PICK row \in {[old EXCEPT !.live = FALSE]} : row = [old EXCEPT !.live = FALSE]
  OBVIOUS
<1>5. row \in Listings!Stored /\ row.id = i /\ row.made = old.made
  BY <1>3, <1>4 DEF Listings!Stored
<1>6. Listings!Write(i, row)
  BY <1>1, <1>3, <1>4
<1>7. row.made <= x1'
  BY <1>2, <1>3, <1>5
<1>8. QED
  BY <1>1, <1>2, <1>5, <1>6, <1>7, WriteKeeps

LEMMA CloseKeeps ==
  ASSUME WalkInv, Listings!DeleteCommunity
  PROVE  WalkInv'
<1>1. UNCHANGED <<x1, x2, x4>> /\ x3' \subseteq x3
  BY DEF Listings!DeleteCommunity
<1>2. PICK q \in {x4.query} : q = x4.query
  OBVIOUS
<1>3. Listings!List(q)' = Listings!List(q)
  BY <1>1, ListSame
<1>4. (Going(x4) /\ ~ x4.disturbed => Steady(Listings!List(x4.query), x4))'
  BY <1>1, <1>2, <1>3 DEF WalkInv
<1>5. ListingsTyped'
  BY <1>1 DEF WalkInv, ListingsTyped, TableTyped
<1>6. QED
  BY <1>4, <1>5 DEF WalkInv

LEMMA WalkBegins == Listings!Init => WalkInv
<1> SUFFICES ASSUME Listings!Init PROVE WalkInv
  OBVIOUS
<1>1. x1 = FirstTime /\ x2 \in First /\ x3 = Communities
  BY DEF Listings!Init
<1>2. PICK q \in Listings!Query :
        x4 = [stage |-> "idle", query |-> q, page |-> 1, count |-> 0, pages |-> 0,
              start |-> {}, seen |-> {}, disturbed |-> FALSE]
  BY DEF Listings!Init
<1>3. x4 \in Listings!Walk /\ x4.stage = "idle" /\ x4.page = 1
  <2>1. 0 \in Nat /\ 1 \in Nat \ {0} /\ {} \in SUBSET Ids
    OBVIOUS
  <2>2. QED
    BY <1>2, <2>1 DEF Listings!Walk
<1>4. ~ Going(x4)
  BY <1>3 DEF Going
<1>5. TableTyped(x2) /\ \A i \in Ids : x2[i] # NoOne => x2[i].made <= FirstTime
  BY <1>1, ListingsAssumption DEF TableTyped
<1>6. FirstTime \in FirstTime .. LastWrite
  BY ListingsAssumption
<1>7. QED
  BY <1>1, <1>3, <1>4, <1>5, <1>6 DEF WalkInv, ListingsTyped

LEMMA WalkInvImplies == WalkInv => Listings!TypeOK /\ Listings!WalkComplete
<1> SUFFICES ASSUME WalkInv PROVE Listings!TypeOK /\ Listings!WalkComplete
  OBVIOUS
<1>1. Listings!TypeOK
  BY DEF WalkInv, ListingsTyped, TableTyped, Listings!TypeOK
<1>2. ASSUME x4.stage = "finished", ~ x4.disturbed PROVE x4.start \subseteq x4.seen
  BY <1>2 DEF WalkInv, Going, Steady
<1>3. QED
  BY <1>1, <1>2 DEF Listings!WalkComplete

(* A client that goes from page to page has seen, at the end, every row    *)
(* that was listed when it began, for every list of the API, any number of *)
(* rows and any page size asked for, unless the walk was disturbed         *)
(* (http.ts: pageMeta, parsePagination; usePagination.ts).                 *)
THEOREM WalksAreComplete == MCSpec => []WalkComplete
<1> DEFINE Inv == part = "Listings" => WalkInv
<1>1. MCInit => Inv
  BY WalkBegins DEF MCInit
<1>2. ASSUME Inv, [MCNext]_<<part, vars, xs>> PROVE Inv'
  <2> SUFFICES ASSUME part = "Listings", part' = part PROVE WalkInv'
    BY <1>2 DEF MCNext
  <2>1. WalkInv
    BY <1>2
  <2>2. CASE Listings!Next
    <3>1. CASE Listings!Request
      BY <2>1, <3>1, RequestKeeps
    <3>2. CASE Listings!CountRows
      BY <2>1, <3>2, CountKeeps
    <3>3. CASE Listings!SelectRows
      BY <2>1, <3>3, SelectKeeps
    <3>4. CASE Listings!RequestFails
      BY <2>1, <3>4, FailKeeps
    <3>5. CASE Listings!NextPage
      BY <2>1, <3>5, NextPageKeeps
    <3>6. CASE \E i \in Ids : \E shape \in Shapes : Listings!Insert(i, shape)
      BY <2>1, <3>6, InsertKeeps
    <3>7. CASE \E i \in Ids : \E state \in States : Listings!Update(i, state)
      BY <2>1, <3>7, UpdateKeeps
    <3>8. CASE \E i \in Ids : Listings!Delete(i)
      BY <2>1, <3>8, DeleteKeeps
    <3>9. CASE Listings!DeleteCommunity
      BY <2>1, <3>9, CloseKeeps
    <3>10. QED
      BY <2>2, <3>1, <3>2, <3>3, <3>4, <3>5, <3>6, <3>7, <3>8, <3>9 DEF Listings!Next
  <2>3. CASE UNCHANGED xs
    <3>1. UNCHANGED <<x1, x2, x3, x4>>
      BY <2>3 DEF xs
    <3>2. QED
      BY <2>1, <3>1, WalkStep, WalkList
  <2>4. QED
    BY <1>2, <2>2, <2>3 DEF MCNext, xs
<1>3. Inv => WalkComplete
  BY WalkInvImplies DEF WalkComplete
<1>4. QED
  BY <1>1, <1>2, <1>3, PTL DEF MCSpec
=============================================================================
