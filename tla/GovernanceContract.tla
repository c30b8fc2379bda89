------------------------ MODULE GovernanceContract ------------------------
(***************************************************************************)
(* The whole governance contract (contracts/governance/src/lib.rs): voting *)
(* (GovernanceVoting), control (GovernanceAdmin) and pending upgrades      *)
(* (GovernanceUpgrades) over one contract storage and one ledger clock.    *)
(*                                                                         *)
(* The parts meet in three places.  initialize sets up voting and the      *)
(* admin seat in one call.  The scoped pause of the admin part, for the    *)
(* scope "Global", is the switch voting checks (assert_not_paused).  And   *)
(* the holders of the admin part's Upgrade role are the accounts that may  *)
(* propose and approve upgrades (assert_role).  Each part leaves that much *)
(* of its surroundings open; here the openings are closed.                 *)
(***************************************************************************)
EXTENDS Integers, Sequences

CONSTANTS Accounts, NoOne, NoConfig, None,
          Roles, Scopes, UpgradeIds, Hashes,
          Global,        \* GLOBAL_SCOPE
          Configs, InitialBalances, TransferAmounts, TTLs, TransferTTL,
          I128Max, U64Max,
          MaxProposals, MaxTime, MaxHistory, MaxPauses, MaxProposed

ASSUME GlobalAssumption == Global \in Scopes

VARIABLES
  config, proposalCount, proposals, votes, voteUsed, delegation, delegators,
  balance, counted,
  admin, roles, pending, history, pauseScope, pauseHistory, attempts,
  recoveries, blessed,
  upgrades, hashIndex, approvers, proposed, round, approvedIn,
  now

votingState  == <<config, proposalCount, proposals, votes, voteUsed,
                  delegation, delegators, balance, counted>>
adminState   == <<admin, roles, pending, history, pauseScope, pauseHistory,
                  attempts, recoveries, blessed>>
upgradeState == <<upgrades, hashIndex, approvers, proposed, round, approvedIn>>
vars == <<votingState, adminState, upgradeState, now>>

Voting   == INSTANCE GovernanceVoting WITH paused <- pauseScope[Global]
Admin    == INSTANCE GovernanceAdmin
Upgrades == INSTANCE GovernanceUpgrades WITH
              upgraders <- {a \in Accounts : <<a, "Upgrade">> \in roles}

(* What GovernanceAdmin assumes of its constants, which are this module's. *)
ASSUME RolesAssumption ==
  Roles \subseteq Admin!AllRoles /\ {"Pause"} \cup Admin!ControlRoles \subseteq Roles
ASSUME AbsentAssumption == NoOne \notin Accounts
ASSUME BoundsAssumption ==
  /\ TransferTTL \in Nat /\ U64Max \in Nat /\ MaxTime \in Nat
  /\ MaxHistory \in Nat /\ MaxPauses \in Nat

Init == Admin!Init /\ Voting!Init /\ Upgrades!Init

-----------------------------------------------------------------------------
(* Faulty: initialize may be called again by the admin.                    *)
InitializeAgain(a, c) ==
  /\ admin \in {NoOne, a}
  /\ admin' = a
  /\ config' = c
  /\ UNCHANGED <<proposalCount, proposals, votes, voteUsed, delegation,
                 delegators, balance, counted, roles, pending, history,
                 pauseScope, pauseHistory, attempts, recoveries, blessed,
                 upgradeState, now>>

Initialize(a, c) ==
  /\ Admin!Initialize(a)
  /\ Voting!Initialize(c)
  /\ UNCHANGED upgradeState

(* create_proposal, delegate, undelegate, cast_vote, finalize_proposal and *)
(* execute_proposal.                                                       *)
VotingStep ==
  /\ UNCHANGED <<adminState, upgradeState>>
  /\ Voting!VotingCall

(* Transfers in the token's own contract.                                  *)
TokenStep ==
  /\ UNCHANGED <<adminState, upgradeState>>
  /\ \E from, to \in Accounts, amount \in TransferAmounts :
       Voting!TransferTokens(from, to, amount)

(* The calls on roles, the admin seat and the pauses.                      *)
AdminStep ==
  /\ Admin!AdminCall
  /\ UNCHANGED <<votingState, upgradeState>>

(* The calls on pending upgrades.                                          *)
UpgradeStep ==
  /\ UNCHANGED <<votingState, adminState>>
  /\ Upgrades!UpgradeCall

Tick ==
  /\ Admin!Tick
  /\ UNCHANGED <<votingState, upgradeState>>

Next ==
  \/ \E a \in Accounts, c \in Configs : Initialize(a, c)
  \/ VotingStep
  \/ TokenStep
  \/ AdminStep
  \/ UpgradeStep
  \/ Tick

Spec == Init /\ [][Next]_vars

-----------------------------------------------------------------------------
(* Properties.                                                             *)

(* Every part behaves, inside the contract, as its own module says: what   *)
(* holds of the parts on their own holds of the contract.                  *)
ImplementsVoting   == Voting!Spec
ImplementsAdmin    == Admin!Spec
ImplementsUpgrades == Upgrades!Spec

ImplementsParts == ImplementsVoting /\ ImplementsAdmin /\ ImplementsUpgrades

(* Who approves an upgrade holds the Upgrade role by the doing of an admin *)
(* (a grant of its own, or the handover of its seat), whatever the holders *)
(* of the operational roles do in between.                                 *)
ApprovalsTraceToAdmin ==
  [][\A u \in UpgradeIds : \A a \in approvers'[u] \ approvers[u] :
       <<a, "Upgrade">> \in blessed]_vars

(* While the history says the last transition of the "Global" scope was a  *)
(* pause, no proposal is created and no ballot counted (docs of            *)
(* execute_pause); what is open may still be finalised and executed.       *)
GloballyPaused ==
  \E i \in 1 .. Len(pauseHistory) :
    Admin!LastRecord(Global, i) /\ pauseHistory[i].is_paused

PauseStopsVoting ==
  [][GloballyPaused => UNCHANGED <<proposalCount, votes, voteUsed>>]_vars
=============================================================================
