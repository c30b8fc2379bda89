------------------------ MODULE MCGovernanceContract ------------------------
(* A small instance of the whole contract: two accounts, one proposal, one *)
(* handover, one upgrade, each part beside the others that it reads; and,  *)
(* one beside the other since they share nothing with the contract,        *)
(* instances of MemberList and TransferScreen.                             *)
EXTENDS GovernanceContract, TLC

CONSTANTS
  Queries, PagesOf, MaxRetries,                      \* of MemberList
  TypedKeys, OfferedAssets, Lumen, TypedAmounts,     \* of TransferScreen
  SenderFunds, MaxSends, MaxSeq

MCRoles == {"Pause", "Upgrade", "Recovery"}
OneConfig == {[voting_period |-> 1, quorum_bps |-> 5000, total_supply |-> 2]}
TwoConfigs == OneConfig \cup
  {[voting_period |-> 1, quorum_bps |-> 10000, total_supply |-> 1]}
OneEach == [a \in Accounts |-> 1]
OneHolder == {[a \in Accounts |-> IF a = b THEN 1 ELSE 0] : b \in Accounts}
MCBalances == {OneEach} \cup OneHolder
AnyPermutation == Permutations(Accounts)

VARIABLES
  part, \* the component this behaviour is of
  x1, x2, x3, x4, x5, x6, x7, x8, x9 \* its state

xs == <<x1, x2, x3, x4, x5, x6, x7, x8, x9>>

(* Ballots under the real holders of the Pause role and the real pause, or *)
(* handovers, roles and upgrades: each with the other part at rest.        *)
VotingScenario ==
  /\ balance # OneEach
  /\ attempts = 0 /\ history = <<>> /\ proposed = 0
  /\ \A r \in roles : r[2] = "Pause" \/ r[1] = admin
UpgradesScenario ==
  /\ balance = OneEach /\ config \in OneConfig \cup {NoConfig}
  /\ proposalCount = 0 /\ pauseHistory = <<>> /\ now <= 1
  /\ \A a \in Accounts : delegation[a] = NoOne
Scenario == part = "GovernanceContract" => VotingScenario \/ UpgradesScenario

MemberList == INSTANCE MemberList WITH
  Pages <- PagesOf, None <- NoOne, props <- x1, state <- x2, ran <- x3,
  previous <- x4, fetches <- x5, stale <- x6, asked <- x7

(* From the last page of the longer query there is no such page of the     *)
(* other, which has more than one.                                         *)
MCPages == "short" :> 2 @@ "long" :> 3

ASSUME ListAssumption ==
  /\ PagesOf \in [Queries -> Nat \ {0}] /\ MaxRetries \in Nat
  /\ NoOne \notin Nat

(* TypedAmounts: one that loses its sign, one that loses its exponent and  *)
(* one the server alone refuses.                                           *)
TransferScreen == INSTANCE TransferScreen WITH
  Recipients <- TypedKeys, Assets <- OfferedAssets, Native <- Lumen,
  Typed <- TypedAmounts, Funds <- SenderFunds,
  None <- NoOne, form <- x1, flow <- x2, shown <- x3, wallet <- x4, seq <- x5,
  applied <- x6, posted <- x7, reply <- x8, asked <- x9

ASSUME TransferAssumption ==
  NoOne \notin {"building", "signing", "submitting", "refreshing",
                "accepted", "refused", "unknown"}

(* One component moves; the others wait in an initial state.               *)
MCInit ==
  /\ Init
  /\ \/ /\ part = "GovernanceContract"
        /\ x1 = NoOne /\ x2 = NoOne /\ x3 = NoOne /\ x4 = NoOne
        /\ x5 = NoOne /\ x6 = NoOne /\ x7 = NoOne
        /\ x8 = NoOne /\ x9 = NoOne
     \/ /\ part = "MemberList" /\ MemberList!Init
        /\ x8 = NoOne /\ x9 = NoOne /\ balance = OneEach
     \/ /\ part = "TransferScreen" /\ TransferScreen!Init
        /\ balance = OneEach

MCNext ==
  \/ part = "GovernanceContract" /\ Next /\ UNCHANGED <<part, xs>>
  \/ part = "MemberList" /\ MemberList!Next
     /\ UNCHANGED <<part, vars, x8, x9>>
  \/ part = "TransferScreen" /\ TransferScreen!Next /\ UNCHANGED <<part, vars>>

MCSpec == MCInit /\ [][MCNext]_<<part, vars, xs>>

-----------------------------------------------------------------------------
(* What holds of each component beside the contract.                       *)

(* MemberList: the rows on the screen are those of the page and the query  *)
(* on the screen, and where the total is known the page is the one asked   *)
(* for.                                                                    *)
PageShown ==
  part = "MemberList" =>
    MemberList!TypeOK /\ MemberList!RowsOfThisPage /\ MemberList!PageKept

(* MemberList: the page asked for is shown also where the list fetches its *)
(* members itself (MemberList.tsx: "Self-fetching").                       *)
AskedPageShown == part = "MemberList" => MemberList!AskedPageShown

(* TransferScreen: what is applied is what was asked and signed, once; a   *)
(* hash or an error tells the truth unless an answer was lost.             *)
TransferSound == part = "TransferScreen" => TransferScreen!TransferSound
=============================================================================
