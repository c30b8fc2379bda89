---------------------- MODULE GovernanceContractProofs ----------------------
(***************************************************************************)
(* Proofs that each part of the governance contract keeps, inside the      *)
(* contract, to its own specification.  With them every safety theorem of  *)
(* the parts carries over to the contract: the guards the contract adds    *)
(* and the calls of the other parts only restrict or stutter.              *)
(* And about MemberList and TransferScreen, which MCGovernanceContract     *)
(* checks beside the contract, for any queries and pages, and for anything *)
(* that is typed, any funds and any number of attempts.                    *)
(***************************************************************************)
EXTENDS MCGovernanceContract, TLAPS

(* The one fact the refinements rest on: whatever the admin part does to   *)
(* the scope "Global", it remains a switch.                                *)
PauseTyped == pauseScope \in [Scopes -> BOOLEAN]

LEMMA PauseTypedInit == Init => PauseTyped
  BY DEF Init, Admin!Init, PauseTyped

-----------------------------------------------------------------------------
(* What the calls of a part leave alone.                                   *)

LEMMA AdminCallFrame ==
  ASSUME Admin!AdminCall, PauseTyped
  PROVE  now' = now /\ PauseTyped'
<1>1. CASE \E actor, a \in Accounts, r \in Roles :
             Admin!GrantRole(actor, a, r) \/ Admin!RevokeRole(actor, a, r)
  BY <1>1 DEF Admin!GrantRole, Admin!RevokeRole, Admin!pauseVars, PauseTyped
<1>2. CASE \E actor, a \in Accounts :
             Admin!ProposeAdminTransfer(actor, a) \/ Admin!RecoverAdmin(actor, a)
  BY <1>2 DEF Admin!ProposeAdminTransfer, Admin!RecoverAdmin,
              Admin!pauseVars, PauseTyped
<1>3. CASE \E actor \in Accounts :
             Admin!AcceptAdminTransfer(actor) \/ Admin!CancelAdminTransfer(actor)
  BY <1>3 DEF Admin!AcceptAdminTransfer, Admin!CancelAdminTransfer,
              Admin!pauseVars, PauseTyped
<1>4. CASE Admin!SweepExpiredAdminTransfer
  BY <1>4 DEF Admin!SweepExpiredAdminTransfer, Admin!pauseVars, PauseTyped
<1>5. CASE \E actor \in Accounts, s \in Scopes, flag \in BOOLEAN :
             Admin!SetPause(actor, s, flag)
  BY <1>5 DEF Admin!SetPause, PauseTyped
<1> QED
  BY <1>1, <1>2, <1>3, <1>4, <1>5 DEF Admin!AdminCall

LEMMA VotingCallFrame ==
  ASSUME Voting!VotingCall
  PROVE  now' = now
<1>1. CASE Voting!CreateProposal
  BY <1>1 DEF Voting!CreateProposal
<1>2. CASE \E d, e \in Accounts : Voting!Delegate(d, e)
  BY <1>2 DEF Voting!Delegate
<1>3. CASE \E d \in Accounts : Voting!Undelegate(d)
  BY <1>3 DEF Voting!Undelegate
<1>4. CASE \E p \in Voting!ProposalIds, choice \in Voting!VoteChoice, v \in Accounts :
             Voting!CastVote(p, choice, v)
  BY <1>4 DEF Voting!CastVote
<1>5. CASE \E p \in Voting!ProposalIds :
             Voting!FinalizeProposal(p) \/ Voting!ExecuteProposal(p)
  BY <1>5 DEF Voting!FinalizeProposal, Voting!ExecuteProposal
<1> QED
  BY <1>1, <1>2, <1>3, <1>4, <1>5 DEF Voting!VotingCall

LEMMA UpgradeCallFrame ==
  ASSUME Upgrades!UpgradeCall
  PROVE  now' = now
<1>1. CASE \E actor \in Accounts, u \in UpgradeIds, hash \in Hashes, ttl \in TTLs :
             Upgrades!ProposeUpgrade(actor, u, hash, ttl)
  BY <1>1 DEF Upgrades!ProposeUpgrade
<1>2. CASE \E actor \in Accounts, u \in UpgradeIds : Upgrades!ApproveUpgrade(actor, u)
  BY <1>2 DEF Upgrades!ApproveUpgrade
<1>3. CASE Upgrades!SweepExpiredUpgrades
  BY <1>3 DEF Upgrades!SweepExpiredUpgrades
<1> QED
  BY <1>1, <1>2, <1>3 DEF Upgrades!UpgradeCall

LEMMA PauseTypedStep ==
  ASSUME PauseTyped, [Next]_vars
  PROVE  PauseTyped'
<1>1. CASE \E a \in Accounts, c \in Configs : Initialize(a, c)
  BY <1>1 DEF Initialize, Admin!Initialize, Admin!pauseVars, PauseTyped
<1>2. CASE VotingStep
  BY <1>2 DEF VotingStep, adminState, PauseTyped
<1>3. CASE TokenStep
  BY <1>3 DEF TokenStep, adminState, PauseTyped
<1>4. CASE AdminStep
  BY <1>4, AdminCallFrame DEF AdminStep
<1>5. CASE UpgradeStep
  BY <1>5 DEF UpgradeStep, adminState, PauseTyped
<1>6. CASE Tick
  BY <1>6 DEF Tick, Admin!Tick, Admin!pauseVars, PauseTyped
<1>7. CASE UNCHANGED vars
  BY <1>7 DEF vars, adminState, PauseTyped
<1> QED
  BY <1>1, <1>2, <1>3, <1>4, <1>5, <1>6, <1>7 DEF Next

(* The switches stay switches.                                             *)
LEMMA PauseTypedAlways == Spec => []PauseTyped
  BY PauseTypedInit, PauseTypedStep, PTL DEF Spec

-----------------------------------------------------------------------------
(* A step of the contract is a step of each part, or leaves the part as it *)
(* is.                                                                     *)

LEMMA VotingSimulates ==
  ASSUME PauseTyped, PauseTyped', [Next]_vars
  PROVE  [Voting!Next]_(Voting!vars)
<1> USE DEF Voting!vars, Voting!contractVars
<1>1. CASE \E a \in Accounts, c \in Configs : Initialize(a, c)
  BY <1>1 DEF Initialize, Voting!Next
<1>2. CASE VotingStep
  BY <1>2 DEF VotingStep, Voting!Next
<1>3. CASE TokenStep
  BY <1>3 DEF TokenStep, Voting!Next
<1>4. CASE AdminStep
  <2>1. now' = now /\ UNCHANGED votingState
    BY <1>4, AdminCallFrame DEF AdminStep
  <2>2. pauseScope'[Global] \in BOOLEAN
    BY GlobalAssumption DEF PauseTyped
  <2>3. Voting!SetGlobalPause(pauseScope'[Global])
    BY <2>1 DEF Voting!SetGlobalPause, votingState
  <2> QED
    BY <2>2, <2>3 DEF Voting!Next
<1>5. CASE UpgradeStep
  BY <1>5, UpgradeCallFrame DEF UpgradeStep, votingState, adminState
<1>6. CASE Tick
  BY <1>6 DEF Tick, Admin!Tick, Admin!pauseVars, votingState,
              Voting!Tick, Voting!Next
<1>7. CASE UNCHANGED vars
  BY <1>7 DEF vars, votingState, adminState
<1> QED
  BY <1>1, <1>2, <1>3, <1>4, <1>5, <1>6, <1>7 DEF Next

LEMMA AdminSimulates ==
  ASSUME [Next]_vars
  PROVE  [Admin!Next]_(Admin!vars)
<1> USE DEF Admin!vars, Admin!roleVars, Admin!seatVars, Admin!pauseVars
<1>1. CASE \E a \in Accounts, c \in Configs : Initialize(a, c)
  BY <1>1 DEF Initialize, Admin!Next
<1>2. CASE VotingStep
  BY <1>2, VotingCallFrame DEF VotingStep, adminState
<1>3. CASE TokenStep
  BY <1>3 DEF TokenStep, Voting!TransferTokens, adminState
<1>4. CASE AdminStep
  BY <1>4 DEF AdminStep, Admin!Next
<1>5. CASE UpgradeStep
  BY <1>5, UpgradeCallFrame DEF UpgradeStep, adminState
<1>6. CASE Tick
  BY <1>6 DEF Tick, Admin!Next
<1>7. CASE UNCHANGED vars
  BY <1>7 DEF vars, adminState
<1> QED
  BY <1>1, <1>2, <1>3, <1>4, <1>5, <1>6, <1>7 DEF Next

(* Any change of the roles is a change of the upgraders that the upgrade   *)
(* part allows.                                                            *)
LEMMA UpgradesSimulates ==
  ASSUME [Next]_vars
  PROVE  [Upgrades!Next]_(Upgrades!vars)
<1> USE DEF Upgrades!vars, Upgrades!upgradeVars
<1>1. ASSUME UNCHANGED upgradeState, now' = now
      PROVE  Upgrades!Next
  <2> DEFINE holders == {a \in Accounts : <<a, "Upgrade">> \in roles'}
  <2>1. holders \in SUBSET Accounts
    OBVIOUS
  <2>2. \E x \in SUBSET Accounts : Upgrades!ChangeUpgraders(x)
    BY <1>1, <2>1 DEF Upgrades!ChangeUpgraders, upgradeState
  <2> QED
    BY <2>2 DEF Upgrades!Next
<1>2. CASE \E a \in Accounts, c \in Configs : Initialize(a, c)
  BY <1>1, <1>2 DEF Initialize, Admin!Initialize
<1>3. CASE VotingStep
  BY <1>1, <1>3, VotingCallFrame DEF VotingStep
<1>4. CASE TokenStep
  BY <1>1, <1>4 DEF TokenStep, Voting!TransferTokens
<1>5. CASE AdminStep
  <2>1. now' = now
    BY <1>5 DEF AdminStep, Admin!AdminCall, Admin!GrantRole, Admin!RevokeRole,
       Admin!ProposeAdminTransfer, Admin!RecoverAdmin, Admin!AcceptAdminTransfer,
       Admin!CancelAdminTransfer, Admin!SweepExpiredAdminTransfer, Admin!SetPause
  <2> QED
    BY <1>1, <1>5, <2>1 DEF AdminStep
<1>6. CASE UpgradeStep
  BY <1>6 DEF UpgradeStep, Upgrades!Next
<1>7. CASE Tick
  BY <1>7 DEF Tick, Admin!Tick, Admin!roleVars, Upgrades!Tick, upgradeState,
              Upgrades!Next
<1>8. CASE UNCHANGED vars
  BY <1>8 DEF vars, adminState, upgradeState
<1> QED
  BY <1>2, <1>3, <1>4, <1>5, <1>6, <1>7, <1>8 DEF Next

-----------------------------------------------------------------------------
(* Inside the contract the voting part behaves as GovernanceVoting says:   *)
(* its invariants, its frozen tallies and the abstract ballot hold there.  *)
THEOREM ContractImplementsVoting == Spec => ImplementsVoting
<1>1. Init => Voting!Init
  BY GlobalAssumption DEF Init, Admin!Init, Voting!Init
<1> QED
  BY <1>1, PauseTypedAlways, VotingSimulates, PTL
     DEF Spec, ImplementsVoting, Voting!Spec

(* Inside the contract the admin part behaves as GovernanceAdmin says: the *)
(* history is a chain of custody and control is not escalated.             *)
THEOREM ContractImplementsAdmin == Spec => ImplementsAdmin
<1>1. Init => Admin!Init
  BY DEF Init
<1> QED
  BY <1>1, AdminSimulates, PTL DEF Spec, ImplementsAdmin, Admin!Spec

(* Inside the contract the upgrade part behaves as GovernanceUpgrades      *)
(* says, with the holders of the Upgrade role as its upgraders.            *)
THEOREM ContractImplementsUpgrades == Spec => ImplementsUpgrades
<1>1. Init => Upgrades!Init
  BY DEF Init, Upgrades!Init
<1> QED
  BY <1>1, UpgradesSimulates, PTL DEF Spec, ImplementsUpgrades, Upgrades!Spec

(* What holds of the parts on their own holds of the contract.             *)
THEOREM ContractImplementsParts == Spec => ImplementsParts
BY ContractImplementsVoting, ContractImplementsAdmin,
   ContractImplementsUpgrades, PTL DEF ImplementsParts

-----------------------------------------------------------------------------
(* The theorems of GovernanceAdminProofs, of the contract's admin part.    *)
(* That module is an instance of its own, with the same substitutions as   *)
(* Admin, so its actions are Admin's; the prover has to be shown that.     *)
AdminProofs == INSTANCE GovernanceAdminProofs

LEMMA SameInit == Admin!Init => AdminProofs!Init
BY DEF Admin!Init, AdminProofs!Init, Admin!NoPending, AdminProofs!NoPending

LEMMA SameVars == Admin!vars = AdminProofs!vars
BY DEF Admin!vars, AdminProofs!vars, Admin!roleVars, AdminProofs!roleVars,
       Admin!seatVars, AdminProofs!seatVars, Admin!pauseVars, AdminProofs!pauseVars

LEMMA SameTakeSeat == \A new : Admin!TakeSeat(new) <=> AdminProofs!TakeSeat(new)
BY DEF Admin!TakeSeat, AdminProofs!TakeSeat, Admin!Inherited, AdminProofs!Inherited,
       Admin!HasRole, AdminProofs!HasRole

LEMMA SameNext == Admin!Next => AdminProofs!Next
<1> USE DEF Admin!roleVars, AdminProofs!roleVars,
       Admin!seatVars, AdminProofs!seatVars, Admin!pauseVars, AdminProofs!pauseVars,
       Admin!IsPending, AdminProofs!IsPending, Admin!NoPending, AdminProofs!NoPending,
       Admin!HasRole, AdminProofs!HasRole, Admin!Record, AdminProofs!Record,
       Admin!CanManage, AdminProofs!CanManage, Admin!ControlRoles, AdminProofs!ControlRoles
<1>1. \A a : Admin!Initialize(a) => AdminProofs!Initialize(a)
  BY DEF Admin!Initialize, AdminProofs!Initialize
<1>2. \A x, a, r : Admin!GrantRole(x, a, r) => AdminProofs!GrantRole(x, a, r)
  BY DEF Admin!GrantRole, AdminProofs!GrantRole
<1>3. \A x, a, r : Admin!RevokeRole(x, a, r) => AdminProofs!RevokeRole(x, a, r)
  BY DEF Admin!RevokeRole, AdminProofs!RevokeRole
<1>4. \A x, a : Admin!ProposeAdminTransfer(x, a) => AdminProofs!ProposeAdminTransfer(x, a)
  BY DEF Admin!ProposeAdminTransfer, AdminProofs!ProposeAdminTransfer
<1>5. \A x : Admin!AcceptAdminTransfer(x) => AdminProofs!AcceptAdminTransfer(x)
  BY SameTakeSeat DEF Admin!AcceptAdminTransfer, AdminProofs!AcceptAdminTransfer
<1>6. \A x : Admin!CancelAdminTransfer(x) => AdminProofs!CancelAdminTransfer(x)
  BY DEF Admin!CancelAdminTransfer, AdminProofs!CancelAdminTransfer
<1>7. Admin!SweepExpiredAdminTransfer => AdminProofs!SweepExpiredAdminTransfer
  BY DEF Admin!SweepExpiredAdminTransfer, AdminProofs!SweepExpiredAdminTransfer
<1>8. \A x, a : Admin!RecoverAdmin(x, a) => AdminProofs!RecoverAdmin(x, a)
  BY SameTakeSeat DEF Admin!RecoverAdmin, AdminProofs!RecoverAdmin
<1>9. \A x, s, f : Admin!SetPause(x, s, f) => AdminProofs!SetPause(x, s, f)
  BY DEF Admin!SetPause, AdminProofs!SetPause
<1>10. Admin!Tick => AdminProofs!Tick
  BY DEF Admin!Tick, AdminProofs!Tick
<1> QED
  BY <1>1, <1>2, <1>3, <1>4, <1>5, <1>6, <1>7, <1>8, <1>9, <1>10
     DEF Admin!Next, AdminProofs!Next, Admin!AdminCall, AdminProofs!AdminCall

(* What the contract does to the admin part's state, that part does.       *)
LEMMA AdminRuns == Spec => AdminProofs!Spec
<1>1. Init => AdminProofs!Init
  BY SameInit DEF Init
<1>2. [Next]_vars => [AdminProofs!Next]_(AdminProofs!vars)
  <2> SUFFICES ASSUME [Next]_vars PROVE [AdminProofs!Next]_(AdminProofs!vars)
    OBVIOUS
  <2>1. CASE Admin!Next
    BY <2>1, SameNext
  <2>2. CASE UNCHANGED Admin!vars
    <3>1. UNCHANGED AdminProofs!vars
      BY <2>2 DEF Admin!vars, AdminProofs!vars, Admin!roleVars, AdminProofs!roleVars,
         Admin!seatVars, AdminProofs!seatVars, Admin!pauseVars, AdminProofs!pauseVars
    <3> QED BY <3>1
  <2> QED
    BY <2>1, <2>2, AdminSimulates
<1> QED
  BY <1>1, <1>2, PTL DEF Spec, AdminProofs!Spec

(* So the admin part's two invariants hold of the contract.                *)
LEMMA AdminInvariants ==
  Spec => [](AdminProofs!NoEscalation /\ AdminProofs!PauseMatchesHistory)
<1>1. AdminProofs!Spec => []AdminProofs!NoEscalation
  BY AdminProofs!ControlNotEscalated,
     RolesAssumption, AbsentAssumption, BoundsAssumption
     DEF AdminProofs!AllRoles, Admin!AllRoles,
         AdminProofs!ControlRoles, Admin!ControlRoles
<1>2. AdminProofs!Spec => []AdminProofs!PauseMatchesHistory
  BY AdminProofs!PauseRecorded,
     RolesAssumption, AbsentAssumption, BoundsAssumption
     DEF AdminProofs!AllRoles, Admin!AllRoles,
         AdminProofs!ControlRoles, Admin!ControlRoles
<1> QED
  BY <1>1, <1>2, AdminRuns, PTL

-----------------------------------------------------------------------------
(* Approvals.  Upgrade is a control role, so its holders are on record.    *)
LEMMA UpgradeControlled ==
  ASSUME AdminProofs!NoEscalation, NEW a \in Accounts, <<a, "Upgrade">> \in roles
  PROVE  <<a, "Upgrade">> \in blessed
BY DEF AdminProofs!NoEscalation, AdminProofs!ControlRoles, AdminProofs!HasRole

(* Every upgrade id has its set of approvers.                              *)
Listed == DOMAIN approvers = UpgradeIds

LEMMA ListedInit == Init => Listed
BY DEF Init, Upgrades!Init, Listed

LEMMA ListedStep ==
  ASSUME Listed, [Next]_vars
  PROVE  Listed'
<1>1. CASE UNCHANGED approvers
  BY <1>1 DEF Listed
<1>2. CASE UpgradeStep
  BY <1>2 DEF Listed, UpgradeStep, Upgrades!UpgradeCall, Upgrades!ProposeUpgrade,
     Upgrades!ApproveUpgrade, Upgrades!SweepExpiredUpgrades
<1> QED
  BY <1>1, <1>2 DEF Next, Initialize, VotingStep, TokenStep, AdminStep, Tick, vars, upgradeState

(* A new approver is the actor of an approve_upgrade, which asserts the    *)
(* Upgrade role.                                                           *)
LEMMA ApprovalStep ==
  ASSUME AdminProofs!NoEscalation, [Next]_vars,
         Listed,
         NEW u \in UpgradeIds, NEW a \in approvers'[u] \ approvers[u]
  PROVE  <<a, "Upgrade">> \in blessed
<1> USE DEF Upgrades!vars, Upgrades!upgradeVars, upgradeState
<1>1. PICK actor \in Accounts, x \in UpgradeIds : Upgrades!ApproveUpgrade(actor, x)
  <2>1. CASE UNCHANGED approvers
    BY <2>1
  <2>2. CASE Upgrades!SweepExpiredUpgrades
    BY <2>2 DEF Upgrades!SweepExpiredUpgrades
  <2>3. CASE UpgradeStep
    BY <2>1, <2>2, <2>3 DEF UpgradeStep, Upgrades!UpgradeCall, Upgrades!ProposeUpgrade
  <2> QED
    BY <2>1, <2>3 DEF Next, Initialize, VotingStep, TokenStep, AdminStep, Tick, vars
<1>2. a = actor
  BY <1>1 DEF Upgrades!ApproveUpgrade, Listed
<1>3. <<a, "Upgrade">> \in roles
  BY <1>1, <1>2 DEF Upgrades!ApproveUpgrade
<1> QED
  BY <1>1, <1>2, <1>3, UpgradeControlled

-----------------------------------------------------------------------------
(* The pause.  What the history says last is what the switch says.         *)
LEMMA PauseSeen ==
  ASSUME AdminProofs!PauseMatchesHistory, GloballyPaused
  PROVE  pauseScope[Global]
BY GlobalAssumption
   DEF AdminProofs!PauseMatchesHistory, GloballyPaused, Admin!LastRecord, AdminProofs!LastRecord

(* The calls that create a proposal or count a ballot assert the switch.   *)
LEMMA PausedStep ==
  ASSUME AdminProofs!PauseMatchesHistory, GloballyPaused, [Next]_vars
  PROVE  UNCHANGED <<proposalCount, votes, voteUsed>>
<1>1. pauseScope[Global]
  BY PauseSeen
<1>2. CASE VotingStep
  <2>1. ~ Voting!CreateProposal
    BY <1>1 DEF Voting!CreateProposal
  <2>2. \A p, choice, v : ~ Voting!CastVote(p, choice, v)
    BY <1>1 DEF Voting!CastVote
  <2> QED
    BY <1>2, <2>1, <2>2 DEF VotingStep, Voting!VotingCall, Voting!Delegate,
       Voting!Undelegate, Voting!FinalizeProposal, Voting!ExecuteProposal
<1>3. CASE UNCHANGED votingState
  BY <1>3 DEF votingState
<1>4. CASE TokenStep
  BY <1>4 DEF TokenStep, Voting!TransferTokens, Voting!contractVars
<1>5. CASE \E a \in Accounts, c \in Configs : Initialize(a, c)
  BY <1>5 DEF Initialize, Voting!Initialize
<1> QED
  BY <1>2, <1>3, <1>4, <1>5 DEF Next, AdminStep, UpgradeStep, Tick, vars

LEMMA AlwaysListed == Spec => []Listed
BY ListedInit, ListedStep, PTL DEF Spec

-----------------------------------------------------------------------------
(* approve_upgrade counts only accounts whose Upgrade role an admin gave:  *)
(* neither a recovery nor an operational role holder can put one there.    *)
THEOREM ApprovalsAreControlled == Spec => ApprovalsTraceToAdmin
<1>1. AdminProofs!NoEscalation /\ Listed /\ [Next]_vars
        => [\A u \in UpgradeIds : \A a \in approvers'[u] \ approvers[u] :
              <<a, "Upgrade">> \in blessed]_vars
  BY ApprovalStep
<1> QED
  BY <1>1, AdminInvariants, AlwaysListed, PTL DEF Spec, ApprovalsTraceToAdmin

(* While the recorded history says "Global" is paused, create_proposal and *)
(* cast_vote change nothing, whatever else the contract does.              *)
THEOREM PauseHolds == Spec => PauseStopsVoting
<1>1. AdminProofs!PauseMatchesHistory /\ [Next]_vars
        => [GloballyPaused => UNCHANGED <<proposalCount, votes, voteUsed>>]_vars
  BY PausedStep
<1> QED
  BY <1>1, AdminInvariants, PTL DEF Spec, PauseStopsVoting

-----------------------------------------------------------------------------
(* MemberList.  At rest the fetching effect has run for what is on the     *)
(* screen, only the request it sent last is not cancelled, and the page    *)
(* follows what was asked for.                                             *)
ListTypes ==
  /\ x1 \in [local : BOOLEAN, given : BOOLEAN, page : (Nat \ {0}) \cup {NoOne},
             query : Queries]
  /\ x2 \in [own : Nat \ {0}, pages : Nat,
             rows : [page : Nat \ {0}, query : Queries] \cup {NoOne},
             loading : BOOLEAN, failed : BOOLEAN, retries : 0 .. MaxRetries]
  /\ x4 \in Queries /\ x6 \in BOOLEAN /\ x7 \in Nat \ {0}
  /\ x5 \subseteq [page : Nat \ {0}, query : Queries, cancelled : BOOLEAN]

RowsFollow ==
  ~ x1.local =>
    /\ ~ x6 => x3 = MemberList!Inputs
    /\ ~ x2.loading /\ ~ x2.failed =>
         x2.rows = [page |-> x3.page, query |-> x3.query]
    /\ \A f \in x5 : ~ f.cancelled => f.page = x3.page /\ f.query = x3.query

PageFollows ==
  x1.given \/ x1.local =>
    /\ x7 <= PagesOf[x1.query]
    /\ x1.page # NoOne => x1.page = x7
    /\ x1.page = NoOne =>
         /\ x4 # x1.query => x6 /\ x7 = 1
         /\ x4 = x1.query => x2.own = x7 \/ (x7 = 1 /\ x2.own = PagesOf[x1.query])

ListInv == ListTypes /\ RowsFollow /\ PageFollows

LEMMA ListNumbers ==
  ASSUME ListTypes
  PROVE  /\ PagesOf[x1.query] \in Nat \ {0} /\ MemberList!TotalPages \in Nat \ {0}
         /\ x1.given \/ x1.local => MemberList!TotalPages = PagesOf[x1.query]
         /\ MemberList!ActivePage \in Nat \ {0} /\ MemberList!OwnAfter \in Nat \ {0}
         /\ \A t \in Int : /\ MemberList!Clamped(t) \in Nat \ {0}
                           /\ MemberList!Clamped(t) <= MemberList!TotalPages
<1> USE ListAssumption
<1>1. /\ \A q \in Queries : PagesOf[q] \in Nat \ {0}
      /\ x1.query \in Queries /\ (x1.page # NoOne => x1.page \in Nat \ {0})
      /\ x2.own \in Nat \ {0} /\ x2.pages \in Nat
  BY DEF ListTypes
<1>2. /\ MemberList!TotalPages \in Nat \ {0}
      /\ x1.given \/ x1.local => MemberList!TotalPages = PagesOf[x1.query]
  BY <1>1 DEF MemberList!TotalPages, MemberList!Greatest
<1>3. MemberList!ActivePage \in Nat \ {0}
  BY <1>1, <1>2 DEF MemberList!ActivePage, MemberList!Least, MemberList!Controlled
<1>4. MemberList!OwnAfter \in Nat \ {0}
  BY <1>1, <1>2 DEF MemberList!OwnAfter
<1>5. \A t \in Int : /\ MemberList!Clamped(t) \in Nat \ {0}
                     /\ MemberList!Clamped(t) <= MemberList!TotalPages
  BY <1>2 DEF MemberList!Clamped, MemberList!Least, MemberList!Greatest
<1>6. QED
  BY <1>1, <1>2, <1>3, <1>4, <1>5

(* What a render leaves as it found it, the next would compute again.      *)
LEMMA RenderSettles ==
  ASSUME ListTypes, x1' = x1, x2' = x2, x4' = x1.query, x2.own = MemberList!OwnAfter
  PROVE  MemberList!Inputs' = MemberList!Inputs
<1> USE ListAssumption
<1>1. MemberList!TotalPages' = MemberList!TotalPages
  BY DEF MemberList!TotalPages
<1>2. MemberList!TotalPages \in Nat \ {0} /\ x2.own \in Nat \ {0}
  BY ListNumbers DEF ListTypes
<1>3. x1.page = NoOne /\ x4 # x1.query => x2.own = 1
  BY <1>2 DEF MemberList!OwnAfter, MemberList!Controlled, MemberList!QueryChanged
<1>4. MemberList!ActivePage' = MemberList!ActivePage
  BY <1>1, <1>2, <1>3 DEF MemberList!ActivePage, MemberList!Controlled,
                          MemberList!QueryChanged
<1>5. QED
  BY <1>4 DEF MemberList!Inputs

LEMMA ListStep ==
  ASSUME ListInv, MemberList!Next
  PROVE  ListInv'
<1> USE ListAssumption
<1>0. ListTypes
  BY DEF ListInv
<1>1. ASSUME MemberList!Render PROVE ListInv'
  <2> DEFINE own == MemberList!OwnAfter
  <2>1. /\ x4' = x1.query /\ x6' = (x2' # x2) /\ UNCHANGED <<x1, x7>>
        /\ \/ /\ x1.local \/ x3 = MemberList!Inputs
              /\ x2' = [x2 EXCEPT !.own = own] /\ UNCHANGED <<x3, x5>>
           \/ /\ x2' = [x2 EXCEPT !.own = own, !.loading = TRUE, !.failed = FALSE,
                                  !.pages = 0]
              /\ x3' = MemberList!Inputs
              /\ x5' = MemberList!CancelAll \cup
                   {[page |-> MemberList!ActivePage, query |-> x1.query,
                     cancelled |-> FALSE]}
    BY <1>1 DEF MemberList!Render, MemberList!Fetching
  <2>2. own \in Nat \ {0} /\ MemberList!ActivePage \in Nat \ {0} /\ x1.query \in Queries
    BY <1>0, ListNumbers DEF ListTypes
  <2>3. /\ x2'.own = own
        /\ x2' \in [own : Nat \ {0}, pages : Nat,
                    rows : [page : Nat \ {0}, query : Queries] \cup {NoOne},
                    loading : BOOLEAN, failed : BOOLEAN, retries : 0 .. MaxRetries]
    <3> DEFINE List == [own : Nat \ {0}, pages : Nat,
                        rows : [page : Nat \ {0}, query : Queries] \cup {NoOne},
                        loading : BOOLEAN, failed : BOOLEAN, retries : 0 .. MaxRetries]
               s1 == [x2 EXCEPT !.own = own]
               s2 == [s1 EXCEPT !.loading = TRUE]
               s3 == [s2 EXCEPT !.failed = FALSE]
               s4 == [s3 EXCEPT !.pages = 0]
    <3> HIDE DEF own
    <3>1. s1 \in List /\ s1.own = own
      BY <2>2, <1>0 DEF ListTypes
    <3>2. s2 \in List /\ s2.own = own
      <4> HIDE DEF s1
      <4>1. QED
        BY <3>1
    <3>3. s3 \in List /\ s3.own = own
      <4> HIDE DEF s2
      <4>1. QED
        BY <3>2
    <3>4. s4 \in List /\ s4.own = own
      <4> HIDE DEF s3
      <4>1. QED
        BY <3>3
    <3>5. x2' = s1 \/ x2' = s4
      BY <2>1
    <3> HIDE DEF s1, s4
    <3>6. QED
      BY <3>1, <3>4, <3>5
  <2>4. MemberList!CancelAll \subseteq
          [page : Nat \ {0}, query : Queries, cancelled : BOOLEAN]
        /\ \A f \in MemberList!CancelAll : f.cancelled
    <3>1. ASSUME NEW f \in x5
          PROVE  /\ [f EXCEPT !.cancelled = TRUE] \in
                      [page : Nat \ {0}, query : Queries, cancelled : BOOLEAN]
                 /\ [f EXCEPT !.cancelled = TRUE].cancelled
      BY <1>0 DEF ListTypes
    <3>2. QED
      BY <3>1 DEF MemberList!CancelAll
  <2>5. x5' \subseteq [page : Nat \ {0}, query : Queries, cancelled : BOOLEAN]
    <3>1. [page |-> MemberList!ActivePage, query |-> x1.query, cancelled |-> FALSE]
            \in [page : Nat \ {0}, query : Queries, cancelled : BOOLEAN]
      BY <2>2
    <3>2. QED
      BY <2>1, <2>4, <3>1, <1>0 DEF ListTypes
  <2>6. ListTypes'
    BY <2>1, <2>2, <2>3, <2>5, <1>0 DEF ListTypes
  <2>7. RowsFollow'
    <3> SUFFICES ASSUME ~ x1.local PROVE RowsFollow'
      BY <2>1 DEF RowsFollow
    <3>1. ~ x6' => MemberList!Inputs' = MemberList!Inputs
      <4> HIDE DEF own
      <4>1. ~ x6' => x2' = x2 /\ x2.own = own
        BY <2>1, <2>3
      <4>2. QED
        BY <4>1, <2>1, <1>0, RenderSettles DEF own
    <3>2. CASE x3 = MemberList!Inputs /\ x2' = [x2 EXCEPT !.own = own]
               /\ UNCHANGED <<x3, x5>>
      <4> HIDE DEF own
      <4>1. x2'.rows = x2.rows /\ x2'.loading = x2.loading /\ x2'.failed = x2.failed
        BY <3>2, <1>0 DEF ListTypes
      <4>2. QED
        BY <3>1, <3>2, <4>1, <2>1 DEF ListInv, RowsFollow
    <3>3. CASE /\ x2' = [x2 EXCEPT !.own = own, !.loading = TRUE, !.failed = FALSE,
                                   !.pages = 0]
               /\ x3' = MemberList!Inputs
               /\ x5' = MemberList!CancelAll \cup
                    {[page |-> MemberList!ActivePage, query |-> x1.query,
                      cancelled |-> FALSE]}
      <4>1. x2'.loading
        <5> HIDE DEF own
        <5>1. QED
          BY <3>3, <1>0 DEF ListTypes
      <4>2. x3'.page = MemberList!ActivePage /\ x3'.query = x1.query
        BY <3>3 DEF MemberList!Inputs
      <4>3. \A f \in x5' : ~ f.cancelled => f.page = x3'.page /\ f.query = x3'.query
        BY <2>4, <3>3, <4>2
      <4>4. QED
        BY <3>1, <3>3, <4>1, <4>3 DEF RowsFollow
    <3>4. QED
      BY <2>1, <3>2, <3>3
  <2>8. PageFollows'
    <3> SUFFICES ASSUME x1.given \/ x1.local PROVE PageFollows'
      BY <2>1 DEF PageFollows
    <3>1. MemberList!TotalPages = PagesOf[x1.query] /\ PagesOf[x1.query] \in Nat \ {0}
      BY <1>0, ListNumbers
    <3>2. x7 \in Nat \ {0} /\ x2.own \in Nat \ {0}
      BY <1>0 DEF ListTypes
    <3>3. x1.page = NoOne => own = x7 \/ (x7 = 1 /\ own = PagesOf[x1.query])
      BY <3>1, <3>2 DEF ListInv, PageFollows, MemberList!OwnAfter,
                        MemberList!Controlled, MemberList!QueryChanged
    <3> HIDE DEF own
    <3>4. QED
      BY <2>1, <2>3, <3>3 DEF ListInv, PageFollows
  <2>9. QED
    BY <2>6, <2>7, <2>8 DEF ListInv
<1>2. ASSUME NEW target \in 0 .. MemberList!TotalPages + 1, MemberList!ChangePage(target)
      PROVE  ListInv'
  <2> DEFINE to == MemberList!Clamped(target)
  <2>1. /\ x7' = to /\ x6' = TRUE /\ ~ x6 /\ UNCHANGED <<x3, x4, x5>>
        /\ IF x1.page # NoOne THEN x1' = [x1 EXCEPT !.page = to] /\ x2' = x2
                              ELSE x2' = [x2 EXCEPT !.own = to] /\ x1' = x1
    BY <1>2 DEF MemberList!ChangePage, MemberList!Shown, MemberList!Controlled
  <2>2. to \in Nat \ {0} /\ to <= MemberList!TotalPages
    BY <1>0, ListNumbers
  <2> HIDE DEF to
  <2>3. /\ x1'.local = x1.local /\ x1'.given = x1.given /\ x1'.query = x1.query
        /\ x1'.page = IF x1.page # NoOne THEN to ELSE NoOne
        /\ x2'.own = IF x1.page # NoOne THEN x2.own ELSE to
        /\ x2'.rows = x2.rows /\ x2'.loading = x2.loading /\ x2'.failed = x2.failed
    BY <2>1, <1>0 DEF ListTypes
  <2>4. ListTypes'
    <3>1. CASE x1.page # NoOne
      BY <2>1, <2>2, <3>1, <1>0 DEF ListTypes
    <3>2. CASE x1.page = NoOne
      BY <2>1, <2>2, <3>2, <1>0 DEF ListTypes
    <3>3. QED
      BY <3>1, <3>2
  <2>5. RowsFollow'
    BY <2>1, <2>3 DEF ListInv, RowsFollow
  <2>6. PageFollows'
    <3>1. x1.given \/ x1.local => to <= PagesOf[x1.query]
      BY <2>2, <1>0, ListNumbers
    <3>2. to # NoOne
      BY <2>2
    <3>3. x1.given \/ x1.local => (x1.page = NoOne => x4 = x1.query)
      BY <2>1 DEF ListInv, PageFollows
    <3>4. QED
      BY <2>1, <2>3, <3>1, <3>2, <3>3 DEF PageFollows
  <2>7. QED
    BY <2>4, <2>5, <2>6 DEF ListInv
<1>3. ASSUME NEW q \in Queries, MemberList!ChangeQuery(q) PROVE ListInv'
  <2>1. /\ x7' = 1 /\ x6' = TRUE /\ UNCHANGED <<x2, x3, x4, x5>>
        /\ x1' = [x1 EXCEPT !.query = q, !.page = IF x1.page # NoOne THEN 1 ELSE NoOne]
        /\ x4 = x1.query /\ q # x1.query
    BY <1>3 DEF MemberList!ChangeQuery, MemberList!Controlled, MemberList!QueryChanged
  <2>2. /\ x1' \in [local : BOOLEAN, given : BOOLEAN, page : (Nat \ {0}) \cup {NoOne},
                    query : Queries]
        /\ x1'.local = x1.local /\ x1'.given = x1.given /\ x1'.query = q
        /\ x1'.page = IF x1.page # NoOne THEN 1 ELSE NoOne
    <3> DEFINE to == IF x1.page # NoOne THEN 1 ELSE NoOne
               p1 == [x1 EXCEPT !.query = q]
    <3>1. to \in (Nat \ {0}) \cup {NoOne}
      OBVIOUS
    <3>2. /\ p1 \in [local : BOOLEAN, given : BOOLEAN, page : (Nat \ {0}) \cup {NoOne},
                      query : Queries]
          /\ p1.local = x1.local /\ p1.given = x1.given /\ p1.query = q
      BY <1>0 DEF ListTypes
    <3>3. x1' = [p1 EXCEPT !.page = to]
      BY <2>1
    <3> HIDE DEF p1, to
    <3>4. /\ x1' \in [local : BOOLEAN, given : BOOLEAN,
                       page : (Nat \ {0}) \cup {NoOne}, query : Queries]
          /\ x1'.local = x1.local /\ x1'.given = x1.given /\ x1'.query = q
          /\ x1'.page = to
      BY <3>1, <3>2, <3>3
    <3>5. QED
      BY <3>4 DEF to
  <2>3. ListTypes'
    BY <2>1, <2>2, <1>0 DEF ListTypes
  <2>4. RowsFollow'
    BY <2>1, <2>2 DEF ListInv, RowsFollow
  <2>5. PageFollows'
    <3>1. PagesOf[q] \in Nat \ {0}
      OBVIOUS
    <3>2. 1 <= PagesOf[q]
      BY <3>1
    <3>3. 1 # NoOne
      OBVIOUS
    <3>4. QED
      BY <2>1, <2>2, <3>2, <3>3 DEF PageFollows
  <2>6. QED
    BY <2>3, <2>4, <2>5 DEF ListInv
<1>4. ASSUME MemberList!TryAgain PROVE ListInv'
  <2>1. /\ x2.failed /\ x2.retries < MaxRetries /\ x6' = TRUE
        /\ x2' = [x2 EXCEPT !.retries = x2.retries + 1]
        /\ UNCHANGED <<x1, x3, x4, x5, x7>> /\ ~ x6
    BY <1>4 DEF MemberList!TryAgain
  <2>2. /\ x2' \in [own : Nat \ {0}, pages : Nat,
                    rows : [page : Nat \ {0}, query : Queries] \cup {NoOne},
                    loading : BOOLEAN, failed : BOOLEAN, retries : 0 .. MaxRetries]
        /\ x2'.own = x2.own /\ x2'.failed
    <3>1. x2.retries + 1 \in 0 .. MaxRetries
      BY <2>1, <1>0 DEF ListTypes
    <3>2. QED
      BY <2>1, <3>1, <1>0 DEF ListTypes
  <2>3. ListTypes'
    BY <2>1, <2>2, <1>0 DEF ListTypes
  <2>4. RowsFollow' /\ PageFollows'
    BY <2>1, <2>2 DEF ListInv, RowsFollow, PageFollows
  <2>5. QED
    BY <2>3, <2>4 DEF ListInv
(* A request that is cancelled changes nothing when it ends.               *)
<1>a. ASSUME NEW f \in x5, x5' = x5 \ {f}, UNCHANGED <<x1, x2, x3, x4, x6, x7>>
      PROVE  ListInv'
  <2>1. MemberList!Inputs' = MemberList!Inputs
    BY <1>a DEF MemberList!Inputs, MemberList!ActivePage, MemberList!TotalPages,
                MemberList!Controlled, MemberList!QueryChanged
  <2>2. QED
    BY <1>a, <2>1 DEF ListInv, ListTypes, RowsFollow, PageFollows
<1>5. ASSUME NEW f \in x5, MemberList!Answer(f) PROVE ListInv'
  <2>1. CASE f.cancelled
    BY <1>5, <2>1, <1>a DEF MemberList!Answer
  <2>2. CASE ~ f.cancelled
    <3> DEFINE rows == [page |-> f.page, query |-> f.query]
    <3>1. /\ x5' = x5 \ {f} /\ x6' = TRUE /\ UNCHANGED <<x1, x3, x4, x7>>
          /\ x2' = [x2 EXCEPT !.rows = rows, !.pages = PagesOf[f.query],
                              !.failed = FALSE, !.loading = FALSE]
      BY <1>5, <2>2 DEF MemberList!Answer
    <3>2. /\ rows \in [page : Nat \ {0}, query : Queries]
          /\ PagesOf[f.query] \in Nat
      BY <1>0 DEF ListTypes
    <3>3. ~ x1.local => rows = [page |-> x3.page, query |-> x3.query]
      BY <2>2 DEF ListInv, RowsFollow
    <3> HIDE DEF rows
    <3>4. /\ x2' \in [own : Nat \ {0}, pages : Nat,
                      rows : [page : Nat \ {0}, query : Queries] \cup {NoOne},
                      loading : BOOLEAN, failed : BOOLEAN, retries : 0 .. MaxRetries]
          /\ x2'.own = x2.own /\ x2'.rows = rows
      BY <3>1, <3>2, <1>0 DEF ListTypes
    <3>5. ListTypes'
      BY <3>1, <3>4, <1>0 DEF ListTypes
    <3>6. RowsFollow' /\ PageFollows'
      BY <3>1, <3>3, <3>4 DEF ListInv, RowsFollow, PageFollows
    <3>7. QED
      BY <3>5, <3>6 DEF ListInv
  <2>3. QED
    BY <2>1, <2>2
<1>6. ASSUME NEW f \in x5, MemberList!Failure(f) PROVE ListInv'
  <2>1. CASE f.cancelled
    BY <1>6, <2>1, <1>a DEF MemberList!Failure
  <2>2. CASE ~ f.cancelled
    <3>1. /\ x5' = x5 \ {f} /\ x6' = TRUE /\ UNCHANGED <<x1, x3, x4, x7>>
          /\ x2' = [x2 EXCEPT !.failed = TRUE, !.loading = FALSE]
      BY <1>6, <2>2 DEF MemberList!Failure
    <3>2. /\ x2' \in [own : Nat \ {0}, pages : Nat,
                      rows : [page : Nat \ {0}, query : Queries] \cup {NoOne},
                      loading : BOOLEAN, failed : BOOLEAN, retries : 0 .. MaxRetries]
          /\ x2'.own = x2.own /\ x2'.failed
      BY <3>1, <1>0 DEF ListTypes
    <3>3. ListTypes'
      BY <3>1, <3>2, <1>0 DEF ListTypes
    <3>4. RowsFollow' /\ PageFollows'
      BY <3>1, <3>2 DEF ListInv, RowsFollow, PageFollows
    <3>5. QED
      BY <3>3, <3>4 DEF ListInv
  <2>3. QED
    BY <2>1, <2>2
<1>7. QED
  BY <1>1, <1>2, <1>3, <1>4, <1>5, <1>6 DEF MemberList!Next

(* Whatever order the answers come in, the rows on the screen are those of *)
(* the page on the screen; and where the number of pages is known that is  *)
(* the page asked for, or the last one of a new query.                     *)
THEOREM PagesAreShown == MCSpec => []PageShown
<1> USE ListAssumption
<1> DEFINE Inv == part = "MemberList" => ListInv
<1>1. MCInit => Inv
  <2> SUFFICES ASSUME part = "MemberList", MemberList!Init PROVE ListInv
    BY DEF MCInit
  <2>0. PICK l \in BOOLEAN, g \in BOOLEAN, q \in Queries :
          \E p \in {NoOne} \cup 1 .. PagesOf[q] :
            /\ x1 = [local |-> l, given |-> g, page |-> p, query |-> q]
            /\ x4 = q /\ x7 = IF p = NoOne THEN 1 ELSE p
    BY DEF MemberList!Init
  <2>1. PICK p \in {NoOne} \cup 1 .. PagesOf[q] :
          /\ x1 = [local |-> l, given |-> g, page |-> p, query |-> q]
          /\ x4 = q /\ x7 = IF p = NoOne THEN 1 ELSE p
    BY <2>0
  <2>2. /\ x2 = [own |-> 1, pages |-> 0, rows |-> NoOne, loading |-> ~ x1.local,
                 failed |-> FALSE, retries |-> 0]
        /\ x5 = {} /\ x6 = TRUE
    BY DEF MemberList!Init
  <2>3. PagesOf[q] \in Nat \ {0}
    OBVIOUS
  <2>4. /\ p = NoOne \/ (p \in Nat \ {0} /\ p <= PagesOf[q])
        /\ x7 \in Nat \ {0} /\ x7 <= PagesOf[q]
    BY <2>1, <2>3
  <2>5. /\ x1 \in [local : BOOLEAN, given : BOOLEAN, page : (Nat \ {0}) \cup {NoOne},
                   query : Queries]
        /\ x1.query = q /\ x1.page = p /\ x1.local \in BOOLEAN
    BY <2>1, <2>4
  <2>6. /\ x2 \in [own : Nat \ {0}, pages : Nat,
                   rows : [page : Nat \ {0}, query : Queries] \cup {NoOne},
                   loading : BOOLEAN, failed : BOOLEAN, retries : 0 .. MaxRetries]
        /\ x2.own = 1 /\ (x2.loading <=> ~ x1.local)
    <3>1. CASE x1.local = TRUE
      <4>1. x2 = [own |-> 1, pages |-> 0, rows |-> NoOne, loading |-> FALSE,
                  failed |-> FALSE, retries |-> 0]
        BY <2>2, <3>1
      <4>2. QED
        BY <3>1, <4>1
    <3>2. CASE x1.local = FALSE
      <4>1. x2 = [own |-> 1, pages |-> 0, rows |-> NoOne, loading |-> TRUE,
                  failed |-> FALSE, retries |-> 0]
        BY <2>2, <3>2
      <4>2. QED
        BY <3>2, <4>1
    <3>3. QED
      BY <2>5, <3>1, <3>2
  <2>7. ListTypes
    BY <2>1, <2>2, <2>4, <2>5, <2>6 DEF ListTypes
  <2>8. RowsFollow
    BY <2>2, <2>6 DEF RowsFollow
  <2>9. PageFollows
    BY <2>1, <2>4, <2>5, <2>6 DEF PageFollows
  <2>10. QED
    BY <2>7, <2>8, <2>9 DEF ListInv
<1>2. Inv /\ [MCNext]_<<part, vars, xs>> => Inv'
  <2> SUFFICES ASSUME Inv, [MCNext]_<<part, vars, xs>> PROVE Inv'
    OBVIOUS
  <2>1. CASE part = "MemberList" /\ MemberList!Next /\ part' = part
    BY <2>1, ListStep
  <2>2. CASE UNCHANGED <<part, vars, xs>>
    <3>1. UNCHANGED <<x1, x2, x3, x4, x5, x6, x7>>
      BY <2>2 DEF xs
    <3>2. MemberList!Inputs' = MemberList!Inputs
      BY <3>1 DEF MemberList!Inputs, MemberList!ActivePage, MemberList!TotalPages,
                  MemberList!Controlled, MemberList!QueryChanged
    <3>3. QED
      BY <2>2, <3>1, <3>2 DEF ListInv, ListTypes, RowsFollow, PageFollows
  <2>3. CASE part # "MemberList" /\ part' = part
    BY <2>3
  <2>4. QED
    BY <2>1, <2>2, <2>3 DEF MCNext
<1>3. Inv => PageShown
  <2> SUFFICES ASSUME ListInv
               PROVE  /\ MemberList!TypeOK /\ MemberList!RowsOfThisPage
                      /\ MemberList!PageKept
    BY DEF PageShown
  <2>0. ListTypes
    BY DEF ListInv
  <2>1. MemberList!TypeOK
    BY <2>0 DEF ListTypes, MemberList!TypeOK, MemberList!Props
  <2>2. MemberList!RowsOfThisPage
    BY DEF ListInv, RowsFollow, MemberList!RowsOfThisPage, MemberList!Shown,
           MemberList!Inputs
  <2>3. MemberList!PageKept
    <3> SUFFICES ASSUME MemberList!Shown, x1.given \/ x1.local
                 PROVE  /\ x7 <= PagesOf[x1.query]
                        /\ MemberList!ActivePage # x7 =>
                             /\ ~ MemberList!Controlled /\ x7 = 1
                             /\ MemberList!ActivePage = PagesOf[x1.query]
      BY DEF MemberList!PageKept
    <3>1. MemberList!TotalPages = PagesOf[x1.query] /\ PagesOf[x1.query] \in Nat \ {0}
      BY <2>0, ListNumbers
    <3>2. x7 \in Nat \ {0} /\ x2.own \in Nat \ {0} /\ ~ x6
      BY <2>0 DEF ListTypes, MemberList!Shown
    <3>3. QED
      BY <3>1, <3>2 DEF ListInv, PageFollows, MemberList!ActivePage, MemberList!Least,
                        MemberList!Controlled, MemberList!QueryChanged
  <2>4. QED
    BY <2>1, <2>2, <2>3
<1> HIDE DEF Inv
<1>4. QED
  BY <1>1, <1>2, <1>3, PTL DEF MCSpec
-----------------------------------------------------------------------------
(* TransferScreen.  A payment is at most once in the hands of the route or *)
(* of the network, with the request of its attempt; and the attempt under  *)
(* way knows of its own payment what it needs to end truly.                *)
Forms == [to : TypedKeys \cup {""}, asset : OfferedAssets \cup {NoOne},
          amount : {TransferScreen!Sanitized(raw) : raw \in TypedAmounts} \cup {""}]
Attempts == [req : Forms, end : {"open", "lost", "failed", "told"}]
Txs == [to : TypedKeys \cup {""}, asset : OfferedAssets \cup {NoOne},
        amount : {TransferScreen!Sanitized(raw) : raw \in TypedAmounts} \cup {""},
        seq : Nat, no : Nat, signer : {"me", "other", NoOne}]
Stages == {"building", "signing", "submitting", "refreshing"}
Replies == {NoOne, "accepted", "refused", "unknown"}

SendTypes ==
  /\ x1 \in Forms
  /\ x2 \in [stage : Stages \cup {NoOne}, no : Nat, tx : Txs \cup {NoOne}]
  /\ x2.no <= Len(x9)
  /\ x3 \in [hash : Txs \cup {NoOne}, error : BOOLEAN,
             fields : SUBSET {"to", "asset", "amount"}]
  /\ x4 \in {"me", "other"} /\ x5 \in Nat
  /\ x6 \in Seq(Txs) /\ x7 \subseteq Txs /\ x8 \in Replies /\ x9 \in Seq(Attempts)

Payment(tx) == [to |-> tx.to, asset |-> tx.asset, amount |-> tx.amount]
Carried(tx, tries) == tx.no \in 1 .. Len(tries) /\ Payment(tx) = tries[tx.no].req
Fresh(n, done, sent) ==
  (\A i \in 1 .. Len(done) : done[i].no # n) /\ (\A tx \in sent : tx.no # n)
Made(tx, done) == \E i \in 1 .. Len(done) : done[i] = tx

PaymentsSound(done, sent, tries) ==
  /\ \A i \in 1 .. Len(done) : Carried(done[i], tries) /\ done[i].signer = "me"
  /\ \A tx \in sent : Carried(tx, tries)
  /\ \A i, j \in 1 .. Len(done) : done[i].no = done[j].no => i = j
  /\ \A tx, ux \in sent : tx.no = ux.no => tx = ux
  /\ \A i \in 1 .. Len(done), tx \in sent : done[i].no # tx.no

EndsSound(tries, done, sent) ==
  \A n \in 1 .. Len(tries) :
    /\ tries[n].end = "told" => \E i \in 1 .. Len(done) : done[i].no = n
    /\ tries[n].end = "failed" => Fresh(n, done, sent)

AttemptSound(at, answer, screen, tries, done, sent) ==
  /\ at.stage # NoOne =>
       /\ at.no = Len(tries) /\ Len(tries) > 0 /\ screen = TransferScreen!Blank
       /\ tries[at.no].end \in {"open", "lost"}
  /\ at.stage \in {"building", "signing"} => Fresh(at.no, done, sent)
  /\ at.stage \in {"signing", "submitting", "refreshing"} =>
       at.tx \in Txs /\ at.tx.no = at.no /\ Carried(at.tx, tries)
  /\ at.stage = "refreshing" => Made(at.tx, done)
  /\ at.stage = "submitting" /\ answer = "accepted" => Made(at.tx, done)
  /\ at.stage = "submitting" /\ answer = "refused" =>
       tries[at.no].end = "lost" \/ Fresh(at.no, done, sent)

HashSound(screen, tries, done) ==
  screen.hash # NoOne =>
    screen.hash.no = Len(tries) /\ ~ screen.error /\ Made(screen.hash, done)

TransferInv ==
  /\ SendTypes
  /\ PaymentsSound(x6, x7, x9)
  /\ EndsSound(x9, x6, x7)
  /\ AttemptSound(x2, x8, x3, x9, x6, x7)
  /\ HashSound(x3, x9, x6)

(* The attempt under way ends with an error.                               *)
LEMMA AttemptFails ==
  ASSUME TransferInv, NEW end \in {"failed", "lost"}, x2.stage # NoOne,
         end = "failed" => x9[x2.no].end = "lost" \/ Fresh(x2.no, x6, x7),
         TransferScreen!Failed(end), UNCHANGED <<x1, x4, x5, x6, x7>>,
         x8' \in Replies
  PROVE  TransferInv'
<1> USE TransferAssumption
<1> DEFINE n == x2.no
           last == [x9[n] EXCEPT !.end = IF x9[n].end = "lost" THEN "lost" ELSE end]
<1>1. n \in 1 .. Len(x9) /\ n = Len(x9) /\ x3 = TransferScreen!Blank
  BY DEF TransferInv, AttemptSound, SendTypes
<1>2. x9[n] \in Attempts
  BY <1>1 DEF TransferInv, SendTypes
<1>3. /\ last \in Attempts /\ last.req = x9[n].req
      /\ last.end \in {"failed", "lost"}
      /\ last.end = "failed" => Fresh(n, x6, x7)
  BY <1>2 DEF Attempts
<1>4. x9' = [x9 EXCEPT ![n] = last]
  BY <1>1, <1>2 DEF TransferScreen!Failed
<1>5. /\ x2' = [stage |-> NoOne, no |-> 0, tx |-> NoOne]
      /\ x3'.hash = NoOne
      /\ x3' \in [hash : Txs \cup {NoOne}, error : BOOLEAN,
                  fields : SUBSET {"to", "asset", "amount"}]
  BY <1>1 DEF TransferScreen!Failed, TransferScreen!Idle, TransferScreen!Blank
<1> HIDE DEF last
<1>6. /\ x9' \in Seq(Attempts) /\ Len(x9') = Len(x9)
      /\ \A k \in 1 .. Len(x9) : x9'[k].req = x9[k].req
      /\ \A k \in 1 .. Len(x9) : k # n => x9'[k] = x9[k]
      /\ x9'[n] = last
  BY <1>1, <1>3, <1>4 DEF TransferInv, SendTypes
<1> HIDE DEF n
<1>7. SendTypes'
  BY <1>5, <1>6 DEF TransferInv, SendTypes
<1>8. PaymentsSound(x6', x7', x9')
  BY <1>6 DEF TransferInv, PaymentsSound, Carried
<1>9. EndsSound(x9', x6', x7')
  <2>1. ASSUME NEW k \in 1 .. Len(x9)
        PROVE  /\ x9'[k].end = "told" => \E i \in 1 .. Len(x6) : x6[i].no = k
               /\ x9'[k].end = "failed" => Fresh(k, x6, x7)
    <3>1. CASE k = n
      BY <3>1, <1>3, <1>6
    <3>2. CASE k # n
      BY <3>2, <1>6 DEF TransferInv, EndsSound
    <3>3. QED
      BY <3>1, <3>2
  <2>2. QED
    BY <2>1, <1>6 DEF EndsSound, Fresh
<1>10. AttemptSound(x2', x8', x3', x9', x6', x7')
  BY <1>5 DEF AttemptSound
<1>11. HashSound(x3', x9', x6')
  BY <1>5 DEF HashSound
<1>12. QED
  BY <1>7, <1>8, <1>9, <1>10, <1>11 DEF TransferInv

(* The route settles a payment, or does not: the network applies it, it    *)
(* leaves the route or stays, and the attempt may be marked as lost.       *)
LEMMA PaymentSettled ==
  ASSUME TransferInv, NEW tx \in x7, UNCHANGED <<x1, x2, x3, x4>>, x5' \in Nat,
         x7' = x7 \/ x7' = x7 \ {tx},
         \/ x6' = x6
         \/ x6' = Append(x6, tx) /\ tx.signer = "me" /\ x7' = x7 \ {tx},
         x9' = x9 \/ x9' = [x9 EXCEPT ![tx.no].end = "lost"],
         \/ x8' = x8
         \/ /\ x2.tx = tx /\ x8' \in Replies
            /\ x8' = "accepted" => x6' = Append(x6, tx)
            /\ x8' = "refused" =>
                 \/ x9' = [x9 EXCEPT ![tx.no].end = "lost"]
                 \/ x7' = x7 \ {tx} /\ x6' = x6
  PROVE  TransferInv'
<1> USE TransferAssumption
<1>1. tx \in Txs /\ tx.no \in 1 .. Len(x9) /\ tx.no \in Nat
  BY DEF TransferInv, SendTypes, PaymentsSound, Carried
<1>2. /\ x9' \in Seq(Attempts) /\ Len(x9') = Len(x9)
      /\ \A k \in 1 .. Len(x9) : x9'[k].req = x9[k].req
      /\ \A k \in 1 .. Len(x9) :
           x9'[k].end = x9[k].end \/ (k = tx.no /\ x9'[k].end = "lost")
  <2>1. CASE x9' = x9
    BY <2>1 DEF TransferInv, SendTypes
  <2>2. CASE x9' = [x9 EXCEPT ![tx.no].end = "lost"]
    <3> DEFINE last == [x9[tx.no] EXCEPT !.end = "lost"]
    <3>1. x9[tx.no] \in Attempts
      BY <1>1 DEF TransferInv, SendTypes
    <3>2. last \in Attempts /\ last.req = x9[tx.no].req /\ last.end = "lost"
      BY <3>1 DEF Attempts
    <3>3. x9' = [x9 EXCEPT ![tx.no] = last]
      BY <2>2, <1>1
    <3> HIDE DEF last
    <3>4. QED
      BY <1>1, <3>2, <3>3 DEF TransferInv, SendTypes
  <2>3. QED
    BY <2>1, <2>2
<1>3. /\ x6' \in Seq(Txs) /\ Len(x6') \in Nat /\ Len(x6) <= Len(x6')
      /\ \A i \in 1 .. Len(x6) : x6'[i] = x6[i]
      /\ \A i \in 1 .. Len(x6') :
           \/ i \in 1 .. Len(x6)
           \/ /\ i = Len(x6) + 1 /\ x6'[i] = tx
              /\ tx.signer = "me" /\ x7' = x7 \ {tx}
  <2>1. x6 \in Seq(Txs) /\ Len(x6) \in Nat
    BY DEF TransferInv, SendTypes
  <2>2. CASE x6' = x6
    BY <2>1, <2>2
  <2>3. CASE x6' = Append(x6, tx) /\ tx.signer = "me" /\ x7' = x7 \ {tx}
    <3>1. /\ x6' \in Seq(Txs) /\ Len(x6') = Len(x6) + 1
          /\ \A i \in 1 .. Len(x6) : x6'[i] = x6[i]
          /\ x6'[Len(x6) + 1] = tx
      BY <1>1, <2>1, <2>3
    <3>2. QED
      BY <2>1, <2>3, <3>1
  <2>4. QED
    BY <2>2, <2>3
<1>4. SendTypes'
  BY <1>2, <1>3 DEF TransferInv, SendTypes
<1>5. PaymentsSound(x6', x7', x9')
  <2>1. \A ux \in Txs : Carried(ux, x9) => Carried(ux, x9')
    BY <1>2 DEF Carried
  <2>2. \A i \in 1 .. Len(x6') : Carried(x6'[i], x9') /\ x6'[i].signer = "me"
    BY <1>2, <1>3 DEF TransferInv, PaymentsSound, Carried
  <2>3. \A ux \in x7' : Carried(ux, x9')
    BY <1>2 DEF TransferInv, PaymentsSound, Carried
  <2>4. \A i, j \in 1 .. Len(x6') : x6'[i].no = x6'[j].no => i = j
    BY <1>3 DEF TransferInv, PaymentsSound
  <2>5. \A ux, wx \in x7' : ux.no = wx.no => ux = wx
    BY DEF TransferInv, PaymentsSound
  <2>6. \A i \in 1 .. Len(x6'), ux \in x7' : x6'[i].no # ux.no
    BY <1>3 DEF TransferInv, PaymentsSound
  <2>7. QED
    BY <2>2, <2>3, <2>4, <2>5, <2>6 DEF PaymentsSound
<1>6. \A k \in Nat : k # tx.no /\ Fresh(k, x6, x7) => Fresh(k, x6', x7')
  BY <1>3 DEF Fresh
<1>7. \A k \in Nat : Fresh(k, x6, x7) => k # tx.no
  BY DEF Fresh
<1>8. EndsSound(x9', x6', x7')
  <2>1. ASSUME NEW k \in 1 .. Len(x9)
        PROVE  /\ x9'[k].end = "told" => \E i \in 1 .. Len(x6') : x6'[i].no = k
               /\ x9'[k].end = "failed" => Fresh(k, x6', x7')
    <3>1. x9'[k].end = "told" \/ x9'[k].end = "failed" => x9'[k].end = x9[k].end
      BY <1>2
    <3>2. x9[k].end = "told" => \E i \in 1 .. Len(x6') : x6'[i].no = k
      BY <1>3 DEF TransferInv, EndsSound
    <3>3. x9[k].end = "failed" => Fresh(k, x6', x7')
      BY <1>6, <1>7 DEF TransferInv, EndsSound
    <3>4. QED
      BY <3>1, <3>2, <3>3
  <2>2. QED
    BY <2>1, <1>2 DEF EndsSound
<1>9. \A ux : Made(ux, x6) => Made(ux, x6')
  BY <1>3 DEF Made
<1>10. AttemptSound(x2', x8', x3', x9', x6', x7')
  <2>1. x2.stage # NoOne =>
          /\ x2.no = Len(x9') /\ Len(x9') > 0 /\ x3 = TransferScreen!Blank
          /\ x9'[x2.no].end \in {"open", "lost"}
    BY <1>2 DEF TransferInv, AttemptSound, SendTypes
  <2>2. x2.stage \in {"building", "signing"} => Fresh(x2.no, x6', x7')
    BY <1>6, <1>7 DEF TransferInv, AttemptSound, SendTypes
  <2>3. x2.stage \in {"signing", "submitting", "refreshing"} =>
          x2.tx \in Txs /\ x2.tx.no = x2.no /\ Carried(x2.tx, x9')
    BY <1>2 DEF TransferInv, AttemptSound, Carried
  <2>4. x2.stage = "refreshing" => Made(x2.tx, x6')
    BY <1>9 DEF TransferInv, AttemptSound
  <2>5. x2.stage = "submitting" /\ x8' = "accepted" => Made(x2.tx, x6')
    <3>1. CASE x8' = x8
      BY <3>1, <1>9 DEF TransferInv, AttemptSound
    <3>2. CASE x2.tx = tx /\ x6' = Append(x6, tx)
      BY <3>2, <1>1 DEF TransferInv, SendTypes, Made
    <3>3. QED
      BY <3>1, <3>2
  <2>6. x2.stage = "submitting" /\ x8' = "refused" =>
          x9'[x2.no].end = "lost" \/ Fresh(x2.no, x6', x7')
    <3>0. x2.stage = "submitting" => x2.no \in 1 .. Len(x9) /\ x2.tx.no = x2.no
      BY DEF TransferInv, AttemptSound, SendTypes, Carried
    <3>1. CASE x8' = x8
      BY <3>0, <3>1, <1>2, <1>6, <1>7 DEF TransferInv, AttemptSound
    <3>2. CASE x2.tx = tx /\ x9' = [x9 EXCEPT ![tx.no].end = "lost"]
      <4>1. x9[tx.no] \in Attempts /\ x9 \in Seq(Attempts)
        BY <1>1 DEF TransferInv, SendTypes
      <4>2. x9'[tx.no] = [x9[tx.no] EXCEPT !.end = "lost"]
        BY <3>2, <4>1, <1>1
      <4>3. x9'[tx.no].end = "lost"
        BY <4>1, <4>2 DEF Attempts
      <4>4. QED
        BY <3>0, <3>2, <4>3
    <3>3. CASE x2.tx = tx /\ x7' = x7 \ {tx} /\ x6' = x6
      <4>1. Fresh(tx.no, x6, x7 \ {tx})
        BY DEF TransferInv, PaymentsSound, Fresh
      <4>2. QED
        BY <3>0, <3>3, <4>1
    <3>4. QED
      BY <3>1, <3>2, <3>3
  <2>7. QED
    BY <2>1, <2>2, <2>3, <2>4, <2>5, <2>6 DEF AttemptSound
<1>11. HashSound(x3', x9', x6')
  BY <1>2, <1>9 DEF TransferInv, HashSound
<1>12. QED
  BY <1>4, <1>5, <1>8, <1>10, <1>11 DEF TransferInv

LEMMA TransferStep ==
  ASSUME TransferInv, TransferScreen!Next
  PROVE  TransferInv'
<1> USE TransferAssumption
<1>1. ASSUME TransferScreen!Type PROVE TransferInv'
  <2>1. x1' \in Forms
    <3>1. x1 \in Forms
      BY DEF TransferInv, SendTypes
    <3>2. CASE \E to \in TypedKeys : x1' = [x1 EXCEPT !.to = to]
      BY <3>1, <3>2 DEF Forms
    <3>3. CASE \E asset \in OfferedAssets : x1' = [x1 EXCEPT !.asset = asset]
      BY <3>1, <3>3 DEF Forms
    <3>4. CASE \E raw \in TypedAmounts :
                 x1' = [x1 EXCEPT !.amount = TransferScreen!Sanitized(raw)]
      BY <3>1, <3>4 DEF Forms
    <3>5. QED
      BY <1>1, <3>2, <3>3, <3>4 DEF TransferScreen!Type, TransferScreen!TypeAmount
  <2>2. UNCHANGED <<x2, x3, x4, x5, x6, x7, x8, x9>>
    BY <1>1 DEF TransferScreen!Type
  <2>3. QED
    BY <2>1, <2>2 DEF TransferInv, SendTypes, PaymentsSound, Carried, EndsSound, Fresh,
                      AttemptSound, Made, HashSound
<1>2. ASSUME TransferScreen!HandleSubmit PROVE TransferInv'
  <2> DEFINE fields == TransferScreen!FieldErrors(x1)
             try == [req |-> x1, end |-> "open"]
  <2>1. /\ x2.stage = NoOne /\ UNCHANGED <<x1, x4, x5, x6, x7, x8>>
        /\ x3' = [TransferScreen!Blank EXCEPT !.fields = fields]
    BY <1>2 DEF TransferScreen!HandleSubmit, TransferScreen!Enabled
  <2>2. /\ fields \subseteq {"to", "asset", "amount"}
        /\ x3' \in [hash : Txs \cup {NoOne}, error : BOOLEAN,
                    fields : SUBSET {"to", "asset", "amount"}]
        /\ x3'.hash = NoOne /\ (fields = {} => x3' = TransferScreen!Blank)
    BY <2>1 DEF TransferScreen!FieldErrors, TransferScreen!Blank
  <2>3. CASE fields # {}
    <3>1. UNCHANGED <<x2, x9>>
      BY <1>2, <2>3 DEF TransferScreen!HandleSubmit
    <3>2. SendTypes' /\ HashSound(x3', x9', x6')
      BY <2>1, <2>2, <3>1 DEF TransferInv, SendTypes, HashSound
    <3>3. AttemptSound(x2', x8', x3', x9', x6', x7')
      BY <2>1, <3>1 DEF TransferInv, AttemptSound
    <3>4. PaymentsSound(x6', x7', x9') /\ EndsSound(x9', x6', x7')
      BY <2>1, <3>1 DEF TransferInv, PaymentsSound, Carried, EndsSound, Fresh
    <3>5. QED
      BY <3>2, <3>3, <3>4 DEF TransferInv
  <2>4. CASE fields = {}
    <3>1. /\ x9' = Append(x9, try)
          /\ x2' = [stage |-> "building", no |-> Len(x9) + 1, tx |-> NoOne]
      BY <1>2, <2>4 DEF TransferScreen!HandleSubmit
    <3>2. /\ x9' \in Seq(Attempts) /\ Len(x9') = Len(x9) + 1 /\ Len(x9) \in Nat
          /\ \A k \in 1 .. Len(x9) : x9'[k] = x9[k]
          /\ x9'[Len(x9) + 1] = try
      <4>1. try \in Attempts /\ x9 \in Seq(Attempts)
        BY DEF TransferInv, SendTypes, Attempts
      <4>2. QED
        BY <3>1, <4>1
    <3>3. SendTypes'
      BY <2>1, <2>2, <3>1, <3>2 DEF TransferInv, SendTypes, Stages
    <3>4. PaymentsSound(x6', x7', x9')
      BY <2>1, <3>2 DEF TransferInv, PaymentsSound, Carried
    <3>5. Fresh(Len(x9) + 1, x6, x7)
      BY <3>2 DEF TransferInv, PaymentsSound, Carried, Fresh
    <3>6. EndsSound(x9', x6', x7')
      BY <2>1, <3>2 DEF TransferInv, EndsSound, Fresh
    <3>7. AttemptSound(x2', x8', x3', x9', x6', x7')
      <4>1. x2'.stage = "building" /\ x2'.no = Len(x9')
        BY <3>1, <3>2
      <4>2. x9'[x2'.no].end = "open" /\ Fresh(x2'.no, x6', x7')
        BY <2>1, <3>1, <3>2, <3>5
      <4>3. x3' = TransferScreen!Blank
        BY <2>2, <2>4
      <4>4. QED
        BY <3>2, <4>1, <4>2, <4>3 DEF AttemptSound
    <3>8. HashSound(x3', x9', x6')
      BY <2>2 DEF HashSound
    <3>9. QED
      BY <3>3, <3>4, <3>6, <3>7, <3>8 DEF TransferInv
  <2>5. QED
    BY <2>3, <2>4
<1>3. ASSUME TransferScreen!BuildUnsigned PROVE TransferInv'
  <2> DEFINE req == x9[x2.no].req
             tx == [to |-> req.to, asset |-> req.asset, amount |-> req.amount,
                    seq |-> x5 + 1, no |-> x2.no, signer |-> NoOne]
  <2>1. /\ x2.stage = "building" /\ UNCHANGED <<x1, x4, x5, x6, x7, x8>>
        /\ \/ TransferScreen!Failed("failed")
           \/ x2' = [x2 EXCEPT !.stage = "signing", !.tx = tx] /\ UNCHANGED <<x3, x9>>
    BY <1>3 DEF TransferScreen!BuildUnsigned, TransferScreen!Requested
  <2>2. Fresh(x2.no, x6, x7) /\ x2.no \in 1 .. Len(x9)
    BY <2>1 DEF TransferInv, AttemptSound, SendTypes
  <2>3. CASE TransferScreen!Failed("failed")
    BY <2>1, <2>2, <2>3, AttemptFails DEF TransferInv, SendTypes
  <2>4. CASE x2' = [x2 EXCEPT !.stage = "signing", !.tx = tx] /\ UNCHANGED <<x3, x9>>
    <3>1. req \in Forms
      <4>1. x9[x2.no] \in Attempts
        BY <2>2 DEF TransferInv, SendTypes
      <4>2. QED
        BY <4>1 DEF Attempts
    <3>2. /\ tx \in Txs /\ tx.no = x2.no
          /\ Payment(tx) = [to |-> req.to, asset |-> req.asset, amount |-> req.amount]
      <4>1. x5 + 1 \in Nat /\ x2.no \in Nat
        BY <2>2 DEF TransferInv, SendTypes
      <4>2. /\ req.to \in TypedKeys \cup {""} /\ req.asset \in OfferedAssets \cup {NoOne}
            /\ req.amount \in {TransferScreen!Sanitized(raw) : raw \in TypedAmounts} \cup {""}
        BY <3>1 DEF Forms
      <4> HIDE DEF req
      <4>3. QED
        BY <4>1, <4>2 DEF Txs, Payment
    <3>3. Carried(tx, x9)
      BY <2>2, <3>1, <3>2 DEF Carried, Forms
    <3> HIDE DEF tx
    <3>4. /\ x2'.stage = "signing" /\ x2'.no = x2.no /\ x2'.tx = tx
          /\ x2' \in [stage : Stages \cup {NoOne}, no : Nat, tx : Txs \cup {NoOne}]
      BY <2>4, <3>2 DEF TransferInv, SendTypes, Stages
    <3>5. SendTypes'
      BY <2>1, <2>4, <3>4 DEF TransferInv, SendTypes
    <3>6. AttemptSound(x2', x8', x3', x9', x6', x7')
      BY <2>1, <2>4, <3>2, <3>3, <3>4 DEF TransferInv, AttemptSound
    <3>7. PaymentsSound(x6', x7', x9') /\ EndsSound(x9', x6', x7') /\ HashSound(x3', x9', x6')
      BY <2>1, <2>4 DEF TransferInv, PaymentsSound, Carried, EndsSound, Fresh,
                        HashSound, Made
    <3>8. QED
      BY <3>5, <3>6, <3>7 DEF TransferInv
  <2>5. QED
    BY <2>1, <2>3, <2>4
<1>4. ASSUME TransferScreen!Sign PROVE TransferInv'
  <2> DEFINE signed == [x2.tx EXCEPT !.signer = x4]
  <2>1. /\ x2.stage = "signing" /\ UNCHANGED <<x1, x4, x5, x6>>
        /\ \/ TransferScreen!Failed("failed") /\ UNCHANGED <<x7, x8>>
           \/ /\ x2' = [x2 EXCEPT !.stage = "submitting", !.tx = signed]
              /\ x7' = x7 \cup {signed} /\ x8' = NoOne /\ UNCHANGED <<x3, x9>>
    BY <1>4 DEF TransferScreen!Sign
  <2>2. /\ Fresh(x2.no, x6, x7) /\ x2.no \in 1 .. Len(x9)
        /\ x2.tx \in Txs /\ x2.tx.no = x2.no /\ Carried(x2.tx, x9)
    BY <2>1 DEF TransferInv, AttemptSound, SendTypes
  <2>3. CASE TransferScreen!Failed("failed") /\ UNCHANGED <<x7, x8>>
    BY <2>1, <2>2, <2>3, AttemptFails DEF TransferInv, SendTypes
  <2>4. CASE /\ x2' = [x2 EXCEPT !.stage = "submitting", !.tx = signed]
             /\ x7' = x7 \cup {signed} /\ x8' = NoOne /\ UNCHANGED <<x3, x9>>
    <3>1. signed \in Txs /\ signed.no = x2.no /\ Payment(signed) = Payment(x2.tx)
      BY <2>2 DEF Txs, TransferInv, SendTypes, Payment
    <3>2. Carried(signed, x9)
      BY <2>2, <3>1 DEF Carried
    <3> HIDE DEF signed
    <3>3. /\ x2'.stage = "submitting" /\ x2'.no = x2.no /\ x2'.tx = signed
          /\ x2' \in [stage : Stages \cup {NoOne}, no : Nat, tx : Txs \cup {NoOne}]
      BY <2>4, <3>1 DEF TransferInv, SendTypes, Stages
    <3>4. SendTypes'
      BY <2>1, <2>4, <3>1, <3>3 DEF TransferInv, SendTypes, Replies
    <3>5. PaymentsSound(x6', x7', x9')
      BY <2>1, <2>2, <2>4, <3>1, <3>2 DEF TransferInv, PaymentsSound, Carried, Fresh
    <3>6. EndsSound(x9', x6', x7')
      <4>1. \A k \in 1 .. Len(x9) : x9[k].end = "failed" => k # x2.no
        BY <2>1 DEF TransferInv, AttemptSound
      <4>2. QED
        BY <2>1, <2>4, <3>1, <4>1 DEF TransferInv, EndsSound, Fresh
    <3>7. AttemptSound(x2', x8', x3', x9', x6', x7')
      BY <2>1, <2>4, <3>1, <3>2, <3>3 DEF TransferInv, AttemptSound
    <3>8. HashSound(x3', x9', x6')
      BY <2>1, <2>4 DEF TransferInv, HashSound, Made
    <3>9. QED
      BY <3>4, <3>5, <3>6, <3>7, <3>8 DEF TransferInv
  <2>5. QED
    BY <2>1, <2>3, <2>4
<1>5. ASSUME TransferScreen!SwitchAccount PROVE TransferInv'
  <2>1. x4' \in {"me", "other"} /\ UNCHANGED <<x1, x2, x3, x5, x6, x7, x8, x9>>
    BY <1>5 DEF TransferScreen!SwitchAccount, TransferScreen!Me
  <2>2. QED
    BY <2>1 DEF TransferInv, SendTypes, PaymentsSound, Carried, EndsSound, Fresh,
                AttemptSound, Made, HashSound
<1>6. ASSUME TransferScreen!Receive PROVE TransferInv'
  <2>1. /\ x2.stage = "submitting" /\ x8' = NoOne /\ UNCHANGED <<x1, x4, x5, x6, x7>>
        /\ \/ /\ x8 = "accepted" /\ x2' = [x2 EXCEPT !.stage = "refreshing"]
              /\ UNCHANGED <<x3, x9>>
           \/ x8 = "refused" /\ TransferScreen!Failed("failed")
           \/ TransferScreen!Failed("lost")
    BY <1>6 DEF TransferScreen!Receive
  <2>2. CASE x8 = "refused" /\ TransferScreen!Failed("failed")
    <3>1. x9[x2.no].end = "lost" \/ Fresh(x2.no, x6, x7)
      BY <2>1, <2>2 DEF TransferInv, AttemptSound
    <3>2. QED
      BY <2>1, <2>2, <3>1, AttemptFails DEF Replies
  <2>3. CASE TransferScreen!Failed("lost")
    BY <2>1, <2>3, AttemptFails DEF Replies
  <2>4. CASE /\ x8 = "accepted" /\ x2' = [x2 EXCEPT !.stage = "refreshing"]
             /\ UNCHANGED <<x3, x9>>
    <3>1. /\ x2'.stage = "refreshing" /\ x2'.no = x2.no /\ x2'.tx = x2.tx
          /\ x2' \in [stage : Stages \cup {NoOne}, no : Nat, tx : Txs \cup {NoOne}]
      BY <2>4 DEF TransferInv, SendTypes, Stages
    <3>2. SendTypes'
      BY <2>1, <2>4, <3>1 DEF TransferInv, SendTypes, Replies
    <3>3. Made(x2.tx, x6)
      BY <2>1, <2>4 DEF TransferInv, AttemptSound
    <3>4. AttemptSound(x2', x8', x3', x9', x6', x7')
      BY <2>1, <2>4, <3>1, <3>3 DEF TransferInv, AttemptSound
    <3>5. PaymentsSound(x6', x7', x9') /\ EndsSound(x9', x6', x7') /\ HashSound(x3', x9', x6')
      BY <2>1, <2>4 DEF TransferInv, PaymentsSound, Carried, EndsSound, Fresh,
                        HashSound, Made
    <3>6. QED
      BY <3>2, <3>4, <3>5 DEF TransferInv
  <2>5. QED
    BY <2>1, <2>2, <2>3, <2>4
<1>7. ASSUME TransferScreen!Finish PROVE TransferInv'
  <2> DEFINE n == x2.no
             last == [x9[n] EXCEPT !.end = IF x9[n].end = "lost" THEN "lost" ELSE "told"]
  <2>1. /\ x2.stage = "refreshing" /\ UNCHANGED <<x4, x5, x6, x7, x8>>
        /\ x2' = [stage |-> NoOne, no |-> 0, tx |-> NoOne]
        /\ x3' = [x3 EXCEPT !.hash = x2.tx]
        /\ x1' = [x1 EXCEPT !.to = "", !.amount = ""]
    BY <1>7 DEF TransferScreen!Finish, TransferScreen!Idle
  <2>2. /\ n \in 1 .. Len(x9) /\ n = Len(x9) /\ x3 = TransferScreen!Blank
        /\ x2.tx \in Txs /\ x2.tx.no = n /\ Made(x2.tx, x6)
    BY <2>1 DEF TransferInv, AttemptSound, SendTypes
  <2>3. x9[n] \in Attempts
    BY <2>2 DEF TransferInv, SendTypes
  <2>4. /\ last \in Attempts /\ last.req = x9[n].req /\ last.end \in {"lost", "told"}
    BY <2>3 DEF Attempts
  <2>5. x9' = [x9 EXCEPT ![n] = last]
    BY <1>7, <2>2, <2>3 DEF TransferScreen!Finish
  <2> HIDE DEF last
  <2>6. /\ x9' \in Seq(Attempts) /\ Len(x9') = Len(x9)
        /\ \A k \in 1 .. Len(x9) : x9'[k].req = x9[k].req
        /\ \A k \in 1 .. Len(x9) : k # n => x9'[k] = x9[k]
        /\ x9'[n] = last
    BY <2>2, <2>4, <2>5 DEF TransferInv, SendTypes
  <2> HIDE DEF n
  <2>7. /\ x3' \in [hash : Txs \cup {NoOne}, error : BOOLEAN,
                    fields : SUBSET {"to", "asset", "amount"}]
        /\ x3'.hash = x2.tx /\ ~ x3'.error
    BY <2>1, <2>2 DEF TransferScreen!Blank
  <2>8. x1' \in Forms
    <3>1. x1 \in Forms
      BY DEF TransferInv, SendTypes
    <3>2. QED
      BY <2>1, <3>1 DEF Forms
  <2>9. SendTypes'
    <3>1. x2' \in [stage : Stages \cup {NoOne}, no : Nat, tx : Txs \cup {NoOne}]
          /\ x2'.no = 0 /\ Len(x9') \in Nat
      BY <2>1, <2>6
    <3>2. /\ x3' \in [hash : Txs \cup {NoOne}, error : BOOLEAN,
                      fields : SUBSET {"to", "asset", "amount"}]
          /\ x9' \in Seq(Attempts)
      BY <2>6, <2>7
    <3>3. /\ x4' \in {"me", "other"} /\ x5' \in Nat
          /\ x6' \in Seq(Txs) /\ x7' \subseteq Txs /\ x8' \in Replies
      BY <2>1 DEF TransferInv, SendTypes
    <3>4. x2'.no <= Len(x9')
      BY <3>1
    <3>5. QED
      BY <2>8, <3>1, <3>2, <3>3, <3>4 DEF SendTypes
  <2>10. PaymentsSound(x6', x7', x9')
    BY <2>1, <2>6 DEF TransferInv, PaymentsSound, Carried
  <2>11. EndsSound(x9', x6', x7')
    <3>1. ASSUME NEW k \in 1 .. Len(x9)
          PROVE  /\ x9'[k].end = "told" => \E i \in 1 .. Len(x6) : x6[i].no = k
                 /\ x9'[k].end = "failed" => Fresh(k, x6, x7)
      <4>1. CASE k = n
        BY <4>1, <2>2, <2>4, <2>6 DEF Made
      <4>2. CASE k # n
        BY <4>2, <2>6 DEF TransferInv, EndsSound
      <4>3. QED
        BY <4>1, <4>2
    <3>2. QED
      BY <2>1, <2>6, <3>1 DEF EndsSound, Fresh
  <2>12. AttemptSound(x2', x8', x3', x9', x6', x7')
    BY <2>1 DEF AttemptSound
  <2>13. HashSound(x3', x9', x6')
    BY <2>1, <2>2, <2>6, <2>7 DEF HashSound, Made
  <2>14. QED
    BY <2>9, <2>10, <2>11, <2>12, <2>13 DEF TransferInv
<1>8. ASSUME NEW tx \in x7, TransferScreen!Transfer(tx) PROVE TransferInv'
  <2>1. /\ x7' = x7 \ {tx} /\ UNCHANGED <<x1, x2, x3, x4, x9>>
        /\ \/ /\ TransferScreen!Applicable(tx) /\ TransferScreen!Apply(tx)
              /\ TransferScreen!Reply(tx, "accepted")
           \/ TransferScreen!Reply(tx, "refused") /\ UNCHANGED <<x5, x6>>
    BY <1>8 DEF TransferScreen!Transfer
  <2>2. tx.seq \in Nat /\ x5 \in Nat /\ x8 \in Replies
    BY DEF TransferInv, SendTypes, Txs
  <2>3. CASE /\ TransferScreen!Applicable(tx) /\ TransferScreen!Apply(tx)
             /\ TransferScreen!Reply(tx, "accepted")
    <3>1. /\ tx.signer = "me" /\ x6' = Append(x6, tx) /\ x5' = tx.seq
          /\ (x8' = x8 \/ (x2.tx = tx /\ x8' = "accepted"))
      BY <2>3 DEF TransferScreen!Applicable, TransferScreen!Apply, TransferScreen!Reply,
                  TransferScreen!Me
    <3>2. QED
      BY <2>1, <2>2, <3>1, PaymentSettled DEF Replies
  <2>4. CASE TransferScreen!Reply(tx, "refused") /\ UNCHANGED <<x5, x6>>
    <3>1. x8' = x8 \/ (x2.tx = tx /\ x8' = "refused")
      BY <2>4 DEF TransferScreen!Reply
    <3>2. QED
      BY <2>1, <2>2, <2>4, <3>1, PaymentSettled DEF Replies
  <2>5. QED
    BY <2>1, <2>3, <2>4
<1>9. ASSUME NEW tx \in x7, TransferScreen!Unanswered(tx) PROVE TransferInv'
  <2>1. /\ UNCHANGED <<x1, x2, x3, x4>>
        /\ x9' = [x9 EXCEPT ![tx.no].end = "lost"]
    BY <1>9 DEF TransferScreen!Unanswered
  <2>2. tx.seq \in Nat /\ x5 \in Nat /\ x8 \in Replies
    BY DEF TransferInv, SendTypes, Txs
  <2>3. /\ x7' = x7 \/ x7' = x7 \ {tx}
        /\ \/ UNCHANGED <<x5, x6>>
           \/ TransferScreen!Applicable(tx) /\ TransferScreen!Apply(tx) /\ x7' = x7 \ {tx}
        /\ \E code \in {"refused", "unknown"} : TransferScreen!Reply(tx, code)
    BY <1>9 DEF TransferScreen!Unanswered
  <2>4. x8' = x8 \/ (x2.tx = tx /\ x8' \in {"refused", "unknown"})
    BY <2>3 DEF TransferScreen!Reply
  <2>5. /\ x5' \in Nat
        /\ x6' = x6 \/ (x6' = Append(x6, tx) /\ tx.signer = "me" /\ x7' = x7 \ {tx})
    BY <2>2, <2>3 DEF TransferScreen!Applicable, TransferScreen!Apply, TransferScreen!Me
  <2>6. QED
    BY <2>1, <2>3, <2>4, <2>5, PaymentSettled DEF Replies
<1>10. ASSUME TransferScreen!Elsewhere PROVE TransferInv'
  <2>1. x5' \in Nat /\ UNCHANGED <<x1, x2, x3, x4, x6, x7, x8, x9>>
    BY <1>10 DEF TransferScreen!Elsewhere, TransferInv, SendTypes
  <2>2. QED
    BY <2>1 DEF TransferInv, SendTypes, PaymentsSound, Carried, EndsSound, Fresh,
                AttemptSound, Made, HashSound
<1>11. QED
  BY <1>1, <1>2, <1>3, <1>4, <1>5, <1>6, <1>7, <1>8, <1>9, <1>10 DEF TransferScreen!Next

(* Whatever is typed, switched, lost, applied late or refused while the    *)
(* calls run: what the network applies is what was asked and signed, once  *)
(* an attempt, and what the form then shows is true of it.                 *)
THEOREM TransferHolds == MCSpec => []TransferSound
<1> USE TransferAssumption
<1> DEFINE Inv == part = "TransferScreen" => TransferInv
<1>1. MCInit => Inv
  <2> SUFFICES ASSUME part = "TransferScreen", TransferScreen!Init PROVE TransferInv
    BY DEF MCInit
  <2>1. /\ x1 = [to |-> "", asset |-> NoOne, amount |-> ""]
        /\ x2 = [stage |-> NoOne, no |-> 0, tx |-> NoOne]
        /\ x3 = [hash |-> NoOne, error |-> FALSE, fields |-> {}]
        /\ x4 = "me" /\ x5 = 0 /\ x6 = <<>> /\ x7 = {} /\ x8 = NoOne /\ x9 = <<>>
    BY DEF TransferScreen!Init, TransferScreen!Idle, TransferScreen!Blank, TransferScreen!Me
  <2>2. x1 \in Forms
    BY <2>1 DEF Forms
  <2>3. /\ <<>> \in Seq(Txs) /\ <<>> \in Seq(Attempts) /\ Len(<<>>) = 0
        /\ \A i : i \notin 1 .. 0
    OBVIOUS
  <2>4. SendTypes
    <3>1. x2 \in [stage : Stages \cup {NoOne}, no : Nat, tx : Txs \cup {NoOne}]
          /\ x2.no = 0
      BY <2>1
    <3>2. x3 \in [hash : Txs \cup {NoOne}, error : BOOLEAN,
                  fields : SUBSET {"to", "asset", "amount"}]
      BY <2>1
    <3>3. /\ x4 = "me" /\ x5 = 0 /\ x6 = <<>> /\ x7 = {} /\ x8 = NoOne
          /\ x9 = <<>>
      BY <2>1
    <3>4. QED
      BY <2>2, <2>3, <3>1, <3>2, <3>3 DEF SendTypes, Replies
  <2>5. PaymentsSound(x6, x7, x9) /\ EndsSound(x9, x6, x7)
    <3>1. x6 = <<>> /\ x7 = {} /\ x9 = <<>>
      BY <2>1
    <3>2. 1 .. Len(x6) = {} /\ 1 .. Len(x9) = {}
      BY <2>3, <3>1
    <3>3. QED
      BY <3>1, <3>2 DEF PaymentsSound, EndsSound
  <2>6. AttemptSound(x2, x8, x3, x9, x6, x7) /\ HashSound(x3, x9, x6)
    BY <2>1 DEF AttemptSound, HashSound
  <2>7. QED
    BY <2>4, <2>5, <2>6 DEF TransferInv
<1>2. Inv /\ [MCNext]_<<part, vars, xs>> => Inv'
  <2> SUFFICES ASSUME Inv, [MCNext]_<<part, vars, xs>> PROVE Inv'
    OBVIOUS
  <2>1. CASE part = "TransferScreen" /\ TransferScreen!Next /\ part' = part
    BY <2>1, TransferStep
  <2>2. CASE UNCHANGED <<part, vars, xs>>
    BY <2>2 DEF xs, TransferInv, SendTypes, PaymentsSound, Carried, EndsSound, Fresh,
                AttemptSound, Made, HashSound
  <2>3. CASE part # "TransferScreen" /\ part' = part
    BY <2>3
  <2>4. QED
    BY <2>1, <2>2, <2>3 DEF MCNext
<1>3. Inv => TransferSound
  <2> SUFFICES ASSUME TransferInv PROVE TransferScreen!TransferSound
    BY DEF TransferSound
  <2>1. DOMAIN x6 = 1 .. Len(x6) /\ DOMAIN x9 = 1 .. Len(x9)
    BY DEF TransferInv, SendTypes
  <2>2. TransferScreen!TypeOK
    BY DEF TransferInv, SendTypes, TransferScreen!TypeOK, Stages, Replies
  <2>3. TransferScreen!AppliedAsAsked
    BY <2>1 DEF TransferInv, PaymentsSound, Carried, Payment,
                TransferScreen!AppliedAsAsked, TransferScreen!Me
  <2>4. TransferScreen!PaidOnce
    BY <2>1 DEF TransferInv, PaymentsSound, TransferScreen!PaidOnce
  <2>5. TransferScreen!EndsAreTrue
    BY <2>1 DEF TransferInv, EndsSound, Fresh, TransferScreen!EndsAreTrue
  <2>6. TransferScreen!HashOfLast
    BY <2>1 DEF TransferInv, AttemptSound, HashSound, Made, TransferScreen!HashOfLast
  <2>7. QED
    BY <2>2, <2>3, <2>4, <2>5, <2>6 DEF TransferScreen!TransferSound
<1> HIDE DEF Inv
<1>4. QED
  BY <1>1, <1>2, <1>3, PTL DEF MCSpec
=============================================================================
