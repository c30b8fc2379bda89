---------------------- MODULE GovernanceUpgradesProofs ----------------------
(***************************************************************************)
(* Proofs about GovernanceUpgrades for any accounts, upgrade ids, hashes   *)
(* and times to live; and about Communities, PaymentFeed, Prices and       *)
(* Migrations, which MCGovernanceUpgrades checks beside it, for any        *)
(* communities, members, requests in flight, payments, servers, price      *)
(* sources, delays, deployed images and numbers of files.                  *)
(***************************************************************************)
EXTENDS MCGovernanceUpgrades, FiniteSetTheorems, WellFoundedInduction, TLAPS

-----------------------------------------------------------------------------
(* Every stored record keeps its type.                                     *)
THEOREM TypeCorrect == Spec => []TypeOK
<1>1. Init => TypeOK
  BY DEF Init, TypeOK, NoUpgrade, Upgrade
<1>2. TypeOK /\ [Next]_vars => TypeOK'
  <2> SUFFICES ASSUME TypeOK, [Next]_vars PROVE TypeOK'
    OBVIOUS
  <2>1. ASSUME NEW actor \in Accounts, NEW u \in UpgradeIds,
               NEW h \in Hashes, NEW ttl \in TTLs,
               ProposeUpgrade(actor, u, h, ttl)
        PROVE  TypeOK'
    <3>1. now + ttl \in Nat
      BY BoundsAssumption DEF TypeOK
    <3>2. upgrades' \in [UpgradeIds -> Upgrade]
      BY <2>1, <3>1 DEF TypeOK, ProposeUpgrade, Upgrade
    <3>3. QED
      BY <2>1, <3>2 DEF TypeOK, ProposeUpgrade
  <2>2. ASSUME NEW actor \in Accounts, NEW u \in UpgradeIds,
               ApproveUpgrade(actor, u)
        PROVE  TypeOK'
    <3>1. upgrades' \in [UpgradeIds -> Upgrade]
      <4>1. /\ upgrades[u].target_hash \in Hashes \cup {None}
            /\ upgrades[u].expires_at \in Nat
            /\ upgrades[u].approval_count + 1 \in Nat
        BY DEF TypeOK, Upgrade
      <4>2. [upgrades[u] EXCEPT !.approval_count = @ + 1] \in Upgrade
        BY <4>1, SMTT(20) DEF TypeOK, Upgrade
      <4>3. QED
        BY <2>2, <4>2 DEF TypeOK, ApproveUpgrade
    <3>2. approvers' \in [UpgradeIds -> SUBSET Accounts]
      BY <2>2 DEF TypeOK, ApproveUpgrade
    <3>3. approvedIn' \in [UpgradeIds -> [Accounts -> Nat]]
      BY <2>2 DEF TypeOK, ApproveUpgrade
    <3>4. QED
      BY <2>2, <3>1, <3>2, <3>3 DEF TypeOK, ApproveUpgrade
  <2>3. CASE SweepExpiredUpgrades
    <3>1. NoUpgrade \in Upgrade
      BY DEF NoUpgrade, Upgrade
    <3>2. QED
      BY <2>3, <3>1 DEF TypeOK, SweepExpiredUpgrades
  <2>4. ASSUME NEW holders \in SUBSET Accounts, ChangeUpgraders(holders)
        PROVE  TypeOK'
    BY <2>4 DEF TypeOK, ChangeUpgraders, upgradeVars
  <2>5. CASE Tick
    BY <2>5 DEF TypeOK, Tick, upgradeVars
  <2>6. CASE UNCHANGED vars
    BY <2>6 DEF TypeOK, vars, upgradeVars
  <2>7. QED
    BY <2>1, <2>2, <2>3, <2>4, <2>5, <2>6 DEF Next, UpgradeCall
<1>3. QED
  BY <1>1, <1>2, PTL DEF Spec

-----------------------------------------------------------------------------
(* One contract call never mixes up the three storage keys.  The index is  *)
(* sound because an id whose record is absent is in no index entry, and    *)
(* approvals are of the present proposal because an absent record has no   *)
(* approvers: so the three parts are inductive only together.              *)
IInv ==
  /\ ApprovalsCounted
  /\ ApprovalsAreOfThisProposal
  /\ HashIndexSound

LEMMA ProposeKeepsIInv ==
  ASSUME TypeOK, IInv, NEW actor \in Accounts, NEW u \in UpgradeIds,
         NEW h \in Hashes, NEW ttl \in TTLs, ProposeUpgrade(actor, u, h, ttl)
  PROVE  IInv'
<1>1. approvers[u] = {} /\ approvers' = approvers
  BY DEF IInv, ApprovalsCounted, ProposeUpgrade
<1>2. h # None
  BY AbsentAssumption
<1>3. /\ upgrades'[u].target_hash = h
      /\ upgrades'[u].approval_count = 0
      /\ \A v \in UpgradeIds \ {u} : upgrades'[v] = upgrades[v]
  BY DEF TypeOK, ProposeUpgrade
<1>4. ApprovalsCounted'
  <2> SUFFICES ASSUME NEW v \in UpgradeIds
               PROVE  /\ upgrades'[v].approval_count = Cardinality(approvers'[v])
                      /\ ~IsPending(v)' => approvers'[v] = {}
    BY DEF ApprovalsCounted
  <2>1. CASE v = u
    BY <1>1, <1>3, <2>1, FS_EmptySet
  <2>2. CASE v # u
    BY <1>1, <1>3, <2>2 DEF IInv, ApprovalsCounted, IsPending
  <2>3. QED
    BY <2>1, <2>2
<1>5. ApprovalsAreOfThisProposal'
  BY <1>1 DEF IInv, ApprovalsAreOfThisProposal, ProposeUpgrade, TypeOK
<1>6. HashIndexSound'
  <2> SUFFICES ASSUME NEW k \in Hashes, hashIndex'[k] # None
               PROVE  upgrades'[hashIndex'[k]].target_hash = k
    BY DEF HashIndexSound
  <2>1. CASE k = h
    BY <1>3, <2>1 DEF ProposeUpgrade, TypeOK
  <2>2. CASE k # h
    <3>1. /\ hashIndex[k] = hashIndex'[k]
          /\ hashIndex[k] \in UpgradeIds
      BY <2>2 DEF ProposeUpgrade, TypeOK
    <3>2. upgrades[hashIndex[k]].target_hash = k
      BY <3>1 DEF IInv, HashIndexSound
    <3>3. hashIndex[k] # u
      BY <3>2, AbsentAssumption DEF ProposeUpgrade, IsPending
    <3>4. QED
      BY <1>3, <3>1, <3>2, <3>3
  <2>3. QED
    BY <2>1, <2>2
<1>7. QED
  BY <1>4, <1>5, <1>6 DEF IInv

LEMMA ApproveKeepsIInv ==
  ASSUME TypeOK, IInv, NEW actor \in Accounts, NEW u \in UpgradeIds,
         ApproveUpgrade(actor, u)
  PROVE  IInv'
<1>1. /\ approvers' = [approvers EXCEPT ![u] = @ \cup {actor}]
      /\ actor \notin approvers[u]
      /\ approvers[u] \subseteq Accounts
  BY DEF ApproveUpgrade, TypeOK
<1>2. /\ upgrades'[u].approval_count = upgrades[u].approval_count + 1
      /\ upgrades'[u].target_hash = upgrades[u].target_hash
      /\ \A v \in UpgradeIds \ {u} : upgrades'[v] = upgrades[v]
  BY DEF ApproveUpgrade, TypeOK, Upgrade
<1>3. ApprovalsCounted'
  <2>1. IsFiniteSet(approvers[u])
    BY <1>1, AccountsAssumption, FS_Subset
  <2>2. Cardinality(approvers[u] \cup {actor}) = Cardinality(approvers[u]) + 1
    BY <1>1, <2>1, FS_AddElement
  <2>3. upgrades'[u].approval_count = Cardinality(approvers'[u])
    BY <1>1, <1>2, <2>2 DEF IInv, ApprovalsCounted, TypeOK
  <2>4. IsPending(u)'
    BY <1>2 DEF ApproveUpgrade, IsPending
  <2>5. ASSUME NEW v \in UpgradeIds \ {u}
        PROVE  /\ upgrades'[v].approval_count = Cardinality(approvers'[v])
               /\ ~IsPending(v)' => approvers'[v] = {}
    BY <1>1, <1>2, <2>5 DEF IInv, ApprovalsCounted, IsPending, TypeOK
  <2>6. QED
    BY <2>3, <2>4, <2>5 DEF ApprovalsCounted
<1>4. ApprovalsAreOfThisProposal'
  <2> SUFFICES ASSUME NEW v \in UpgradeIds, NEW a \in approvers'[v]
               PROVE  approvedIn'[v][a] = round'[v]
    BY DEF ApprovalsAreOfThisProposal
  <2>1. round' = round
    BY DEF ApproveUpgrade
  <2>2. CASE v = u /\ a = actor
    BY <2>1, <2>2 DEF ApproveUpgrade, TypeOK
  <2>3. CASE ~(v = u /\ a = actor)
    <3>1. a \in approvers[v]
      BY <1>1, <2>3 DEF TypeOK
    <3>2. approvedIn'[v][a] = approvedIn[v][a]
      BY <2>3, <3>1 DEF ApproveUpgrade, TypeOK
    <3>3. QED
      BY <2>1, <3>1, <3>2 DEF IInv, ApprovalsAreOfThisProposal
  <2>4. QED
    BY <2>2, <2>3
<1>5. HashIndexSound'
  <2>1. \A v \in UpgradeIds : upgrades'[v].target_hash = upgrades[v].target_hash
    BY <1>2
  <2>2. hashIndex' = hashIndex
    BY DEF ApproveUpgrade
  <2>3. QED
    BY <2>1, <2>2 DEF IInv, HashIndexSound, TypeOK
<1>6. QED
  BY <1>3, <1>4, <1>5 DEF IInv

LEMMA SweepKeepsIInv ==
  ASSUME TypeOK, IInv, SweepExpiredUpgrades
  PROVE  IInv'
<1>1. ASSUME NEW u \in UpgradeIds
      PROVE  \/ IsExpired(u) /\ upgrades'[u] = NoUpgrade /\ approvers'[u] = {}
             \/ /\ ~IsExpired(u)
                /\ upgrades'[u] = upgrades[u]
                /\ approvers'[u] = approvers[u]
  BY DEF SweepExpiredUpgrades
<1>2. ApprovalsCounted'
  <2> SUFFICES ASSUME NEW u \in UpgradeIds
               PROVE  /\ upgrades'[u].approval_count = Cardinality(approvers'[u])
                      /\ ~IsPending(u)' => approvers'[u] = {}
    BY DEF ApprovalsCounted
  <2>1. CASE upgrades'[u] = NoUpgrade /\ approvers'[u] = {}
    BY <2>1, FS_EmptySet DEF NoUpgrade
  <2>2. CASE upgrades'[u] = upgrades[u] /\ approvers'[u] = approvers[u]
    BY <2>2 DEF IInv, ApprovalsCounted, IsPending
  <2>3. QED
    BY <1>1, <2>1, <2>2
<1>3. ApprovalsAreOfThisProposal'
  <2> SUFFICES ASSUME NEW u \in UpgradeIds, NEW a \in approvers'[u]
               PROVE  approvedIn'[u][a] = round'[u]
    BY DEF ApprovalsAreOfThisProposal
  <2>1. a \in approvers[u]
    BY <1>1
  <2>2. QED
    BY <2>1 DEF IInv, ApprovalsAreOfThisProposal, SweepExpiredUpgrades
<1>4. HashIndexSound'
  <2> SUFFICES ASSUME NEW k \in Hashes, hashIndex'[k] # None
               PROVE  upgrades'[hashIndex'[k]].target_hash = k
    BY DEF HashIndexSound
  <2>1. /\ hashIndex'[k] = hashIndex[k]
        /\ \A u \in UpgradeIds : IsExpired(u) => upgrades[u].target_hash # k
    BY DEF SweepExpiredUpgrades
  <2>2. hashIndex[k] \in UpgradeIds /\ upgrades[hashIndex[k]].target_hash = k
    BY <2>1 DEF IInv, HashIndexSound, TypeOK
  <2>3. QED
    BY <1>1, <2>1, <2>2
<1>5. QED
  BY <1>2, <1>3, <1>4 DEF IInv

(* The records, the hash index and the approver lists always agree: counts *)
(* are the numbers of approvers, approvals are of the present proposal,    *)
(* and the index leads to a pending upgrade of the hash it was asked for.  *)
THEOREM UpgradeRecordsAgree == Spec => []UpgradeRecordsSound
<1>1. Init => IInv
  BY FS_EmptySet
     DEF Init, IInv, ApprovalsCounted, ApprovalsAreOfThisProposal,
         HashIndexSound, NoUpgrade
<1>2. TypeOK /\ IInv /\ [Next]_vars => IInv'
  <2> SUFFICES ASSUME TypeOK, IInv, [Next]_vars PROVE IInv'
    OBVIOUS
  <2>1. CASE UNCHANGED upgradeVars
    BY <2>1 DEF upgradeVars, IInv, ApprovalsCounted, IsPending,
                ApprovalsAreOfThisProposal, HashIndexSound
  <2>2. CASE UNCHANGED vars
    BY <2>1, <2>2 DEF vars
  <2>3. QED
    BY <2>1, <2>2, ProposeKeepsIInv, ApproveKeepsIInv, SweepKeepsIInv
       DEF Next, UpgradeCall, ChangeUpgraders, Tick
<1>3. QED
  BY <1>1, <1>2, TypeCorrect, PTL DEF Spec, IInv, UpgradeRecordsSound

-----------------------------------------------------------------------------
(* Until it expires, a pending upgrade stays, for the same build, and      *)
(* loses no approval.                                                      *)
THEOREM LiveUpgradesStay == Spec => LiveUpgradesKept
<1>1. TypeOK /\ [Next]_vars =>
        [\A u \in UpgradeIds :
           (IsPending(u) /\ ~IsExpired(u)) => KeepsUpgrade(u)]_vars
  <2> SUFFICES ASSUME TypeOK, Next, NEW u \in UpgradeIds,
                      IsPending(u), ~IsExpired(u)
               PROVE  KeepsUpgrade(u)
    OBVIOUS
  <2>1. upgrades[u].approval_count \in Nat
    BY DEF TypeOK, Upgrade
  <2>2. CASE upgrades'[u] = upgrades[u] /\ approvers'[u] = approvers[u]
    BY <2>1, <2>2 DEF KeepsUpgrade
  <2>3. ASSUME NEW actor \in Accounts, NEW v \in UpgradeIds,
               NEW h \in Hashes, NEW ttl \in TTLs,
               ProposeUpgrade(actor, v, h, ttl)
        PROVE  KeepsUpgrade(u)
    <3>1. v # u
      BY <2>3 DEF ProposeUpgrade
    <3>2. QED
      BY <2>2, <2>3, <3>1 DEF ProposeUpgrade, TypeOK
  <2>4. ASSUME NEW actor \in Accounts, NEW v \in UpgradeIds,
               ApproveUpgrade(actor, v)
        PROVE  KeepsUpgrade(u)
    BY <2>1, <2>4 DEF ApproveUpgrade, TypeOK, Upgrade, KeepsUpgrade
  <2>5. CASE SweepExpiredUpgrades
    BY <2>2, <2>5 DEF SweepExpiredUpgrades
  <2>6. CASE UNCHANGED upgradeVars
    BY <2>2, <2>6 DEF upgradeVars
  <2>7. QED
    BY <2>3, <2>4, <2>5, <2>6 DEF Next, UpgradeCall, ChangeUpgraders, Tick
<1>2. QED
  BY <1>1, TypeCorrect, PTL DEF Spec, LiveUpgradesKept

-----------------------------------------------------------------------------
(* Communities.  That a write finds its row, and that what it writes fits  *)
(* the column, rests on what each request carries.                         *)
Carries(q) ==
  /\ q.op = "create" => q.value \in Hashes /\ q.target \in Accounts /\ q.id = None
  /\ q.op # "create" => q.id \in UpgradeIds /\ x1[q.id] # None
  /\ q.op = "update" => q.value \in Hashes \cup {None}
  /\ q.op = "avatar" => q.value \in Avatars
  /\ q.op \in {"add", "role"} => q.value \in GrantedRoles /\ q.target \in Accounts
  /\ q.op = "remove" => q.value = None /\ q.target \in Accounts

RequestsCarry == \A r \in Requests : x3[r] # None => Carries(x3[r])

CommunitiesInv ==
  Communities!TypeOK /\ Communities!LiveNamesUnique /\ RequestsCarry

(* A request that begins, is answered or goes on to its next query: the    *)
(* rows stay.                                                              *)
LEMMA CommunitiesKept ==
  ASSUME CommunitiesInv, NEW r \in Requests, NEW q,
         \/ q = None
         \/ q \in Communities!Request /\ Carries(q),
         x3' = [x3 EXCEPT ![r] = q], UNCHANGED <<x1, x2>>
  PROVE  CommunitiesInv'
<1>1. Communities!TypeOK'
  BY DEF CommunitiesInv, Communities!TypeOK
<1>2. Communities!LiveNamesUnique'
  BY DEF CommunitiesInv, Communities!LiveNamesUnique, Communities!Live
<1>3. RequestsCarry'
  <2> SUFFICES ASSUME NEW s \in Requests, x3'[s] # None
               PROVE  Carries(x3[s])'
    BY DEF RequestsCarry
  <2>1. x3'[s] = IF s = r THEN q ELSE x3[s]
    BY DEF CommunitiesInv, Communities!TypeOK
  <2>2. Carries(x3'[s])
    BY <2>1 DEF CommunitiesInv, RequestsCarry
  <2>3. QED
    BY <2>2 DEF Carries
<1>4. QED
  BY <1>1, <1>2, <1>3 DEF CommunitiesInv

(* What a write makes of the rows must keep them typed, found and unique;  *)
(* the request is answered.                                                *)
LEMMA CommunitiesWritten ==
  ASSUME CommunitiesInv, NEW r \in Requests,
         x3' = [x3 EXCEPT ![r] = None],
         x1' \in [UpgradeIds -> Communities!Community \cup {None}],
         x2' \in [UpgradeIds -> [Accounts -> Communities!Roles \cup {None}]],
         \A c \in UpgradeIds : x1[c] # None => x1'[c] # None,
         Communities!LiveNamesUnique'
  PROVE  CommunitiesInv'
<1>1. Communities!TypeOK'
  BY DEF CommunitiesInv, Communities!TypeOK
<1>2. RequestsCarry'
  <2> SUFFICES ASSUME NEW s \in Requests, x3'[s] # None
               PROVE  Carries(x3[s])'
    BY DEF RequestsCarry
  <2>1. x3'[s] = x3[s]
    BY DEF CommunitiesInv, Communities!TypeOK
  <2>2. Carries(x3'[s])
    BY <2>1 DEF CommunitiesInv, RequestsCarry
  <2>3. QED
    BY <2>2 DEF Carries
<1>3. QED
  BY <1>1, <1>2 DEF CommunitiesInv

LEMMA CommunitiesStep ==
  ASSUME CommunitiesInv, Communities!Next
  PROVE  CommunitiesInv'
<1>0. PICK r \in Requests : \/ Communities!BeginCreate(r)
                            \/ Communities!BeginGuarded(r)
                            \/ Communities!Serve(r)
  BY DEF Communities!Next
<1> USE CommunitiesAssumption, AbsentAssumption
<1>a. /\ x1 \in [UpgradeIds -> Communities!Community \cup {None}]
      /\ x2 \in [UpgradeIds -> [Accounts -> Communities!Roles \cup {None}]]
      /\ x3 \in [Requests -> Communities!Request \cup {None}]
  BY DEF CommunitiesInv, Communities!TypeOK
<1>b. x3[r] # None => x3[r] \in Communities!Request /\ Carries(x3[r])
  BY <1>a DEF CommunitiesInv, RequestsCarry
<1>1. ASSUME NEW op, NEW stage, NEW c, NEW target, NEW value,
             Communities!Begin(r, op, stage, c, target, value),
             Carries([op |-> op, stage |-> stage, id |-> c,
                      target |-> target, value |-> value]),
             [op |-> op, stage |-> stage, id |-> c,
              target |-> target, value |-> value] \in Communities!Request
      PROVE  CommunitiesInv'
  BY <1>1, CommunitiesKept DEF Communities!Begin
<1>2. CASE Communities!BeginCreate(r)
  <2>1. PICK caller \in Accounts, name \in Hashes :
          Communities!Begin(r, "create", "check", None, caller, name)
    BY <1>2 DEF Communities!BeginCreate
  <2>2. QED
    BY <1>1, <2>1 DEF Carries, Communities!Request, Communities!Operations
<1>3. CASE Communities!BeginGuarded(r)
  <2>1. PICK caller \in Accounts, c \in UpgradeIds :
    \/ \E name \in Hashes \cup {None} :
         /\ Communities!MayCall("update", caller, c)
         /\ Communities!Begin(r, "update", "read", c, None, name)
    \/ /\ Communities!MayCall("delete", caller, c)
       /\ Communities!Begin(r, "delete", "write", c, None, None)
    \/ \E url \in Avatars :
         /\ Communities!MayCall("avatar", caller, c)
         /\ Communities!Begin(r, "avatar", "write", c, None, url)
    \/ \E a \in Accounts :
         \/ \E role \in GrantedRoles :
              \/ /\ Communities!MayCall("add", caller, c)
                 /\ Communities!Begin(r, "add", "read", c, a, role)
              \/ /\ Communities!MayCall("role", caller, c)
                 /\ Communities!Begin(r, "role", "write", c, a, role)
         \/ /\ Communities!MayCall("remove", caller, c)
            /\ Communities!Begin(r, "remove", "write", c, a, None)
    BY <1>3 DEF Communities!BeginGuarded
  <2>2. x1[c] # None
    BY <2>1 DEF Communities!MayCall
  <2>3. \A op \in {"update", "delete", "avatar", "add", "role", "remove"},
           stage \in {"read", "write"}, target \in Accounts \cup {None},
           value \in Hashes \cup Communities!Roles \cup Avatars \cup {None} :
          [op |-> op, stage |-> stage, id |-> c, target |-> target,
           value |-> value] \in Communities!Request
    BY DEF Communities!Request, Communities!Operations
  <2>4. QED
    BY <1>1, <2>1, <2>2, <2>3 DEF Carries
<1>4. ASSUME NEW stage \in {"check", "write", None}, x3[r] # None,
             Communities!Advance(r, stage)
      PROVE  CommunitiesInv'
  <2>1. CASE stage = None
    BY <1>4, <2>1, CommunitiesKept
       DEF Communities!Advance, Communities!Answered
  <2>2. CASE stage # None
    <3> DEFINE q == [x3[r] EXCEPT !.stage = stage]
    <3>1. x3' = [x3 EXCEPT ![r] = q] /\ UNCHANGED <<x1, x2>>
      BY <1>4, <2>2 DEF Communities!Advance
    <3>2. q \in Communities!Request
      BY <1>4, <1>b, <2>2 DEF Communities!Request
    <3>3. Carries(q)
      BY <1>4, <1>b DEF Carries, Communities!Request
    <3> HIDE DEF q
    <3>4. QED
      BY <3>1, <3>2, <3>3, CommunitiesKept
  <2>3. QED
    BY <2>1, <2>2
<1>5. CASE Communities!ReadCommunity(r) \/ Communities!CheckName(r)
           \/ Communities!Fail(r)
  BY <1>4, <1>5
     DEF Communities!ReadCommunity, Communities!CheckName, Communities!Fail
<1>6. CASE Communities!CreateCommunity(r)
  <2>1. /\ x3[r] \in Communities!Request /\ x3[r].value \in Hashes
        /\ x3[r].target \in Accounts
        /\ x3' = [x3 EXCEPT ![r] = None]
    BY <1>b, <1>6
       DEF Communities!CreateCommunity, Communities!Writes, Carries,
           Communities!Answered
  <2>2. CASE ~Communities!IndexAccepts(x3[r].value, None)
    <3>1. UNCHANGED <<x1, x2>>
      BY <1>6, <2>2 DEF Communities!CreateCommunity
    <3>2. QED
      BY <2>1, <3>1, CommunitiesKept
  <2>3. CASE Communities!IndexAccepts(x3[r].value, None)
    <3> DEFINE row == [name |-> x3[r].value, avatar |-> None, live |-> TRUE]
    <3>1. PICK c \in UpgradeIds :
            /\ x1[c] = None
            /\ x1' = [x1 EXCEPT ![c] = row]
            /\ x2' = [x2 EXCEPT ![c][x3[r].target] = "admin"]
      BY <1>6, <2>3 DEF Communities!CreateCommunity
    <3>2. row \in Communities!Community /\ row.live /\ row.name = x3[r].value
      BY <2>1 DEF Communities!Community
    <3> HIDE DEF row
    <3>3. x1' \in [UpgradeIds -> Communities!Community \cup {None}]
      BY <1>a, <3>1, <3>2
    <3>4. x2' \in [UpgradeIds -> [Accounts -> Communities!Roles \cup {None}]]
      BY <1>a, <2>1, <3>1 DEF Communities!Roles
    <3>5. Communities!LiveNamesUnique'
      <4>1. \A d \in UpgradeIds : d # c => x1'[d] = x1[d]
        BY <1>a, <3>1
      <4>2. \A d \in UpgradeIds :
              d # c /\ Communities!Live(d) => x1[d].name # x3[r].value
        BY <2>3 DEF Communities!IndexAccepts, Communities!Taken
      <4>3. x1'[c] = row
        BY <1>a, <3>1
      <4>4. QED
        BY <3>2, <4>1, <4>2, <4>3
           DEF CommunitiesInv, Communities!LiveNamesUnique, Communities!Live
    <3>6. \A d \in UpgradeIds : x1[d] # None => x1'[d] # None
      BY <1>a, <3>1
    <3>7. QED
      BY <2>1, <3>3, <3>4, <3>5, <3>6, CommunitiesWritten
  <2>4. QED
    BY <2>2, <2>3
<1>7. CASE Communities!UpdateCommunity(r)
  <2> DEFINE id == x3[r].id
             name == x3[r].value
  <2>1. /\ x3[r] \in Communities!Request /\ name \in Hashes \cup {None}
        /\ id \in UpgradeIds /\ x1[id] \in Communities!Community
        /\ x3' = [x3 EXCEPT ![r] = None] /\ x2' = x2
    BY <1>a, <1>b, <1>7
       DEF Communities!UpdateCommunity, Communities!Writes, Carries,
           Communities!Answered
  <2>2. CASE name = None \/ (Communities!Live(id) /\ ~Communities!IndexAccepts(name, id))
    <3>1. UNCHANGED <<x1, x2>>
      BY <1>7, <2>2 DEF Communities!UpdateCommunity
    <3>2. QED
      BY <2>1, <3>1, CommunitiesKept
  <2>3. CASE ~(name = None \/ (Communities!Live(id) /\ ~Communities!IndexAccepts(name, id)))
    <3> DEFINE row == [x1[id] EXCEPT !.name = name]
    <3>1. x1' = [x1 EXCEPT ![id] = row]
      BY <1>7, <2>3 DEF Communities!UpdateCommunity
    <3>2. row \in Communities!Community /\ row.live = x1[id].live /\ row.name = name
      BY <2>1, <2>3 DEF Communities!Community
    <3> HIDE DEF row, id, name
    <3>3. x1' \in [UpgradeIds -> Communities!Community \cup {None}]
      BY <1>a, <2>1, <3>1, <3>2
    <3>4. /\ \A d \in UpgradeIds : d # id => x1'[d] = x1[d]
          /\ x1'[id] = row
      BY <1>a, <2>1, <3>1
    <3>5. Communities!LiveNamesUnique'
      <4>1. Communities!Live(id) =>
              \A d \in UpgradeIds :
                d # id /\ Communities!Live(d) => x1[d].name # name
        BY <2>3 DEF Communities!IndexAccepts, Communities!Taken
      <4>2. QED
        BY <2>1, <3>2, <3>4, <4>1
           DEF CommunitiesInv, Communities!LiveNamesUnique, Communities!Live
    <3>6. \A d \in UpgradeIds : x1[d] # None => x1'[d] # None
      BY <3>2, <3>4
    <3>7. QED
      BY <1>a, <2>1, <3>3, <3>5, <3>6, CommunitiesWritten
  <2>4. QED
    BY <2>2, <2>3
<1>8. CASE Communities!DeleteCommunity(r)
  <2> DEFINE id == x3[r].id
             row == [x1[id] EXCEPT !.live = FALSE]
  <2>1. /\ id \in UpgradeIds /\ x1[id] \in Communities!Community
        /\ x3' = [x3 EXCEPT ![r] = None] /\ x2' = x2
        /\ x1' = [x1 EXCEPT ![id] = row]
    BY <1>a, <1>b, <1>8
       DEF Communities!DeleteCommunity, Communities!Writes, Carries,
           Communities!Answered
  <2>2. row \in Communities!Community /\ ~row.live
    BY <2>1 DEF Communities!Community
  <2> HIDE DEF row, id
  <2>3. x1' \in [UpgradeIds -> Communities!Community \cup {None}]
    BY <1>a, <2>1, <2>2
  <2>4. /\ \A d \in UpgradeIds : d # id => x1'[d] = x1[d]
        /\ x1'[id] = row
    BY <1>a, <2>1
  <2>5. Communities!LiveNamesUnique'
    BY <2>2, <2>4
       DEF CommunitiesInv, Communities!LiveNamesUnique, Communities!Live
  <2>6. \A d \in UpgradeIds : x1[d] # None => x1'[d] # None
    BY <2>2, <2>4
  <2>7. QED
    BY <1>a, <2>1, <2>3, <2>5, <2>6, CommunitiesWritten
<1>9. CASE Communities!SetAvatar(r)
  <2> DEFINE id == x3[r].id
             row == [x1[id] EXCEPT !.avatar = x3[r].value]
  <2>1. /\ id \in UpgradeIds /\ x1[id] \in Communities!Community
        /\ x3[r].value \in Avatars
        /\ x3' = [x3 EXCEPT ![r] = None] /\ x2' = x2
        /\ x1' = x1 \/ x1' = [x1 EXCEPT ![id] = row]
    BY <1>a, <1>b, <1>9
       DEF Communities!SetAvatar, Communities!Writes, Carries,
           Communities!Answered
  <2>2. CASE x1' = x1
    BY <2>1, <2>2, CommunitiesKept
  <2>3. CASE x1' = [x1 EXCEPT ![id] = row]
    <3>1. /\ row \in Communities!Community
          /\ row.live = x1[id].live /\ row.name = x1[id].name
      BY <2>1 DEF Communities!Community
    <3> HIDE DEF row, id
    <3>2. x1' \in [UpgradeIds -> Communities!Community \cup {None}]
      BY <1>a, <2>1, <2>3, <3>1
    <3>3. /\ \A d \in UpgradeIds : d # id => x1'[d] = x1[d]
          /\ x1'[id] = row
      BY <1>a, <2>1, <2>3
    <3>4. Communities!LiveNamesUnique'
      BY <2>1, <3>1, <3>3
         DEF CommunitiesInv, Communities!LiveNamesUnique, Communities!Live
    <3>5. \A d \in UpgradeIds : x1[d] # None => x1'[d] # None
      BY <3>1, <3>3
    <3>6. QED
      BY <1>a, <2>1, <3>2, <3>4, <3>5, CommunitiesWritten
  <2>4. QED
    BY <2>1, <2>2, <2>3
<1>10. CASE Communities!AddMember(r) \/ Communities!ChangeMember(r)
  <2> DEFINE role == x3[r].value
  <2>1. /\ x3[r].id \in UpgradeIds /\ x3[r].target \in Accounts
        /\ role \in Communities!Roles \cup {None}
        /\ x3' = [x3 EXCEPT ![r] = None] /\ x1' = x1
        /\ x2' = x2 \/ x2' = [x2 EXCEPT ![x3[r].id][x3[r].target] = role]
    BY <1>b, <1>10
       DEF Communities!AddMember, Communities!ChangeMember, Communities!Writes,
           Carries, Communities!Answered, Communities!SetRole
  <2>2. x2' \in [UpgradeIds -> [Accounts -> Communities!Roles \cup {None}]]
    BY <1>a, <2>1
  <2>3. Communities!LiveNamesUnique'
    BY <2>1 DEF CommunitiesInv, Communities!LiveNamesUnique, Communities!Live
  <2>4. QED
    BY <1>a, <2>1, <2>2, <2>3, CommunitiesWritten
<1>11. QED
  BY <1>0, <1>2, <1>3, <1>5, <1>6, <1>7, <1>8, <1>9, <1>10
     DEF Communities!Serve

(* A row that is deleted stays so, and a closed community is left alone.   *)
LEMMA CommunitiesClosed ==
  ASSUME CommunitiesInv, Communities!Next
  PROVE  Communities!DeletedIsClosed
<1>0. PICK r \in Requests : \/ Communities!BeginCreate(r)
                            \/ Communities!BeginGuarded(r)
                            \/ Communities!Serve(r)
  BY DEF Communities!Next
<1> USE CommunitiesAssumption, AbsentAssumption
<1>a. /\ x1 \in [UpgradeIds -> Communities!Community \cup {None}]
      /\ x2 \in [UpgradeIds -> [Accounts -> Communities!Roles \cup {None}]]
      /\ x3 \in [Requests -> Communities!Request \cup {None}]
  BY DEF CommunitiesInv, Communities!TypeOK
<1>b. x3[r] # None => x3[r] \in Communities!Request /\ Carries(x3[r])
  BY <1>a DEF CommunitiesInv, RequestsCarry
<1>c. \A q \in Communities!Request \cup {None} :
        x3' = [x3 EXCEPT ![r] = q] =>
          \A s \in Requests : x3'[s] = IF s = r THEN q ELSE x3[s]
  BY <1>a
<1> SUFFICES ASSUME NEW c \in UpgradeIds, x1[c] # None, ~x1[c].live
             PROVE  /\ ~x1'[c].live
                    /\ Communities!Closed(c) =>
                         /\ Communities!Closed(c)' /\ x1'[c] = x1[c]
                         /\ \A a \in Accounts :
                              x2[c][a] = None => x2'[c][a] = None
  BY DEF Communities!DeletedIsClosed, Communities!Closed
(* a request goes on, the rows stay *)
<1>1. ASSUME UNCHANGED <<x1, x2>>, NEW q \in Communities!Request \cup {None},
             x3' = [x3 EXCEPT ![r] = q],
             Communities!Closed(c) /\ q # None /\ q.id = c
               => q.op \notin {"update", "add"} \/ q.stage = "read"
      PROVE  /\ ~x1'[c].live
             /\ Communities!Closed(c) =>
                  /\ Communities!Closed(c)' /\ x1'[c] = x1[c]
                  /\ \A a \in Accounts : x2[c][a] = None => x2'[c][a] = None
  BY <1>1, <1>c DEF Communities!Closed
(* a request writes and is answered *)
<1>2. ASSUME x3' = [x3 EXCEPT ![r] = None], ~x1'[c].live, x1'[c] # None,
             Communities!Closed(c) =>
               /\ x1'[c] = x1[c]
               /\ \A a \in Accounts : x2[c][a] = None => x2'[c][a] = None
      PROVE  /\ ~x1'[c].live
             /\ Communities!Closed(c) =>
                  /\ Communities!Closed(c)' /\ x1'[c] = x1[c]
                  /\ \A a \in Accounts : x2[c][a] = None => x2'[c][a] = None
  BY <1>2, <1>c DEF Communities!Closed
<1>3. CASE Communities!BeginCreate(r) \/ Communities!BeginGuarded(r)
  <2>1. PICK q :
          /\ q.op \in {"update", "add"} => q.stage = "read"
          /\ UNCHANGED <<x1, x2>>
          /\ x3' = [x3 EXCEPT ![r] = q]
    <3>1. \A op, stage, id, target, value :
            LET q == [op |-> op, stage |-> stage, id |-> id,
                      target |-> target, value |-> value]
            IN q.op = op /\ q.stage = stage
      OBVIOUS
    <3>2. CASE Communities!BeginCreate(r)
      BY <3>2 DEF Communities!BeginCreate, Communities!Begin
    <3>3. CASE Communities!BeginGuarded(r)
      <4>1. \E op, stage, id, target, value :
              /\ Communities!Begin(r, op, stage, id, target, value)
              /\ op \in {"update", "add"} => stage = "read"
        BY <3>3 DEF Communities!BeginGuarded
      <4>2. PICK op, stage, id, target, value :
              /\ Communities!Begin(r, op, stage, id, target, value)
              /\ op \in {"update", "add"} => stage = "read"
        BY <4>1
      <4>3. QED
        BY <3>1, <4>2 DEF Communities!Begin
    <3>4. QED
      BY <1>3, <3>2, <3>3
  <2>2. \A s \in Requests : x3'[s] = IF s = r THEN q ELSE x3[s]
    BY <1>a, <2>1
  <2>3. QED
    BY <2>1, <2>2 DEF Communities!Closed
<1>4. CASE Communities!ReadCommunity(r)
  <2>1. /\ x3[r] # None /\ x3[r].stage = "read"
        /\ x3[r].id = c => Communities!Advance(r, None)
    BY <1>4 DEF Communities!ReadCommunity, Communities!Live
  <2>2. CASE x3[r].id = c
    BY <1>1, <2>1, <2>2 DEF Communities!Advance, Communities!Answered
  <2>3. CASE x3[r].id # c
    <3>1. PICK q \in Communities!Request \cup {None} :
            /\ UNCHANGED <<x1, x2>>
            /\ x3' = [x3 EXCEPT ![r] = q]
            /\ q # None => q.id # c
      <4>1. PICK stage \in {None, "check", "write"} : Communities!Advance(r, stage)
        BY <1>4 DEF Communities!ReadCommunity
      <4>2. [x3[r] EXCEPT !.stage = stage].id = x3[r].id
        BY <1>b, <2>1 DEF Communities!Request
      <4>3. stage # None => [x3[r] EXCEPT !.stage = stage] \in Communities!Request
        BY <1>b, <2>1 DEF Communities!Request
      <4>4. QED
        BY <2>3, <4>1, <4>2, <4>3
           DEF Communities!Advance, Communities!Answered
    <3>2. QED
      BY <1>1, <3>1
  <2>4. QED
    BY <2>2, <2>3
<1>5. CASE Communities!CheckName(r) \/ Communities!Fail(r)
  <2>1. PICK stage \in {None, "write"} :
          /\ x3[r] # None
          /\ stage # None => x3[r].stage = "check"
          /\ Communities!Advance(r, stage)
    BY <1>5 DEF Communities!CheckName, Communities!Fail
  <2>2. CASE stage = None
    BY <1>1, <2>1, <2>2 DEF Communities!Advance, Communities!Answered
  <2>3. CASE stage # None
    <3> DEFINE q == [x3[r] EXCEPT !.stage = stage]
    <3>1. /\ UNCHANGED <<x1, x2>> /\ x3' = [x3 EXCEPT ![r] = q]
          /\ q \in Communities!Request /\ q.id = x3[r].id /\ q.op = x3[r].op
      BY <1>b, <2>1, <2>3 DEF Communities!Advance, Communities!Request
    <3>2. Communities!Closed(c) /\ x3[r].id = c => x3[r].op \notin {"update", "add"}
      BY <2>1, <2>3 DEF Communities!Closed
    <3> HIDE DEF q
    <3>3. QED
      BY <1>1, <3>1, <3>2
  <2>4. QED
    BY <2>2, <2>3
<1>6. CASE Communities!CreateCommunity(r)
  <2>1. x3' = [x3 EXCEPT ![r] = None]
    BY <1>6 DEF Communities!CreateCommunity, Communities!Answered
  <2>2. x1'[c] = x1[c] /\ x2'[c] = x2[c]
    BY <1>a, <1>6 DEF Communities!CreateCommunity
  <2>3. QED
    BY <1>2, <2>1, <2>2
<1>7. CASE Communities!UpdateCommunity(r)
  <2>1. /\ x3[r] # None /\ x3[r].op = "update" /\ x3[r].stage = "write"
        /\ x3' = [x3 EXCEPT ![r] = None] /\ x2' = x2
        /\ \/ x1' = x1
           \/ /\ x3[r].value # None
              /\ x1' = [x1 EXCEPT ![x3[r].id].name = x3[r].value]
    BY <1>7
       DEF Communities!UpdateCommunity, Communities!Writes, Communities!Answered
  <2>2. x3[r].id # c => x1'[c] = x1[c]
    BY <1>a, <2>1
  <2>3. Communities!Closed(c) => x3[r].id # c
    BY <2>1 DEF Communities!Closed
  <2>4. x1'[c] # None /\ ~x1'[c].live
    <3> DEFINE row == [x1[c] EXCEPT !.name = x3[r].value]
    <3>1. x1[c] \in Communities!Community
      BY <1>a
    <3>2. row.live = x1[c].live
      BY <3>1 DEF Communities!Community
    <3>3. x3[r].value \in Hashes => row \in Communities!Community
      BY <3>1 DEF Communities!Community
    <3> HIDE DEF row
    <3>4. \/ x1'[c] = x1[c]
          \/ x3[r].value \in Hashes /\ x1'[c] = row
      BY <1>a, <1>b, <2>1 DEF row, Carries
    <3>5. QED
      BY <3>2, <3>3, <3>4
  <2>5. QED
    BY <1>2, <2>1, <2>2, <2>3, <2>4
<1>8. CASE Communities!DeleteCommunity(r)
  <2>1. /\ x3' = [x3 EXCEPT ![r] = None] /\ x2' = x2
        /\ x1' = [x1 EXCEPT ![x3[r].id].live = FALSE]
    BY <1>8
       DEF Communities!DeleteCommunity, Communities!Writes, Communities!Answered
  <2>2. x1[c] \in Communities!Community /\ x1[c].live = FALSE
    BY <1>a DEF Communities!Community
  <2>3. [x1[c] EXCEPT !.live = FALSE] = x1[c]
    BY <2>2 DEF Communities!Community
  <2>4. x1'[c] = x1[c]
    BY <1>a, <2>1, <2>3
  <2>5. QED
    BY <1>2, <2>1, <2>4
<1>9. CASE Communities!SetAvatar(r)
  <2>1. /\ x3' = [x3 EXCEPT ![r] = None] /\ x2' = x2
        /\ \/ x1' = x1
           \/ /\ Communities!Live(x3[r].id)
              /\ x1' = [x1 EXCEPT ![x3[r].id].avatar = x3[r].value]
    BY <1>9
       DEF Communities!SetAvatar, Communities!Writes, Communities!Answered
  <2>2. x1'[c] = x1[c]
    BY <1>a, <2>1 DEF Communities!Live
  <2>3. QED
    BY <1>2, <2>1, <2>2
<1>10. CASE Communities!AddMember(r)
  <2>1. /\ x3[r] # None /\ x3[r].op = "add" /\ x3[r].stage = "write"
        /\ x3' = [x3 EXCEPT ![r] = None] /\ x1' = x1
        /\ x2' = [x2 EXCEPT ![x3[r].id][x3[r].target] = x3[r].value]
    BY <1>10
       DEF Communities!AddMember, Communities!Writes, Communities!Answered,
           Communities!SetRole
  <2>2. Communities!Closed(c) => x3[r].id # c
    BY <2>1 DEF Communities!Closed
  <2>3. x3[r].id # c => x2'[c] = x2[c]
    BY <1>a, <2>1
  <2>4. QED
    BY <1>2, <2>1, <2>2, <2>3
<1>11. CASE Communities!ChangeMember(r)
  <2>1. /\ x3' = [x3 EXCEPT ![r] = None] /\ x1' = x1
        /\ \/ x2' = x2
           \/ /\ x2[x3[r].id][x3[r].target] # None
              /\ x2' = [x2 EXCEPT ![x3[r].id][x3[r].target] = x3[r].value]
    BY <1>11
       DEF Communities!ChangeMember, Communities!Writes, Communities!Answered,
           Communities!SetRole
  <2>2. \A a \in Accounts : x2[c][a] = None => x2'[c][a] = None
    BY <1>a, <2>1
  <2>3. QED
    BY <1>2, <2>1, <2>2
<1>12. QED
  BY <1>0, <1>3, <1>4, <1>5, <1>6, <1>7, <1>8, <1>9, <1>10, <1>11
     DEF Communities!Serve

(* Whatever overlaps, two live communities never share a name, and a       *)
(* deleted one stays as it is.                                             *)
THEOREM CommunitiesStayClosed == MCSpec => DeletedIsClosed
<1> DEFINE Inv == part = "Communities" => CommunitiesInv
<1>1. MCInit => Inv
  <2> SUFFICES ASSUME Communities!Init PROVE CommunitiesInv
    BY DEF MCInit
  <2>1. Communities!TypeOK
    BY DEF Communities!Init, Communities!TypeOK
  <2>2. QED
    BY <2>1
       DEF Communities!Init, CommunitiesInv, Communities!LiveNamesUnique,
           Communities!Live, RequestsCarry
<1>2. Inv /\ [MCNext]_<<part, vars, xs>> =>
        /\ Inv'
        /\ [part = "Communities" => Communities!DeletedIsClosed]_<<part, vars, xs>>
  <2> SUFFICES ASSUME Inv, [MCNext]_<<part, vars, xs>>
               PROVE  /\ Inv'
                      /\ [part = "Communities" => Communities!DeletedIsClosed]_<<part, vars, xs>>
    OBVIOUS
  <2>1. CASE part = "Communities" /\ Communities!Next
    BY <2>1, CommunitiesStep, CommunitiesClosed
  <2>2. CASE UNCHANGED <<part, vars, xs>>
    BY <2>2 DEF xs, CommunitiesInv, Communities!TypeOK,
                Communities!LiveNamesUnique, Communities!Live, RequestsCarry, Carries
  <2>3. CASE part # "Communities" /\ part' = part
    BY <2>3
  <2>4. QED
    BY <2>1, <2>2, <2>3 DEF MCNext
<1>3. Inv => (part = "Communities" => Communities!TypeOK /\ Communities!LiveNamesUnique)
  BY DEF CommunitiesInv
<1> HIDE DEF Inv
<1>4. QED
  BY <1>1, <1>2, <1>3, PTL DEF MCSpec, DeletedIsClosed

-----------------------------------------------------------------------------
(* The live list of payments.  Frames of a connection come in the order    *)
(* of the ledger, and a connection that becomes the source starts after    *)
(* everything the list holds, so what it delivers is newer than the list.  *)
Entries == x2.transactions

FeedHook ==
  [publicKey : Accounts \cup {None}, status : PaymentFeed!Statuses,
   error : BOOLEAN, transactions : Seq(1 .. MaxPayments)]

FeedConn ==
  [stage : {"unused", "requested", "open", "closed"},
   account : Accounts \cup {None}, sent : 0 .. MaxPayments,
   pipe : Seq(PaymentFeed!Frame)]

Descending(list) ==
  \A i, j \in 1 .. Len(list) : i < j => list[i] > list[j]

(* The payments of a pipe come in order, and none is beyond what was sent. *)
PipeOrdered(pipe, sent) ==
  /\ \A i \in 1 .. Len(pipe) :
       pipe[i].event = "payment" => pipe[i].at \in 1 .. sent
  /\ \A i, j \in 1 .. Len(pipe) :
       i < j /\ pipe[i].event = "payment" /\ pipe[j].event = "payment"
         => pipe[i].at < pipe[j].at

(* What a pipe delivers, and what will be sent after it, is newer.         *)
Newer(pipe, sent, list) ==
  \A i \in 1 .. Len(list) :
    /\ list[i] <= sent
    /\ \A j \in 1 .. Len(pipe) :
         pipe[j].event = "payment" => list[i] < pipe[j].at

ConnSound(k) ==
  /\ x4[k].stage # "open" => x4[k].pipe = <<>>
  /\ x4[k].sent <= Len(x1)
  /\ PipeOrdered(x4[k].pipe, x4[k].sent)
  /\ k = x3 /\ x4[k].stage = "open" => Newer(x4[k].pipe, x4[k].sent, Entries)

FeedInv ==
  /\ x1 \in Seq(Accounts) /\ Len(x1) <= MaxPayments
  /\ x2 \in FeedHook
  /\ x3 \in Requests \cup {None}
  /\ x4 \in [Requests -> FeedConn]
  /\ Descending(Entries)
  /\ \A i \in 1 .. Len(Entries) : Entries[i] <= Len(x1)
  /\ \A k \in Requests : ConnSound(k)

LEMMA PipeGrows ==
  ASSUME NEW pipe \in Seq(PaymentFeed!Frame), NEW sent \in 0 .. MaxPayments,
         PipeOrdered(pipe, sent),
         NEW n \in sent + 1 .. MaxPayments
  PROVE  LET longer == Append(pipe, PaymentFeed!Feed("payment", n))
         IN /\ longer \in Seq(PaymentFeed!Frame)
            /\ PipeOrdered(longer, n)
            /\ \A list \in Seq(1 .. MaxPayments) :
                 Newer(pipe, sent, list) => Newer(longer, n, list)
<1> USE FeedAssumption
<1> DEFINE frame == PaymentFeed!Feed("payment", n)
           longer == Append(pipe, frame)
<1>1. /\ frame \in PaymentFeed!Frame
      /\ frame.event = "payment" /\ frame.at = n
      /\ n \in 1 .. MaxPayments /\ sent < n
  BY DEF PaymentFeed!Feed, PaymentFeed!Frame
<1> HIDE DEF frame
<1>2. /\ longer \in Seq(PaymentFeed!Frame)
      /\ Len(longer) = Len(pipe) + 1
      /\ longer[Len(pipe) + 1] = frame
      /\ \A i \in 1 .. Len(pipe) : longer[i] = pipe[i]
  BY <1>1
<1>3. \A i \in 1 .. Len(longer) : i \in 1 .. Len(pipe) \/ i = Len(pipe) + 1
  BY <1>2
<1> HIDE DEF longer
<1>4. \A i \in 1 .. Len(longer) :
        longer[i].event = "payment" => longer[i].at \in 1 .. n
  <2> SUFFICES ASSUME NEW i \in 1 .. Len(longer), longer[i].event = "payment"
               PROVE  longer[i].at \in 1 .. n
    OBVIOUS
  <2>1. CASE i \in 1 .. Len(pipe)
    <3>1. longer[i].at \in 1 .. sent
      BY <2>1, <1>2 DEF PipeOrdered
    <3>2. QED
      BY <3>1, <1>1
  <2>2. CASE i = Len(pipe) + 1
    BY <2>2, <1>1, <1>2
  <2>3. QED
    BY <1>3, <2>1, <2>2
<1>5. ASSUME NEW i \in 1 .. Len(longer), NEW j \in 1 .. Len(longer), i < j,
             longer[i].event = "payment", longer[j].event = "payment"
      PROVE  longer[i].at < longer[j].at
  <2>1. i \in 1 .. Len(pipe)
    BY <1>5, <1>2
  <2>2. longer[i].at \in 1 .. sent
    BY <2>1, <1>2, <1>5 DEF PipeOrdered
  <2>3. CASE j \in 1 .. Len(pipe)
    BY <2>1, <2>3, <1>2, <1>5 DEF PipeOrdered
  <2>4. CASE j = Len(pipe) + 1
    BY <2>2, <2>4, <1>1, <1>2
  <2>5. QED
    BY <1>3, <2>3, <2>4
<1>6. ASSUME NEW list \in Seq(1 .. MaxPayments), Newer(pipe, sent, list)
      PROVE  Newer(longer, n, list)
  <2> SUFFICES ASSUME NEW i \in 1 .. Len(list)
               PROVE  /\ list[i] <= n
                      /\ \A j \in 1 .. Len(longer) :
                           longer[j].event = "payment" => list[i] < longer[j].at
    BY DEF Newer
  <2>1. list[i] \in Nat /\ list[i] <= sent
    BY <1>6 DEF Newer
  <2>2. list[i] < n
    BY <2>1, <1>1
  <2>3. ASSUME NEW j \in 1 .. Len(longer), longer[j].event = "payment"
        PROVE  list[i] < longer[j].at
    <3>1. CASE j \in 1 .. Len(pipe)
      BY <3>1, <2>3, <1>2, <1>6 DEF Newer
    <3>2. CASE j = Len(pipe) + 1
      BY <3>2, <2>2, <1>1, <1>2
    <3>3. QED
      BY <1>3, <3>1, <3>2
  <2>4. QED
    BY <2>1, <2>2, <2>3
<1>7. PipeOrdered(longer, n)
  BY <1>4, <1>5 DEF PipeOrdered
<1>8. QED
  BY <1>2, <1>6, <1>7 DEF longer, frame

LEMMA PipeErrs ==
  ASSUME NEW pipe \in Seq(PaymentFeed!Frame), NEW sent \in 0 .. MaxPayments,
         PipeOrdered(pipe, sent)
  PROVE  LET longer == Append(pipe, PaymentFeed!Feed("error", 0))
         IN /\ longer \in Seq(PaymentFeed!Frame)
            /\ PipeOrdered(longer, sent)
            /\ \A list : Newer(pipe, sent, list) => Newer(longer, sent, list)
<1> USE FeedAssumption
<1> DEFINE frame == PaymentFeed!Feed("error", 0)
           longer == Append(pipe, frame)
<1>1. frame \in PaymentFeed!Frame /\ frame.event # "payment"
  BY DEF PaymentFeed!Feed, PaymentFeed!Frame
<1> HIDE DEF frame
<1>2. /\ longer \in Seq(PaymentFeed!Frame)
      /\ Len(longer) = Len(pipe) + 1
      /\ longer[Len(pipe) + 1] = frame
      /\ \A i \in 1 .. Len(pipe) : longer[i] = pipe[i]
  BY <1>1
<1>3. \A i \in 1 .. Len(longer) :
        longer[i].event = "payment" => i \in 1 .. Len(pipe) /\ longer[i] = pipe[i]
  BY <1>1, <1>2
<1> HIDE DEF longer
<1>4. PipeOrdered(longer, sent)
  BY <1>3 DEF PipeOrdered
<1>5. ASSUME NEW list, Newer(pipe, sent, list)
      PROVE  Newer(longer, sent, list)
  BY <1>3, <1>5 DEF Newer
<1>6. QED
  BY <1>2, <1>4, <1>5 DEF longer, frame

LEMMA PipeShrinks ==
  ASSUME NEW pipe \in Seq(PaymentFeed!Frame), pipe # <<>>,
         NEW sent \in 0 .. MaxPayments, PipeOrdered(pipe, sent)
  PROVE  /\ Tail(pipe) \in Seq(PaymentFeed!Frame)
         /\ PipeOrdered(Tail(pipe), sent)
         /\ \A list : Newer(pipe, sent, list) => Newer(Tail(pipe), sent, list)
         /\ Head(pipe) \in PaymentFeed!Frame
         /\ Head(pipe).event = "payment" =>
              /\ Head(pipe).at \in 1 .. sent
              /\ \A i \in 1 .. Len(Tail(pipe)) : Tail(pipe)[i].event = "payment"
                   => Head(pipe).at < Tail(pipe)[i].at
<1>1. /\ Tail(pipe) \in Seq(PaymentFeed!Frame)
      /\ Len(Tail(pipe)) = Len(pipe) - 1
      /\ \A i \in 1 .. Len(Tail(pipe)) :
           i + 1 \in 1 .. Len(pipe) /\ Tail(pipe)[i] = pipe[i + 1]
      /\ 1 \in 1 .. Len(pipe) /\ Head(pipe) = pipe[1]
  OBVIOUS
<1>2. PipeOrdered(Tail(pipe), sent)
  <2>1. ASSUME NEW i \in 1 .. Len(Tail(pipe)), NEW j \in 1 .. Len(Tail(pipe)), i < j
        PROVE  i + 1 < j + 1
    BY <2>1
  <2>2. QED
    BY <1>1, <2>1 DEF PipeOrdered
<1>3. \A list : Newer(pipe, sent, list) => Newer(Tail(pipe), sent, list)
  BY <1>1 DEF Newer
<1>4. \A i \in 1 .. Len(Tail(pipe)) : 1 < i + 1
  OBVIOUS
<1>5. ASSUME Head(pipe).event = "payment"
      PROVE  /\ Head(pipe).at \in 1 .. sent
             /\ \A i \in 1 .. Len(Tail(pipe)) : Tail(pipe)[i].event = "payment"
                  => Head(pipe).at < Tail(pipe)[i].at
  BY <1>1, <1>4, <1>5 DEF PipeOrdered
<1>6. Head(pipe) \in PaymentFeed!Frame
  OBVIOUS
<1>7. QED
  BY <1>1, <1>2, <1>3, <1>5, <1>6

(* A payment newer than all of a list goes on top of what is kept of it.   *)
LEMMA PrependedOnTop ==
  ASSUME NEW list \in Seq(1 .. MaxPayments), Descending(list),
         NEW n \in 1 .. MaxPayments,
         \A i \in 1 .. Len(list) : list[i] < n
  PROVE  LET longer == PaymentFeed!Prepended(list, n)
         IN /\ longer \in Seq(1 .. MaxPayments)
            /\ Descending(longer)
            /\ \A i \in 1 .. Len(longer) : longer[i] <= n
<1> USE FeedAssumption
<1> DEFINE kept == IF Len(list) < MaxItems THEN Len(list) + 1 ELSE MaxItems
           whole == <<n>> \o list
           longer == SubSeq(whole, 1, kept)
<1>1. \A i \in DOMAIN list : list[i] # n
  <2>1. \A i \in 1 .. Len(list) : list[i] \in Nat /\ list[i] < n
    OBVIOUS
  <2>2. QED
    BY <2>1
<1>2. PaymentFeed!Prepended(list, n) = longer
  BY <1>1 DEF PaymentFeed!Prepended
<1>3. /\ whole \in Seq(1 .. MaxPayments)
      /\ Len(whole) = Len(list) + 1
      /\ whole[1] = n
      /\ \A i \in 2 .. Len(whole) : whole[i] = list[i - 1] /\ i - 1 \in 1 .. Len(list)
  OBVIOUS
<1>4. kept \in 0 .. Len(whole)
  BY <1>3
<1> HIDE DEF whole, kept
<1>5. /\ longer \in Seq(1 .. MaxPayments)
      /\ Len(longer) = kept
      /\ \A i \in 1 .. kept : longer[i] = whole[i] /\ i \in 1 .. Len(whole)
  BY <1>3, <1>4
<1> HIDE DEF longer
<1>6. ASSUME NEW i \in 1 .. Len(whole), NEW j \in 1 .. Len(whole), i < j
      PROVE  whole[i] > whole[j]
  <2>1. j \in 2 .. Len(whole) /\ j - 1 \in 1 .. Len(list) /\ whole[j] = list[j - 1]
    <3>1. j \in 2 .. Len(whole)
      BY <1>6
    <3>2. QED
      BY <3>1, <1>3
  <2>2. CASE i = 1
    BY <2>1, <2>2, <1>3
  <2>3. CASE i # 1
    <3>1. i \in 2 .. Len(whole)
      BY <2>3
    <3>2. i - 1 \in 1 .. Len(list) /\ whole[i] = list[i - 1] /\ i - 1 < j - 1
      <4>1. i - 1 \in 1 .. Len(list) /\ whole[i] = list[i - 1]
        BY <3>1, <1>3
      <4>2. i - 1 < j - 1
        BY <1>6
      <4>3. QED
        BY <4>1, <4>2
    <3>3. QED
      BY <2>1, <3>2 DEF Descending
  <2>4. QED
    BY <2>2, <2>3
<1>7. Descending(longer)
  BY <1>5, <1>6 DEF Descending
<1>8. \A i \in 1 .. Len(longer) : longer[i] <= n
  <2>1. ASSUME NEW i \in 1 .. Len(whole)
        PROVE  whole[i] <= n
    <3>1. CASE i = 1
      BY <3>1, <1>3
    <3>2. CASE i # 1
      <4>1. i \in 2 .. Len(whole)
        BY <3>2
      <4>2. whole[i] = list[i - 1] /\ i - 1 \in 1 .. Len(list)
        BY <4>1, <1>3
      <4>3. \A j \in 1 .. Len(list) : list[j] \in Nat /\ list[j] < n
        OBVIOUS
      <4>4. \A m \in Nat : m < n => m <= n
        OBVIOUS
      <4>5. QED
        BY <4>2, <4>3, <4>4
    <3>3. QED
      BY <3>1, <3>2
  <2>2. QED
    BY <2>1, <1>5
<1>9. QED
  BY <1>2, <1>5, <1>7, <1>8

LEMMA ClosedIsSound ==
  /\ PaymentFeed!Closed \in FeedConn
  /\ PaymentFeed!Closed.stage = "closed" /\ PaymentFeed!Closed.pipe = <<>>
  /\ PaymentFeed!Closed.sent = 0
  /\ \A sent : PipeOrdered(<<>>, sent)
<1>1. PaymentFeed!Closed = [stage |-> "closed", account |-> None, sent |-> 0,
                            pipe |-> <<>>]
  BY DEF PaymentFeed!Closed, PaymentFeed!Unused
<1>2. <<>> \in Seq(PaymentFeed!Frame) /\ 0 \in 0 .. MaxPayments
  BY FeedAssumption
<1>3. PaymentFeed!Closed \in FeedConn
  BY <1>1, <1>2 DEF FeedConn
<1>4. \A sent : PipeOrdered(<<>>, sent)
  BY DEF PipeOrdered
<1>5. QED
  BY <1>1, <1>3, <1>4

LEMMA FeedStep ==
  ASSUME FeedInv, PaymentFeed!Next
  PROVE  FeedInv'
<1> USE FeedAssumption
<1>1. /\ \A k \in Requests : x4[k] \in FeedConn
      /\ x2 \in FeedHook /\ Entries \in Seq(1 .. MaxPayments)
      /\ Len(x1) \in Nat
  BY DEF FeedInv, FeedHook, Entries
<1>2. ASSUME NEW account \in Accounts, PaymentFeed!Pay(account)
      PROVE  FeedInv'
  <2>1. /\ x1' = Append(x1, account) /\ x2' = x2 /\ x3' = x3 /\ x4' = x4
        /\ Len(x1) < MaxPayments
    BY <1>2 DEF PaymentFeed!Pay
  <2>2. x1' \in Seq(Accounts) /\ Len(x1') = Len(x1) + 1
    BY <2>1 DEF FeedInv
  <2>3. \A k \in Requests : ConnSound(k)'
    <3>1. \A k \in Requests : x4[k].sent \in Nat /\ x4[k].sent <= Len(x1)
      BY <1>1 DEF FeedInv, FeedConn, ConnSound
    <3>2. \A k \in Requests : x4[k].sent <= Len(x1')
      BY <1>1, <2>2, <3>1
    <3>3. QED
      BY <2>1, <3>2 DEF FeedInv, ConnSound, Entries
  <2>4. \A i \in 1 .. Len(Entries) : Entries[i] \in Nat /\ Entries[i] <= Len(x1)
    BY <1>1 DEF FeedInv
  <2>5. \A i \in 1 .. Len(Entries) : Entries[i] <= Len(x1')
    BY <1>1, <2>2, <2>4
  <2>6. Len(x1') <= MaxPayments
    BY <1>1, <2>1, <2>2
  <2>7. QED
    BY <2>1, <2>2, <2>3, <2>5, <2>6 DEF FeedInv, Entries
<1>3. ASSUME NEW account \in Accounts, NEW k \in Requests,
             PaymentFeed!Follow(account, k)
      PROVE  FeedInv'
  <2>1. /\ x1' = x1 /\ x3' = k /\ x4[k].stage = "unused"
        /\ x4' = [x4 EXCEPT ![k].stage = "requested", ![k].account = account]
        /\ x2' = [x2 EXCEPT !.publicKey = account, !.status = "connecting",
                            !.error = FALSE]
    BY <1>3 DEF PaymentFeed!Follow, PaymentFeed!Open
  <2>2. x2' \in FeedHook /\ Entries' = Entries
    BY <2>1, <1>1 DEF FeedHook, Entries, PaymentFeed!Statuses
  <2>3. x4' = [x4 EXCEPT ![k] = [x4[k] EXCEPT !.stage = "requested", !.account = account]]
    BY <2>1, <1>1 DEF FeedInv, FeedConn
  <2>4. x4' \in [Requests -> FeedConn]
    BY <2>3, <1>1 DEF FeedInv, FeedConn
  <2>5. /\ x4'[k].stage = "requested" /\ x4'[k].sent = x4[k].sent
        /\ x4'[k].pipe = x4[k].pipe
        /\ \A j \in Requests \ {k} : x4'[j] = x4[j]
    BY <2>3, <1>1 DEF FeedInv, FeedConn
  <2>6. ASSUME NEW j \in Requests
        PROVE  ConnSound(j)'
    BY <2>1, <2>5 DEF FeedInv, ConnSound
  <2>7. QED
    BY <2>1, <2>2, <2>4, <2>6 DEF FeedInv
<1>4. CASE PaymentFeed!Leave
  <2>1. /\ x1' = x1 /\ x3' = None /\ x4' = x4
        /\ x2' = [x2 EXCEPT !.publicKey = None, !.status = "idle", !.error = FALSE]
    BY <1>4 DEF PaymentFeed!Leave
  <2>2. x2' \in FeedHook /\ Entries' = Entries
    BY <2>1, <1>1 DEF FeedHook, Entries, PaymentFeed!Statuses
  <2>3. \A j \in Requests : ConnSound(j)'
    BY <2>1 DEF FeedInv, ConnSound
  <2>4. QED
    BY <2>1, <2>2, <2>3 DEF FeedInv
<1>5. CASE PaymentFeed!Clear
  <2>1. /\ x1' = x1 /\ x3' = x3 /\ x4' = x4
        /\ x2' = [x2 EXCEPT !.transactions = <<>>]
    BY <1>5 DEF PaymentFeed!Clear
  <2>2. x2' \in FeedHook /\ Entries' = <<>>
    <3>1. <<>> \in Seq(1 .. MaxPayments)
      OBVIOUS
    <3>2. QED
      BY <2>1, <3>1, <1>1 DEF FeedHook, Entries
  <2>3. \A i \in 1 .. Len(Entries') : FALSE
    BY <2>2
  <2>4. \A j \in Requests : ConnSound(j)'
    BY <2>1, <2>3 DEF FeedInv, ConnSound, Newer
  <2>5. QED
    BY <2>1, <2>2, <2>3, <2>4 DEF FeedInv, Descending
<1>6. ASSUME NEW k \in Requests, PaymentFeed!StreamPaymentsHandler(k)
      PROVE  FeedInv'
  <2> DEFINE pipe == <<PaymentFeed!Feed("ready", 0)>>
  <2>1. /\ x1' = x1 /\ x2' = x2 /\ x3' = x3
        /\ x4' = [x4 EXCEPT ![k].stage = "open", ![k].sent = Len(x1), ![k].pipe = pipe]
    BY <1>6 DEF PaymentFeed!StreamPaymentsHandler
  <2>2. /\ pipe \in Seq(PaymentFeed!Frame)
        /\ \A i \in 1 .. Len(pipe) : pipe[i].event # "payment"
    BY DEF PaymentFeed!Feed, PaymentFeed!Frame
  <2> HIDE DEF pipe
  <2>3. x4' = [x4 EXCEPT ![k] =
                 [x4[k] EXCEPT !.stage = "open", !.sent = Len(x1), !.pipe = pipe]]
    BY <2>1, <1>1 DEF FeedInv, FeedConn
  <2>4. Len(x1) \in 0 .. MaxPayments
    BY <1>1 DEF FeedInv
  <2>5. x4' \in [Requests -> FeedConn]
    BY <2>2, <2>3, <2>4, <1>1 DEF FeedInv, FeedConn
  <2>6. /\ x4'[k].stage = "open" /\ x4'[k].sent = Len(x1) /\ x4'[k].pipe = pipe
        /\ \A j \in Requests \ {k} : x4'[j] = x4[j]
    BY <2>3, <1>1 DEF FeedInv, FeedConn
  <2>7. ASSUME NEW j \in Requests, j # k
        PROVE  ConnSound(j)'
    BY <2>1, <2>6, <2>7 DEF FeedInv, ConnSound, Entries
  <2>8. ConnSound(k)'
    <3>1. PipeOrdered(pipe, Len(x1))
      BY <2>2 DEF PipeOrdered
    <3>2. Newer(pipe, Len(x1), Entries)
      BY <2>2 DEF Newer, FeedInv
    <3>3. QED
      BY <2>1, <2>4, <2>6, <3>1, <3>2 DEF ConnSound, Entries
  <2>9. QED
    BY <2>1, <2>5, <2>7, <2>8 DEF FeedInv, Entries
<1>7. ASSUME NEW k \in Requests, PaymentFeed!OnMessage(k)
      PROVE  FeedInv'
  <2>1. PICK n \in x4[k].sent + 1 .. Len(x1) :
          /\ x4[k].stage = "open"
          /\ x1' = x1 /\ x2' = x2 /\ x3' = x3
          /\ x4' = [x4 EXCEPT ![k].sent = n,
                              ![k].pipe = Append(@, PaymentFeed!Feed("payment", n))]
    BY <1>7 DEF PaymentFeed!OnMessage
  <2> DEFINE longer == Append(x4[k].pipe, PaymentFeed!Feed("payment", n))
  <2>2. /\ x4[k].pipe \in Seq(PaymentFeed!Frame)
        /\ x4[k].sent \in 0 .. MaxPayments
        /\ PipeOrdered(x4[k].pipe, x4[k].sent)
    BY <1>1 DEF FeedInv, FeedConn, ConnSound
  <2>3. /\ n \in x4[k].sent + 1 .. MaxPayments
        /\ n \in 0 .. MaxPayments /\ n <= Len(x1)
    BY <1>1, <2>2 DEF FeedInv
  <2>4. /\ longer \in Seq(PaymentFeed!Frame)
        /\ PipeOrdered(longer, n)
        /\ Newer(x4[k].pipe, x4[k].sent, Entries) => Newer(longer, n, Entries)
    BY <1>1, <2>2, <2>3, PipeGrows
  <2>5. x4' = [x4 EXCEPT ![k] = [x4[k] EXCEPT !.sent = n, !.pipe = longer]]
    BY <2>1, <1>1 DEF FeedInv, FeedConn
  <2> HIDE DEF longer
  <2>6. x4' \in [Requests -> FeedConn]
    BY <2>3, <2>4, <2>5, <1>1 DEF FeedInv, FeedConn
  <2>7. /\ x4'[k].stage = "open" /\ x4'[k].sent = n /\ x4'[k].pipe = longer
        /\ \A j \in Requests \ {k} : x4'[j] = x4[j]
    BY <2>1, <2>5, <1>1, ZenonT(30) DEF FeedInv, FeedConn
  <2>8. ASSUME NEW j \in Requests, j # k
        PROVE  ConnSound(j)'
    BY <2>1, <2>7, <2>8 DEF FeedInv, ConnSound, Entries
  <2>9. ConnSound(k)'
    BY <2>1, <2>3, <2>4, <2>7 DEF FeedInv, ConnSound, Entries
  <2>10. QED
    BY <2>1, <2>6, <2>8, <2>9 DEF FeedInv, Entries
<1>8. ASSUME NEW k \in Requests, PaymentFeed!OnError(k)
      PROVE  FeedInv'
  <2> DEFINE longer == Append(x4[k].pipe, PaymentFeed!Feed("error", 0))
  <2>1. /\ x4[k].stage = "open"
        /\ x1' = x1 /\ x2' = x2 /\ x3' = x3
        /\ x4' = [x4 EXCEPT ![k].pipe = Append(@, PaymentFeed!Feed("error", 0))]
    BY <1>8 DEF PaymentFeed!OnError
  <2>2. /\ x4[k].pipe \in Seq(PaymentFeed!Frame)
        /\ x4[k].sent \in 0 .. MaxPayments
        /\ PipeOrdered(x4[k].pipe, x4[k].sent)
    BY <1>1 DEF FeedInv, FeedConn, ConnSound
  <2>3. /\ longer \in Seq(PaymentFeed!Frame)
        /\ PipeOrdered(longer, x4[k].sent)
        /\ Newer(x4[k].pipe, x4[k].sent, Entries)
             => Newer(longer, x4[k].sent, Entries)
    BY <2>2, PipeErrs
  <2>4. x4' = [x4 EXCEPT ![k] = [x4[k] EXCEPT !.pipe = longer]]
    BY <2>1, <1>1 DEF FeedInv, FeedConn
  <2> HIDE DEF longer
  <2>5. x4' \in [Requests -> FeedConn]
    BY <2>3, <2>4, <1>1 DEF FeedInv, FeedConn
  <2>6. /\ x4'[k].stage = "open" /\ x4'[k].sent = x4[k].sent
        /\ x4'[k].pipe = longer
        /\ \A j \in Requests \ {k} : x4'[j] = x4[j]
    BY <2>1, <2>4, <1>1 DEF FeedInv, FeedConn
  <2>7. ASSUME NEW j \in Requests, j # k
        PROVE  ConnSound(j)'
    BY <2>1, <2>6, <2>7 DEF FeedInv, ConnSound, Entries
  <2>8. ConnSound(k)'
    BY <2>1, <2>3, <2>6 DEF FeedInv, ConnSound, Entries
  <2>9. QED
    BY <2>1, <2>5, <2>7, <2>8 DEF FeedInv, Entries
<1>9. ASSUME NEW k \in Requests, PaymentFeed!Receive(k)
      PROVE  FeedInv'
  <2> DEFINE rest == Tail(x4[k].pipe)
             n == Head(x4[k].pipe).at
             paid == k = x3 /\ Head(x4[k].pipe).event = "payment"
  <2>1. /\ x4[k].pipe # <<>>
        /\ x1' = x1 /\ x3' = x3
        /\ x4' = [x4 EXCEPT ![k].pipe = Tail(@)]
        /\ IF x3 = k THEN PaymentFeed!OnFrame(Head(x4[k].pipe)) ELSE x2' = x2
    BY <1>9 DEF PaymentFeed!Receive, PaymentFeed!Heard
  <2>2. /\ x4[k].pipe \in Seq(PaymentFeed!Frame)
        /\ x4[k].sent \in 0 .. MaxPayments
        /\ PipeOrdered(x4[k].pipe, x4[k].sent)
        /\ x4[k].stage = "open"
        /\ x4[k].sent <= Len(x1)
    BY <1>1, <2>1 DEF FeedInv, FeedConn, ConnSound
  <2>3. /\ rest \in Seq(PaymentFeed!Frame)
        /\ PipeOrdered(rest, x4[k].sent)
        /\ Newer(x4[k].pipe, x4[k].sent, Entries) => Newer(rest, x4[k].sent, Entries)
        /\ Head(x4[k].pipe) \in PaymentFeed!Frame
        /\ Head(x4[k].pipe).event = "payment" =>
             /\ n \in 1 .. x4[k].sent
             /\ \A i \in 1 .. Len(rest) : rest[i].event = "payment" => n < rest[i].at
    BY <2>1, <2>2, PipeShrinks
  <2>4. x4' = [x4 EXCEPT ![k] = [x4[k] EXCEPT !.pipe = rest]]
    BY <2>1, <1>1 DEF FeedInv, FeedConn
  <2>5. x4' \in [Requests -> FeedConn]
    BY <2>3, <2>4, <1>1 DEF FeedInv, FeedConn
  <2>6. /\ x4'[k].stage = "open" /\ x4'[k].sent = x4[k].sent
        /\ x4'[k].pipe = rest
        /\ \A j \in Requests \ {k} : x4'[j] = x4[j]
    BY <2>2, <2>4, <1>1 DEF FeedInv, FeedConn
  <2>7. CASE ~paid
    <3>1. x2' \in FeedHook /\ Entries' = Entries
      BY <2>1, <2>3, <2>7, <1>1
         DEF PaymentFeed!OnFrame, PaymentFeed!Frame, PaymentFeed!Statuses,
             FeedHook, Entries
    <3>2. ASSUME NEW j \in Requests, j # k
          PROVE  ConnSound(j)'
      BY <2>1, <2>6, <3>1, <3>2 DEF FeedInv, ConnSound
    <3>3. ConnSound(k)'
      BY <2>1, <2>2, <2>3, <2>6, <3>1 DEF FeedInv, ConnSound
    <3>4. QED
      BY <2>1, <2>5, <3>1, <3>2, <3>3 DEF FeedInv
  <2>8. CASE paid
    <3> DEFINE longer == PaymentFeed!Prepended(Entries, n)
    <3>1. /\ n \in 1 .. x4[k].sent /\ n \in 1 .. MaxPayments
          /\ n \in Nat /\ n <= Len(x1)
      BY <2>2, <2>3, <2>8, <1>1
    <3>2. Newer(x4[k].pipe, x4[k].sent, Entries)
      BY <2>2, <2>8 DEF FeedInv, ConnSound
    <3>3. \A i \in 1 .. Len(Entries) : Entries[i] < n
      <4>1. 1 \in 1 .. Len(x4[k].pipe) /\ Head(x4[k].pipe) = x4[k].pipe[1]
        BY <2>1, <2>2
      <4>2. QED
        BY <3>2, <4>1, <2>8 DEF Newer
    <3>4. /\ longer \in Seq(1 .. MaxPayments)
          /\ Descending(longer)
          /\ \A i \in 1 .. Len(longer) : longer[i] <= n
      BY <1>1, <3>1, <3>3, PrependedOnTop DEF FeedInv
    <3>5. x2' = [x2 EXCEPT !.transactions = longer]
      BY <2>1, <2>8 DEF PaymentFeed!OnFrame, Entries
    <3> HIDE DEF longer
    <3>6. x2' \in FeedHook /\ Entries' = longer
      BY <3>4, <3>5, <1>1 DEF FeedHook, Entries
    <3>7. \A i \in 1 .. Len(longer) : longer[i] \in Nat /\ longer[i] <= n
      BY <3>4
    <3>8. \A i \in 1 .. Len(longer) :
            /\ longer[i] <= Len(x1)
            /\ longer[i] <= x4[k].sent
      BY <1>1, <2>2, <3>1, <3>7
    <3>9. Newer(rest, x4[k].sent, longer)
      <4>1. rest \in Seq(PaymentFeed!Frame)
        BY <2>3
      <4>2. \A j \in 1 .. Len(rest) : rest[j].event = "payment" => n < rest[j].at
        BY <2>3, <2>8
      <4> HIDE DEF rest, n
      <4>3. \A j \in 1 .. Len(rest) : rest[j].at \in Nat
        <5>1. \A frame \in PaymentFeed!Frame : frame.at \in Nat
          BY DEF PaymentFeed!Frame
        <5>2. ASSUME NEW j \in 1 .. Len(rest)
              PROVE  rest[j] \in PaymentFeed!Frame
          BY <4>1, <5>2
        <5>3. QED
          BY <5>1, <5>2
      <4>4. \A i \in 1 .. Len(longer), j \in 1 .. Len(rest) :
              rest[j].event = "payment" => longer[i] < rest[j].at
        BY <3>1, <3>7, <4>2, <4>3
      <4>5. QED
        BY <3>8, <4>4 DEF Newer
    <3>10. ConnSound(k)'
      BY <2>1, <2>2, <2>3, <2>6, <3>6, <3>9 DEF ConnSound
    <3>11. ASSUME NEW j \in Requests, j # k
           PROVE  ConnSound(j)'
      BY <2>1, <2>6, <2>8, <3>11 DEF FeedInv, ConnSound
    <3>12. QED
      BY <2>1, <2>5, <3>4, <3>6, <3>8, <3>10, <3>11 DEF FeedInv
  <2>9. QED
    BY <2>7, <2>8
<1>10. ASSUME NEW k \in Requests, PaymentFeed!OnClose(k)
       PROVE  FeedInv'
  <2>1. /\ x1' = x1 /\ x2' = x2 /\ x3' = x3
        /\ x4' = [x4 EXCEPT ![k] = PaymentFeed!Closed]
    BY <1>10 DEF PaymentFeed!OnClose
  <2>2. QED
    BY <2>1, ClosedIsSound DEF FeedInv, ConnSound, Entries
<1>11. ASSUME NEW k \in Requests, NEW next \in Requests,
              PaymentFeed!Reconnect(k, next)
       PROVE  FeedInv'
  <2>1. /\ x1' = x1 /\ x3' = next
        /\ x4[k].stage \in {"requested", "open"} /\ x4[next].stage = "unused"
        /\ x4' = [x4 EXCEPT ![k] = PaymentFeed!Closed,
                            ![next].stage = "requested",
                            ![next].account = x4[k].account]
        /\ x2' = [x2 EXCEPT !.status = "reconnecting"]
    BY <1>11 DEF PaymentFeed!Reconnect
  <2>2. k # next
    BY <2>1
  <2>3. x2' \in FeedHook /\ Entries' = Entries
    BY <2>1, <1>1 DEF FeedHook, Entries, PaymentFeed!Statuses
  <2>4. x4' = [x4 EXCEPT ![k] = PaymentFeed!Closed,
                         ![next] = [x4[next] EXCEPT !.stage = "requested",
                                                    !.account = x4[k].account]]
    BY <2>1, <2>2, <1>1 DEF FeedInv, FeedConn
  <2>5. x4' \in [Requests -> FeedConn]
    <3>1. x4[next] \in FeedConn /\ x4[k].account \in Accounts \cup {None}
      BY <1>1 DEF FeedConn
    <3>2. [x4[next] EXCEPT !.stage = "requested", !.account = x4[k].account] \in FeedConn
      BY <3>1 DEF FeedConn
    <3>3. QED
      BY <2>4, <3>2, ClosedIsSound DEF FeedInv
  <2>6. /\ x4'[next].stage = "requested"
        /\ x4'[next].sent = x4[next].sent /\ x4'[next].pipe = x4[next].pipe
    BY <2>2, <2>4, <1>1 DEF FeedInv, FeedConn
  <2>7. /\ x4'[k] = PaymentFeed!Closed
        /\ \A j \in Requests \ {k, next} : x4'[j] = x4[j]
    BY <2>2, <2>4 DEF FeedInv
  <2>9. ConnSound(next)'
    BY <2>1, <2>6 DEF FeedInv, ConnSound
  <2>10. ASSUME NEW j \in Requests, j # next, j # k
         PROVE  ConnSound(j)'
    BY <2>1, <2>7, <2>10 DEF FeedInv, ConnSound
  <2>11. ConnSound(k)'
    BY <2>1, <2>2, <2>7, ClosedIsSound, <1>1 DEF ConnSound
  <2>12. QED
    BY <2>1, <2>3, <2>5, <2>9, <2>10, <2>11 DEF FeedInv
<1>12. QED
  BY <1>2, <1>3, <1>4, <1>5, <1>6, <1>7, <1>8, <1>9, <1>10, <1>11
     DEF PaymentFeed!Next

(* Whatever breaks, is replaced or arrives late, the list of payments runs *)
(* strictly from newer to older.                                           *)
THEOREM FeedNewestFirst == MCSpec => []NewestFirst
<1> DEFINE Inv == part = "PaymentFeed" => FeedInv
<1>1. MCInit => Inv
  <2> SUFFICES ASSUME PaymentFeed!Init PROVE FeedInv
    BY DEF MCInit
  <2>1. /\ x1 = <<>> /\ x3 = None
        /\ x2 = [publicKey |-> None, status |-> "idle", error |-> FALSE,
                 transactions |-> <<>>]
        /\ x4 = [k \in Requests |-> PaymentFeed!Unused]
    BY DEF PaymentFeed!Init
  <2>2. PaymentFeed!Unused \in FeedConn
    BY FeedAssumption DEF PaymentFeed!Unused, FeedConn
  <2>3. x2 \in FeedHook /\ Entries = <<>>
    BY <2>1 DEF FeedHook, Entries, PaymentFeed!Statuses
  <2>4. \A k \in Requests : ConnSound(k)
    BY <2>1, FeedAssumption
       DEF ConnSound, PaymentFeed!Unused, PipeOrdered
  <2>5. QED
    BY <2>1, <2>2, <2>3, <2>4, FeedAssumption DEF FeedInv, Descending
<1>2. Inv /\ [MCNext]_<<part, vars, xs>> => Inv'
  <2> SUFFICES ASSUME Inv, [MCNext]_<<part, vars, xs>>
               PROVE  Inv'
    OBVIOUS
  <2>1. CASE part = "PaymentFeed" /\ PaymentFeed!Next /\ part' = part
    BY <2>1, FeedStep
  <2>2. CASE UNCHANGED <<part, vars, xs>>
    BY <2>2 DEF xs, FeedInv, Entries, ConnSound
  <2>3. CASE part # "PaymentFeed" /\ part' = part
    BY <2>3
  <2>4. QED
    BY <2>1, <2>2, <2>3 DEF MCNext
<1>3. Inv => NewestFirst
  <2> SUFFICES ASSUME FeedInv PROVE PaymentFeed!TypeOK /\ PaymentFeed!NewestFirst
    BY DEF NewestFirst
  <2>1. PaymentFeed!TypeOK
    BY DEF FeedInv, FeedHook, FeedConn, PaymentFeed!TypeOK
  <2>2. DOMAIN Entries = 1 .. Len(Entries)
    BY DEF FeedInv, FeedHook, Entries
  <2>3. QED
    BY <2>1, <2>2 DEF FeedInv, Descending, Entries, PaymentFeed!NewestFirst
<1> HIDE DEF Inv
<1>4. QED
  BY <1>1, <1>2, <1>3, PTL DEF MCSpec
-----------------------------------------------------------------------------
(* Prices.  How old a price may be at each point: what a message carries   *)
(* is as old as what it was read from and the time it was under way.       *)
AgeAt(q, at) ==
  /\ q.stage \in {"asking", "reading", "discarding", "storing"} =>
       q.since <= at /\ at <= q.since + Delay
  /\ q.stage = "reading" =>
       q.found # None /\ q.since < q.found + PriceTTL + Delay
  /\ q.stage = "storing" => q.found = q.since
  /\ q.stage = "answered" =>
       q.found # None /\ at < q.found + 2 * PriceTTL + 2 * Delay

Remembered(entry) ==
  entry # None =>
    entry.born # None /\ entry.until < entry.born + 2 * PriceTTL + 2 * Delay

SharedIn(entry) ==
  entry # None /\ entry.born # None =>
    entry.until <= entry.born + PriceTTL + Delay

PricesInv ==
  /\ Prices!TypeOK
  /\ \A s \in Servers : Remembered(x2[s])
  /\ SharedIn(x3)
  /\ \A r \in Requests : AgeAt(x4[r], x1)

(* The memory tier of one server is written and one request goes on.       *)
LEMMA PricesKept ==
  ASSUME PricesInv, NEW r \in Requests, NEW q \in Prices!Call, NEW s,
         NEW e \in Prices!Entry \cup {None},
         x1' = x1, x4' = [x4 EXCEPT ![r] = q], AgeAt(q, x1),
         x2' = [x2 EXCEPT ![s] = e] \/ x2' = x2, Remembered(e),
         x3' \in Prices!Entry \cup {None}, SharedIn(x3')
  PROVE  PricesInv'
<1>1. Prices!TypeOK'
  BY DEF PricesInv, Prices!TypeOK
<1>2. \A t \in Servers : Remembered(x2[t])'
  BY DEF PricesInv, Prices!TypeOK, Remembered
<1>3. ASSUME NEW u \in Requests PROVE AgeAt(x4[u], x1)'
  <2>1. CASE u = r
    <3>1. x4'[u] = q
      BY <2>1 DEF PricesInv, Prices!TypeOK
    <3>2. QED
      BY <3>1 DEF AgeAt
  <2>2. CASE u # r
    <3>1. x4'[u] = x4[u]
      BY <2>2 DEF PricesInv, Prices!TypeOK
    <3>2. QED
      BY <3>1 DEF PricesInv, AgeAt
  <2>3. QED
    BY <2>1, <2>2
<1>4. QED
  BY <1>1, <1>2, <1>3 DEF PricesInv

LEMMA CallGoes ==
  ASSUME PricesInv, NEW r \in Requests,
         NEW stage \in Prices!Stages, NEW found \in Prices!Times \cup {None},
         Prices!Goes(r, stage, found)
  PROVE  \E q \in Prices!Call :
           /\ x4' = [x4 EXCEPT ![r] = q]
           /\ q.stage = stage /\ q.found = found /\ q.since = x1
<1> USE PricesAssumption
<1> DEFINE q1 == [x4[r] EXCEPT !.stage = stage]
           q2 == [q1 EXCEPT !.found = found]
           q3 == [q2 EXCEPT !.since = x1]
<1>1. x4[r] \in Prices!Call /\ x1 \in Prices!Times
  BY DEF PricesInv, Prices!TypeOK, Prices!Times
<1>2. q1 \in Prices!Call /\ q1.stage = stage
  BY <1>1 DEF Prices!Call
<1>3. q2 \in Prices!Call /\ q2.stage = stage /\ q2.found = found
  <2> HIDE DEF q1
  <2>1. QED
    BY <1>2 DEF Prices!Call
<1>4. q3 \in Prices!Call /\ q3.stage = stage /\ q3.found = found /\ q3.since = x1
  <2> HIDE DEF q2
  <2>1. QED
    BY <1>1, <1>3 DEF Prices!Call
<1>5. x4' = [x4 EXCEPT ![r] = q3]
  BY DEF Prices!Goes, PricesInv, Prices!TypeOK
<1> HIDE DEF q3
<1>6. QED
  BY <1>4, <1>5

LEMMA PricesNumbers ==
  ASSUME PricesInv
  PROVE  /\ x1 \in Nat /\ x1 <= LastTime
         /\ \A s \in Servers : x2[s] # None /\ x2[s].born # None =>
              x2[s].born \in Nat /\ x2[s].until \in Nat
         /\ x3 # None => x3.until \in Nat /\ (x3.born # None => x3.born \in Nat)
         /\ \A r \in Requests :
              /\ x4[r].since \in Nat
              /\ x4[r].found # None => x4[r].found \in Nat
         /\ \A n \in Nat : n <= LastTime => n \in Prices!Times
         /\ \A n \in Nat : n <= LastTime => n + PriceTTL \in Prices!Times
<1> USE PricesAssumption
<1>1. \A n \in Prices!Times : n \in Nat
  BY DEF Prices!Times
<1>2. \A e \in Prices!Entry : e.until \in Nat /\ (e.born # None => e.born \in Nat)
  BY <1>1 DEF Prices!Entry
<1>3. \A q \in Prices!Call : q.since \in Nat /\ (q.found # None => q.found \in Nat)
  BY <1>1 DEF Prices!Call
<1>4. x1 \in Nat /\ x1 <= LastTime
  BY DEF PricesInv, Prices!TypeOK
<1>5. /\ \A n \in Nat : n <= LastTime => n \in Prices!Times
      /\ \A n \in Nat : n <= LastTime => n + PriceTTL \in Prices!Times
  BY DEF Prices!Times
<1>6. QED
  BY <1>2, <1>3, <1>4, <1>5 DEF PricesInv, Prices!TypeOK

LEMMA PricesStep ==
  ASSUME PricesInv, Prices!Next
  PROVE  PricesInv'
<1> USE PricesAssumption
<1>0. /\ x1 \in Nat /\ x1 <= LastTime /\ x1 \in Prices!Times
      /\ x1 + PriceTTL \in Prices!Times
  BY PricesNumbers
<1>a. Remembered(None) /\ None \in Prices!Entry \cup {None}
  BY DEF Remembered
<1>b. x3 \in Prices!Entry \cup {None} /\ SharedIn(x3)
  BY DEF PricesInv, Prices!TypeOK
(* One request goes on, and no tier is written.                            *)
<1>c. ASSUME NEW r \in Requests, NEW q \in Prices!Call,
             x4' = [x4 EXCEPT ![r] = q], AgeAt(q, x1), UNCHANGED <<x1, x2, x3>>
      PROVE  PricesInv'
  BY <1>a, <1>b, <1>c, PricesKept
<1>d. /\ Prices!Free \in Prices!Call /\ AgeAt(Prices!Free, x1)
      /\ Prices!Free.next = 1 /\ Prices!Free.server = None
  BY DEF Prices!Free, Prices!Call, Prices!Stages, Prices!Times, AgeAt
<1>1. ASSUME NEW r \in Requests, NEW s \in Servers, Prices!Ask(r, s)
      PROVE  PricesInv'
  <2>1. CASE Prices!MemoryHit(s)
    <3> DEFINE q == [stage |-> "answered", server |-> s, found |-> x2[s].born,
                     next |-> 1, since |-> x1]
    <3>1. x4' = [x4 EXCEPT ![r] = q] /\ x2' = x2 /\ x1' = x1 /\ x3' = x3
      <4>1. x4' = [x4 EXCEPT ![r] = q]
        BY <1>1, <1>d, <2>1 DEF Prices!Ask
      <4>2. x2' = [x2 EXCEPT ![s] = x2[s]] /\ x1' = x1 /\ x3' = x3
        BY <1>1, <2>1 DEF Prices!Ask
      <4>3. QED
        BY <4>1, <4>2 DEF PricesInv, Prices!TypeOK
    <3>2. x2[s] \in Prices!Entry /\ x1 <= x2[s].until /\ Remembered(x2[s])
      BY <2>1 DEF Prices!MemoryHit, PricesInv, Prices!TypeOK
    <3>3. /\ x2[s].born # None
          /\ x2[s].until < x2[s].born + 2 * PriceTTL + 2 * Delay
      BY <2>1, <3>2 DEF Remembered, Prices!MemoryHit
    <3>4. x2[s].born \in Prices!Times /\ x2[s].until \in Prices!Times
      BY <3>2, <3>3 DEF Prices!Entry
    <3>5. x2[s].born \in Nat /\ x1 < x2[s].born + 2 * PriceTTL + 2 * Delay
      <4>1. x2[s].born \in Nat /\ x2[s].until \in Nat
        BY <3>4 DEF Prices!Times
      <4>2. QED
        BY <1>0, <3>2, <3>3, <4>1
    <3>6. q \in Prices!Call
      BY <1>0, <3>4 DEF Prices!Call, Prices!Stages
    <3>7. AgeAt(q, x1)
      BY <3>3, <3>5 DEF AgeAt
    <3>8. QED
      BY <1>c, <3>1, <3>6, <3>7
  <2>2. CASE ~Prices!MemoryHit(s)
    <3> DEFINE q == [stage |-> "asking", server |-> s, found |-> None,
                     next |-> 1, since |-> x1]
    <3>1. x4' = [x4 EXCEPT ![r] = q] /\ x1' = x1 /\ x3' = x3
      BY <1>1, <1>d, <2>2 DEF Prices!Ask
    <3>2. x2' = [x2 EXCEPT ![s] = None]
      BY <1>1, <2>2 DEF Prices!Ask
    <3>3. q \in Prices!Call
      BY <1>0 DEF Prices!Call, Prices!Stages
    <3>4. AgeAt(q, x1)
      BY <1>0 DEF AgeAt
    <3>5. QED
      BY <1>a, <1>b, <3>1, <3>2, <3>3, <3>4, PricesKept
  <2>3. QED
    BY <2>1, <2>2
<1>2. ASSUME NEW r \in Requests, Prices!RedisReplies(r)
      PROVE  PricesInv'
  <2>1. CASE Prices!Held = None
    <3>1. Prices!Goes(r, "fetching", None) /\ UNCHANGED <<x1, x2, x3>>
      BY <1>2, <2>1 DEF Prices!RedisReplies
    <3>2. PICK q \in Prices!Call : x4' = [x4 EXCEPT ![r] = q] /\ q.stage = "fetching"
      BY <3>1, CallGoes DEF Prices!Stages
    <3>3. AgeAt(q, x1)
      BY <3>2 DEF AgeAt
    <3>4. QED
      BY <1>c, <3>1, <3>2, <3>3
  <2>2. CASE Prices!Held # None
    <3>1. /\ x3 \in Prices!Entry /\ x1 < x3.until /\ Prices!Held = x3
      BY <1>b, <2>2 DEF Prices!Held
    <3>2. CASE x3.born = None
      <4>1. Prices!Goes(r, "discarding", None) /\ UNCHANGED <<x1, x2, x3>>
        BY <1>2, <2>2, <3>1, <3>2 DEF Prices!RedisReplies
      <4>2. PICK q \in Prices!Call :
              x4' = [x4 EXCEPT ![r] = q] /\ q.stage = "discarding" /\ q.since = x1
        BY <4>1, CallGoes DEF Prices!Stages
      <4>3. AgeAt(q, x1)
        BY <1>0, <4>2 DEF AgeAt
      <4>4. QED
        BY <1>c, <4>1, <4>2, <4>3
    <3>3. CASE x3.born # None
      <4>1. Prices!Goes(r, "reading", x3.born) /\ UNCHANGED <<x1, x2, x3>>
        BY <1>2, <2>2, <3>1, <3>3 DEF Prices!RedisReplies
      <4>2. x3.born \in Prices!Times /\ x3.until \in Prices!Times
        BY <3>1, <3>3 DEF Prices!Entry
      <4>3. PICK q \in Prices!Call :
              /\ x4' = [x4 EXCEPT ![r] = q]
              /\ q.stage = "reading" /\ q.found = x3.born /\ q.since = x1
        BY <4>1, <4>2, CallGoes DEF Prices!Stages
      <4>4. x1 < x3.born + PriceTTL + Delay
        <5>1. x3.until <= x3.born + PriceTTL + Delay
          BY <1>b, <3>1, <3>3 DEF SharedIn
        <5>2. x3.born \in Nat /\ x3.until \in Nat
          BY <4>2 DEF Prices!Times
        <5>3. QED
          BY <1>0, <3>1, <5>1, <5>2
      <4>5. AgeAt(q, x1)
        BY <1>0, <3>3, <4>3, <4>4 DEF AgeAt
      <4>6. QED
        BY <1>c, <4>1, <4>3, <4>5
    <3>4. QED
      BY <3>2, <3>3
  <2>3. QED
    BY <2>1, <2>2
<1>3. ASSUME NEW r \in Requests, Prices!RedisFails(r)
      PROVE  PricesInv'
  <2>1. Prices!Goes(r, "fetching", None) /\ UNCHANGED <<x1, x2, x3>>
    BY <1>3 DEF Prices!RedisFails
  <2>2. PICK q \in Prices!Call : x4' = [x4 EXCEPT ![r] = q] /\ q.stage = "fetching"
    BY <2>1, CallGoes DEF Prices!Stages
  <2>3. AgeAt(q, x1)
    BY <2>2 DEF AgeAt
  <2>4. QED
    BY <1>c, <2>1, <2>2, <2>3
<1>4. ASSUME NEW r \in Requests, Prices!Warm(r)
      PROVE  PricesInv'
  <2> DEFINE found == x4[r].found
             s == x4[r].server
             e == Prices!For(PriceTTL, found)
  <2>1. /\ x4[r].stage = "reading" /\ x2' = [x2 EXCEPT ![s] = e]
        /\ Prices!Goes(r, "answered", found) /\ x1' = x1 /\ x3' = x3
    BY <1>4 DEF Prices!Warm
  <2>2. /\ x4[r] \in Prices!Call /\ AgeAt(x4[r], x1)
    BY DEF PricesInv, Prices!TypeOK
  <2>3. /\ found \in Prices!Times /\ x4[r].since \in Prices!Times
        /\ found # None
        /\ x4[r].since < found + PriceTTL + Delay
        /\ x1 <= x4[r].since + Delay
    BY <2>1, <2>2 DEF AgeAt, Prices!Call
  <2>4. x1 < found + PriceTTL + 2 * Delay
    <3>1. found \in Nat /\ x4[r].since \in Nat
      BY <2>3 DEF Prices!Times
    <3> HIDE DEF found
    <3>2. QED
      BY <1>0, <2>3, <3>1
  <2>5. found \in Nat
    BY <2>3 DEF Prices!Times
  <2>6. PICK q \in Prices!Call :
          x4' = [x4 EXCEPT ![r] = q] /\ q.stage = "answered" /\ q.found = found
    BY <2>1, <2>3, CallGoes DEF Prices!Stages
  <2>7. AgeAt(q, x1)
    <3> HIDE DEF found
    <3>1. x1 < found + 2 * PriceTTL + 2 * Delay
      BY <1>0, <2>4, <2>5
    <3>2. QED
      BY <2>3, <2>6, <3>1 DEF AgeAt
  <2>8. e \in Prices!Entry /\ Remembered(e)
    <3>1. e = [born |-> found, until |-> x1 + PriceTTL]
      BY DEF Prices!For
    <3> HIDE DEF found, e
    <3>2. x1 + PriceTTL < found + 2 * PriceTTL + 2 * Delay
      BY <1>0, <2>4, <2>5
    <3>3. QED
      BY <1>0, <2>3, <3>1, <3>2 DEF Prices!Entry, Remembered
  <2> HIDE DEF e, s
  <2>9. QED
    BY <1>b, <2>1, <2>6, <2>7, <2>8, PricesKept
<1>5. ASSUME NEW r \in Requests, Prices!Discard(r)
      PROVE  PricesInv'
  <2>1. /\ Prices!Goes(r, "fetching", None) /\ x1' = x1 /\ x2' = x2
        /\ x3' \in {x3, None}
    BY <1>5 DEF Prices!Discard
  <2>2. PICK q \in Prices!Call : x4' = [x4 EXCEPT ![r] = q] /\ q.stage = "fetching"
    BY <2>1, CallGoes DEF Prices!Stages
  <2>3. AgeAt(q, x1)
    BY <2>2 DEF AgeAt
  <2>4. x3' \in Prices!Entry \cup {None} /\ SharedIn(x3')
    BY <1>b, <2>1 DEF SharedIn
  <2>5. QED
    BY <1>a, <2>1, <2>2, <2>3, <2>4, PricesKept
<1>6. ASSUME NEW r \in Requests, Prices!Fetched(r)
      PROVE  PricesInv'
  <2> DEFINE e == Prices!For(PriceTTL, x1)
  <2>1. /\ x2' = [x2 EXCEPT ![x4[r].server] = e]
        /\ Prices!Goes(r, "storing", x1) /\ x1' = x1 /\ x3' = x3
    BY <1>6 DEF Prices!Fetched
  <2>2. PICK q \in Prices!Call :
          /\ x4' = [x4 EXCEPT ![r] = q]
          /\ q.stage = "storing" /\ q.found = x1 /\ q.since = x1
    BY <1>0, <2>1, CallGoes DEF Prices!Stages
  <2>3. AgeAt(q, x1)
    BY <1>0, <2>2 DEF AgeAt
  <2>4. e \in Prices!Entry /\ Remembered(e)
    <3>1. e = [born |-> x1, until |-> x1 + PriceTTL]
      BY DEF Prices!For
    <3>2. x1 + PriceTTL < x1 + 2 * PriceTTL + 2 * Delay /\ x1 # None
      BY <1>0
    <3>3. QED
      BY <1>0, <3>1, <3>2 DEF Prices!Entry, Remembered
  <2> HIDE DEF e
  <2>5. QED
    BY <1>b, <2>1, <2>2, <2>3, <2>4, PricesKept
<1>7. ASSUME NEW r \in Requests, Prices!SourceFails(r)
      PROVE  PricesInv'
  <2> DEFINE q == [x4[r] EXCEPT !.next = x4[r].next + 1]
  <2>1. /\ x4[r].stage = "fetching" /\ UNCHANGED <<x1, x2, x3>>
        /\ \/ x4[r].next < Len(Providers) /\ x4' = [x4 EXCEPT ![r] = q]
           \/ x4' = [x4 EXCEPT ![r] = Prices!Free]
    BY <1>7 DEF Prices!SourceFails, PricesInv, Prices!TypeOK
  <2>2. CASE x4[r].next < Len(Providers) /\ x4' = [x4 EXCEPT ![r] = q]
    <3>1. x4[r] \in Prices!Call
      BY DEF PricesInv, Prices!TypeOK
    <3>2. x4[r].next + 1 \in 1 .. Len(Providers) + 1
      BY <2>2, <3>1 DEF Prices!Call
    <3>3. q \in Prices!Call /\ q.stage = "fetching"
      BY <2>1, <3>1, <3>2 DEF Prices!Call
    <3>4. AgeAt(q, x1)
      BY <3>3 DEF AgeAt
    <3>5. QED
      BY <1>c, <2>1, <2>2, <3>3, <3>4
  <2>3. CASE x4' = [x4 EXCEPT ![r] = Prices!Free]
    BY <1>c, <1>d, <2>1, <2>3
  <2>4. QED
    BY <2>1, <2>2, <2>3
<1>8. ASSUME NEW r \in Requests, Prices!Store(r)
      PROVE  PricesInv'
  <2> DEFINE found == x4[r].found
             e == Prices!For(PriceTTL, found)
  <2>1. /\ x4[r].stage = "storing" /\ x3' \in {x3, e}
        /\ Prices!Goes(r, "answered", found) /\ x1' = x1 /\ x2' = x2
    BY <1>8 DEF Prices!Store
  <2>2. x4[r] \in Prices!Call /\ AgeAt(x4[r], x1)
    BY DEF PricesInv, Prices!TypeOK
  <2>3. found \in Prices!Times /\ found \in Nat /\ x1 <= found + Delay
    BY <2>1, <2>2 DEF AgeAt, Prices!Call, Prices!Times
  <2>4. PICK q \in Prices!Call :
          x4' = [x4 EXCEPT ![r] = q] /\ q.stage = "answered" /\ q.found = found
    BY <2>1, <2>3, CallGoes DEF Prices!Stages
  <2>5. AgeAt(q, x1)
    <3> HIDE DEF found
    <3>1. x1 < found + 2 * PriceTTL + 2 * Delay /\ found # None
      BY <1>0, <2>3
    <3>2. QED
      BY <2>4, <3>1 DEF AgeAt
  <2>6. e \in Prices!Entry /\ SharedIn(e)
    <3>1. e = [born |-> found, until |-> x1 + PriceTTL]
      BY DEF Prices!For
    <3> HIDE DEF found, e
    <3>2. x1 + PriceTTL <= found + PriceTTL + Delay
      BY <1>0, <2>3
    <3>3. QED
      BY <1>0, <2>3, <3>1, <3>2 DEF Prices!Entry, SharedIn
  <2> HIDE DEF e
  <2>7. QED
    BY <1>a, <1>b, <2>1, <2>4, <2>5, <2>6, PricesKept
<1>9. ASSUME NEW r \in Requests, Prices!Answered(r)
      PROVE  PricesInv'
  BY <1>9, <1>c, <1>d DEF Prices!Answered
<1>10. CASE Prices!Tick
  <2>1. /\ x1 < LastTime /\ x1' = x1 + 1 /\ UNCHANGED <<x2, x3, x4>>
        /\ \A r \in Requests :
             /\ x4[r].stage # "answered"
             /\ Prices!UnderWay(r) => x1 < x4[r].since + Delay
    BY <1>10 DEF Prices!Tick
  <2>2. ASSUME NEW r \in Requests PROVE AgeAt(x4[r], x1)'
    <3>1. AgeAt(x4[r], x1) /\ x4[r].since \in Nat
      BY PricesNumbers DEF PricesInv
    <3>2. Prices!UnderWay(r) =>
            x4[r].since <= x1 + 1 /\ x1 + 1 <= x4[r].since + Delay
      BY <1>0, <2>1, <3>1 DEF AgeAt, Prices!UnderWay
    <3>3. QED
      BY <2>1, <3>1, <3>2 DEF AgeAt, Prices!UnderWay
  <2>3. Prices!TypeOK'
    BY <1>0, <2>1 DEF PricesInv, Prices!TypeOK
  <2>4. QED
    BY <2>1, <2>2, <2>3 DEF PricesInv
<1>11. QED
  BY <1>1, <1>2, <1>3, <1>4, <1>5, <1>6, <1>7, <1>8, <1>9, <1>10 DEF Prices!Next

(* However requests fill and read the two tiers, whatever fails and however *)
(* long sources take, the price that is served is under two lifetimes old,  *)
(* plus the delays of a write to Redis and of a reply.                      *)
THEOREM PricesAreFresh == MCSpec => []AgeBounded
<1> DEFINE Inv == part = "Prices" => PricesInv
<1>1. MCInit => Inv
  <2> SUFFICES ASSUME Prices!Init PROVE PricesInv
    BY DEF MCInit
  <2> USE PricesAssumption
  <2>1. /\ Prices!Malformed \in Prices!Entry /\ Prices!Malformed.born = None
        /\ Prices!Free \in Prices!Call /\ Prices!Free.stage = "idle"
    BY DEF Prices!Malformed, Prices!Entry, Prices!Free, Prices!Call,
           Prices!Stages, Prices!Times
  <2>2. Prices!TypeOK
    BY <2>1 DEF Prices!Init, Prices!TypeOK
  <2>3. \A r \in Requests : AgeAt(x4[r], x1)
    BY <2>1 DEF Prices!Init, AgeAt
  <2>4. SharedIn(x3) /\ \A s \in Servers : Remembered(x2[s])
    BY <2>1 DEF Prices!Init, SharedIn, Remembered
  <2>5. QED
    BY <2>2, <2>3, <2>4 DEF PricesInv
<1>2. Inv /\ [MCNext]_<<part, vars, xs>> => Inv'
  <2> SUFFICES ASSUME Inv, [MCNext]_<<part, vars, xs>> PROVE Inv'
    OBVIOUS
  <2>1. CASE part = "Prices" /\ Prices!Next /\ part' = part
    BY <2>1, PricesStep
  <2>2. CASE UNCHANGED <<part, vars, xs>>
    BY <2>2 DEF xs, PricesInv, Prices!TypeOK
  <2>3. CASE part # "Prices" /\ part' = part
    BY <2>3
  <2>4. QED
    BY <2>1, <2>2, <2>3 DEF MCNext
<1>3. Inv => AgeBounded
  <2> SUFFICES ASSUME PricesInv, NEW r \in Requests, x4[r].stage = "answered"
               PROVE  /\ x4[r].found # None
                      /\ x1 - x4[r].found < 2 * PriceTTL + 2 * Delay
    BY DEF AgeBounded, Prices!AgeBounded, PricesInv
  <2>1. AgeAt(x4[r], x1)
    BY DEF PricesInv
  <2>2. x4[r].found # None /\ x1 < x4[r].found + 2 * PriceTTL + 2 * Delay
    BY <2>1 DEF AgeAt
  <2>3. x4[r].found \in Nat /\ x1 \in Nat
    BY <2>2, PricesNumbers
  <2>4. QED
    BY <2>2, <2>3, PricesAssumption
<1> HIDE DEF Inv
<1>4. QED
  BY <1>1, <1>2, <1>3, PTL DEF MCSpec

-----------------------------------------------------------------------------
(* A set of numbers that is not empty has a least.                         *)
LEMMA LeastNat ==
  ASSUME NEW T \in SUBSET Nat, T # {}
  PROVE  \E n \in T : \A m \in T : n <= m
<1>1. \E n \in T : \A m \in T : ~ (<<m, n>> \in OpToRel(<, Nat))
  BY NatLessThanWellFounded, WFMin
<1>2. PICK n \in T : \A m \in T : ~ (<<m, n>> \in OpToRel(<, Nat))
  BY <1>1
<1>3. \A m \in T : <<m, n>> \in Nat \X Nat /\ (m < n => <<m, n>> \in OpToRel(<, Nat))
  BY DEF OpToRel
<1>4. \A m \in T : m \in Nat /\ n \in Nat /\ ~ (m < n)
  BY <1>2, <1>3
<1>5. QED
  BY <1>4

(* What holds of 0, and of the next number if of one, holds of all.        *)
LEMMA CountingUp ==
  ASSUME NEW n \in Nat, NEW Good, 0 \in Good,
         \A k \in Nat : k < n /\ k \in Good => k + 1 \in Good
  PROVE  \A k \in 0 .. n : k \in Good
<1> DEFINE Bad == {k \in 0 .. n : k \notin Good}
<1> SUFFICES ASSUME Bad # {} PROVE FALSE
  OBVIOUS
<1>1. Bad \in SUBSET Nat
  OBVIOUS
<1>2. PICK k \in Bad : \A m \in Bad : k <= m
  <2> HIDE DEF Bad
  <2>1. QED
    BY <1>1, LeastNat
<1>3. k \in 0 .. n /\ k \notin Good /\ k # 0
  OBVIOUS
<1>4. k - 1 \in Nat /\ k - 1 < n /\ (k - 1) + 1 = k /\ ~ (k <= k - 1)
  BY <1>3
<1>5. k - 1 \in Good
  BY <1>2, <1>4
<1>6. QED
  BY <1>3, <1>4, <1>5

(* Migrations.  Every set of files has a list in the order of the numbers. *)
Sorted(list, files) ==
  /\ list \in [1 .. Cardinality(files) -> files]
  /\ \A i, j \in 1 .. Cardinality(files) : i < j => list[i] < list[j]
  /\ \A f \in files : \E i \in 1 .. Cardinality(files) : list[i] = f

LEMMA SortedExists ==
  ASSUME NEW n \in Nat, NEW files \in SUBSET (1 .. n)
  PROVE  \E list : Sorted(list, files)
<1> DEFINE Good == {k \in Nat : \A S \in SUBSET (1 .. k) : \E list : Sorted(list, S)}
<1>1. 0 \in Good
  <2>1. \A S \in SUBSET (1 .. 0) : S = {}
    OBVIOUS
  <2>2. Cardinality({}) = 0
    BY FS_EmptySet
  <2>3. Sorted(<<>>, {})
    BY <2>2 DEF Sorted
  <2>4. QED
    BY <2>1, <2>3
<1>2. ASSUME NEW k \in Nat, k < n, k \in Good PROVE k + 1 \in Good
  <2>1. ASSUME NEW S \in SUBSET (1 .. (k + 1)) PROVE \E list : Sorted(list, S)
    <3>1. CASE k + 1 \notin S
      <4>1. S \in SUBSET (1 .. k)
        BY <3>1
      <4>2. QED
        BY <1>2, <4>1
    <3>2. CASE k + 1 \in S
      <4> DEFINE T == S \ {k + 1}
                 c == Cardinality(T)
      <4>1. T \in SUBSET (1 .. k) /\ S = T \cup {k + 1} /\ k + 1 \notin T
        BY <3>2
      <4>2. IsFiniteSet(T)
        <5>1. 1 \in Int /\ k \in Int
          OBVIOUS
        <5>2. IsFiniteSet(1 .. k)
          BY <5>1, FS_Interval
        <5>3. QED
          BY <4>1, <5>2, FS_Subset
      <4>3. c \in Nat /\ Cardinality(S) = c + 1
        BY <4>1, <4>2, FS_CardinalityType, FS_AddElement
      <4>4. PICK old : Sorted(old, T)
        BY <1>2, <4>1
      <4> DEFINE list == [i \in 1 .. (c + 1) |-> IF i = c + 1 THEN k + 1 ELSE old[i]]
      <4>5. /\ old \in [1 .. c -> T]
            /\ \A i, j \in 1 .. c : i < j => old[i] < old[j]
            /\ \A f \in T : \E i \in 1 .. c : old[i] = f
        BY <4>4 DEF Sorted
      <4> HIDE DEF T, c
      <4>6. \A i \in 1 .. (c + 1) : i # c + 1 => i \in 1 .. c
        BY <4>3
      <4>7. c + 1 \in 1 .. (c + 1) /\ \A i \in 1 .. c : i \in 1 .. (c + 1) /\ i # c + 1
        BY <4>3
      <4>8. list \in [1 .. (c + 1) -> S]
        BY <4>1, <4>5, <4>6
      <4>9. ASSUME NEW i \in 1 .. (c + 1), NEW j \in 1 .. (c + 1), i < j PROVE list[i] < list[j]
        <5>1. i \in 1 .. c /\ list[i] = old[i] /\ old[i] \in T
          BY <4>3, <4>5, <4>9
        <5>2. CASE j = c + 1
          <6>1. list[j] = k + 1 /\ old[i] \in 1 .. k
            BY <4>1, <5>1, <5>2
          <6>2. QED
            BY <5>1, <6>1
        <5>3. CASE j # c + 1
          BY <4>5, <4>6, <4>9, <5>1, <5>3
        <5>4. QED
          BY <5>2, <5>3
      <4>10. ASSUME NEW f \in S PROVE \E i \in 1 .. (c + 1) : list[i] = f
        <5>1. CASE f = k + 1
          BY <4>7, <5>1
        <5>2. CASE f # k + 1
          <6>1. PICK i \in 1 .. c : old[i] = f
            BY <4>1, <4>5, <5>2
          <6>2. QED
            BY <4>7, <6>1
        <5>3. QED
          BY <5>1, <5>2
      <4> HIDE DEF list
      <4>11. Sorted(list, S)
        BY <4>3, <4>8, <4>9, <4>10 DEF Sorted
      <4>12. QED
        BY <4>11
    <3>3. QED
      BY <3>1, <3>2
  <2>2. QED
    BY <2>1
<1> HIDE DEF Good
<1>3. n \in Good
  BY <1>1, <1>2, CountingUp
<1>4. QED
  BY <1>3 DEF Good

LEMMA UpwardSorts ==
  ASSUME NEW files \in SUBSET Migrations!Files
  PROVE  /\ Sorted(Migrations!Upward(files), files)
         /\ Migrations!Upward(files) \in Seq(files)
         /\ Len(Migrations!Upward(files)) = Cardinality(files)
         /\ Cardinality(files) \in 0 .. Highest
<1> DEFINE n == Cardinality(files)
           up == Migrations!Upward(files)
<1>1. Highest \in Nat /\ files \in SUBSET (1 .. Highest)
  BY MigrationsAssumption DEF Migrations!Files
<1>2. n \in Nat /\ n <= Highest
  <2>1. 1 \in Int /\ Highest \in Int
    BY <1>1
  <2>2. IsFiniteSet(1 .. Highest) /\ Cardinality(1 .. Highest) = Highest
    <3>1. Cardinality(1 .. Highest) = IF 1 > Highest THEN 0 ELSE Highest - 1 + 1
      BY <2>1, FS_Interval
    <3>2. QED
      BY <1>1, <2>1, <3>1, FS_Interval
  <2>3. IsFiniteSet(files) /\ n <= Cardinality(1 .. Highest)
    BY <1>1, <2>2, FS_Subset
  <2>4. QED
    BY <2>2, <2>3, FS_CardinalityType
<1>3. PICK list : Sorted(list, files)
  BY <1>1, SortedExists
<1>4. Migrations!Cardinality(files) = n
  BY DEF Migrations!Cardinality, Cardinality
<1>5. /\ up \in [1 .. n -> files] /\ Migrations!InOrder(up)
      /\ {up[i] : i \in DOMAIN up} = files
  <2>1. /\ list \in [1 .. n -> files] /\ Migrations!InOrder(list)
        /\ {list[i] : i \in DOMAIN list} = files
    BY <1>3 DEF Sorted, Migrations!InOrder
  <2> HIDE DEF n
  <2>2. up = CHOOSE s \in [1 .. n -> files] :
               Migrations!InOrder(s) /\ {s[i] : i \in DOMAIN s} = files
    BY <1>4 DEF Migrations!Upward
  <2>3. QED
    BY <2>1, <2>2
<1> HIDE DEF up
<1>6. Sorted(up, files)
  <2>1. \A i, j \in 1 .. n : i < j => up[i] < up[j]
    BY <1>5 DEF Migrations!InOrder
  <2>2. \A f \in files : \E i \in 1 .. n : up[i] = f
    BY <1>5
  <2>3. QED
    BY <1>5, <2>1, <2>2 DEF Sorted
<1>7. up \in Seq(files) /\ Len(up) = n
  <2> HIDE DEF n
  <2>1. QED
    BY <1>2, <1>5
<1>8. QED
  BY <1>2, <1>6, <1>7 DEF up

LEMMA ImagesShip ==
  ASSUME NEW image \in Images, NEW f \in Migrations!Files
  PROVE  image[f] \in Migrations!Versions \cup {None} /\ image[f] # "legacy"
<1>1. image[f] \in UNION {{other[g] : g \in Migrations!Files} : other \in Images}
  <2>1. image[f] \in {image[g] : g \in Migrations!Files}
    OBVIOUS
  <2>2. QED
    BY <2>1
<1>2. image[f] \in Migrations!Versions \cup {None}
  BY <1>1 DEF Migrations!Versions
<1>3. QED
  BY <1>2, MigrationsAssumption

LEMMA FirstFile == Migrations!Bootstrap = 1 /\ 1 \in Migrations!Files /\ Highest \in Nat
BY MigrationsAssumption DEF Migrations!Files, Migrations!Bootstrap

LEMMA ListsAreBounded ==
  ASSUME NEW list
  PROVE  list \in Migrations!BoundedSeq(Migrations!Files, Highest)
           <=> list \in Seq(Migrations!Files) /\ Len(list) <= Highest
<1> DEFINE F == Migrations!Files
<1> HIDE DEF F
<1>1. Highest \in Nat
  BY FirstFile
<1>2. list \in Migrations!BoundedSeq(F, Highest) <=> \E m \in 0 .. Highest : list \in [1 .. m -> F]
  BY DEF Migrations!BoundedSeq, Migrations!SeqOf
<1>3. ASSUME NEW m \in 0 .. Highest, list \in [1 .. m -> F]
      PROVE  list \in Seq(F) /\ Len(list) <= Highest
  <2>1. m \in Nat /\ m <= Highest
    BY <1>1
  <2>2. list \in Seq(F) /\ Len(list) = m
    BY <1>3, <2>1
  <2>3. QED
    BY <2>1, <2>2
<1>4. ASSUME list \in Seq(F), Len(list) <= Highest
      PROVE  Len(list) \in 0 .. Highest /\ list \in [1 .. Len(list) -> F]
  BY <1>1, <1>4
<1>5. QED
  BY <1>2, <1>3, <1>4 DEF F

(* What is recorded is the image's where the image ships it.               *)
NoDrift(image, table) ==
  \A f \in Migrations!Files :
    table[f] \in {None, "legacy"} \/ image[f] \in {None, table[f]}

(* The rest of a list of pending files: in order, shipped, and with what   *)
(* is recorded all that the image ships.                                   *)
Due(run, table) ==
  /\ \A i, j \in DOMAIN run.todo : i < j => run.todo[i] < run.todo[j]
  /\ \A i \in DOMAIN run.todo : run.image[run.todo[i]] # None
  /\ \A f \in Migrations!Files :
       run.image[f] # None => table[f] # None \/ \E i \in DOMAIN run.todo : run.todo[i] = f
  /\ NoDrift(run.image, table)

Busy == {"locked", "reading", "working"}

(* Whoever is past the lock holds it, and a list stays what it was due.    *)
RunSound(run, table) ==
  run.stage = "working" =>
    /\ run.todo # <<>> /\ run.command \in {"up", "rollback"}
    /\ run.command = "up" => Due(run, table)

RunsSound ==
  /\ x3 \in Requests \cup {None} /\ x4 \in [Requests -> Migrations!Run]
  /\ \A r \in Requests : x4[r].stage \in Busy => x3 = r
  /\ \A r \in Requests : RunSound(x4[r], x2)

BooksSound ==
  /\ x1 \in [Migrations!Files -> Migrations!Versions \cup {None}]
  /\ x2 \in [Migrations!Files -> Migrations!Versions \cup {"legacy", None}]
  /\ Migrations!RecordedIsInEffect
  /\ \A image \in Images : x1[1] \in {None, image[1]}

MigInv == RunsSound /\ BooksSound

LEMMA NothingDrifted ==
  ASSUME NEW image
  PROVE  Migrations!Drifted(image) = {} <=> NoDrift(image, x2)
BY DEF Migrations!Drifted, Migrations!Recorded, NoDrift

LEMMA RunsStep ==
  ASSUME RunsSound, NEW r \in Requests, NEW run \in Migrations!Run,
         x4' = [x4 EXCEPT ![r] = run],
         x3' \in {x3, None, r}, \A q \in Requests : x3 = q /\ q # r => x3' = q,
         run.stage \in Busy => x3' = r,
         RunSound(run, x2'),
         x2' = x2 \/ x3 = r
  PROVE  RunsSound'
<1>1. x3' \in Requests \cup {None} /\ x4' \in [Requests -> Migrations!Run]
  BY DEF RunsSound
<1>2. ASSUME NEW q \in Requests
      PROVE  (x4'[q].stage \in Busy => x3' = q) /\ RunSound(x4'[q], x2')
  <2>1. CASE q = r
    <3>1. x4'[q] = run
      BY <2>1 DEF RunsSound
    <3>2. QED
      BY <2>1, <3>1
  <2>2. CASE q # r
    <3>1. x4'[q] = x4[q] /\ RunSound(x4[q], x2) /\ (x4[q].stage \in Busy => x3 = q)
      BY <2>2 DEF RunsSound
    <3>2. x4[q].stage = "working" => x2' = x2
      BY <2>2, <3>1 DEF Busy
    <3>3. RunSound(x4[q], x2')
      BY <3>1, <3>2 DEF RunSound
    <3>4. QED
      BY <2>2, <3>1, <3>3
  <2>3. QED
    BY <2>1, <2>2
<1>3. QED
  BY <1>1, <1>2 DEF RunsSound

LEMMA NothingStarted == Migrations!NotStarted \in Migrations!Run /\ Migrations!NotStarted.stage = "idle"
<1>1. (CHOOSE i \in Images : TRUE) \in Images
  BY MigrationsAssumption
<1>2. <<>> \in Migrations!BoundedSeq(Migrations!Files, Highest)
  <2>1. <<>> \in Seq(Migrations!Files) /\ Len(<<>>) <= Highest
    BY FirstFile
  <2>2. QED
    BY <2>1, ListsAreBounded
<1>3. 0 \in 0 .. Highest
  BY FirstFile
<1>4. QED
  BY <1>1, <1>2, <1>3 DEF Migrations!NotStarted, Migrations!Run, Migrations!Commands

LEMMA EndsSoundly ==
  ASSUME RunsSound, NEW r \in Requests, Migrations!End(r), x2' = x2 \/ x3 = r
  PROVE  RunsSound'
<1>1. /\ x4' = [x4 EXCEPT ![r] = Migrations!NotStarted]
      /\ x3' = IF x3 = r THEN None ELSE x3
  BY DEF Migrations!End, Migrations!Released
<1>2. RunSound(Migrations!NotStarted, x2') /\ Migrations!NotStarted.stage \notin Busy
  BY NothingStarted DEF RunSound, Busy
<1>3. QED
  BY <1>1, <1>2, NothingStarted, RunsStep

LEMMA GoesTo ==
  ASSUME RunsSound, NEW r \in Requests, NEW stage \in {"locked", "reading"},
         Migrations!GoTo(r, stage), x3' = r, x3 \in {r, None}, x2' = x2 \/ x3 = r
  PROVE  RunsSound'
<1> DEFINE run == [x4[r] EXCEPT !.stage = stage]
<1>1. x4[r] \in Migrations!Run
  BY DEF RunsSound
<1>2. run \in Migrations!Run /\ run.stage = stage
  BY <1>1 DEF Migrations!Run
<1>3. x4' = [x4 EXCEPT ![r] = run]
  BY DEF Migrations!GoTo
<1> HIDE DEF run
<1>4. RunSound(run, x2')
  BY <1>2 DEF RunSound
<1>5. \A q \in Requests : x3 = q /\ q # r => x3' = q
  BY MigrationsAssumption
<1>6. QED
  BY <1>2, <1>3, <1>4, <1>5, RunsStep

LEMMA BooksStay ==
  ASSUME BooksSound, x1' = x1, x2' = x2
  PROVE  BooksSound'
BY DEF BooksSound, Migrations!RecordedIsInEffect, Migrations!Recorded

LEMMA StartKeeps ==
  ASSUME MigInv, NEW r \in Requests, Migrations!Start(r)
  PROVE  MigInv'
<1>1. PICK command \in Migrations!Commands, image \in Images, steps \in 0 .. Highest :
        x4' = [x4 EXCEPT ![r] = [stage |-> "waiting", command |-> command,
                                 steps |-> steps, image |-> image, todo |-> <<>>]]
  BY DEF Migrations!Start
<1> DEFINE run == [stage |-> "waiting", command |-> command,
                   steps |-> steps, image |-> image, todo |-> <<>>]
<1>2. <<>> \in Migrations!BoundedSeq(Migrations!Files, Highest)
  BY NothingStarted DEF Migrations!NotStarted, Migrations!Run
<1>3. run \in Migrations!Run /\ run.stage = "waiting"
  BY <1>2 DEF Migrations!Run
<1>4. x1' = x1 /\ x2' = x2 /\ x3' = x3
  BY DEF Migrations!Start
<1>5. x4' = [x4 EXCEPT ![r] = run]
  BY <1>1
<1> HIDE DEF run
<1>6. RunSound(run, x2') /\ run.stage \notin Busy
  BY <1>3 DEF RunSound, Busy
<1>7. RunsSound'
  BY <1>3, <1>4, <1>5, <1>6, RunsStep DEF MigInv
<1>8. QED
  BY <1>4, <1>7, BooksStay DEF MigInv

LEMMA AcquireKeeps ==
  ASSUME MigInv, NEW r \in Requests, Migrations!AcquireLock(r)
  PROVE  MigInv'
<1>1. x1' = x1 /\ x2' = x2 /\ x3 = None /\ x3' = r /\ Migrations!GoTo(r, "locked")
  BY DEF Migrations!AcquireLock
<1>2. RunsSound'
  BY <1>1, GoesTo DEF MigInv
<1>3. QED
  BY <1>1, <1>2, BooksStay DEF MigInv

LEMMA FailKeeps ==
  ASSUME MigInv, NEW r \in Requests, Migrations!Fail(r)
  PROVE  MigInv'
BY EndsSoundly, BooksStay DEF MigInv, Migrations!Fail

LEMMA HoldsLock ==
  ASSUME RunsSound, NEW r \in Requests, x4[r].stage \in Busy
  PROVE  x3 = r /\ x4[r] \in Migrations!Run /\ x4[r].image \in Images
BY DEF RunsSound, Migrations!Run

LEMMA EnsureKeeps ==
  ASSUME MigInv, NEW r \in Requests, Migrations!EnsureTable(r)
  PROVE  MigInv'
<1> DEFINE shipped == x4[r].image[1]
<1>1. x3 = r /\ x4[r].image \in Images
  BY HoldsLock DEF MigInv, Migrations!EnsureTable, Busy
<1>2. /\ shipped \in Migrations!Versions /\ shipped # "legacy" /\ shipped # None
      /\ \A image \in Images : image[1] = shipped
  BY <1>1, ImagesShip, FirstFile, MigrationsAssumption
<1>3. /\ x1' = [x1 EXCEPT ![1] = IF @ = None THEN shipped ELSE @]
      /\ x2' = [x2 EXCEPT ![1] = IF @ \in {None, "legacy"} THEN shipped ELSE @]
      /\ x3' = x3 /\ Migrations!GoTo(r, "reading")
  BY FirstFile DEF Migrations!EnsureTable
<1> HIDE DEF shipped
<1>4. RunsSound'
  BY <1>1, <1>3, GoesTo DEF MigInv
<1>5. /\ x1 \in [Migrations!Files -> Migrations!Versions \cup {None}]
      /\ x2 \in [Migrations!Files -> Migrations!Versions \cup {"legacy", None}]
      /\ x1[1] \in {None, shipped}
      /\ \A f \in Migrations!Files :
           x2[f] # None => x1[f] # None /\ x2[f] \in {"legacy", x1[f]}
  BY <1>1, <1>2 DEF MigInv, BooksSound, Migrations!RecordedIsInEffect, Migrations!Recorded
<1>6. /\ x1' \in [Migrations!Files -> Migrations!Versions \cup {None}]
      /\ x2' \in [Migrations!Files -> Migrations!Versions \cup {"legacy", None}]
  BY <1>2, <1>3, <1>5
<1>7. x1'[1] = shipped /\ x2'[1] # None /\ x2'[1] \in {"legacy", shipped}
  BY <1>2, <1>3, <1>5, FirstFile
<1>8. \A f \in Migrations!Files : f # 1 => x1'[f] = x1[f] /\ x2'[f] = x2[f]
  BY <1>3, <1>5
<1>9. ASSUME NEW f \in Migrations!Files, x2'[f] # None
      PROVE  x1'[f] # None /\ x2'[f] \in {"legacy", x1'[f]}
  <2>1. CASE f = 1
    BY <1>2, <1>7, <2>1
  <2>2. CASE f # 1
    BY <1>5, <1>8, <1>9, <2>2
  <2>3. QED
    BY <2>1, <2>2
<1>10. BooksSound'
  BY <1>2, <1>6, <1>7, <1>9
     DEF BooksSound, Migrations!RecordedIsInEffect, Migrations!Recorded
<1>11. QED
  BY <1>4, <1>10 DEF MigInv

LEMMA EnsureInOrder ==
  ASSUME MigInv, NEW r \in Requests, Migrations!EnsureTable(r)
  PROVE  \A f \in Migrations!Files \ {Migrations!Bootstrap} : x2'[f] = x2[f]
BY DEF MigInv, BooksSound, Migrations!EnsureTable

(* What is read is the list of what is due, in order.                      *)
LEMMA PendingIsDue ==
  ASSUME MigInv, NEW r \in Requests, x4[r].stage = "reading",
         NEW todo, todo = Migrations!Pending(x4[r].image),
         Migrations!Drifted(x4[r].image) = {}
  PROVE  /\ todo \in Migrations!BoundedSeq(Migrations!Files, Highest)
         /\ \A command : Due([x4[r] EXCEPT !.stage = command, !.todo = todo], x2)
<1> DEFINE image == x4[r].image
           files == {f \in Migrations!Files : image[f] # None} \ Migrations!Recorded
           n == Cardinality(files)
<1>1. files \in SUBSET Migrations!Files /\ todo = Migrations!Upward(files)
  BY DEF Migrations!Pending
<1>2. Sorted(todo, files) /\ todo \in Seq(files) /\ Len(todo) = n /\ n \in 0 .. Highest
  BY <1>1, UpwardSorts
<1>3. NoDrift(image, x2)
  BY NothingDrifted
<1>4. \A f \in files : image[f] # None
  OBVIOUS
<1>5. \A f \in Migrations!Files : image[f] # None => x2[f] # None \/ f \in files
  BY DEF Migrations!Recorded
<1>6. x4[r] \in Migrations!Run
  BY DEF MigInv, RunsSound
<1> HIDE DEF files, n, image
<1>7. todo \in Migrations!BoundedSeq(Migrations!Files, Highest)
  <2>1. Len(todo) <= Highest /\ todo \in Seq(Migrations!Files)
    BY <1>1, <1>2, FirstFile
  <2>2. QED
    BY <2>1, ListsAreBounded
<1>8. /\ DOMAIN todo = 1 .. n /\ \A i \in 1 .. n : todo[i] \in files
      /\ \A i, j \in 1 .. n : i < j => todo[i] < todo[j]
      /\ \A f \in files : \E i \in 1 .. n : todo[i] = f
  BY <1>2 DEF Sorted, n
<1>9. ASSUME NEW command
      PROVE  Due([x4[r] EXCEPT !.stage = command, !.todo = todo], x2)
  <2> DEFINE run == [x4[r] EXCEPT !.stage = command, !.todo = todo]
  <2>1. run.todo = todo /\ run.image = image
    BY <1>6 DEF Migrations!Run, image
  <2> HIDE DEF run
  <2>2. Due(run, x2)
    BY <1>3, <1>4, <1>5, <1>8, <2>1 DEF Due
  <2>3. QED
    BY <2>2 DEF run
<1>10. QED
  BY <1>7, <1>9

LEMMA NewestIsBounded ==
  ASSUME NEW steps \in 0 .. Highest
  PROVE  Migrations!Newest(steps) \in Migrations!BoundedSeq(Migrations!Files, Highest)
<1> DEFINE up == Migrations!Upward(Migrations!Recorded)
           down == Migrations!Downward(Migrations!Recorded)
<1>1. Migrations!Recorded \in SUBSET Migrations!Files
  BY DEF Migrations!Recorded
<1>2. up \in Seq(Migrations!Recorded) /\ Len(up) \in 0 .. Highest
  BY <1>1, UpwardSorts
<1>3. up \in Seq(Migrations!Files)
  BY <1>1, <1>2
<1>4. down = [i \in 1 .. Len(up) |-> up[(Len(up) - i) + 1]]
  BY DEF Migrations!Downward, Migrations!Reverse
<1> HIDE DEF up, down
<1>5. \A i \in 1 .. Len(up) : (Len(up) - i) + 1 \in 1 .. Len(up)
  BY <1>2, FirstFile
<1>6. down \in Seq(Migrations!Files) /\ Len(down) = Len(up)
  <2>1. down \in [1 .. Len(up) -> Migrations!Files]
    BY <1>3, <1>4, <1>5
  <2>2. Len(up) \in Nat
    BY <1>3
  <2>3. QED
    BY <2>1, <2>2
<1>7. Migrations!Newest(steps) = IF steps < Len(down) THEN SubSeq(down, 1, steps) ELSE down
  BY DEF Migrations!Newest, down
<1>8. CASE steps < Len(down)
  <2>1. SubSeq(down, 1, steps) \in Seq(Migrations!Files) /\ Len(SubSeq(down, 1, steps)) = steps
    BY <1>6, <1>8, FirstFile
  <2> DEFINE first == SubSeq(down, 1, steps)
  <2>2. first \in Seq(Migrations!Files) /\ Len(first) <= Highest
    BY <2>1, FirstFile
  <2> HIDE DEF first
  <2>3. first \in Migrations!BoundedSeq(Migrations!Files, Highest)
    BY <2>2, ListsAreBounded
  <2>4. QED
    BY <1>7, <1>8, <2>3 DEF first
<1>9. CASE ~ (steps < Len(down))
  BY <1>2, <1>6, <1>7, <1>9, FirstFile, ListsAreBounded
<1>10. QED
  BY <1>8, <1>9

LEMMA ReadKeeps ==
  ASSUME MigInv, NEW r \in Requests, Migrations!Read(r)
  PROVE  MigInv'
<1>1. x1' = x1 /\ x2' = x2 /\ x4[r].stage = "reading"
  BY DEF Migrations!Read
<1>2. x3 = r /\ x4[r] \in Migrations!Run
  BY <1>1, HoldsLock DEF MigInv, Busy
<1> DEFINE todo == CASE x4[r].command = "rollback" -> Migrations!Newest(x4[r].steps)
                     [] x4[r].command = "up"       -> Migrations!Pending(x4[r].image)
                     [] OTHER                      -> <<>>
           run == [x4[r] EXCEPT !.stage = "working", !.todo = todo]
<1>3. CASE Migrations!End(r)
  <2>1. RunsSound'
    BY <1>1, <1>3, EndsSoundly DEF MigInv
  <2>2. QED
    BY <1>1, <2>1, BooksStay DEF MigInv
<1>4. CASE /\ todo # <<>> /\ x4' = [x4 EXCEPT ![r].stage = "working", ![r].todo = todo] /\ x3' = x3
           /\ ~ (x4[r].command = "up" /\ Migrations!Drifted(x4[r].image) # {})
  <2>1. x4[r].command \in {"up", "rollback", "look"} /\ x4[r].steps \in 0 .. Highest
    BY <1>2 DEF Migrations!Run, Migrations!Commands
  <2>2. x4[r].command \in {"up", "rollback"}
    BY <1>4, <2>1
  <2>3. /\ todo \in Migrations!BoundedSeq(Migrations!Files, Highest)
        /\ x4[r].command = "up" => Due(run, x2)
    <3>1. CASE x4[r].command = "rollback"
      <4>1. todo = Migrations!Newest(x4[r].steps)
        BY <3>1
      <4> HIDE DEF todo
      <4>2. QED
        BY <2>1, <3>1, <4>1, NewestIsBounded
    <3>2. CASE x4[r].command = "up"
      <4>1. todo = Migrations!Pending(x4[r].image) /\ Migrations!Drifted(x4[r].image) = {}
        BY <1>4, <3>2
      <4> HIDE DEF todo
      <4>2. QED
        BY <1>1, <4>1, PendingIsDue
    <3>3. QED
      BY <2>2, <3>1, <3>2
  <2>4. todo # <<>> /\ x4' = [x4 EXCEPT ![r] = run]
    BY <1>4
  <2> HIDE DEF todo
  <2>5. run \in Migrations!Run
    BY <1>2, <2>3 DEF Migrations!Run
  <2>6. run.stage = "working" /\ run.todo = todo /\ run.command = x4[r].command
    BY <1>2 DEF Migrations!Run
  <2> HIDE DEF run
  <2>7. RunSound(run, x2')
    BY <1>1, <2>2, <2>3, <2>4, <2>6 DEF RunSound
  <2>8. RunsSound'
    BY <1>1, <1>2, <1>4, <2>4, <2>5, <2>7, RunsStep DEF MigInv
  <2>9. QED
    BY <1>1, <2>8, BooksStay DEF MigInv
<1>5. QED
  BY <1>3, <1>4 DEF Migrations!Read

LEMMA WorkersList ==
  ASSUME MigInv, NEW r \in Requests, x4[r].stage = "working"
  PROVE  /\ x3 = r /\ x4[r] \in Migrations!Run /\ x4[r].image \in Images
         /\ x4[r].todo \in Seq(Migrations!Files) /\ Len(x4[r].todo) \in 1 .. Highest
         /\ Head(x4[r].todo) = x4[r].todo[1] /\ x4[r].todo[1] \in Migrations!Files
         /\ x4[r].command = "up" => Due(x4[r], x2)
<1> DEFINE todo == x4[r].todo
<1>1. x3 = r /\ x4[r] \in Migrations!Run /\ x4[r].image \in Images
  BY HoldsLock DEF MigInv, Busy
<1>2. todo \in Seq(Migrations!Files) /\ Len(todo) <= Highest
  BY <1>1, ListsAreBounded DEF Migrations!Run
<1>3. todo # <<>> /\ (x4[r].command = "up" => Due(x4[r], x2))
  BY DEF MigInv, RunsSound, RunSound
<1> HIDE DEF todo
<1>4. Len(todo) \in 1 .. Highest /\ Head(todo) = todo[1] /\ todo[1] \in Migrations!Files
  BY <1>2, <1>3, FirstFile
<1>5. QED
  BY <1>1, <1>2, <1>3, <1>4 DEF todo

(* The rest of a list is due once its first file is recorded.              *)
LEMMA ContinuesSoundly ==
  ASSUME MigInv, NEW r \in Requests, x4[r].stage = "working", Migrations!Continue(r),
         x4[r].command \in {"up", "rollback"},
         x4[r].command = "up" =>
           /\ NoDrift(x4[r].image, x2')
           /\ \A f \in Migrations!Files : x2[f] # None \/ f = x4[r].todo[1] => x2'[f] # None
  PROVE  /\ RunsSound'
         /\ x4'[r] # x4[r]
<1> DEFINE todo == x4[r].todo
           run == [x4[r] EXCEPT !.todo = Tail(todo)]
<1>1. /\ x3 = r /\ x4[r] \in Migrations!Run /\ x4[r].image \in Images
      /\ todo \in Seq(Migrations!Files) /\ Len(todo) \in 1 .. Highest
      /\ Head(todo) = todo[1] /\ todo[1] \in Migrations!Files
      /\ x4[r].command = "up" => Due(x4[r], x2)
  BY WorkersList
<1>2. CASE Len(todo) = 1
  <2>1. Migrations!End(r)
    BY <1>2 DEF Migrations!Continue
  <2>2. x4' = [x4 EXCEPT ![r] = Migrations!NotStarted] /\ r \in DOMAIN x4
    BY <2>1 DEF Migrations!End, MigInv, RunsSound
  <2>3. x4'[r].stage = "idle"
    BY <2>2, NothingStarted
  <2>4. QED
    BY <1>1, <2>1, <2>3, EndsSoundly DEF MigInv
<1>3. CASE Len(todo) # 1
  <2>1. x4' = [x4 EXCEPT ![r] = run] /\ x3' = x3
    BY <1>3 DEF Migrations!Continue
  <2>2. run.todo = Tail(todo) /\ run.image = x4[r].image
        /\ run.command = x4[r].command /\ run.stage = "working"
    BY <1>1 DEF Migrations!Run
  <2>3. /\ Tail(todo) \in Seq(Migrations!Files) /\ Len(Tail(todo)) = Len(todo) - 1
        /\ DOMAIN todo = 1 .. Len(todo) /\ DOMAIN Tail(todo) = 1 .. (Len(todo) - 1)
        /\ \A i \in 1 .. (Len(todo) - 1) :
             Tail(todo)[i] = todo[i + 1] /\ i + 1 \in 1 .. Len(todo)
    <3> HIDE DEF todo
    <3>1. todo # <<>> /\ Len(todo) \in Nat
      BY <1>1, FirstFile
    <3>2. QED
      BY <1>1, <3>1
  <2>4. Tail(todo) \in Migrations!BoundedSeq(Migrations!Files, Highest)
    <3> DEFINE rest == Tail(todo)
    <3> HIDE DEF todo
    <3>1. rest \in Seq(Migrations!Files) /\ Len(rest) <= Highest
      BY <1>1, <2>3, FirstFile
    <3> HIDE DEF rest
    <3>2. rest \in Migrations!BoundedSeq(Migrations!Files, Highest)
      BY <3>1, ListsAreBounded
    <3>3. QED
      BY <3>2 DEF rest
  <2>5. run \in Migrations!Run
    BY <1>1, <2>4 DEF Migrations!Run
  <2>6. ASSUME x4[r].command = "up" PROVE Due(run, x2')
    <3>1. /\ \A i, j \in 1 .. Len(todo) : i < j => todo[i] < todo[j]
          /\ \A i \in 1 .. Len(todo) : x4[r].image[todo[i]] # None
          /\ \A f \in Migrations!Files :
               x4[r].image[f] # None => x2[f] # None \/ \E i \in 1 .. Len(todo) : todo[i] = f
      BY <1>1, <2>3, <2>6 DEF Due
    <3>2. /\ NoDrift(x4[r].image, x2')
          /\ \A f \in Migrations!Files : x2[f] # None \/ f = todo[1] => x2'[f] # None
      BY <2>6
    <3> HIDE DEF todo, run
    <3>3. \A i, j \in DOMAIN run.todo : i < j => run.todo[i] < run.todo[j]
      <4>1. ASSUME NEW i \in 1 .. (Len(todo) - 1), NEW j \in 1 .. (Len(todo) - 1), i < j
            PROVE  Tail(todo)[i] < Tail(todo)[j]
        <5>1. i + 1 < j + 1 /\ i + 1 \in 1 .. Len(todo) /\ j + 1 \in 1 .. Len(todo)
          BY <2>3, <4>1
        <5>2. QED
          BY <2>3, <3>1, <5>1
      <4>2. QED
        BY <2>2, <2>3, <4>1
    <3>4. \A i \in DOMAIN run.todo : run.image[run.todo[i]] # None
      BY <2>2, <2>3, <3>1
    <3>5. ASSUME NEW f \in Migrations!Files, run.image[f] # None
          PROVE  x2'[f] # None \/ \E i \in DOMAIN run.todo : run.todo[i] = f
      <4>1. CASE x2[f] # None
        BY <3>2, <4>1
      <4>2. CASE x2[f] = None
        <5>1. PICK i \in 1 .. Len(todo) : todo[i] = f
          BY <2>2, <3>1, <3>5, <4>2
        <5>2. CASE i = 1
          BY <3>2, <5>1, <5>2
        <5>3. CASE i # 1
          <6>1. i - 1 \in 1 .. (Len(todo) - 1) /\ (i - 1) + 1 = i
            BY <1>1, <5>1, <5>3
          <6>2. Tail(todo)[i - 1] = f
            BY <2>3, <5>1, <6>1
          <6>3. QED
            BY <2>2, <2>3, <6>1, <6>2
        <5>4. QED
          BY <5>2, <5>3
      <4>3. QED
        BY <4>1, <4>2
    <3>6. QED
      BY <2>2, <3>2, <3>3, <3>4, <3>5 DEF Due
  <2>7. Tail(todo) # <<>> /\ Tail(todo) # todo
    <3> DEFINE rest == Tail(todo)
               n == Len(todo)
    <3>1. Len(rest) = n - 1 /\ n \in Int /\ n # 1
      BY <1>1, <1>3, <2>3, FirstFile
    <3>2. Len(<<>>) = 0
      OBVIOUS
    <3> HIDE DEF rest, todo
    <3>3. rest # <<>>
      BY <3>1, <3>2
    <3>4. rest # todo
      BY <3>1
    <3>5. QED
      BY <3>3, <3>4 DEF rest
  <2>8. x4'[r] # x4[r]
    <3>1. x4'[r] = run
      BY <2>1 DEF MigInv, RunsSound
    <3>2. QED
      BY <2>2, <2>7, <3>1
  <2> HIDE DEF run
  <2>9. RunSound(run, x2')
    BY <2>2, <2>6, <2>7 DEF RunSound
  <2>10. RunsSound'
    BY <1>1, <2>1, <2>5, <2>9, RunsStep DEF MigInv
  <2>11. QED
    BY <2>8, <2>10
<1>4. QED
  BY <1>2, <1>3

LEMMA ApplyKeeps ==
  ASSUME MigInv, NEW r \in Requests, Migrations!ApplyMigration(r)
  PROVE  MigInv'
<1> DEFINE file == x4[r].todo[1]
           image == x4[r].image
<1>1. x4[r].stage = "working" /\ x4[r].command = "up"
  BY DEF Migrations!ApplyMigration, Migrations!Working
<1>2. /\ image \in Images /\ file \in Migrations!Files
      /\ Head(x4[r].todo) = file /\ Due(x4[r], x2)
  BY <1>1, WorkersList
<1>3. /\ x2[file] = None /\ Migrations!Continue(r)
      /\ x1' = [x1 EXCEPT ![file] = image[file]]
      /\ x2' = [x2 EXCEPT ![file] = image[file]]
  BY <1>2 DEF Migrations!ApplyMigration
<1>4. /\ x1 \in [Migrations!Files -> Migrations!Versions \cup {None}]
      /\ x2 \in [Migrations!Files -> Migrations!Versions \cup {"legacy", None}]
      /\ \A other \in Images : x1[1] \in {None, other[1]}
      /\ \A f \in Migrations!Files :
           x2[f] # None => x1[f] # None /\ x2[f] \in {"legacy", x1[f]}
  BY DEF MigInv, BooksSound, Migrations!RecordedIsInEffect, Migrations!Recorded
<1>5. image[file] \in Migrations!Versions \cup {None} /\ image[file] # None
  <2>1. image[file] \in Migrations!Versions \cup {None}
    BY <1>2, ImagesShip
  <2>2. 1 \in DOMAIN x4[r].todo
    BY <1>1, WorkersList, FirstFile
  <2>3. QED
    BY <1>2, <2>1, <2>2 DEF Due
<1>6. \A other \in Images : image[1] = other[1]
  BY <1>2, MigrationsAssumption, FirstFile
<1>7. NoDrift(image, x2)
  BY <1>2 DEF Due
<1> HIDE DEF file, image
<1>8. /\ x1'[file] = image[file] /\ x2'[file] = image[file]
      /\ \A f \in Migrations!Files : f # file => x1'[f] = x1[f] /\ x2'[f] = x2[f]
  BY <1>2, <1>3, <1>4
<1>9. BooksSound'
  <2>1. /\ x1' \in [Migrations!Files -> Migrations!Versions \cup {None}]
        /\ x2' \in [Migrations!Files -> Migrations!Versions \cup {"legacy", None}]
    BY <1>3, <1>4, <1>5
  <2>2. ASSUME NEW other \in Images PROVE x1'[1] \in {None, other[1]}
    <3>1. CASE file = 1
      BY <1>6, <1>8, <3>1
    <3>2. CASE file # 1
      BY <1>4, <1>8, <3>2, FirstFile
    <3>3. QED
      BY <3>1, <3>2
  <2>3. ASSUME NEW f \in Migrations!Files, x2'[f] # None
        PROVE  x1'[f] # None /\ x2'[f] \in {"legacy", x1'[f]}
    <3>1. CASE f = file
      BY <1>5, <1>8, <3>1
    <3>2. CASE f # file
      BY <1>4, <1>8, <2>3, <3>2
    <3>3. QED
      BY <3>1, <3>2
  <2>4. QED
    BY <2>1, <2>2, <2>3 DEF BooksSound, Migrations!RecordedIsInEffect, Migrations!Recorded
<1>10. NoDrift(image, x2')
  BY <1>7, <1>8 DEF NoDrift
<1>11. \A f \in Migrations!Files : x2[f] # None \/ f = file => x2'[f] # None
  BY <1>5, <1>8
<1>12. RunsSound'
  BY <1>1, <1>3, <1>10, <1>11, ContinuesSoundly DEF file, image
<1>13. QED
  BY <1>9, <1>12 DEF MigInv

LEMMA ApplyInOrder ==
  ASSUME MigInv, NEW r \in Requests, Migrations!ApplyMigration(r),
         NEW f \in Migrations!Files, x2[f] = None, x2'[f] # None
  PROVE  /\ x4'[r] # x4[r]
         /\ \A g \in 1 .. f - 1 : x4[r].image[g] # None => x2[g] # None
         /\ Migrations!Drifted(x4[r].image) = {}
<1> DEFINE todo == x4[r].todo
           image == x4[r].image
<1>1. x4[r].stage = "working" /\ x4[r].command = "up"
  BY DEF Migrations!ApplyMigration, Migrations!Working
<1>2. /\ todo \in Seq(Migrations!Files) /\ Len(todo) \in 1 .. Highest
      /\ Head(todo) = todo[1] /\ todo[1] \in Migrations!Files /\ Due(x4[r], x2)
      /\ image \in Images /\ DOMAIN todo = 1 .. Len(todo)
  BY <1>1, WorkersList
<1>3. x2' = [x2 EXCEPT ![todo[1]] = image[todo[1]]] /\ Migrations!Continue(r)
  BY <1>2 DEF Migrations!ApplyMigration
<1>4. f = todo[1]
  <2>1. x2 \in [Migrations!Files -> Migrations!Versions \cup {"legacy", None}]
    BY DEF MigInv, BooksSound
  <2>2. QED
    BY <1>3, <2>1
<1>5. /\ \A i, j \in 1 .. Len(todo) : i < j => todo[i] < todo[j]
      /\ \A g \in Migrations!Files :
           image[g] # None => x2[g] # None \/ \E i \in 1 .. Len(todo) : todo[i] = g
      /\ NoDrift(image, x2)
  BY <1>2 DEF Due
<1>6. Migrations!Drifted(image) = {}
  BY <1>5, NothingDrifted
<1>7. f \in Nat /\ \A g \in 1 .. (f - 1) : g \in Migrations!Files /\ g < f
  BY FirstFile DEF Migrations!Files
<1> HIDE DEF todo
<1>8. ASSUME NEW g \in 1 .. (f - 1), image[g] # None, x2[g] = None PROVE FALSE
  <2>1. PICK i \in 1 .. Len(todo) : todo[i] = g
    BY <1>5, <1>7, <1>8
  <2>2. i = 1 \/ 1 < i
    BY <1>2
  <2>3. 1 \in 1 .. Len(todo)
    BY <1>2
  <2>4. i # 1
    BY <1>4, <1>7, <2>1
  <2>5. f < g
    BY <1>4, <1>5, <2>1, <2>2, <2>3, <2>4
  <2>6. QED
    BY <1>7, <2>5
<1>9. x4'[r] # x4[r]
  <2>1. image[f] # None
    BY <1>2, <1>4, FirstFile DEF Due, todo
  <2>2. NoDrift(image, x2')
    <3>1. x2 \in [Migrations!Files -> Migrations!Versions \cup {"legacy", None}]
      BY DEF MigInv, BooksSound
    <3>2. x2'[f] = image[f] /\ \A g \in Migrations!Files : g # f => x2'[g] = x2[g]
      BY <1>3, <1>4, <3>1
    <3>3. QED
      BY <1>5, <3>2 DEF NoDrift
  <2>3. \A g \in Migrations!Files : x2[g] # None \/ g = f => x2'[g] # None
    <3>1. x2 \in [Migrations!Files -> Migrations!Versions \cup {"legacy", None}]
      BY DEF MigInv, BooksSound
    <3>2. QED
      BY <1>3, <1>4, <2>1, <3>1
  <2>4. QED
    BY <1>1, <1>3, <1>4, <2>2, <2>3, ContinuesSoundly DEF todo
<1>10. QED
  BY <1>6, <1>8, <1>9

LEMMA RollbackKeeps ==
  ASSUME MigInv, NEW r \in Requests, Migrations!RollbackMigration(r)
  PROVE  MigInv'
<1> DEFINE file == x4[r].todo[1]
<1>1. x4[r].stage = "working" /\ x4[r].command = "rollback"
  BY DEF Migrations!RollbackMigration, Migrations!Working
<1>2. file \in Migrations!Files /\ Head(x4[r].todo) = file
  BY <1>1, WorkersList
<1>3. /\ Migrations!Continue(r)
      /\ x1' = [x1 EXCEPT ![file] = None]
      /\ x2' = [f \in Migrations!Files |->
                  IF file \in {f, Migrations!Bootstrap} THEN None ELSE x2[f]]
  BY <1>2 DEF Migrations!RollbackMigration
<1>4. /\ x1 \in [Migrations!Files -> Migrations!Versions \cup {None}]
      /\ x2 \in [Migrations!Files -> Migrations!Versions \cup {"legacy", None}]
      /\ \A other \in Images : x1[1] \in {None, other[1]}
      /\ \A f \in Migrations!Files :
           x2[f] # None => x1[f] # None /\ x2[f] \in {"legacy", x1[f]}
  BY DEF MigInv, BooksSound, Migrations!RecordedIsInEffect, Migrations!Recorded
<1> HIDE DEF file
<1>5. /\ x1' \in [Migrations!Files -> Migrations!Versions \cup {None}]
      /\ x2' \in [Migrations!Files -> Migrations!Versions \cup {"legacy", None}]
      /\ \A other \in Images : x1'[1] \in {None, other[1]}
  BY <1>2, <1>3, <1>4, FirstFile
<1>6. \A f \in Migrations!Files : x2'[f] # None => f # file /\ x2'[f] = x2[f] /\ x1'[f] = x1[f]
  BY <1>2, <1>3, <1>4
<1>7. BooksSound'
  BY <1>4, <1>5, <1>6 DEF BooksSound, Migrations!RecordedIsInEffect, Migrations!Recorded
<1>8. RunsSound'
  BY <1>1, <1>3, ContinuesSoundly
<1>9. QED
  BY <1>7, <1>8 DEF MigInv

LEMMA SkipKeeps ==
  ASSUME MigInv, NEW r \in Requests, Migrations!SkipRollback(r)
  PROVE  MigInv'
<1>1. x4[r].stage = "working" /\ x4[r].command = "rollback" /\ Migrations!Continue(r)
      /\ x1' = x1 /\ x2' = x2
  BY DEF Migrations!SkipRollback, Migrations!Working
<1>2. RunsSound'
  BY <1>1, ContinuesSoundly
<1>3. QED
  BY <1>1, <1>2, BooksStay DEF MigInv

LEMMA MigStarts ==
  ASSUME Migrations!Init
  PROVE  MigInv
<1>1. PICK image \in Images, n \in 0 .. Highest :
        /\ x1 = [f \in Migrations!Files |-> IF f <= n THEN image[f] ELSE None]
        /\ x2 = [f \in Migrations!Files |-> IF f <= n /\ image[f] # None THEN "legacy" ELSE None]
        /\ x3 = None /\ x4 = [r \in Requests |-> Migrations!NotStarted]
  BY DEF Migrations!Init
<1>2. \A f \in Migrations!Files : image[f] \in Migrations!Versions \cup {None}
  BY ImagesShip
<1>3. \A other \in Images : image[1] = other[1]
  BY MigrationsAssumption, FirstFile
<1>4. BooksSound
  BY <1>1, <1>2, <1>3, FirstFile DEF BooksSound, Migrations!RecordedIsInEffect, Migrations!Recorded
<1>5. RunsSound
  BY <1>1, NothingStarted DEF RunsSound, RunSound, Busy
<1>6. QED
  BY <1>4, <1>5 DEF MigInv

LEMMA MigInvImplies ==
  ASSUME MigInv
  PROVE  Migrations!TypeOK /\ Migrations!RecordedIsInEffect
BY DEF MigInv, RunsSound, BooksSound, Migrations!TypeOK

LEMMA MigStep ==
  ASSUME MigInv, Migrations!Next
  PROVE  MigInv' /\ Migrations!AppliedInOrder
<1>1. MigInv'
  BY StartKeeps, AcquireKeeps, EnsureKeeps, ReadKeeps, ApplyKeeps, RollbackKeeps, SkipKeeps,
     FailKeeps DEF Migrations!Next
<1>2. ASSUME NEW f \in Migrations!Files \ {Migrations!Bootstrap}, x2[f] = None, x2'[f] # None
      PROVE  \E r \in Requests :
               /\ x4'[r] # x4[r]
               /\ \A g \in 1 .. f - 1 : x4[r].image[g] # None => x2[g] # None
               /\ Migrations!Drifted(x4[r].image) = {}
  <2>1. PICK r \in Requests :
          \/ Migrations!Start(r) \/ Migrations!AcquireLock(r) \/ Migrations!EnsureTable(r)
          \/ Migrations!Read(r) \/ Migrations!ApplyMigration(r)
          \/ Migrations!RollbackMigration(r) \/ Migrations!SkipRollback(r) \/ Migrations!Fail(r)
    BY DEF Migrations!Next
  <2>2. CASE Migrations!ApplyMigration(r)
    BY <1>2, <2>2, ApplyInOrder
  <2>3. CASE Migrations!EnsureTable(r)
    BY <1>2, <2>3, EnsureInOrder
  <2>4. CASE Migrations!RollbackMigration(r)
    BY <1>2, <2>4 DEF Migrations!RollbackMigration
  <2>5. CASE \/ Migrations!Start(r) \/ Migrations!AcquireLock(r) \/ Migrations!Read(r)
             \/ Migrations!SkipRollback(r) \/ Migrations!Fail(r)
    BY <1>2, <2>5 DEF Migrations!Start, Migrations!AcquireLock, Migrations!Read,
         Migrations!SkipRollback, Migrations!Fail
  <2>6. QED
    BY <2>1, <2>2, <2>3, <2>4, <2>5
<1>3. QED
  BY <1>1, <1>2 DEF Migrations!AppliedInOrder

(* However many processes migrate and roll back, of whatever images,       *)
(* failing at any step: a file is applied after every earlier one of its   *)
(* image and over none that was edited, and what is recorded is in effect  *)
(* (db/migrate.ts).                                                        *)
THEOREM SchemaStaysRecorded == MCSpec => SchemaAsRecorded
<1> DEFINE Inv == part = "Migrations" => MigInv
<1>1. MCInit => Inv
  BY MigStarts DEF MCInit
<1>2. Inv /\ [MCNext]_<<part, vars, xs>> =>
        /\ Inv'
        /\ [part = "Migrations" => Migrations!AppliedInOrder]_<<part, vars, xs>>
  <2> SUFFICES ASSUME Inv, [MCNext]_<<part, vars, xs>>
               PROVE  /\ Inv'
                      /\ [part = "Migrations" => Migrations!AppliedInOrder]_<<part, vars, xs>>
    OBVIOUS
  <2>1. CASE part = "Migrations" /\ Migrations!Next
    BY <2>1, MigStep
  <2>2. CASE UNCHANGED <<part, vars, xs>>
    <3>1. x1' = x1 /\ x2' = x2 /\ x3' = x3 /\ x4' = x4 /\ part' = part
      BY <2>2 DEF xs
    <3>2. MigInv => MigInv'
      BY <3>1 DEF MigInv, RunsSound, BooksSound, Migrations!RecordedIsInEffect,
           Migrations!Recorded
    <3>3. QED
      BY <2>2, <3>1, <3>2
  <2>3. CASE part # "Migrations" /\ part' = part
    BY <2>3
  <2>4. QED
    BY <2>1, <2>2, <2>3 DEF MCNext
<1>3. Inv => (part = "Migrations" => Migrations!TypeOK /\ Migrations!RecordedIsInEffect)
  BY MigInvImplies
<1> HIDE DEF Inv
<1>4. QED
  BY <1>1, <1>2, <1>3, PTL DEF MCSpec, SchemaAsRecorded
=============================================================================
