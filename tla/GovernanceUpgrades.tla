------------------------ MODULE GovernanceUpgrades ------------------------
(***************************************************************************)
(* Pending protocol upgrades of the on-chain governance contract           *)
(* (contracts/governance/src/lib.rs): holders of the Upgrade role propose  *)
(* a build and approve it, each at most once; a pending upgrade expires,   *)
(* anyone may sweep the expired ones, and an index finds an upgrade by the *)
(* hash of its build.                                                      *)
(*                                                                         *)
(* The pending records, the hash index and the approver lists live under   *)
(* three storage keys that the calls keep in step one by one.              *)
(***************************************************************************)
EXTENDS Integers, FiniteSets

CONSTANTS Accounts,    \* the addresses that may call the contract
          UpgradeIds,  \* the non-empty upgrade proposal ids
          Hashes,      \* the non-empty hashes of target builds
          None,        \* stands for an absent hash or upgrade id
          TTLs,        \* the ttl arguments of propose_upgrade
          U64Max,      \* the largest u64
          MaxTime,     \* bound: the last ledger timestamp reached
          MaxProposed  \* bound: upgrades proposed

ASSUME AbsentAssumption == None \notin Hashes \cup UpgradeIds
ASSUME AccountsAssumption == IsFiniteSet(Accounts)
ASSUME BoundsAssumption ==
  /\ TTLs \subseteq Nat
  /\ U64Max \in Nat /\ MaxTime \in Nat /\ MaxProposed \in Nat

VARIABLES
  upgraders, \* the accounts for which GovernanceRole(_, Upgrade) is set
  upgrades,  \* PendingUpgrades; target_hash is None where the key is absent
  hashIndex, \* PendingUpgradeHashes, None where the key is absent
  approvers, \* UpgradeApprovals(id); push_back is guarded, so a set
  now,       \* the ledger timestamp
  proposed,  \* history: upgrades proposed
  round,     \* history: which proposal, by its number, an id stands for
  approvedIn \* history: the round in which an account last approved an id

upgradeVars == <<upgrades, hashIndex, approvers, proposed, round, approvedIn>>
vars == <<upgraders, upgradeVars, now>>

Upgrade   == [target_hash : Hashes \cup {None}, expires_at : Nat,
              approval_count : Nat]
NoUpgrade == [target_hash |-> None, expires_at |-> 0, approval_count |-> 0]

IsPending(u) == upgrades[u].target_hash # None
IsExpired(u) == IsPending(u) /\ now > upgrades[u].expires_at

Init ==
  /\ upgraders = {}
  /\ upgrades = [u \in UpgradeIds |-> NoUpgrade]
  /\ hashIndex = [h \in Hashes |-> None]
  /\ approvers = [u \in UpgradeIds |-> {}]
  /\ now = 0
  /\ proposed = 0
  /\ round = [u \in UpgradeIds |-> 0]
  /\ approvedIn = [u \in UpgradeIds |-> [a \in Accounts |-> 0]]

-----------------------------------------------------------------------------
(* The contract's calls.                                                   *)

(* Faulty: a pending upgrade is overwritten.                               *)
ProposeOver(actor, u, hash, ttl) ==
  /\ actor \in upgraders
  /\ now + ttl <= U64Max
  /\ upgrades' = [upgrades EXCEPT ![u] =
       [target_hash |-> hash, expires_at |-> now + ttl, approval_count |-> 0]]
  /\ hashIndex' = [hashIndex EXCEPT ![hash] = u]
  /\ proposed' = proposed + 1
  /\ round' = [round EXCEPT ![u] = proposed + 1]
  /\ UNCHANGED <<upgraders, approvers, now, approvedIn>>

ProposeUpgrade(actor, u, hash, ttl) ==
  /\ actor \in upgraders
  /\ ~IsPending(u)
  /\ now + ttl <= U64Max
  /\ upgrades' = [upgrades EXCEPT ![u] =
       [target_hash |-> hash, expires_at |-> now + ttl, approval_count |-> 0]]
  /\ hashIndex' = [hashIndex EXCEPT ![hash] = u]
  /\ proposed' = proposed + 1
  /\ round' = [round EXCEPT ![u] = proposed + 1]
  /\ UNCHANGED <<upgraders, approvers, now, approvedIn>>

(* Faulty: an account may approve again.                                   *)
ApproveAgain(actor, u) ==
  /\ actor \in upgraders
  /\ IsPending(u)
  /\ now <= upgrades[u].expires_at
  /\ approvers' = [approvers EXCEPT ![u] = @ \cup {actor}]
  /\ upgrades' = [upgrades EXCEPT ![u].approval_count = @ + 1]
  /\ approvedIn' = [approvedIn EXCEPT ![u][actor] = round[u]]
  /\ UNCHANGED <<upgraders, hashIndex, now, proposed, round>>

ApproveUpgrade(actor, u) ==
  /\ actor \in upgraders
  /\ IsPending(u)
  /\ now <= upgrades[u].expires_at
  /\ actor \notin approvers[u]
  /\ approvers' = [approvers EXCEPT ![u] = @ \cup {actor}]
  /\ upgrades' = [upgrades EXCEPT ![u].approval_count = @ + 1]
  /\ approvedIn' = [approvedIn EXCEPT ![u][actor] = round[u]]
  /\ UNCHANGED <<upgraders, hashIndex, now, proposed, round>>

(* Every expired upgrade goes at once, and the index entry of its hash     *)
(* goes with it, whichever upgrade that entry names.                       *)
SweepExpiredUpgrades ==
  LET expired == {u \in UpgradeIds : IsExpired(u)}
      swept   == {upgrades[u].target_hash : u \in expired}
  IN /\ expired # {}
     /\ upgrades' = [u \in UpgradeIds |->
          IF u \in expired THEN NoUpgrade ELSE upgrades[u]]
     /\ hashIndex' = [h \in Hashes |->
          IF h \in swept THEN None ELSE hashIndex[h]]
     /\ approvers' = [u \in UpgradeIds |->
          IF u \in expired THEN {} ELSE approvers[u]]
     /\ UNCHANGED <<upgraders, now, proposed, round, approvedIn>>

UpgradeCall ==
  \/ \E actor \in Accounts, u \in UpgradeIds, h \in Hashes, ttl \in TTLs :
       proposed < MaxProposed /\ ProposeUpgrade(actor, u, h, ttl)
  \/ \E actor \in Accounts, u \in UpgradeIds : ApproveUpgrade(actor, u)
  \/ SweepExpiredUpgrades

-----------------------------------------------------------------------------
(* The contract's surroundings.                                            *)

(* grant_role, revoke_role and inherit_admin_roles on the Upgrade role     *)
(* (GovernanceAdmin models who may call them).                             *)
ChangeUpgraders(holders) ==
  /\ upgraders' = holders
  /\ UNCHANGED <<upgradeVars, now>>

(* A ledger closes at a later time.                                        *)
Tick ==
  /\ now < MaxTime
  /\ now' = now + 1
  /\ UNCHANGED <<upgraders, upgradeVars>>

Next ==
  \/ UpgradeCall
  \/ \E holders \in SUBSET Accounts : ChangeUpgraders(holders)
  \/ Tick

Spec == Init /\ [][Next]_vars

-----------------------------------------------------------------------------
(* Properties.                                                             *)

TypeOK ==
  /\ upgraders \subseteq Accounts
  /\ upgrades \in [UpgradeIds -> Upgrade]
  /\ hashIndex \in [Hashes -> UpgradeIds \cup {None}]
  /\ approvers \in [UpgradeIds -> SUBSET Accounts]
  /\ now \in Nat /\ proposed \in Nat
  /\ round \in [UpgradeIds -> Nat]
  /\ approvedIn \in [UpgradeIds -> [Accounts -> Nat]]

(* "Every account counts once" (the comment on approve_upgrade): the count *)
(* in the pending record is the number of accounts in the separate         *)
(* approver list, and no list outlives its upgrade.                        *)
ApprovalsCounted ==
  \A u \in UpgradeIds :
    /\ upgrades[u].approval_count = Cardinality(approvers[u])
    /\ ~IsPending(u) => approvers[u] = {}

(* An id may be proposed again once its upgrade was swept, for another     *)
(* build: no approval of an earlier proposal is carried over to it.        *)
ApprovalsAreOfThisProposal ==
  \A u \in UpgradeIds : \A a \in approvers[u] : approvedIn[u][a] = round[u]

(* Whatever get_pending_upgrade_by_hash finds is a pending upgrade to the  *)
(* very build it was asked for, never one of another hash under an id that *)
(* was used again.                                                         *)
HashIndexSound ==
  \A h \in Hashes :
    hashIndex[h] # None => upgrades[hashIndex[h]].target_hash = h

(* The pending map, the approver lists and the hash index, three separate  *)
(* storage entries, agree.                                                 *)
UpgradeRecordsSound ==
  ApprovalsCounted /\ ApprovalsAreOfThisProposal /\ HashIndexSound

(* Until it expires, a pending upgrade is neither removed nor retargeted,  *)
(* and it loses no approval, whatever the others propose, sweep or revoke. *)
KeepsUpgrade(u) ==
  /\ upgrades'[u].target_hash = upgrades[u].target_hash
  /\ upgrades'[u].expires_at = upgrades[u].expires_at
  /\ upgrades'[u].approval_count >= upgrades[u].approval_count
  /\ approvers[u] \subseteq approvers'[u]

LiveUpgradesKept ==
  [][\A u \in UpgradeIds : (IsPending(u) /\ ~IsExpired(u)) => KeepsUpgrade(u)]_vars

(* The comment on PendingUpgradeApproval: "the upgrade hash index makes it *)
(* possible to find a pending upgrade by its target hash": an upgrade that *)
(* is pending and has not expired is found, it or another of its hash.     *)
PendingFoundByHash ==
  \A u \in UpgradeIds :
    (IsPending(u) /\ ~IsExpired(u)) => hashIndex[upgrades[u].target_hash] # None
=============================================================================
