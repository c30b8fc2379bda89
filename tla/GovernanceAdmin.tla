-------------------------- MODULE GovernanceAdmin --------------------------
(***************************************************************************)
(* Who controls the on-chain governance contract                           *)
(* (contracts/governance/src/lib.rs): the admin seat and its two-step      *)
(* handover, recovery of a lost seat, the operation-scoped roles, and the  *)
(* scoped pause with its history.                                          *)
(*                                                                         *)
(* Each call is one transaction, so one action.  The administrators, role  *)
(* holders and nominees are different accounts whose calls interleave with *)
(* each other and with the expiry of what is pending.                      *)
(***************************************************************************)
EXTENDS Integers, Sequences

CONSTANTS Accounts,     \* the addresses that may call the contract
          NoOne,        \* stands for an absent address
          Roles,        \* the operation-scoped roles
          Scopes,       \* the non-empty pause scopes
          TransferTTL,  \* ADMIN_TRANSFER_TTL
          U64Max,       \* the largest u64
          MaxTime,      \* bound: the last ledger timestamp reached
          MaxHistory,   \* bound: records in the admin-transfer history
          MaxPauses     \* bound: records in the pause history

(* The roles that control the contract itself, and the pausing one.        *)
ControlRoles == {"Upgrade", "Recovery"}
AllRoles == {"Pause", "Schema", "Issuer", "Revocation"} \cup ControlRoles

TerminalReasons == {"Accepted", "Cancelled", "Expired"}

ASSUME RolesAssumption ==
  Roles \subseteq AllRoles /\ {"Pause"} \cup ControlRoles \subseteq Roles
ASSUME AbsentAssumption == NoOne \notin Accounts
ASSUME BoundsAssumption ==
  /\ TransferTTL \in Nat /\ U64Max \in Nat /\ MaxTime \in Nat
  /\ MaxHistory \in Nat /\ MaxPauses \in Nat

VARIABLES
  admin,        \* Config.admin, NoOne before initialize
  roles,        \* the <<account, role>> for which GovernanceRole is set
  pending,      \* PendingAdminTransfer; proposed_admin is NoOne when absent
  history,      \* AdminTransferHistory, dense from 1 (AdminHistorySeq)
  pauseScope,   \* PauseScope(scope)
  pauseHistory, \* PauseHistory, dense from 1 (PauseHistorySeq)
  now,          \* the ledger timestamp
  attempts,     \* history: transfers proposed
  recoveries,   \* history: seats taken by recover_admin
  blessed       \* history: role assignments an admin made or moved

roleVars  == <<roles, blessed>>
seatVars  == <<admin, pending, history, attempts, recoveries>>
pauseVars == <<pauseScope, pauseHistory>>
vars == <<roleVars, seatVars, pauseVars, now>>

Pending   == [proposed_admin : Accounts \cup {NoOne}, expires_at : Nat]
NoPending == [proposed_admin |-> NoOne, expires_at |-> 0]
TransferRecord == [old_admin : Accounts, proposed_admin : Accounts,
                   terminal_reason : TerminalReasons]
PauseRecord == [scope : Scopes, is_paused : BOOLEAN]

Init ==
  /\ admin = NoOne
  /\ roles = {}
  /\ pending = NoPending
  /\ history = <<>>
  /\ pauseScope = [s \in Scopes |-> FALSE]
  /\ pauseHistory = <<>>
  /\ now = 0
  /\ attempts = 0
  /\ recoveries = 0
  /\ blessed = {}

-----------------------------------------------------------------------------
(* Helpers.                                                                *)

HasRole(a, r) == <<a, r>> \in roles
IsPending == pending.proposed_admin # NoOne

(* Faulty: every role is an Upgrade holder's to manage.                    *)
UpgraderManages(actor, r) ==
  HasRole(actor, "Upgrade") \/ (admin # NoOne /\ actor = admin)

(* assert_can_manage_role: control roles are the admin's to manage; the    *)
(* operational ones also an Upgrade holder's.                              *)
CanManage(actor, r) ==
  IF r \in ControlRoles
  THEN admin # NoOne /\ actor = admin
  ELSE HasRole(actor, "Upgrade") \/ (admin # NoOne /\ actor = admin)

(* Faulty: the roles are copied and the old address keeps them.            *)
Copied(assigned, old, new) ==
  assigned \cup {<<new, r>> : r \in {x \in Roles : <<old, x>> \in assigned}}

(* inherit_admin_roles: each role moves; the old address keeps none.       *)
Inherited(assigned, old, new) ==
  IF old = new THEN assigned
  ELSE LET moved == {r \in Roles : <<old, r>> \in assigned}
       IN (assigned \ {<<old, r>> : r \in moved}) \cup {<<new, r>> : r \in moved}

(* Faulty: the two addresses are swapped.                                  *)
SwappedRecord(old, proposed, reason) ==
  [old_admin |-> proposed, proposed_admin |-> old, terminal_reason |-> reason]

Record(old, proposed, reason) ==
  [old_admin |-> old, proposed_admin |-> proposed, terminal_reason |-> reason]

(* The seat changes hands and the roles go with it.                        *)
TakeSeat(new) ==
  /\ admin' = new
  /\ roles' = Inherited(roles, admin, new)
  /\ blessed' = {b \in blessed : b[1] # admin} \cup
                {<<new, r>> : r \in {x \in Roles : HasRole(admin, x)}}

-----------------------------------------------------------------------------
(* The contract's calls.                                                   *)

Initialize(a) ==
  /\ admin = NoOne
  /\ admin' = a
  /\ roles' = {<<a, r>> : r \in Roles}
  /\ blessed' = {<<a, r>> : r \in Roles}
  /\ UNCHANGED <<pending, history, attempts, recoveries, pauseVars, now>>

GrantRole(actor, a, r) ==
  /\ CanManage(actor, r)
  /\ ~HasRole(a, r)
  /\ roles' = roles \cup {<<a, r>>}
  /\ blessed' = IF actor = admin THEN blessed \cup {<<a, r>>} ELSE blessed
  /\ UNCHANGED <<seatVars, pauseVars, now>>

RevokeRole(actor, a, r) ==
  /\ CanManage(actor, r)
  /\ HasRole(a, r)
  /\ roles' = roles \ {<<a, r>>}
  /\ blessed' = blessed \ {<<a, r>>}
  /\ UNCHANGED <<seatVars, pauseVars, now>>

ProposeAdminTransfer(actor, a) ==
  /\ actor = admin
  /\ a # admin
  /\ ~IsPending
  /\ now + TransferTTL <= U64Max
  /\ pending' = [proposed_admin |-> a, expires_at |-> now + TransferTTL]
  /\ attempts' = attempts + 1
  /\ UNCHANGED <<admin, history, recoveries, roleVars, pauseVars, now>>

AcceptAdminTransfer(actor) ==
  /\ admin # NoOne
  /\ IsPending
  /\ actor = pending.proposed_admin
  /\ now <= pending.expires_at
  /\ pending' = NoPending
  /\ TakeSeat(actor)
  /\ history' = Append(history, Record(admin, actor, "Accepted"))
  /\ UNCHANGED <<attempts, recoveries, pauseVars, now>>

CancelAdminTransfer(actor) ==
  /\ actor = admin
  /\ IsPending
  /\ pending' = NoPending
  /\ history' = Append(history,
       Record(admin, pending.proposed_admin, "Cancelled"))
  /\ UNCHANGED <<admin, attempts, recoveries, roleVars, pauseVars, now>>

SweepExpiredAdminTransfer ==
  /\ admin # NoOne
  /\ IsPending
  /\ now > pending.expires_at
  /\ pending' = NoPending
  /\ history' = Append(history,
       Record(admin, pending.proposed_admin, "Expired"))
  /\ UNCHANGED <<admin, attempts, recoveries, roleVars, pauseVars, now>>

RecoverAdmin(actor, new) ==
  LET superseded == IF ~IsPending THEN history
        ELSE Append(history, Record(admin, pending.proposed_admin, "Cancelled"))
  IN /\ HasRole(actor, "Recovery")
     /\ admin # NoOne
     /\ new # admin
     /\ pending' = NoPending
     /\ TakeSeat(new)
     /\ history' = Append(superseded, Record(admin, new, "Accepted"))
     /\ recoveries' = recoveries + 1
     /\ UNCHANGED <<attempts, pauseVars, now>>

(* Faulty: unpausing any scope unpauses all of them.                       *)
SetPauseEverywhere(actor, scope, flag) ==
  /\ HasRole(actor, "Pause")
  /\ Len(pauseHistory) < MaxPauses
  /\ pauseScope' = [s \in Scopes |-> (flag /\ s = scope) \/ (flag /\ pauseScope[s])]
  /\ pauseHistory' = Append(pauseHistory, [scope |-> scope, is_paused |-> flag])
  /\ UNCHANGED <<seatVars, roleVars, now>>

(* execute_pause (flag TRUE) and execute_unpause (flag FALSE).             *)
SetPause(actor, scope, flag) ==
  /\ HasRole(actor, "Pause")
  /\ Len(pauseHistory) < MaxPauses
  /\ pauseScope' = [pauseScope EXCEPT ![scope] = flag]
  /\ pauseHistory' = Append(pauseHistory, [scope |-> scope, is_paused |-> flag])
  /\ UNCHANGED <<seatVars, roleVars, now>>

(* The calls after initialize.                                             *)
AdminCall ==
  \/ \E actor, a \in Accounts, r \in Roles :
       \/ GrantRole(actor, a, r)
       \/ RevokeRole(actor, a, r)
  \/ \E actor, a \in Accounts :
       /\ Len(history) < MaxHistory
       /\ \/ ProposeAdminTransfer(actor, a)
          \/ RecoverAdmin(actor, a)
  \/ \E actor \in Accounts :
       \/ AcceptAdminTransfer(actor)
       \/ CancelAdminTransfer(actor)
  \/ SweepExpiredAdminTransfer
  \/ \E actor \in Accounts, s \in Scopes, flag \in BOOLEAN :
       SetPause(actor, s, flag)

(* A ledger closes at a later time.                                        *)
Tick ==
  /\ now < MaxTime
  /\ now' = now + 1
  /\ UNCHANGED <<seatVars, roleVars, pauseVars>>

Next ==
  \/ \E a \in Accounts : Initialize(a)
  \/ AdminCall
  \/ Tick

Spec == Init /\ [][Next]_vars

-----------------------------------------------------------------------------
(* Properties.                                                             *)

TypeOK ==
  /\ admin \in Accounts \cup {NoOne}
  /\ roles \subseteq Accounts \X Roles
  /\ blessed \subseteq Accounts \X Roles
  /\ pending \in Pending
  /\ history \in Seq(TransferRecord)
  /\ pauseScope \in [Scopes -> BOOLEAN]
  /\ pauseHistory \in Seq(PauseRecord)
  /\ now \in Nat /\ attempts \in Nat /\ recoveries \in Nat

(* Who holds the seat once a record is written.                            *)
SeatAfter(record) ==
  IF record.terminal_reason = "Accepted"
  THEN record.proposed_admin ELSE record.old_admin

(* Every record starts from the admin the record before it left in         *)
(* control, and the last one left the present admin: the history is one    *)
(* unbroken chain of custody of the seat.                                  *)
ChainTo(records, seat) ==
  /\ \A i \in 1 .. Len(records) - 1 :
       records[i + 1].old_admin = SeatAfter(records[i])
  /\ Len(records) > 0 => seat = SeatAfter(records[Len(records)])

HistoryIsChain == ChainTo(history, admin)

(* Every proposed transfer ends in exactly one record, superseded ones     *)
(* included, and only recoveries add records of their own (the comment on  *)
(* AdminTransferRecord).                                                   *)
EveryAttemptRecordedOnce ==
  Len(history) + (IF IsPending THEN 1 ELSE 0) = attempts + recoveries

(* A pending transfer always names someone other than the seat's holder,   *)
(* whoever has taken the seat since: accepting it is a real handover.      *)
PendingNamesAnother == IsPending => pending.proposed_admin # admin

(* Custody of the seat through handovers, expiries, recoveries and sweeps  *)
(* (append_admin_transfer and its callers).                                *)
CustodySound == HistoryIsChain /\ EveryAttemptRecordedOnce /\ PendingNamesAnother

(* The comment on assert_can_manage_role: nobody comes to hold Upgrade or  *)
(* Recovery except through an admin, by a grant of the admin's own or by   *)
(* taking over the seat, however the Upgrade holders use their powers.     *)
NoEscalation ==
  \A a \in Accounts, r \in ControlRoles : HasRole(a, r) => <<a, r>> \in blessed

(* The comment on inherit_admin_roles: whenever the seat changes hands the *)
(* replaced admin is left with no role at all, nobody else loses one, and  *)
(* the successor holds what its predecessor held.                          *)
Handover ==
  /\ \A r \in Roles : <<admin, r>> \notin roles'
  /\ \A a \in Accounts \ {admin}, r \in Roles : HasRole(a, r) => <<a, r>> \in roles'
  /\ \A r \in Roles : HasRole(admin, r) => <<admin', r>> \in roles'

OldKeyKeepsNothing ==
  [][(admin # NoOne /\ admin' # admin) => Handover]_vars

(* is_paused agrees with the history for every scope: the last record of   *)
(* the scope tells whether it is paused, and without one it is not.        *)
LastRecord(s, i) ==
  /\ i \in 1 .. Len(pauseHistory)
  /\ pauseHistory[i].scope = s
  /\ \A j \in i + 1 .. Len(pauseHistory) : pauseHistory[j].scope # s

PauseMatchesHistory ==
  \A s \in Scopes :
    pauseScope[s] <=> \E i \in 1 .. Len(pauseHistory) :
                        LastRecord(s, i) /\ pauseHistory[i].is_paused
=============================================================================
