------------------------ MODULE GovernanceAdminProofs ------------------------
(***************************************************************************)
(* Proofs about GovernanceAdmin for any set of accounts and scopes and any *)
(* length of the two histories.                                            *)
(***************************************************************************)
EXTENDS GovernanceAdmin, TLAPS

-----------------------------------------------------------------------------
(* Every stored record keeps its type.                                     *)
LEMMA RolesTyped ==
  ASSUME TypeOK, NEW new \in Accounts, TakeSeat(new)
  PROVE  roles' \subseteq Accounts \X Roles /\ blessed' \subseteq Accounts \X Roles
<1>1. roles' \subseteq Accounts \X Roles
  <2>1. CASE admin = new
    BY <2>1 DEF TypeOK, TakeSeat, Inherited
  <2>2. CASE admin # new
    <3> DEFINE moved == {r \in Roles : <<admin, r>> \in roles}
    <3>1. roles' = (roles \ {<<admin, r>> : r \in moved})
                     \cup {<<new, r>> : r \in moved}
      BY <2>2 DEF TakeSeat, Inherited
    <3>2. moved \subseteq Roles
      OBVIOUS
    <3> HIDE DEF moved
    <3>3. {<<new, r>> : r \in moved} \subseteq Accounts \X Roles
      BY <3>2
    <3>4. QED
      BY <3>1, <3>3 DEF TypeOK
  <2>3. QED
    BY <2>1, <2>2
<1>2. blessed' \subseteq Accounts \X Roles
  BY DEF TypeOK, TakeSeat
<1>3. QED
  BY <1>1, <1>2

LEMMA RecordTyped ==
  ASSUME NEW old \in Accounts, NEW proposed \in Accounts,
         NEW reason \in TerminalReasons
  PROVE  Record(old, proposed, reason) \in TransferRecord
BY DEF Record, TransferRecord

THEOREM TypeCorrect == Spec => []TypeOK
<1>1. Init => TypeOK
  BY DEF Init, TypeOK, NoPending, Pending
<1>2. TypeOK /\ [Next]_vars => TypeOK'
  <2> SUFFICES ASSUME TypeOK, [Next]_vars PROVE TypeOK'
    OBVIOUS
  <2> USE DEF seatVars, roleVars, pauseVars
  <2>1. ASSUME NEW a \in Accounts, Initialize(a) PROVE TypeOK'
    BY <2>1 DEF TypeOK, Initialize
  <2>2. ASSUME NEW actor \in Accounts, NEW a \in Accounts, NEW r \in Roles,
               GrantRole(actor, a, r)
        PROVE  TypeOK'
    BY <2>2 DEF TypeOK, GrantRole
  <2>3. ASSUME NEW actor \in Accounts, NEW a \in Accounts, NEW r \in Roles,
               RevokeRole(actor, a, r)
        PROVE  TypeOK'
    BY <2>3 DEF TypeOK, RevokeRole
  <2>4. ASSUME NEW actor \in Accounts, NEW a \in Accounts,
               ProposeAdminTransfer(actor, a)
        PROVE  TypeOK'
    BY <2>4, BoundsAssumption DEF TypeOK, ProposeAdminTransfer, Pending
  <2>5. ASSUME NEW actor \in Accounts, AcceptAdminTransfer(actor)
        PROVE  TypeOK'
    <3>1. Record(admin, actor, "Accepted") \in TransferRecord
      BY <2>5, RecordTyped DEF TypeOK, AcceptAdminTransfer, TerminalReasons
    <3>2. history' \in Seq(TransferRecord)
      BY <2>5, <3>1 DEF TypeOK, AcceptAdminTransfer
    <3>3. /\ roles' \subseteq Accounts \X Roles
          /\ blessed' \subseteq Accounts \X Roles
      BY <2>5, RolesTyped DEF AcceptAdminTransfer
    <3>4. QED
      BY <2>5, <3>2, <3>3
         DEF TypeOK, AcceptAdminTransfer, TakeSeat, NoPending, Pending
  <2>6. ASSUME NEW actor \in Accounts, CancelAdminTransfer(actor)
        PROVE  TypeOK'
    <3>1. Record(admin, pending.proposed_admin, "Cancelled") \in TransferRecord
      BY <2>6, RecordTyped, AbsentAssumption
         DEF TypeOK, CancelAdminTransfer, TerminalReasons, Pending, IsPending
    <3>2. QED
      BY <2>6, <3>1 DEF TypeOK, CancelAdminTransfer, NoPending, Pending
  <2>7. CASE SweepExpiredAdminTransfer
    <3>1. Record(admin, pending.proposed_admin, "Expired") \in TransferRecord
      BY <2>7, RecordTyped
         DEF TypeOK, SweepExpiredAdminTransfer, TerminalReasons, Pending,
             IsPending
    <3>2. QED
      BY <2>7, <3>1 DEF TypeOK, SweepExpiredAdminTransfer, NoPending, Pending
  <2>8. ASSUME NEW actor \in Accounts, NEW a \in Accounts,
               RecoverAdmin(actor, a)
        PROVE  TypeOK'
    <3> DEFINE cancelled == Record(admin, pending.proposed_admin, "Cancelled")
               taken == Record(admin, a, "Accepted")
               superseded == IF ~IsPending THEN history
                             ELSE Append(history, cancelled)
    <3>1. taken \in TransferRecord
      BY <2>8, RecordTyped DEF TypeOK, RecoverAdmin, TerminalReasons
    <3>2. superseded \in Seq(TransferRecord)
      <4>1. CASE IsPending
        <5>1. cancelled \in TransferRecord
          BY <2>8, <4>1, RecordTyped
             DEF TypeOK, RecoverAdmin, TerminalReasons, Pending, IsPending
        <5> HIDE DEF cancelled
        <5>2. QED
          BY <4>1, <5>1 DEF TypeOK
      <4>2. CASE ~IsPending
        BY <4>2 DEF TypeOK
      <4>3. QED
        BY <4>1, <4>2
    <3>3. history' = Append(superseded, taken)
      BY <2>8 DEF RecoverAdmin
    <3> HIDE DEF superseded, taken
    <3>4. history' \in Seq(TransferRecord)
      BY <3>1, <3>2, <3>3
    <3>5. /\ roles' \subseteq Accounts \X Roles
          /\ blessed' \subseteq Accounts \X Roles
      BY <2>8, RolesTyped DEF RecoverAdmin
    <3>6. QED
      BY <2>8, <3>4, <3>5
         DEF TypeOK, RecoverAdmin, TakeSeat, NoPending, Pending
  <2>9. ASSUME NEW actor \in Accounts, NEW s \in Scopes, NEW flag \in BOOLEAN,
               SetPause(actor, s, flag)
        PROVE  TypeOK'
    <3>1. [scope |-> s, is_paused |-> flag] \in PauseRecord
      BY DEF PauseRecord
    <3>2. QED
      BY <2>9, <3>1 DEF TypeOK, SetPause
  <2>10. CASE Tick
    BY <2>10 DEF TypeOK, Tick
  <2>11. CASE UNCHANGED vars
    BY <2>11 DEF TypeOK, vars
  <2>12. QED
    BY <2>1, <2>2, <2>3, <2>4, <2>5, <2>6, <2>7, <2>8, <2>9, <2>10, <2>11
       DEF Next, AdminCall
<1>3. QED
  BY <1>1, <1>2, PTL DEF Spec

-----------------------------------------------------------------------------
(* The chain of custody.  Seated is what makes a record's old admin an     *)
(* account: nothing is pending and nothing is recorded before initialize.  *)
Seated == admin = NoOne => history = <<>> /\ ~IsPending
CustodyInv ==
  Seated /\ HistoryIsChain /\ EveryAttemptRecordedOnce /\ PendingNamesAnother

LEMMA ChainGrows ==
  ASSUME NEW records \in Seq(TransferRecord), NEW record \in TransferRecord,
         ChainTo(records, record.old_admin)
  PROVE  ChainTo(Append(records, record), SeatAfter(record))
<1> DEFINE grown == Append(records, record)
<1>1. /\ Len(grown) = Len(records) + 1
      /\ grown[Len(records) + 1] = record
      /\ \A i \in 1 .. Len(records) : grown[i] = records[i]
      /\ Len(records) \in Nat
  OBVIOUS
<1> HIDE DEF grown
<1>2. ASSUME NEW i \in 1 .. Len(grown) - 1
      PROVE  grown[i + 1].old_admin = SeatAfter(grown[i])
  <2>1. CASE i = Len(records)
    <3>1. SeatAfter(records[i]) = record.old_admin
      BY <1>1, <1>2, <2>1 DEF ChainTo
    <3>2. grown[i] = records[i] /\ grown[i + 1] = record
      BY <1>1, <1>2, <2>1
    <3>3. QED
      BY <3>1, <3>2
  <2>2. CASE i # Len(records)
    <3>1. i \in 1 .. Len(records) - 1
      BY <1>1, <1>2, <2>2
    <3>2. records[i + 1].old_admin = SeatAfter(records[i])
      BY <3>1 DEF ChainTo
    <3>3. grown[i] = records[i] /\ grown[i + 1] = records[i + 1]
      BY <1>1, <3>1
    <3>4. QED
      BY <3>2, <3>3
  <2>3. QED
    BY <2>1, <2>2
<1>3. ChainTo(grown, SeatAfter(record))
  BY <1>1, <1>2 DEF ChainTo
<1>4. QED
  BY <1>3 DEF grown

(* Before initialize nothing is recorded and nothing is pending.           *)
LEMMA CustodyStep ==
  TypeOK /\ CustodyInv /\ [Next]_vars => CustodyInv'
<1> SUFFICES ASSUME TypeOK, CustodyInv, [Next]_vars PROVE CustodyInv'
  OBVIOUS
<1> USE DEF seatVars, roleVars, pauseVars
<1>1. CASE UNCHANGED <<admin, pending, history, attempts, recoveries>>
  BY <1>1 DEF CustodyInv, Seated, HistoryIsChain, ChainTo, SeatAfter,
              EveryAttemptRecordedOnce, PendingNamesAnother, IsPending
<1>2. ASSUME NEW a \in Accounts, Initialize(a) PROVE CustodyInv'
  <2>1. /\ history = <<>> /\ ~IsPending /\ attempts + recoveries = 0
        /\ UNCHANGED <<pending, history, attempts, recoveries>>
        /\ admin' # NoOne
    BY <1>2, AbsentAssumption
       DEF Initialize, CustodyInv, Seated, EveryAttemptRecordedOnce
  <2>2. QED
    BY <2>1 DEF CustodyInv, Seated, HistoryIsChain, ChainTo,
                EveryAttemptRecordedOnce, PendingNamesAnother, IsPending
<1>3. ASSUME NEW actor \in Accounts, NEW a \in Accounts,
             ProposeAdminTransfer(actor, a)
      PROVE  CustodyInv'
  <2>1. /\ admin # NoOne /\ a # admin /\ ~IsPending
        /\ pending'.proposed_admin = a
        /\ attempts' = attempts + 1
        /\ UNCHANGED <<admin, history, recoveries>>
    BY <1>3, AbsentAssumption DEF ProposeAdminTransfer
  <2>2. Seated' /\ PendingNamesAnother'
    BY <2>1 DEF Seated, PendingNamesAnother
  <2>3. HistoryIsChain'
    BY <2>1 DEF CustodyInv, HistoryIsChain, ChainTo, SeatAfter
  <2>4. EveryAttemptRecordedOnce'
    BY <2>1, AbsentAssumption
       DEF CustodyInv, EveryAttemptRecordedOnce, IsPending, TypeOK
  <2>5. QED
    BY <2>2, <2>3, <2>4 DEF CustodyInv
<1>4. ASSUME NEW reason \in TerminalReasons,
             IsPending, admin # NoOne, pending' = NoPending,
             admin' = IF reason = "Accepted"
                      THEN pending.proposed_admin ELSE admin,
             history' = Append(history,
                          Record(admin, pending.proposed_admin, reason)),
             UNCHANGED <<attempts, recoveries>>
      PROVE  CustodyInv'
  <2> DEFINE record == Record(admin, pending.proposed_admin, reason)
  <2>1. /\ record \in TransferRecord
        /\ record.old_admin = admin
        /\ SeatAfter(record) = admin'
    BY <1>4, RecordTyped DEF TypeOK, Pending, IsPending, SeatAfter, Record
  <2> HIDE DEF record
  <2>2. ChainTo(Append(history, record), SeatAfter(record))
    BY <2>1, ChainGrows DEF TypeOK, CustodyInv, HistoryIsChain
  <2>3. history' = Append(history, record)
    BY <1>4 DEF record
  <2>4. HistoryIsChain'
    <3>1. ChainTo(history', admin')
      BY <2>1, <2>2, <2>3
    <3>2. QED
      BY <3>1 DEF HistoryIsChain, ChainTo, SeatAfter
  <2>5. ~IsPending'
    BY <1>4 DEF IsPending, NoPending
  <2>6. EveryAttemptRecordedOnce'
    BY <1>4, <2>3, <2>5
       DEF CustodyInv, EveryAttemptRecordedOnce, TypeOK
  <2>7. admin' # NoOne
    BY <1>4 DEF IsPending
  <2>8. QED
    BY <2>4, <2>5, <2>6, <2>7 DEF CustodyInv, Seated, PendingNamesAnother
<1>5. ASSUME NEW actor \in Accounts, NEW a \in Accounts,
             RecoverAdmin(actor, a)
      PROVE  CustodyInv'
  <2> DEFINE cancelled == Record(admin, pending.proposed_admin, "Cancelled")
             taken == Record(admin, a, "Accepted")
             superseded == IF ~IsPending THEN history
                           ELSE Append(history, cancelled)
  <2>1. /\ admin \in Accounts /\ admin' = a /\ pending' = NoPending
        /\ attempts' = attempts /\ recoveries' = recoveries + 1
        /\ history' = Append(superseded, taken)
    BY <1>5 DEF RecoverAdmin, TakeSeat, TypeOK
  <2>2. /\ superseded \in Seq(TransferRecord)
        /\ ChainTo(superseded, admin)
        /\ Len(superseded) = Len(history) + (IF IsPending THEN 1 ELSE 0)
    <3>1. CASE ~IsPending
      BY <3>1 DEF TypeOK, CustodyInv, HistoryIsChain
    <3>2. CASE IsPending
      <4>1. /\ cancelled \in TransferRecord
            /\ cancelled.old_admin = admin
            /\ SeatAfter(cancelled) = admin
        BY <2>1, <3>2, RecordTyped
           DEF TypeOK, Pending, IsPending, SeatAfter, Record, TerminalReasons
      <4> HIDE DEF cancelled
      <4>2. ChainTo(Append(history, cancelled), admin)
        BY <4>1, ChainGrows DEF TypeOK, CustodyInv, HistoryIsChain
      <4>3. QED
        BY <3>2, <4>1, <4>2 DEF TypeOK
    <3>3. QED
      BY <3>1, <3>2
  <2> HIDE DEF superseded
  <2>3. /\ taken \in TransferRecord
        /\ taken.old_admin = admin
        /\ SeatAfter(taken) = a
    BY <2>1, RecordTyped DEF SeatAfter, Record, TerminalReasons
  <2> HIDE DEF taken
  <2>4. ChainTo(Append(superseded, taken), a)
    BY <2>2, <2>3, ChainGrows
  <2>5. HistoryIsChain'
    <3>1. ChainTo(history', admin')
      BY <2>1, <2>4
    <3>2. QED
      BY <3>1 DEF HistoryIsChain, ChainTo, SeatAfter
  <2>6. ~IsPending'
    BY <2>1 DEF IsPending, NoPending
  <2>7. EveryAttemptRecordedOnce'
    <3>1. Len(history') = Len(superseded) + 1
      BY <2>1, <2>2
    <3>2. QED
      BY <2>1, <2>2, <2>6, <3>1
         DEF CustodyInv, EveryAttemptRecordedOnce, TypeOK
  <2>8. QED
    BY <2>1, <2>5, <2>6, <2>7, AbsentAssumption
       DEF CustodyInv, Seated, PendingNamesAnother
<1>6. ASSUME NEW actor \in Accounts, AcceptAdminTransfer(actor)
      PROVE  CustodyInv'
  BY <1>4, <1>6 DEF AcceptAdminTransfer, TakeSeat, TerminalReasons
<1>7. ASSUME NEW actor \in Accounts, CancelAdminTransfer(actor)
      PROVE  CustodyInv'
  BY <1>4, <1>7, AbsentAssumption DEF CancelAdminTransfer, TerminalReasons
<1>8. CASE SweepExpiredAdminTransfer
  BY <1>4, <1>8 DEF SweepExpiredAdminTransfer, TerminalReasons
<1>9. QED
  BY <1>1, <1>2, <1>3, <1>5, <1>6, <1>7, <1>8
     DEF Next, AdminCall, GrantRole, RevokeRole, SetPause, Tick, vars

(* The admin-transfer history is an unbroken chain of custody that holds   *)
(* one record per attempt, whatever the interleaving of proposals,         *)
(* acceptances, cancellations, sweeps and recoveries.                      *)
THEOREM CustodyRecorded == Spec => []CustodySound
<1>1. Init => CustodyInv
  BY DEF Init, CustodyInv, Seated, HistoryIsChain, ChainTo,
         EveryAttemptRecordedOnce, PendingNamesAnother, IsPending, NoPending
<1>2. QED
  BY <1>1, CustodyStep, TypeCorrect, PTL DEF Spec, CustodyInv, CustodySound

-----------------------------------------------------------------------------
(* Control of the contract.                                                *)

(* What taking the seat does to every account's roles.                     *)
LEMMA SeatMoves ==
  ASSUME TypeOK, NEW new \in Accounts, TakeSeat(new), new # admin,
         NEW a \in Accounts, NEW r \in Roles
  PROVE  /\ <<a, r>> \in roles' <=>
              \/ a # admin /\ HasRole(a, r)
              \/ a = new /\ HasRole(admin, r)
         /\ <<a, r>> \in blessed' <=>
              \/ a # admin /\ <<a, r>> \in blessed
              \/ a = new /\ HasRole(admin, r)
<1> DEFINE held == {y \in Roles : HasRole(admin, y)}
           given == {<<new, x>> : x \in held}
           taken == {<<admin, x>> : x \in held}
<1>1. /\ roles' = (roles \ taken) \cup given
      /\ blessed' = {b \in blessed : b[1] # admin} \cup given
  BY DEF TakeSeat, Inherited, HasRole
<1>2. <<a, r>> \in given <=> (a = new /\ HasRole(admin, r))
  OBVIOUS
<1>3. <<a, r>> \in taken <=> (a = admin /\ HasRole(admin, r))
  OBVIOUS
<1>4. <<a, r>> \in {b \in blessed : b[1] # admin} <=>
        (a # admin /\ <<a, r>> \in blessed)
  OBVIOUS
<1> HIDE DEF given, taken
<1>5. <<a, r>> \in roles' <=>
        \/ a # admin /\ HasRole(a, r)
        \/ a = new /\ HasRole(admin, r)
  BY <1>1, <1>2, <1>3 DEF HasRole
<1>6. <<a, r>> \in blessed' <=>
        \/ a # admin /\ <<a, r>> \in blessed
        \/ a = new /\ HasRole(admin, r)
  BY <1>1, <1>2, <1>4
<1>7. QED
  BY <1>5, <1>6

(* For any sequence of grants and revocations by admins and Upgrade        *)
(* holders, handovers and recoveries: the two control roles stay with      *)
(* those an admin gave them to.                                            *)
THEOREM ControlNotEscalated == Spec => []NoEscalation
<1>1. Init => NoEscalation
  BY DEF Init, NoEscalation, HasRole
<1>2. TypeOK /\ NoEscalation /\ [Next]_vars => NoEscalation'
  <2> SUFFICES ASSUME TypeOK, NoEscalation, [Next]_vars,
                      NEW a \in Accounts, NEW r \in ControlRoles, HasRole(a, r)'
               PROVE  (<<a, r>> \in blessed)'
    BY DEF NoEscalation
  <2> USE DEF NoEscalation, HasRole
  <2>0. r \in Roles
    BY RolesAssumption
  <2>1. CASE UNCHANGED <<roles, blessed>>
    BY <2>1
  <2>2. ASSUME NEW b \in Accounts, Initialize(b)
        PROVE  (<<a, r>> \in blessed)'
    BY <2>2 DEF Initialize
  <2>3. ASSUME NEW actor \in Accounts, NEW b \in Accounts, NEW x \in Roles,
               GrantRole(actor, b, x)
        PROVE  (<<a, r>> \in blessed)'
    BY <2>3 DEF GrantRole, CanManage
  <2>4. ASSUME NEW actor \in Accounts, NEW b \in Accounts, NEW x \in Roles,
               RevokeRole(actor, b, x)
        PROVE  (<<a, r>> \in blessed)'
    BY <2>4 DEF RevokeRole
  <2>5. ASSUME NEW new \in Accounts, TakeSeat(new)
        PROVE  (<<a, r>> \in blessed)'
    <3>1. CASE new # admin
      BY <2>0, <2>5, <3>1, SeatMoves
    <3>2. CASE new = admin
      BY <2>0, <2>5, <3>2 DEF TakeSeat, Inherited, ControlRoles
    <3>3. QED
      BY <3>1, <3>2
  <2>6. ASSUME NEW actor \in Accounts, AcceptAdminTransfer(actor)
        PROVE  (<<a, r>> \in blessed)'
    BY <2>5, <2>6 DEF AcceptAdminTransfer
  <2>7. ASSUME NEW actor \in Accounts, NEW b \in Accounts, RecoverAdmin(actor, b)
        PROVE  (<<a, r>> \in blessed)'
    BY <2>5, <2>7 DEF RecoverAdmin
  <2>8. QED
    BY <2>1, <2>2, <2>3, <2>4, <2>6, <2>7
       DEF Next, AdminCall, ProposeAdminTransfer, CancelAdminTransfer,
           SweepExpiredAdminTransfer, SetPause, Tick, vars, roleVars
<1>3. QED
  BY <1>1, <1>2, TypeCorrect, PTL DEF Spec

(* Whenever the seat changes hands the old key keeps no role, the          *)
(* successor has them, and no third account is touched.                    *)
THEOREM OldKeyPowerless == Spec => OldKeyKeepsNothing
<1>1. TypeOK /\ [Next]_vars =>
        [(admin # NoOne /\ admin' # admin) => Handover]_vars
  <2> SUFFICES ASSUME TypeOK, [Next]_vars, admin # NoOne, admin' # admin
               PROVE  Handover
    OBVIOUS
  <2>1. ASSUME NEW new \in Accounts, TakeSeat(new)
        PROVE  Handover
    <3>1. new = admin' /\ new # admin /\ admin \in Accounts
      BY <2>1 DEF TakeSeat, TypeOK
    <3>2. QED
      BY <2>1, <3>1, SeatMoves DEF Handover
  <2>2. QED
    BY <2>1 DEF Next, AdminCall, Initialize, GrantRole, RevokeRole,
       ProposeAdminTransfer, AcceptAdminTransfer, CancelAdminTransfer,
       SweepExpiredAdminTransfer, RecoverAdmin, SetPause, Tick, vars, seatVars
<1>2. QED
  BY <1>1, TypeCorrect, PTL DEF Spec, OldKeyKeepsNothing

-----------------------------------------------------------------------------
(* The pause switch and its history are two storage entries that every     *)
(* execute_pause and execute_unpause keeps in step.                        *)
THEOREM PauseRecorded == Spec => []PauseMatchesHistory
<1>1. Init => PauseMatchesHistory
  BY DEF Init, PauseMatchesHistory, LastRecord
<1>2. TypeOK /\ PauseMatchesHistory /\ [Next]_vars => PauseMatchesHistory'
  <2> SUFFICES ASSUME TypeOK, PauseMatchesHistory, [Next]_vars
               PROVE  PauseMatchesHistory'
    OBVIOUS
  <2>1. CASE UNCHANGED <<pauseScope, pauseHistory>>
    BY <2>1 DEF PauseMatchesHistory, LastRecord
  <2>2. ASSUME NEW actor \in Accounts, NEW s \in Scopes, NEW flag \in BOOLEAN,
               SetPause(actor, s, flag), NEW t \in Scopes
        PROVE  (pauseScope[t] <=> \E i \in 1 .. Len(pauseHistory) :
                                   LastRecord(t, i) /\ pauseHistory[i].is_paused)'
    <3>0. PICK n \in Nat : n = Len(pauseHistory)
      BY DEF TypeOK
    <3>1. /\ Len(pauseHistory') = n + 1
          /\ pauseHistory'[n + 1] = [scope |-> s, is_paused |-> flag]
          /\ \A i \in 1 .. n : pauseHistory'[i] = pauseHistory[i]
      BY <2>2, <3>0 DEF SetPause, TypeOK
    <3>2. pauseScope' = [pauseScope EXCEPT ![s] = flag]
      BY <2>2 DEF SetPause
    <3>3. CASE t = s
      <4>1. \A i \in 1 .. n + 1 : LastRecord(t, i)' <=> i = n + 1
        BY <3>1, <3>3 DEF LastRecord
      <4>2. pauseScope'[t] = flag
        BY <3>2, <3>3 DEF TypeOK
      <4>3. QED
        BY <3>1, <4>1, <4>2
    <3>4. CASE t # s
      <4>1. \A i \in 1 .. n : LastRecord(t, i)' <=> LastRecord(t, i)
        BY <3>0, <3>1, <3>4 DEF LastRecord
      <4>2. ~LastRecord(t, n + 1)'
        BY <3>1, <3>4 DEF LastRecord
      <4>3. pauseScope'[t] = pauseScope[t]
        BY <3>2, <3>4 DEF TypeOK
      <4>4. QED
        BY <3>0, <3>1, <4>1, <4>2, <4>3 DEF PauseMatchesHistory
    <3>5. QED
      BY <3>3, <3>4
  <2>3. QED
    BY <2>1, <2>2
       DEF PauseMatchesHistory, Next, AdminCall, Initialize, GrantRole, RevokeRole,
           ProposeAdminTransfer, AcceptAdminTransfer, CancelAdminTransfer,
           SweepExpiredAdminTransfer, RecoverAdmin, Tick, vars, pauseVars
<1>3. QED
  BY <1>1, <1>2, TypeCorrect, PTL DEF Spec
=============================================================================
