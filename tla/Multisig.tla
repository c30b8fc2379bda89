------------------------------ MODULE Multisig ------------------------------
(***************************************************************************)
(* Multi-signature requests of the backend                                 *)
(* (backend/src/api/routes/multisig.ts over the multisig_requests table of *)
(* migration 018): a request collects approvals up to its threshold, may   *)
(* be rejected, and is marked executed with the hash of its transaction.   *)
(*                                                                         *)
(* The approve, reject and execute handlers each SELECT the row, decide on *)
(* what they read, await, and UPDATE the row by its id: the steps of       *)
(* different HTTP calls interleave between the two statements.  An UPDATE  *)
(* that a table constraint refuses throws inside an async Express 4        *)
(* handler without a catch; the rejection is unhandled, so the process     *)
(* ends and every call it was serving with it.                             *)
(*                                                                         *)
(* Left out, as no property reads it: titles, payloads, reasons, expires_at*)
(* (which no statement consults) and the transaction envelope.             *)
(***************************************************************************)
EXTENDS Integers

CONSTANTS Requests,     \* ids of multisig_requests rows
          Calls,        \* slots for the HTTP calls in flight at one time
          TxHashes,     \* hashes an execute call may report
          None,         \* stands for NULL
          Thresholds,   \* the required_signatures a request may ask for
          MaxApprovals  \* bound: approve calls that succeed for one request

ASSUME AbsentAssumption == None \notin Requests \cup TxHashes
ASSUME BoundsAssumption == Thresholds \subseteq Nat \ {0} /\ MaxApprovals \in Nat

VARIABLES
  rows,      \* multisig_requests; status is "none" before the INSERT
  calls,     \* what each call in flight has read and is about to write
  approvals, \* history: approve calls whose UPDATE succeeded, by request
  rejected   \* history: requests a reject call's UPDATE succeeded for

vars == <<rows, calls, approvals, rejected>>

Operations == {"approve", "reject", "execute"}
Row  == [status : {"none", "pending", "approved", "rejected", "executed"},
         required : Nat, current : Nat,
         hash : TxHashes \cup {None}, executed_at : BOOLEAN]
Call == [op : Operations \cup {"idle"}, request : Requests \cup {None},
         seen : Nat, hash : TxHashes \cup {None}]

NoRow == [status |-> "none", required |-> 1, current |-> 0,
          hash |-> None, executed_at |-> FALSE]
Idle  == [op |-> "idle", request |-> None, seen |-> 0, hash |-> None]

Init ==
  /\ rows = [r \in Requests |-> NoRow]
  /\ calls = [c \in Calls |-> Idle]
  /\ approvals = [r \in Requests |-> 0]
  /\ rejected = {}

-----------------------------------------------------------------------------
(* The table's constraints on a row: the signature count stays within the  *)
(* threshold, exactly the executed rows have executed_at and a hash, and   *)
(* no two rows share a hash.                                               *)

(* Faulty: without the constraint on executed rows.                        *)
LegalCounts(r, row) ==
  /\ row.required >= 1
  /\ row.current \in 0 .. row.required
  /\ \A other \in Requests \ {r} :
       row.hash # None => rows[other].hash # row.hash

LegalRow(r, row) ==
  /\ row.required >= 1
  /\ row.current \in 0 .. row.required
  /\ row.status = "executed" => row.executed_at /\ row.hash # None
  /\ row.status # "executed" => ~row.executed_at
  /\ \A other \in Requests \ {r} :
       row.hash # None => rows[other].hash # row.hash

(* The row create INSERTs.                                                 *)
NewRow(required) ==
  [status |-> "pending", required |-> required, current |-> 0,
   hash |-> None, executed_at |-> FALSE]

(* Faulty: the last approval leaves the request pending.                   *)
OneMoreNeeded(r, seen) ==
  [rows[r] EXCEPT
     !.current = seen + 1,
     !.status  = IF seen + 1 > rows[r].required THEN "approved" ELSE "pending"]

(* The row after each handler's UPDATE.  The approve handler writes the    *)
(* count and the status it computed from the row it read.                  *)
ApprovedRow(r, seen) ==
  [rows[r] EXCEPT
     !.current = seen + 1,
     !.status  = IF seen + 1 >= rows[r].required THEN "approved" ELSE "pending"]

RejectedRow(r) == [rows[r] EXCEPT !.status = "rejected"]

ExecutedRow(r, hash) ==
  [rows[r] EXCEPT !.status = "executed", !.hash = hash, !.executed_at = TRUE]

(* The UPDATE succeeds and the call is answered.                           *)
StoreRow(c, r, row) ==
  /\ LegalRow(r, row)
  /\ rows' = [rows EXCEPT ![r] = row]
  /\ calls' = [calls EXCEPT ![c] = Idle]

-----------------------------------------------------------------------------
(* The handlers.                                                           *)

CreateRequest(r, required) ==
  /\ rows[r].status = "none"
  /\ rows' = [rows EXCEPT ![r] = NewRow(required)]
  /\ UNCHANGED <<calls, approvals, rejected>>

(* The SELECT, and the status check that answers 400 when it fails.        *)
Admits(op, status) ==
  \/ status = "pending"
  \/ op = "execute" /\ status = "approved"

ReadRow(c, op, r, hash) ==
  /\ calls[c] = Idle
  /\ Admits(op, rows[r].status)
  /\ calls' = [calls EXCEPT ![c] =
       [op |-> op, request |-> r, seen |-> rows[r].current, hash |-> hash]]
  /\ UNCHANGED <<rows, approvals, rejected>>

Approve(c) ==
  LET r == calls[c].request
  IN /\ calls[c].op = "approve"
     /\ approvals[r] < MaxApprovals
     /\ StoreRow(c, r, ApprovedRow(r, calls[c].seen))
     /\ approvals' = [approvals EXCEPT ![r] = @ + 1]
     /\ UNCHANGED rejected

Reject(c) ==
  LET r == calls[c].request
  IN /\ calls[c].op = "reject"
     /\ StoreRow(c, r, RejectedRow(r))
     /\ rejected' = rejected \cup {r}
     /\ UNCHANGED approvals

Execute(c) ==
  LET r == calls[c].request
  IN /\ calls[c].op = "execute"
     /\ StoreRow(c, r, ExecutedRow(r, calls[c].hash))
     /\ UNCHANGED <<approvals, rejected>>

(* The row a call is about to write.                                       *)
Intended(c) ==
  LET r == calls[c].request
  IN CASE calls[c].op = "approve" -> ApprovedRow(r, calls[c].seen)
       [] calls[c].op = "reject"  -> RejectedRow(r)
       [] calls[c].op = "execute" -> ExecutedRow(r, calls[c].hash)

(* A constraint refuses the UPDATE: the process ends with the calls it was *)
(* serving, none of them answered, and is started again.                   *)
Refused(c) ==
  /\ calls[c] # Idle
  /\ ~LegalRow(calls[c].request, Intended(c))
  /\ calls' = [d \in Calls |-> Idle]
  /\ UNCHANGED <<rows, approvals, rejected>>

Next ==
  \/ \E r \in Requests, n \in Thresholds : CreateRequest(r, n)
  \/ \E c \in Calls, r \in Requests :
       \/ \E op \in {"approve", "reject"} : ReadRow(c, op, r, None)
       \/ \E h \in TxHashes : ReadRow(c, "execute", r, h)
  \/ \E c \in Calls : Approve(c) \/ Reject(c) \/ Execute(c) \/ Refused(c)

Spec == Init /\ [][Next]_vars

-----------------------------------------------------------------------------
(* Properties.                                                             *)

(* Every row and call in flight is well formed, and every stored row meets *)
(* the constraints of its table.                                           *)
TypeOK ==
  /\ rows \in [Requests -> Row]
  /\ calls \in [Calls -> Call]
  /\ approvals \in [Requests -> Nat]
  /\ rejected \subseteq Requests
  /\ \A r \in Requests : LegalRow(r, rows[r])

(* Whatever stale counts approvals write over each other, a pending row is *)
(* below its threshold and an approved one has reached it.                 *)
StatusMatchesCount ==
  \A r \in Requests :
    /\ rows[r].status = "pending" => rows[r].current < rows[r].required
    /\ rows[r].status = "approved" => rows[r].current = rows[r].required

(* The count never runs ahead of the approve calls that succeeded.         *)
CountBackedByApprovals ==
  \A r \in Requests : rows[r].current <= approvals[r]

(* Status, count and approvals agree as far as they do, whatever overlaps  *)
(* (the UPDATE of the approve handler against the table's constraints).    *)
CountsSound == StatusMatchesCount /\ CountBackedByApprovals

(* An executed request stays executed: a rejection or an approval that was *)
(* decided on an older row cannot undo it.                                 *)
ExecutedIsFinal ==
  [][\A r \in Requests :
       rows[r].status = "executed" => rows'[r].status = "executed"]_vars

(* "approves request and increments signature count"                       *)
(* (routes/__tests__/multisig.test.ts): every approval that succeeded is   *)
(* in the count.                                                           *)
EveryApprovalCounted ==
  \A r \in Requests : rows[r].current = approvals[r]
=============================================================================
