----------------------------- MODULE Compliance -----------------------------
(***************************************************************************)
(* Token transfers under the daily limit of unverified accounts, and the   *)
(* KYC records that lift it (backend/src/services/compliance.ts, the       *)
(* handler of POST /tokens/transfer in api/routes/tokens.ts,               *)
(* api/routes/kyc.ts and the KYC callback of api/routes/webhooks.ts).      *)
(*                                                                         *)
(* One community's token; an account stands for the community and address  *)
(* that key both tables.  A transfer reserves its amount in a transaction  *)
(* under an advisory lock, is submitted to the network, and then has its   *)
(* row marked; the process may end anywhere in between.  The day is the    *)
(* UTC date at which the reserving transaction began, which both its query *)
(* and its row use.  The retries of a submission are left to Submissions.  *)
(***************************************************************************)
EXTENDS Integers, FiniteSets, FiniteSetsExt

CONSTANTS Accounts,    \* addresses that hold the token
          Transfers,   \* calls of POST /transfer
          Initiations, \* bound: calls of POST /initiate served at a time
          Amounts,     \* amounts transferred
          Limit,       \* UNVERIFIED_DAILY_LIMIT
          MaxDay,      \* bound: days
          MaxCrashes,  \* bound: restarts
          None         \* no row, no call

VARIABLES
  today,       \* the UTC date
  kyc,         \* the KYC record of each account
  initiations, \* what each initiation is doing
  transfers,   \* what each transfer is doing
  rows,        \* the status of each transfer's row in compliance_transfers
  applied,     \* the transfers in the network's ledger
  unanswered,  \* history: the transfers whose submission got no conclusive answer
  crashes      \* restarts so far

vars == <<today, kyc, initiations, transfers, rows, applied, unanswered, crashes>>
kycVars == <<kyc, initiations>>
transferVars == <<transfers, rows, applied, unanswered>>

Statuses  == {"pending", "submitted", "verified", "rejected", "expired"}
KycRecord == [status : Statuses, verifiedAt : BOOLEAN, reason : BOOLEAN]
Transfer  == [stage : {"waiting", "locked", "counted", "sending", "mark", "release", "done"},
              account : Accounts, amount : Amounts, day : 0 .. MaxDay]

Record(status, verifiedAt, reason) ==
  [status |-> status, verifiedAt |-> verifiedAt, reason |-> reason]

Init ==
  /\ today = 0
  /\ kyc = [a \in Accounts |-> None]
  /\ initiations = [i \in Initiations |-> None]
  /\ transfers = [t \in Transfers |-> None]
  /\ rows = [t \in Transfers |-> None]
  /\ applied = {} /\ unanswered = {}
  /\ crashes = 0

-----------------------------------------------------------------------------
(* KYC records.                                                            *)

Has(a, statuses) == kyc[a] # None /\ kyc[a].status \in statuses

(* Faulty: the record is read without FOR UPDATE.                          *)
RowLockedNever(a) == FALSE

(* An initiation that found a row holds its lock until it has written.     *)
RowLocked(a) ==
  \E i \in Initiations :
    initiations[i] # None /\ initiations[i].stage = "restart" /\ initiations[i].account = a

InitiationEnds(i) == initiations' = [initiations EXCEPT ![i] = None]

(* A member's record is looked up FOR UPDATE.  A verified or pending one   *)
(* is answered as it is; an absent one cannot be locked.                   *)
BeginInitiation(i) ==
  \E a \in Accounts :
    /\ initiations[i] = None
    /\ ~RowLocked(a)
    /\ ~Has(a, {"verified", "pending", "submitted"})
    /\ initiations' = [initiations EXCEPT ![i] =
         [account |-> a, stage |-> IF kyc[a] = None THEN "insert" ELSE "restart"]]
    /\ UNCHANGED <<today, kyc, transferVars, crashes>>

(* The rejected or expired record starts over, or a record is inserted,    *)
(* unless another was in the meantime; or the transaction fails.           *)
EndInitiation(i) ==
  /\ initiations[i] # None
  /\ LET a == initiations[i].account IN
       \/ /\ initiations[i].stage = "restart" \/ kyc[a] = None
          /\ kyc' = [kyc EXCEPT ![a] = Record("pending", FALSE, FALSE)]
       \/ UNCHANGED kyc
  /\ InitiationEnds(i)
  /\ UNCHANGED <<today, transferVars, crashes>>

(* verified_at is set by the first verification and kept.                  *)
VerifiedAt(a, status) == status = "verified" \/ (kyc[a] # None /\ kyc[a].verifiedAt)

(* A signed callback of the provider, whenever and however often it is     *)
(* delivered: the last delivery stands.                                    *)
KycWebhook ==
  /\ \E a \in Accounts, status \in Statuses :
       /\ ~RowLocked(a)
       /\ kyc' = [kyc EXCEPT ![a] = Record(status, VerifiedAt(a, status), status = "rejected")]
  /\ UNCHANGED <<today, initiations, transferVars, crashes>>

-----------------------------------------------------------------------------
(* Reserving the allowance.                                                *)

In(t, stage) == transfers[t] # None /\ transfers[t].stage = stage

Goes(t, stage) == transfers' = [transfers EXCEPT ![t].stage = stage]

(* The transaction begins and finds the account verified or not.           *)
BeginTransfer(t) ==
  /\ transfers[t] = None
  /\ \E a \in Accounts, amount \in Amounts :
       transfers' = [transfers EXCEPT ![t] =
         [stage |-> IF Has(a, {"verified"}) THEN "sending" ELSE "waiting",
          account |-> a, amount |-> amount, day |-> today]]
  /\ UNCHANGED <<today, kycVars, rows, applied, unanswered, crashes>>

(* Faulty: reservations of one account are not serialized.                 *)
LockFreeAlways(t) == TRUE

(* pg_advisory_xact_lock: one reservation of an account at a time.         *)
LockFree(t) ==
  \A u \in Transfers \ {t} :
    In(u, "locked") \/ In(u, "counted") => transfers[u].account # transfers[t].account

AcquireLock(t) ==
  /\ In(t, "waiting") /\ LockFree(t)
  /\ Goes(t, "locked")
  /\ UNCHANGED <<today, kycVars, rows, applied, unanswered, crashes>>

(* What counts against the allowance of an account on a day.               *)
Counted(a, day) ==
  {t \in Transfers : rows[t] \in {"reserved", "submitted"}
                     /\ transfers[t].account = a /\ transfers[t].day = day}

Total(ts) == MapThenSumSet(LAMBDA t : transfers[t].amount, ts)

(* The day's usage is read; beyond the limit the transfer is refused.      *)
CountUsage(t) ==
  /\ In(t, "locked")
  /\ LET q == transfers[t] IN
       Goes(t, IF Total(Counted(q.account, q.day)) + q.amount > Limit THEN "done" ELSE "counted")
  /\ UNCHANGED <<today, kycVars, rows, applied, unanswered, crashes>>

(* The row is inserted and committed; if the commit is not acknowledged,   *)
(* the call fails and the row stays.                                       *)
Reserve(t) ==
  /\ In(t, "counted")
  /\ rows' = [rows EXCEPT ![t] = "reserved"]
  /\ Goes(t, "sending") \/ Goes(t, "done")
  /\ UNCHANGED <<today, kycVars, applied, unanswered, crashes>>

(* The transaction fails and is rolled back.                               *)
ReservationFails(t) ==
  /\ In(t, "waiting") \/ In(t, "locked") \/ In(t, "counted")
  /\ Goes(t, "done")
  /\ UNCHANGED <<today, kycVars, rows, applied, unanswered, crashes>>

-----------------------------------------------------------------------------
(* Submission and the marks.                                               *)

SubmissionApplied(t) ==
  /\ In(t, "sending")
  /\ applied' = applied \cup {t}
  /\ Goes(t, "mark")
  /\ UNCHANGED <<today, kycVars, rows, unanswered, crashes>>

(* The transaction is refused, or applied without effect.                  *)
SubmissionRefused(t) ==
  /\ In(t, "sending") /\ t \notin applied
  /\ Goes(t, "release")
  /\ UNCHANGED <<today, kycVars, rows, applied, unanswered, crashes>>

SubmissionUnanswered(t) ==
  /\ In(t, "sending")
  /\ unanswered' = unanswered \cup {t}
  /\ Goes(t, "release")
  /\ UNCHANGED <<today, kycVars, rows, applied, crashes>>

Marked(t, status) ==
  IF rows[t] = "reserved" THEN [rows EXCEPT ![t] = status] ELSE rows

(* A mark that fails is logged, and the row stays reserved.                *)
MarkTransferSubmitted(t) ==
  /\ In(t, "mark")
  /\ rows' \in {Marked(t, "submitted"), rows}
  /\ Goes(t, "done")
  /\ UNCHANGED <<today, kycVars, applied, unanswered, crashes>>

MarkTransferFailed(t) ==
  /\ In(t, "release")
  /\ rows' \in {Marked(t, "failed"), rows}
  /\ Goes(t, "done")
  /\ UNCHANGED <<today, kycVars, applied, unanswered, crashes>>

-----------------------------------------------------------------------------
(* The network, the calendar and the process.                              *)

AppliedLate ==
  /\ \E t \in unanswered : applied' = applied \cup {t}
  /\ UNCHANGED <<today, kycVars, transfers, rows, unanswered, crashes>>

Midnight ==
  /\ today < MaxDay
  /\ today' = today + 1
  /\ UNCHANGED <<kycVars, transferVars, crashes>>

(* Open transactions roll back; a submission under way may arrive.         *)
Crash ==
  /\ crashes < MaxCrashes
  /\ crashes' = crashes + 1
  /\ transfers' = [t \in Transfers |->
       IF transfers[t] = None THEN None ELSE [transfers[t] EXCEPT !.stage = "done"]]
  /\ unanswered' = unanswered \cup {t \in Transfers : In(t, "sending")}
  /\ initiations' = [i \in Initiations |-> None]
  /\ UNCHANGED <<today, kyc, rows, applied>>

Next ==
  \/ \E i \in Initiations : BeginInitiation(i) \/ EndInitiation(i)
  \/ \E t \in Transfers :
       \/ BeginTransfer(t) \/ AcquireLock(t) \/ CountUsage(t) \/ Reserve(t) \/ ReservationFails(t)
       \/ SubmissionApplied(t) \/ SubmissionRefused(t) \/ SubmissionUnanswered(t)
       \/ MarkTransferSubmitted(t) \/ MarkTransferFailed(t)
  \/ KycWebhook \/ AppliedLate \/ Midnight \/ Crash

Spec == Init /\ [][Next]_vars

-----------------------------------------------------------------------------
(* Properties.                                                             *)

TypeOK ==
  /\ today \in 0 .. MaxDay
  /\ kyc \in [Accounts -> KycRecord \cup {None}]
  /\ initiations \in [Initiations -> [account : Accounts, stage : {"insert", "restart"}] \cup {None}]
  /\ transfers \in [Transfers -> Transfer \cup {None}]
  /\ rows \in [Transfers -> {"reserved", "submitted", "failed", None}]
  /\ applied \subseteq Transfers /\ unanswered \subseteq Transfers
  /\ crashes \in 0 .. MaxCrashes

(* What is reserved or submitted for an account on a day stays within the  *)
(* limit, however many transfers are reserved at once, around midnight and *)
(* across restarts (reserveUnverifiedTransfer).                            *)
WithinAllowance ==
  \A a \in Accounts, day \in 0 .. MaxDay : Total(Counted(a, day)) <= Limit

(* A row says what became of its transfer: a submitted one is in the       *)
(* ledger, and what is in the ledger still counts against the allowance,   *)
(* unless the answer to its submission was lost (the marks of              *)
(* POST /transfer and their order after the submission).                   *)
RowsTellTheTruth ==
  \A t \in Transfers :
    /\ rows[t] = "submitted" => t \in applied
    /\ rows[t] = "failed" /\ t \in applied => t \in unanswered

(* A verified record has a date of verification, only a rejected one has a *)
(* reason, and no initiation touches a record that is pending or verified, *)
(* also one the provider wrote while the initiation was being served       *)
(* (initiateKyc against the upsert of POST /webhooks/kyc).                 *)
RecordsConsistent ==
  \A a \in Accounts : kyc[a] # None =>
    /\ kyc[a].status = "verified" => kyc[a].verifiedAt
    /\ kyc[a].reason <=> kyc[a].status = "rejected"

VerdictsStand ==
  \A a \in Accounts :
    Has(a, {"pending", "submitted", "verified"}) /\ initiations' # initiations
      => kyc'[a] = kyc[a]

(* "Unverified accounts may transfer at most 100 tokens per UTC day."      *)
(* (DailyTransactionLimitError).                                           *)
DailyLimitHolds ==
  \A a \in Accounts, day \in 0 .. MaxDay :
    Total({t \in applied : rows[t] # None /\ transfers[t].account = a /\ transfers[t].day = day})
      <= Limit
=============================================================================
