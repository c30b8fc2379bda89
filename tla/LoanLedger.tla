---------------------------- MODULE LoanLedger ----------------------------
(***************************************************************************)
(* The loan routes (backend/src/api/routes/loans.ts) at the grain at which *)
(* their requests overlap in PostgreSQL: the check before the transaction, *)
(* SELECT ... FOR UPDATE with the second check, the upsert of the          *)
(* borrower's reputation, COMMIT.  A transaction sees committed rows, and  *)
(* holds the lock of each row it wrote or selected FOR UPDATE to its end;  *)
(* so what it wrote is kept aside, in its request, until it commits.       *)
(*                                                                         *)
(* Requests come from the account the route asks for: every other answer   *)
(* is 403, before anything is read twice or written.  Rows leave only with *)
(* their community, which is not modelled.                                 *)
(***************************************************************************)
EXTENDS LoanTerms

CONSTANTS Requests,  \* requests the backend serves at a time
          None       \* no request

ASSUME RequestsAssumption == None \notin Requests

VARIABLES
  loans,           \* loans, as committed
  events,          \* loan_events: how many of each type a loan has
  paid,            \* loan_events: the sum of a loan's repayment amounts
  reputation,      \* reputation_scores, as committed
  loanLock,        \* the transaction that holds a loan's row
  reputationLock,  \* the transaction that holds a borrower's row
  requests         \* each request's progress

tables == <<loans, events, paid, reputation>>
locks  == <<loanLock, reputationLock>>
vars   == <<tables, locks, requests>>

Operations == {"create", "disburse", "repay", "default", "cancel"}
Answers    == {"none", "ok", "not_found", "conflict", "exceeds",
               "check_failed", "error"}
Stages     == {"idle", "checked", "updated", "rated"}

(* A request: row and rating are what its transaction has written.         *)
Request == [stage : Stages, op : Operations, loan : Loans \cup {None},
            amount : Nat, row : Loan, rating : Reputation,
            answer : Answers]

Idle(answer) ==
  [stage |-> "idle", op |-> "create", loan |-> None, amount |-> 0,
   row |-> NoLoan, rating |-> NoReputation, answer |-> answer]

Serving(stage, op, l, amount, row) ==
  [stage |-> stage, op |-> op, loan |-> l, amount |-> amount,
   row |-> row, rating |-> NoReputation, answer |-> "none"]

Init ==
  /\ loans = [l \in Loans |-> NoLoan]
  /\ events = [l \in Loans |-> NoEvents]
  /\ paid = [l \in Loans |-> 0]
  /\ reputation = [b \in Borrowers |-> NoReputation]
  /\ loanLock = [l \in Loans |-> None]
  /\ reputationLock = [b \in Borrowers |-> None]
  /\ requests = [r \in Requests |-> Idle("none")]

-----------------------------------------------------------------------------
(* Helpers.                                                                *)

Answer(r, answer) == requests' = [requests EXCEPT ![r] = Idle(answer)]

(* The locks when r's transaction has ended.                               *)
Released(lock, r) ==
  [x \in DOMAIN lock |-> IF lock[x] = r THEN None ELSE lock[x]]

(* Faulty: a failed transaction's connection goes back to the pool as it   *)
(* is, without a ROLLBACK.                                                 *)
KeepLocks(r) == UNCHANGED locks

(* The end of r's transaction, if it has one.                              *)
Release(r) ==
  /\ loanLock' = Released(loanLock, r)
  /\ reputationLock' = Released(reputationLock, r)

NeedsRating(q) == Counter(q.op, q.row) # "none"

(* The request once it has counted on the rating as committed.             *)
Rated(q) ==
  [q EXCEPT !.stage = "rated",
            !.rating = Bumped(reputation[q.row.borrower], Counter(q.op, q.row))]

-----------------------------------------------------------------------------
(* A request's steps.                                                      *)

(* A request for an existing loan: found, in the right status (DELETE      *)
(* leaves that to its UPDATE), then the wait for a connection and BEGIN.   *)
Begin(r, op, l, amount) ==
  /\ requests[r].stage = "idle"
  /\ \/ loans[l].status = "none" /\ Answer(r, "not_found")
     \/ /\ op # "cancel"
        /\ loans[l].status \notin {"none", From(op)}
        /\ Answer(r, "conflict")
     \/ /\ loans[l].status # "none"
        /\ op = "cancel" \/ loans[l].status = From(op)
        /\ requests' = [requests EXCEPT ![r] =
             Serving("checked", op, l, amount, NoLoan)]
  /\ UNCHANGED <<tables, locks>>

(* POST /: the INSERT, under a fresh id only this transaction knows.       *)
BeginCreate(r, l, b, due) ==
  /\ requests[r].stage = "idle"
  /\ loans[l] = NoLoan
  /\ loanLock[l] = None
  /\ loanLock' = [loanLock EXCEPT ![l] = r]
  /\ requests' = [requests EXCEPT ![r] =
       Serving("updated", "create", l, 0, NewLoan(b, due))]
  /\ UNCHANGED <<tables, reputationLock>>

(* Faulty: the transaction trusts the check made before it.                *)
UpdateUnchecked(r) ==
  LET q == requests[r]
  IN /\ q.stage = "checked" /\ q.op # "cancel"
     /\ loanLock[q.loan] = None
     /\ \E new \in Updates(q.op, loans[q.loan], q.amount) :
          /\ WithinDue(new)
          /\ loanLock' = [loanLock EXCEPT ![q.loan] = r]
          /\ requests' = [requests EXCEPT ![r] =
               Serving("updated", q.op, q.loan, q.amount, new)]
     /\ UNCHANGED <<tables, reputationLock>>

(* SELECT ... FOR UPDATE when the row is free, the check on what it then   *)
(* holds, and the statements on the loan's own rows.                       *)
UpdateLoan(r) ==
  LET q == requests[r]
      row == loans[q.loan]
  IN /\ q.stage = "checked" /\ q.op # "cancel"
     /\ loanLock[q.loan] = None
     /\ \/ row.status # From(q.op) /\ Answer(r, "conflict") /\ UNCHANGED locks
        \/ /\ row.status = From(q.op)
           /\ q.op = "repay" /\ MayRefuse(row, q.amount)
           /\ Answer(r, "exceeds") /\ UNCHANGED locks
        \/ /\ row.status = From(q.op)
           /\ \E new \in Updates(q.op, row, q.amount) :
                \/ /\ WithinDue(new)
                   /\ loanLock' = [loanLock EXCEPT ![q.loan] = r]
                   /\ requests' = [requests EXCEPT ![r] =
                        Serving("updated", q.op, q.loan, q.amount, new)]
                   /\ UNCHANGED reputationLock
                \/ /\ ~WithinDue(new)
                   /\ Answer(r, "check_failed") /\ UNCHANGED locks
     /\ UNCHANGED tables

(* Faulty: a SELECT of the counters, without the row's lock, and an UPDATE *)
(* to what was computed from them.                                         *)
RateUnlocked(r) ==
  LET q == requests[r]
  IN /\ q.stage = "updated" /\ NeedsRating(q)
     /\ requests' = [requests EXCEPT ![r] = Rated(q)]
     /\ UNCHANGED <<tables, locks>>

(* bumpReputation: the upsert, which waits for the borrower's row, and the *)
(* UPDATE of the score from what the upsert returned.                      *)
Rate(r) ==
  LET q == requests[r]
      b == q.row.borrower
  IN /\ q.stage = "updated" /\ NeedsRating(q)
     /\ reputationLock[b] = None
     /\ reputationLock' = [reputationLock EXCEPT ![b] = r]
     /\ requests' = [requests EXCEPT ![r] = Rated(q)]
     /\ UNCHANGED <<tables, loanLock>>

(* What r's transaction wrote is everyone's.                               *)
Apply(r) ==
  LET q == requests[r]
      l == q.loan
  IN /\ loans' = [loans EXCEPT ![l] = q.row]
     /\ events' = [events EXCEPT ![l] = WithEvents(@, Logged(q.op, q.row))]
     /\ paid' = [paid EXCEPT ![l] = @ + q.amount]
     /\ reputation' = IF q.stage = "updated" THEN reputation
                      ELSE [reputation EXCEPT ![q.row.borrower] = q.rating]

(* COMMIT.  Its acknowledgement may be lost: the request then fails though *)
(* its transaction stands.                                                 *)
Commit(r, answer) ==
  LET q == requests[r]
  IN /\ q.stage = "rated" \/ (q.stage = "updated" /\ ~NeedsRating(q))
     /\ Apply(r)
     /\ Release(r)
     /\ Answer(r, answer)

(* DELETE /:id: one UPDATE ... WHERE status = 'pending', which waits for   *)
(* the row like any other.                                                 *)
CancelLoan(r) ==
  LET q == requests[r]
  IN /\ q.stage = "checked" /\ q.op = "cancel"
     /\ loanLock[q.loan] = None
     /\ \/ /\ loans[q.loan].status = "pending"
           /\ loans' = [loans EXCEPT ![q.loan] = Moved(@, "cancelled")]
           /\ Answer(r, "ok")
        \/ /\ loans[q.loan].status # "pending"
           /\ Answer(r, "not_found")
           /\ UNCHANGED loans
     /\ UNCHANGED <<events, paid, reputation, locks>>

(* Faulty: the statements ran outside the transaction.                     *)
FailHalfway(r) ==
  /\ requests[r].stage # "idle"
  /\ IF requests[r].stage = "updated"
     THEN loans' = [loans EXCEPT ![requests[r].loan] = requests[r].row]
     ELSE UNCHANGED loans
  /\ Release(r)
  /\ Answer(r, "error")
  /\ UNCHANGED <<events, paid, reputation>>

(* No connection in PGPOOL_CONNECTION_TIMEOUT, a lost connection, a failed *)
(* statement or a stopped process: ROLLBACK, by the client or the server.  *)
Fail(r) ==
  /\ requests[r].stage # "idle"
  /\ Release(r)
  /\ Answer(r, "error")
  /\ UNCHANGED tables

Arrive(r) ==
  \E l \in Loans :
    \/ \E b \in Borrowers, due \in Dues : BeginCreate(r, l, b, due)
    \/ \E op \in {"disburse", "default", "cancel"} : Begin(r, op, l, 0)
    \/ \E amount \in Amounts : Begin(r, "repay", l, amount)

Proceed(r) ==
  UpdateLoan(r) \/ Rate(r) \/ Commit(r, "ok") \/ CancelLoan(r)

Next ==
  \E r \in Requests :
    Arrive(r) \/ Proceed(r) \/ Commit(r, "error") \/ Fail(r)

Spec == Init /\ [][Next]_vars

(* A request goes on; a lock is granted in the order it was asked for, so  *)
(* who waits for one that is freed again and again gets it.                *)
Fairness ==
  \A r \in Requests :
    /\ SF_vars(UpdateLoan(r))
    /\ SF_vars(Rate(r))
    /\ SF_vars(CancelLoan(r))
    /\ WF_vars(Commit(r, "ok"))

FairSpec == Spec /\ Fairness

-----------------------------------------------------------------------------
(* Properties.                                                             *)

(* The columns have their types, and the repaid amount its bounds.         *)
TypeOK ==
  /\ loans \in [Loans -> Loan]
  /\ events \in [Loans -> [EventTypes -> Nat]]
  /\ paid \in [Loans -> Nat]
  /\ reputation \in [Borrowers -> Reputation]
  /\ loanLock \in [Loans -> Requests \cup {None}]
  /\ reputationLock \in [Borrowers -> Requests \cup {None}]
  /\ requests \in [Requests -> Request]
  /\ \A l \in Loans : loans[l].repaid <= loans[l].due

(* A loan's event log accounts for its row, whatever requests race on it:  *)
(* each step of its life is logged once, and what is repaid is the sum of  *)
(* the repayments logged.                                                  *)
Past(status) ==
  CASE status = "none" -> {}
    [] status \in {"pending", "cancelled"} -> {"created"}
    [] status = "active" -> {"created", "disbursed"}
    [] status = "repaid" -> {"created", "disbursed", "closed"}
    [] status = "defaulted" -> {"created", "disbursed", "defaulted"}

EventsAccountForLoan ==
  \A l \in Loans :
    /\ paid[l] = loans[l].repaid
    /\ \A t \in EventTypes \ {"repayment"} :
         events[l][t] = IF t \in Past(loans[l].status) THEN 1 ELSE 0

(* A borrower's counters are the numbers of its loans, of those repaid and *)
(* of those defaulted, and the score is computed from these very counters: *)
(* no update is lost between requests that rate one borrower.              *)
LoansOf(b, statuses) ==
  Cardinality({l \in Loans :
    loans[l].borrower = b /\ loans[l].status \in statuses})

ReputationCountsLoans ==
  \A b \in Borrowers :
    LET row == reputation[b]
    IN /\ row.total_loans = LoansOf(b, Statuses)
       /\ row.on_time_repayments = LoansOf(b, {"repaid"})
       /\ row.defaults = LoansOf(b, {"defaulted"})
       /\ row.score = Score(row.on_time_repayments, row.defaults)

(* An active loan can be paid off: some number of stroops passes the       *)
(* handler's check and the database's, and is sure to close the loan.      *)
ActiveCanClose ==
  \A l \in Loans : loans[l].status = "active" =>
    \E stroops \in 1 .. loans[l].due :
      LET amount == stroops * Stroop
      IN /\ ~MayRefuse(loans[l], amount)
         /\ loans[l].repaid + amount <= loans[l].due
         /\ ~MayStayOpen(loans[l], amount)

(* Every loan is accounted for and can be brought to an end, however its   *)
(* repayments were rounded and whichever requests failed (POST /:id/repay).*)
LoansSound == EventsAccountForLoan /\ ActiveCanClose

(* A loan that ended stays as it ended, and no repayment is undone.        *)
EndsOnce ==
  [][\A l \in Loans :
       /\ loans[l].status \in {"repaid", "defaulted", "cancelled"} =>
            loans'[l] = loans[l]
       /\ loans'[l].repaid >= loans[l].repaid]_loans

(* Every request is answered: no two wait for each other's rows, and none  *)
(* leaves its locks behind.                                                *)
EveryRequestAnswered ==
  \A r \in Requests : requests[r].stage # "idle" ~> requests[r].stage = "idle"

(* Overlapping and failing calls look like the book's calls one by one.    *)
Book == INSTANCE LoanBook
ImplementsBook == Book!Spec
=============================================================================
