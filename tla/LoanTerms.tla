----------------------------- MODULE LoanTerms -----------------------------
(***************************************************************************)
(* The rules of a loan (backend/src/api/routes/loans.ts): the row, what a  *)
(* handler makes of it, the events it logs and the reputation it counts.   *)
(* LoanBook and LoanLedger are two specifications over these rules.        *)
(*                                                                         *)
(* Money.  Amounts are whole stroops (seven decimals), but interest puts   *)
(* the total due between two stroops, so sums count parts of a stroop:     *)
(* Stroop of them make one.  The handlers compute in doubles and allow for *)
(* 1e-7, one stroop, of error.  Sums are small enough for a double to tell *)
(* a part from its neighbours, but an exact tie with the tolerance rounds  *)
(* either way: 9.9999999 closes a loan of 10, and 686.6394581 on top of    *)
(* 217.3605418 leaves one of 904 open.  So a tie is a free choice here.    *)
(***************************************************************************)
EXTENDS Integers, FiniteSets

CONSTANTS Loans,      \* loan ids
          Borrowers,  \* (stellar_address, community_id) pairs
          NoOne,      \* the borrower of an absent loan
          Stroop,     \* parts of a stroop
          Dues,       \* totals due, principal and interest, to choose from
          Amounts     \* repayments a borrower may send

ASSUME TermsAssumption ==
  /\ IsFiniteSet(Loans)
  /\ NoOne \notin Borrowers
  /\ Stroop \in Nat \ {0}
  /\ Dues \subseteq {d \in Nat : d >= Stroop}
  /\ Amounts \subseteq {a \in Nat : a > 0 /\ a % Stroop = 0}

Statuses   == {"pending", "active", "repaid", "defaulted", "cancelled"}
EventTypes == {"created", "disbursed", "repayment", "closed", "defaulted"}
Counters   == {"total_loans", "on_time_repayments", "defaults"}

(* A row of loans; an absent one has the status "none".  due stands for    *)
(* amount and interest_rate, of which the handlers only use the total.     *)
Loan == [status : Statuses \cup {"none"}, borrower : Borrowers \cup {NoOne},
         due : Nat, repaid : Nat]
NoLoan == [status |-> "none", borrower |-> NoOne, due |-> 0, repaid |-> 0]
NewLoan(borrower, due) ==
  [status |-> "pending", borrower |-> borrower, due |-> due, repaid |-> 0]

(* loans_amount_repaid_check.                                              *)
WithinDue(row) == row.repaid <= row.due

-----------------------------------------------------------------------------
(* What a handler does to the row.  An operation is named by the last path *)
(* segment of its route; "create" is POST / and "cancel" is DELETE /:id.   *)

From(op) == IF op \in {"disburse", "cancel"} THEN "pending" ELSE "active"

(* Number(amount) > outstanding + 1e-7 may come out false, or true.        *)
MayAccept(row, amount) == amount <= row.due - row.repaid + Stroop
MayRefuse(row, amount) == amount >= row.due - row.repaid + Stroop

(* fullyRepaid, newRepaid >= due - 1e-7, may come out true, or false.      *)
MayClose(row, amount)    == row.repaid + amount >= row.due - Stroop
MayStayOpen(row, amount) == row.repaid + amount <= row.due - Stroop

Moved(row, status) == [row EXCEPT !.status = status]
Repaid(row, amount, status) ==
  [row EXCEPT !.repaid = @ + amount, !.status = status]

(* The rows that the UPDATE of `op` may put in the place of `row`.         *)
Updates(op, row, amount) ==
  CASE op = "disburse" -> {Moved(row, "active")}
    [] op = "default"  -> {Moved(row, "defaulted")}
    [] op = "repay" /\ MayAccept(row, amount) ->
         {Repaid(row, amount, s) : s \in
            {t \in {"repaid", "active"} :
               IF t = "repaid" THEN MayClose(row, amount)
               ELSE MayStayOpen(row, amount)}}
    [] OTHER -> {}

(* The loan_events inserted beside the row.                                *)
Logged(op, new) ==
  CASE op = "create"   -> {"created"}
    [] op = "disburse" -> {"disbursed"}
    [] op = "default"  -> {"defaulted"}
    [] op = "repay"    -> {"repayment"} \cup
                          (IF new.status = "repaid" THEN {"closed"} ELSE {})
    [] OTHER           -> {}

(* How many events of each type a loan has.                                *)
NoEvents == [t \in EventTypes |-> 0]
WithEvents(counts, types) ==
  [t \in EventTypes |-> counts[t] + IF t \in types THEN 1 ELSE 0]

-----------------------------------------------------------------------------
(* Reputation.                                                             *)

(* The counter bumpReputation is called for, if it is.                     *)
Counter(op, new) ==
  CASE op = "create"  -> "total_loans"
    [] op = "default" -> "defaults"
    [] op = "repay" /\ new.status = "repaid" -> "on_time_repayments"
    [] OTHER -> "none"

(* The score in hundredths, rounded half up.                               *)
Score(onTime, defaults) ==
  LET n == onTime + defaults + 2
  IN (20000 * (onTime + 1) + n) \div (2 * n)

Reputation == [total_loans : Nat, on_time_repayments : Nat, defaults : Nat,
               score : Nat]

(* An absent row reads as what the INSERT would create before it counts.   *)
NoReputation == [total_loans |-> 0, on_time_repayments |-> 0, defaults |-> 0,
                 score |-> 5000]

(* bumpReputation on the row it finds.                                     *)
Bumped(row, counter) ==
  LET counts == [row EXCEPT ![counter] = @ + 1]
  IN [counts EXCEPT !.score =
        Score(counts.on_time_repayments, counts.defaults)]
=============================================================================
