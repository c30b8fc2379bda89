----------------------------- MODULE LoanBook -----------------------------
(***************************************************************************)
(* What the loan routes promise: a book in which every call that answers   *)
(* with success has its whole effect at once (the row, its events, the     *)
(* borrower's reputation) on the loan as it then is, and every other call  *)
(* has none.  LoanLedger, where calls overlap and fail, implements it.     *)
(***************************************************************************)
EXTENDS LoanTerms

VARIABLES loans, events, paid, reputation
vars == <<loans, events, paid, reputation>>

Init ==
  /\ loans = [l \in Loans |-> NoLoan]
  /\ events = [l \in Loans |-> NoEvents]
  /\ paid = [l \in Loans |-> 0]
  /\ reputation = [b \in Borrowers |-> NoReputation]

(* One call's whole effect.                                                *)
Enter(op, l, new, amount) ==
  /\ WithinDue(new)
  /\ loans' = [loans EXCEPT ![l] = new]
  /\ events' = [events EXCEPT ![l] = WithEvents(@, Logged(op, new))]
  /\ paid' = [paid EXCEPT ![l] = @ + amount]
  /\ reputation' =
       IF Counter(op, new) = "none" THEN reputation
       ELSE [reputation EXCEPT ![new.borrower] = Bumped(@, Counter(op, new))]

Create(l, b, due) ==
  loans[l] = NoLoan /\ Enter("create", l, NewLoan(b, due), 0)

Change(op, l, amount) ==
  /\ loans[l].status = From(op)
  /\ \E new \in Updates(op, loans[l], amount) : Enter(op, l, new, amount)

Cancel(l) ==
  /\ loans[l].status = "pending"
  /\ Enter("cancel", l, Moved(loans[l], "cancelled"), 0)

Next ==
  \E l \in Loans :
    \/ \E b \in Borrowers, due \in Dues : Create(l, b, due)
    \/ \E op \in {"disburse", "default"} : Change(op, l, 0)
    \/ \E amount \in Amounts : Change("repay", l, amount)
    \/ Cancel(l)

Spec == Init /\ [][Next]_vars
=============================================================================
