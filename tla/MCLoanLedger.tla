--------------------------- MODULE MCLoanLedger ---------------------------
(* Constants for checking LoanLedger on small instances.                   *)
EXTENDS LoanLedger

\* With a stroop of two parts: two stroops, and two and a half.
WholeAndHalf == {4, 5}
OneOrThreeStroops == {2, 6}
=============================================================================
