CONSTANTS
  Loans = {l1, l2}
  Borrowers = {b1}
  NoOne = NoOne
  Stroop = 2
  Dues <- WholeAndHalf
  Amounts <- OneOrThreeStroops
  Requests = {r1, r2}
  None = None
SPECIFICATION FairSpec
INVARIANTS
  LoansSound
  ReputationCountsLoans
PROPERTIES
  ImplementsBook
  EveryRequestAnswered
