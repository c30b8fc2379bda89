------------------------- MODULE LoanLedgerProofs -------------------------
(***************************************************************************)
(* Proofs about LoanLedger for any loans, borrowers, amounts and requests: *)
(* overlapping requests implement the book of atomic calls.                *)
(***************************************************************************)
EXTENDS LoanLedger, FiniteSetTheorems, TLAPS

(* What Arrive chose for a request in progress.                            *)
Chosen(q) ==
  /\ q.stage # "idle" => q.loan \in Loans
  /\ IF q.op = "repay" THEN q.amount \in Amounts ELSE q.amount = 0
  /\ q.stage = "checked" => q.op # "create"

(* A transaction holds the rows it has written until its end.              *)
Holds(r) ==
  LET q == requests[r]
  IN /\ q.stage \in {"updated", "rated"} => loanLock[q.loan] = r
     /\ q.stage = "rated" => reputationLock[q.row.borrower] = r

(* The row a transaction has put aside is an update of the row committed   *)
(* now, not of one since replaced.                                         *)
WrittenOver(q, row) ==
  \/ q.op = "create" /\ row = NoLoan
     /\ \E b \in Borrowers, due \in Dues : q.row = NewLoan(b, due)
  \/ /\ q.op \in {"disburse", "repay", "default"}
     /\ row.status = From(q.op)
     /\ q.row \in Updates(q.op, row, q.amount)

Written(q) ==
  q.stage \in {"updated", "rated"} =>
    /\ q.row.borrower \in Borrowers
    /\ WithinDue(q.row)
    /\ WrittenOver(q, loans[q.loan])

(* So is the rating.                                                       *)
RatedNow(q) ==
  q.stage = "rated" =>
    /\ NeedsRating(q)
    /\ q.rating = Bumped(reputation[q.row.borrower], Counter(q.op, q.row))

BorrowersKnown ==
  \A l \in Loans : loans[l].status # "none" => loans[l].borrower \in Borrowers

IInv ==
  /\ TypeOK
  /\ BorrowersKnown
  /\ \A r \in Requests : /\ Chosen(requests[r])
                         /\ Holds(r)
                         /\ Written(requests[r])
                         /\ RatedNow(requests[r])

-----------------------------------------------------------------------------
(* The rules.                                                              *)

LEMMA ScoreNat ==
  ASSUME NEW onTime \in Nat, NEW defaults \in Nat
  PROVE  Score(onTime, defaults) \in Nat
<1> DEFINE n == onTime + defaults + 2
           top == 20000 * (onTime + 1) + n
<1>1. n \in Nat /\ n > 0 /\ top \in Nat
  OBVIOUS
<1>2. 2 * n \in Nat /\ 2 * n > 0
  BY <1>1
<1> HIDE DEF n, top
<1>3. ASSUME NEW a \in Nat, NEW d \in Nat, d > 0 PROVE a \div d \in Nat
  BY <1>3
<1>4. top \div (2 * n) \in Nat
  BY <1>1, <1>2, <1>3
<1> QED
  BY <1>4 DEF Score, n, top

(* bumpReputation keeps a reputation row one.                              *)
LEMMA BumpedTyped ==
  ASSUME NEW row \in Reputation, NEW c \in Counters
  PROVE  Bumped(row, c) \in Reputation
<1> DEFINE counts == [row EXCEPT ![c] = @ + 1]
<1>1. /\ counts \in Reputation
      /\ counts.on_time_repayments \in Nat /\ counts.defaults \in Nat
  BY DEF Reputation, Counters
<1>2. Score(counts.on_time_repayments, counts.defaults) \in Nat
  BY <1>1, ScoreNat
<1> HIDE DEF counts
<1>3. [counts EXCEPT !.score =
         Score(counts.on_time_repayments, counts.defaults)] \in Reputation
  BY <1>1, <1>2 DEF Reputation
<1> QED
  BY <1>3 DEF Bumped, counts

LEMMA CounterTyped ==
  ASSUME NEW op, NEW new, Counter(op, new) # "none"
  PROVE  Counter(op, new) \in Counters
  BY DEF Counter, Counters

(* An update keeps a loan a loan of its borrower.                          *)
LEMMA UpdatesTyped ==
  ASSUME NEW row \in Loan, NEW op \in Operations, NEW amount \in Nat,
         NEW new \in Updates(op, row, amount)
  PROVE  /\ new \in Loan
         /\ new.status # "none"
         /\ new.borrower = row.borrower
         /\ op # "repay" => new.repaid = row.repaid
         /\ op = "repay" => new.repaid = row.repaid + amount
<1>1. CASE op = "disburse"
  BY <1>1 DEF Updates, Moved, Loan, Statuses
<1>2. CASE op = "default"
  BY <1>2 DEF Updates, Moved, Loan, Statuses
<1>3. CASE op = "repay"
  <2>1. PICK s \in {"repaid", "active"} : new = Repaid(row, amount, s)
    BY <1>3 DEF Updates
  <2>2. new = [row EXCEPT !.repaid = row.repaid + amount, !.status = s]
    BY <2>1 DEF Repaid
  <2>3. row.repaid + amount \in Nat
    BY DEF Loan
  <2> DEFINE repaid == row.repaid + amount
  <2> HIDE DEF repaid
  <2>4. /\ [row EXCEPT !.repaid = repaid, !.status = s] \in Loan
        /\ [row EXCEPT !.repaid = repaid, !.status = s].status = s
        /\ [row EXCEPT !.repaid = repaid, !.status = s].repaid = repaid
        /\ [row EXCEPT !.repaid = repaid, !.status = s].borrower = row.borrower
    BY <2>1, <2>3 DEF Loan, Statuses, repaid
  <2> QED
    BY <1>3, <2>1, <2>2, <2>4 DEF repaid
<1>4. CASE op \in {"create", "cancel"}
  BY <1>4 DEF Updates
<1> QED
  BY <1>1, <1>2, <1>3, <1>4 DEF Operations

LEMMA IdleSound ==
  ASSUME NEW answer \in Answers
  PROVE  /\ Idle(answer) \in Request
         /\ Idle(answer).stage = "idle"
         /\ Chosen(Idle(answer)) /\ Written(Idle(answer)) /\ RatedNow(Idle(answer))
  BY DEF Idle, Request, Stages, Operations, Loan, NoLoan, Reputation,
         NoReputation, Chosen, Written, RatedNow

LEMMA ServingTyped ==
  ASSUME NEW stage \in Stages, NEW op \in Operations, NEW l \in Loans,
         NEW amount \in Nat, NEW row \in Loan
  PROVE  LET q == Serving(stage, op, l, amount, row)
         IN /\ q \in Request
            /\ q.stage = stage /\ q.op = op /\ q.loan = l
            /\ q.amount = amount /\ q.row = row
  BY DEF Serving, Request, Answers, Reputation, NoReputation

LEMMA InitIInv == Init => IInv
<1> SUFFICES ASSUME Init PROVE IInv
  OBVIOUS
<1>1. "none" \in Answers
  BY DEF Answers
<1>2. TypeOK
  BY <1>1, IdleSound DEF Init, TypeOK, Loan, NoLoan, NoEvents, Reputation, NoReputation
<1>3. BorrowersKnown
  BY DEF Init, BorrowersKnown, NoLoan
<1>4. ASSUME NEW r \in Requests
      PROVE  Chosen(requests[r]) /\ Holds(r) /\ Written(requests[r]) /\ RatedNow(requests[r])
  BY <1>1, IdleSound DEF Init, Holds
<1> QED
  BY <1>2, <1>3, <1>4 DEF IInv

-----------------------------------------------------------------------------
(* Steps.                                                                  *)

(* A request that ends without touching the tables, its transaction (if it *)
(* has one) rolled back.                                                   *)
LEMMA AnswerKeeps ==
  ASSUME IInv, NEW r \in Requests, NEW answer \in Answers,
         Answer(r, answer), UNCHANGED tables,
         Release(r) \/ UNCHANGED locks
  PROVE  IInv'
<1> USE DEF IInv
<1>1. /\ requests' \in [Requests -> Request]
      /\ requests'[r] = Idle(answer)
      /\ \A s \in Requests \ {r} : requests'[s] = requests[s]
  BY IdleSound DEF TypeOK, Answer
<1>2. /\ loanLock' \in [Loans -> Requests \cup {None}]
      /\ reputationLock' \in [Borrowers -> Requests \cup {None}]
      /\ \A s \in Requests \ {r} :
           /\ \A l \in Loans : loanLock[l] = s => loanLock'[l] = s
           /\ \A b \in Borrowers : reputationLock[b] = s => reputationLock'[b] = s
  BY DEF TypeOK, Release, Released, locks
<1>3. TypeOK'
  BY <1>1, <1>2 DEF TypeOK, tables
<1>4. BorrowersKnown'
  BY DEF BorrowersKnown, tables
<1>5. ASSUME NEW s \in Requests
      PROVE  (Chosen(requests[s]) /\ Holds(s) /\ Written(requests[s]) /\ RatedNow(requests[s]))'
  <2>1. CASE s = r
    BY <1>1, <2>1, IdleSound DEF Holds, Idle, Chosen, Written, RatedNow
  <2>2. CASE s # r
    <3>1. requests'[s] = requests[s]
      BY <1>1, <2>2
    <3>2. Holds(s)'
      BY <1>2, <2>2, <3>1 DEF Holds, Chosen, Written
    <3> QED
      BY <3>1, <3>2 DEF Chosen, Written, WrittenOver, RatedNow, tables
  <2> QED
    BY <2>1, <2>2
<1> QED
  BY <1>3, <1>4, <1>5

(* A request's own step outside its transaction's end: it takes locks that *)
(* were free, and the rest of the requests see nothing.                    *)
LEMMA OthersKeep ==
  ASSUME IInv, NEW r \in Requests, NEW s \in Requests, s # r,
         requests'[s] = requests[s], UNCHANGED tables,
         \A l \in Loans : loanLock[l] = s => loanLock'[l] = s,
         \A b \in Borrowers : reputationLock[b] = s => reputationLock'[b] = s
  PROVE  (Chosen(requests[s]) /\ Holds(s) /\ Written(requests[s]) /\ RatedNow(requests[s]))'
<1>1. Chosen(requests[s]) /\ Holds(s) /\ Written(requests[s]) /\ RatedNow(requests[s])
  BY DEF IInv
<1>2. Holds(s)'
  BY <1>1 DEF Holds, Chosen, Written
<1> QED
  BY <1>1, <1>2 DEF Chosen, Written, WrittenOver, RatedNow, tables

LEMMA BeginKeeps ==
  ASSUME IInv, NEW r \in Requests, NEW l \in Loans,
         NEW op \in Operations \ {"create"}, NEW amount \in Nat,
         IF op = "repay" THEN amount \in Amounts ELSE amount = 0,
         Begin(r, op, l, amount)
  PROVE  IInv'
<1>1. CASE \E answer \in {"not_found", "conflict"} : Answer(r, answer)
  BY <1>1, AnswerKeeps DEF Begin, Answers
<1> DEFINE new == Serving("checked", op, l, amount, NoLoan)
<1>2. CASE requests' = [requests EXCEPT ![r] = new]
  <2>1. new \in Request /\ new.stage = "checked"
        /\ new.op = op /\ new.loan = l /\ new.amount = amount
    BY ServingTyped DEF Stages, Loan, NoLoan
  <2> HIDE DEF new
  <2>2. /\ requests' \in [Requests -> Request]
        /\ requests'[r] = new
        /\ \A s \in Requests \ {r} : requests'[s] = requests[s]
    BY <1>2, <2>1 DEF IInv, TypeOK
  <2>3. TypeOK' /\ BorrowersKnown'
    BY <2>2 DEF IInv, TypeOK, BorrowersKnown, Begin, tables, locks
  <2>4. ASSUME NEW s \in Requests
        PROVE  (Chosen(requests[s]) /\ Holds(s) /\ Written(requests[s]) /\ RatedNow(requests[s]))'
    <3>1. CASE s = r
      BY <2>1, <2>2, <3>1 DEF Chosen, Holds, Written, RatedNow
    <3>2. CASE s # r
      BY <2>2, <3>2, OthersKeep DEF Begin, locks
    <3> QED
      BY <3>1, <3>2
  <2> QED
    BY <2>3, <2>4 DEF IInv
<1> QED
  BY <1>1, <1>2 DEF Begin

LEMMA BeginCreateKeeps ==
  ASSUME IInv, NEW r \in Requests, NEW l \in Loans, NEW b \in Borrowers,
         NEW due \in Dues, BeginCreate(r, l, b, due)
  PROVE  IInv'
<1> DEFINE new == Serving("updated", "create", l, 0, NewLoan(b, due))
<1>1. NewLoan(b, due) \in Loan /\ WithinDue(NewLoan(b, due))
      /\ NewLoan(b, due).borrower = b
  BY TermsAssumption DEF NewLoan, Loan, Statuses, WithinDue
<1>2. new \in Request /\ new.stage = "updated" /\ new.op = "create"
      /\ new.loan = l /\ new.amount = 0 /\ new.row = NewLoan(b, due)
  BY <1>1, ServingTyped DEF Stages, Operations
<1> HIDE DEF new
<1>3. /\ requests' \in [Requests -> Request]
      /\ requests'[r] = new
      /\ \A s \in Requests \ {r} : requests'[s] = requests[s]
      /\ loanLock' \in [Loans -> Requests \cup {None}]
      /\ loanLock'[l] = r
      /\ \A m \in Loans : \A s \in Requests \ {r} :
           loanLock[m] = s => loanLock'[m] = s
  BY <1>2, RequestsAssumption DEF IInv, TypeOK, BeginCreate, new
<1>4. TypeOK' /\ BorrowersKnown'
  BY <1>3 DEF IInv, TypeOK, BorrowersKnown, BeginCreate, tables
<1>5. ASSUME NEW s \in Requests
      PROVE  (Chosen(requests[s]) /\ Holds(s) /\ Written(requests[s]) /\ RatedNow(requests[s]))'
  <2>1. CASE s = r
    <3>1. requests'[r] = new /\ loans' = loans /\ loanLock'[l] = r /\ loans[l] = NoLoan
      BY <1>3 DEF BeginCreate, tables
    <3>2. Chosen(new) /\ RatedNow(new)'
      BY <1>2 DEF Chosen, RatedNow
    <3>3. Written(new)'
      BY <1>1, <1>2, <3>1 DEF Written, WrittenOver
    <3> QED
      BY <1>2, <2>1, <3>1, <3>2, <3>3 DEF Chosen, Holds, Written, RatedNow
  <2>2. CASE s # r
    BY <1>3, <2>2, OthersKeep DEF BeginCreate
  <2> QED
    BY <2>1, <2>2
<1> QED
  BY <1>4, <1>5 DEF IInv

LEMMA UpdateLoanKeeps ==
  ASSUME IInv, NEW r \in Requests, UpdateLoan(r)
  PROVE  IInv'
<1> DEFINE q == requests[r]
           l == q.loan
<1>1. /\ q \in Request /\ q.stage = "checked" /\ l \in Loans
      /\ q.op \in {"disburse", "repay", "default"}
      /\ q.amount \in Nat /\ loans[l] \in Loan /\ Chosen(q)
  BY DEF IInv, TypeOK, UpdateLoan, Chosen, Request, Operations
<1>2. CASE \E answer \in {"conflict", "exceeds", "check_failed"} :
             Answer(r, answer) /\ UNCHANGED locks
  BY <1>2, AnswerKeeps DEF UpdateLoan, Answers
<1>3. ASSUME NEW new \in Updates(q.op, loans[l], q.amount), WithinDue(new),
             loans[l].status = From(q.op), loanLock[l] = None,
             loanLock' = [loanLock EXCEPT ![l] = r],
             requests' = [requests EXCEPT ![r] =
               Serving("updated", q.op, q.loan, q.amount, new)],
             UNCHANGED reputationLock, UNCHANGED tables
      PROVE  IInv'
  <2> DEFINE p == Serving("updated", q.op, l, q.amount, new)
  <2>1. q.op \in Operations /\ loans[l].status # "none"
    BY <1>1, <1>3 DEF Operations, From
  <2>2. /\ new \in Loan /\ new.borrower = loans[l].borrower
        /\ new.borrower \in Borrowers
    BY <1>1, <1>3, <2>1, UpdatesTyped DEF IInv, BorrowersKnown
  <2>3. /\ p \in Request /\ p.stage = "updated" /\ p.op = q.op
        /\ p.loan = l /\ p.amount = q.amount /\ p.row = new
    BY <1>1, <2>1, <2>2, ServingTyped DEF Stages
  <2> HIDE DEF p
  <2>4. /\ requests' \in [Requests -> Request]
        /\ requests'[r] = p
        /\ \A s \in Requests \ {r} : requests'[s] = requests[s]
        /\ loanLock' \in [Loans -> Requests \cup {None}]
        /\ loanLock'[l] = r
        /\ \A m \in Loans : \A s \in Requests \ {r} :
             loanLock[m] = s => loanLock'[m] = s
    BY <1>1, <1>3, <2>3, RequestsAssumption DEF IInv, TypeOK, p
  <2>5. TypeOK' /\ BorrowersKnown'
    BY <1>3, <2>4 DEF IInv, TypeOK, BorrowersKnown, tables
  <2>6. ASSUME NEW s \in Requests
        PROVE  (Chosen(requests[s]) /\ Holds(s) /\ Written(requests[s]) /\ RatedNow(requests[s]))'
    <3>1. CASE s = r
      <4>1. LET now == requests'[r]
            IN /\ now.stage = "updated" /\ now.op = q.op /\ now.loan = l
               /\ now.amount = q.amount /\ now.row = new
        BY <2>3, <2>4
      <4>2. Chosen(requests[r])' /\ RatedNow(requests[r])' /\ Holds(r)'
        BY <1>1, <2>4, <4>1 DEF Chosen, RatedNow, Holds
      <4>3. loans'[l] = loans[l]
        BY <1>3 DEF tables
      <4>4. Written(requests[r])'
        BY <1>1, <1>3, <2>2, <4>1, <4>3 DEF Written, WrittenOver
      <4> QED
        BY <3>1, <4>2, <4>4
    <3>2. CASE s # r
      BY <1>3, <2>4, <3>2, OthersKeep
    <3> QED
      BY <3>1, <3>2
  <2> QED
    BY <2>5, <2>6 DEF IInv
<1> QED
  BY <1>2, <1>3 DEF UpdateLoan

LEMMA RateKeeps ==
  ASSUME IInv, NEW r \in Requests, Rate(r)
  PROVE  IInv'
<1> DEFINE q == requests[r]
           b == q.row.borrower
           rating == Bumped(reputation[b], Counter(q.op, q.row))
<1>1. /\ q \in Request /\ q.stage = "updated" /\ q.loan \in Loans
      /\ b \in Borrowers /\ NeedsRating(q)
      /\ Chosen(q) /\ Holds(r) /\ Written(q)
  BY DEF IInv, TypeOK, Rate, Written, Chosen
<1>2. rating \in Reputation
  BY <1>1, CounterTyped, BumpedTyped DEF IInv, TypeOK, NeedsRating
<1> HIDE DEF rating
<1>3. /\ Rated(q) \in Request /\ Rated(q).stage = "rated"
      /\ Rated(q).op = q.op /\ Rated(q).loan = q.loan
      /\ Rated(q).amount = q.amount /\ Rated(q).row = q.row
      /\ Rated(q).rating = rating
  BY <1>1, <1>2 DEF Rated, Request, Stages, rating
<1>4. /\ requests' \in [Requests -> Request]
      /\ requests'[r] = Rated(q)
      /\ \A s \in Requests \ {r} : requests'[s] = requests[s]
      /\ reputationLock' \in [Borrowers -> Requests \cup {None}]
      /\ reputationLock'[b] = r
      /\ \A m \in Borrowers : \A s \in Requests \ {r} :
           reputationLock[m] = s => reputationLock'[m] = s
  BY <1>1, <1>3, RequestsAssumption DEF IInv, TypeOK, Rate
<1>5. TypeOK' /\ BorrowersKnown'
  BY <1>4 DEF IInv, TypeOK, BorrowersKnown, Rate, tables
<1>6. ASSUME NEW s \in Requests
      PROVE  (Chosen(requests[s]) /\ Holds(s) /\ Written(requests[s]) /\ RatedNow(requests[s]))'
  <2>1. CASE s = r
    <3>1. Chosen(requests[r])' /\ Written(requests[r])'
      BY <1>1, <1>3, <1>4 DEF Chosen, Written, WrittenOver, Rate, tables
    <3>2. Holds(r)'
      BY <1>1, <1>3, <1>4 DEF Holds, Rate
    <3>3. RatedNow(requests[r])'
      BY <1>1, <1>3, <1>4 DEF RatedNow, NeedsRating, Rate, tables, rating
    <3> QED
      BY <2>1, <3>1, <3>2, <3>3
  <2>2. CASE s # r
    BY <1>4, <2>2, OthersKeep DEF Rate
  <2> QED
    BY <2>1, <2>2
<1> QED
  BY <1>5, <1>6 DEF IInv

LEMMA FailKeeps ==
  ASSUME IInv, NEW r \in Requests, Fail(r)
  PROVE  IInv'
  BY AnswerKeeps DEF Fail, Answers

(* The book's rules are the ledger's.                                      *)
LEMMA SameRules ==
  /\ Book!NoLoan = NoLoan
  /\ \A b, due : Book!NewLoan(b, due) = NewLoan(b, due)
  /\ \A op : Book!From(op) = From(op)
  /\ \A row : Book!WithinDue(row) = WithinDue(row)
  /\ \A row, status : Book!Moved(row, status) = Moved(row, status)
  /\ \A op, row, amount : Book!Updates(op, row, amount) = Updates(op, row, amount)
  /\ \A op, new : Book!Counter(op, new) = Counter(op, new)
  /\ \A row, c : Book!Bumped(row, c) = Bumped(row, c)
  /\ \A op, new : Book!Logged(op, new) = Logged(op, new)
  /\ \A counts, types : Book!WithEvents(counts, types) = WithEvents(counts, types)
<1>1. /\ Book!NoLoan = NoLoan
      /\ \A b, due : Book!NewLoan(b, due) = NewLoan(b, due)
      /\ \A op : Book!From(op) = From(op)
      /\ \A row : Book!WithinDue(row) = WithinDue(row)
      /\ \A row, status : Book!Moved(row, status) = Moved(row, status)
  BY Zenon DEF Book!NoLoan, NoLoan, Book!NewLoan, NewLoan, Book!From, From,
     Book!WithinDue, WithinDue, Book!Moved, Moved
<1>2. \A op, row, amount : Book!Updates(op, row, amount) = Updates(op, row, amount)
  BY Zenon DEF Book!Updates, Updates, Book!Moved, Moved, Book!Repaid, Repaid,
     Book!MayAccept, MayAccept, Book!MayClose, MayClose,
     Book!MayStayOpen, MayStayOpen
<1>3. /\ \A op, new : Book!Counter(op, new) = Counter(op, new)
      /\ \A op, new : Book!Logged(op, new) = Logged(op, new)
  BY Zenon DEF Book!Counter, Counter, Book!Logged, Logged
<1>4. /\ \A row, c : Book!Bumped(row, c) = Bumped(row, c)
      /\ \A counts, types : Book!WithEvents(counts, types) = WithEvents(counts, types)
  <2>1. \A m, n : Book!Score(m, n) = Score(m, n)
    BY DEF Book!Score, Score
  <2>2. \A row, c : Book!Bumped(row, c) = Bumped(row, c)
    BY <2>1, Zenon DEF Book!Bumped, Bumped
  <2>3. Book!EventTypes = EventTypes
    BY Zenon DEF Book!EventTypes, EventTypes
  <2>4. \A counts, types : Book!WithEvents(counts, types) = WithEvents(counts, types)
    BY <2>3 DEF Book!WithEvents, WithEvents
  <2> QED
    BY <2>2, <2>4
<1> QED
  BY <1>1, <1>2, <1>3, <1>4

(* A call of the book, in the ledger's terms.                              *)
LEMMA EnterIs ==
  ASSUME NEW op, NEW l, NEW new, NEW amount
  PROVE  Book!Enter(op, l, new, amount) <=>
           /\ WithinDue(new)
           /\ loans' = [loans EXCEPT ![l] = new]
           /\ events' = [events EXCEPT ![l] = WithEvents(@, Logged(op, new))]
           /\ paid' = [paid EXCEPT ![l] = @ + amount]
           /\ reputation' = IF Counter(op, new) = "none" THEN reputation
                ELSE [reputation EXCEPT ![new.borrower] = Bumped(@, Counter(op, new))]
<1>1. /\ Book!WithinDue(new) = WithinDue(new)
      /\ Book!Counter(op, new) = Counter(op, new)
      /\ Book!WithEvents(events[l], Book!Logged(op, new)) =
           WithEvents(events[l], Logged(op, new))
      /\ Book!Bumped(reputation[new.borrower], Book!Counter(op, new)) =
           Bumped(reputation[new.borrower], Counter(op, new))
  BY SameRules, Zenon
<1> QED
  BY <1>1, Zenon DEF Book!Enter

(* What COMMIT publishes is one call of the book on the rows as they are:  *)
(* nothing it was computed from has changed since.                         *)
LEMMA CommitEnters ==
  ASSUME IInv, NEW r \in Requests, NEW answer \in Answers, Commit(r, answer)
  PROVE  Book!Next
<1> DEFINE q == requests[r]
           l == q.loan
<1>1. /\ q \in Request /\ q.stage \in {"updated", "rated"} /\ l \in Loans
      /\ Chosen(q) /\ Written(q) /\ RatedNow(q)
      /\ q.stage = "updated" => ~NeedsRating(q)
      /\ Apply(r)
  BY DEF IInv, TypeOK, Commit, Chosen
<1>2. Book!Enter(q.op, l, q.row, q.amount)
  <2>1. reputation' = IF Counter(q.op, q.row) = "none" THEN reputation
          ELSE [reputation EXCEPT ![q.row.borrower] = Bumped(@, Counter(q.op, q.row))]
    <3>1. CASE q.stage = "updated"
      BY <1>1, <3>1 DEF Apply, NeedsRating
    <3>2. CASE q.stage = "rated"
      BY <1>1, <3>2 DEF Apply, RatedNow, NeedsRating, IInv, TypeOK
    <3> QED
      BY <1>1, <3>1, <3>2
  <2> QED
    BY <1>1, <2>1, EnterIs DEF Apply, Written
<1>3. CASE q.op = "create"
  <2>1. /\ q.amount = 0 /\ loans[l] = NoLoan
        /\ \E b \in Borrowers, due \in Dues : q.row = NewLoan(b, due)
    BY <1>1, <1>3 DEF Chosen, Written, WrittenOver
  <2>2. \E b \in Borrowers, due \in Dues : Book!Create(l, b, due)
    BY <1>2, <1>3, <2>1, SameRules DEF Book!Create
  <2> QED
    BY <1>1, <2>2 DEF Book!Next
<1>4. CASE q.op # "create"
  <2>1. /\ q.op \in {"disburse", "repay", "default"}
        /\ loans[l].status = From(q.op)
        /\ q.row \in Updates(q.op, loans[l], q.amount)
    BY <1>1, <1>4 DEF Written, WrittenOver
  <2>2. Book!Change(q.op, l, q.amount)
    BY <1>2, <2>1, SameRules DEF Book!Change
  <2>3. CASE q.op = "repay"
    BY <1>1, <2>2, <2>3 DEF Chosen, Book!Next
  <2>4. CASE q.op \in {"disburse", "default"}
    BY <1>1, <2>2, <2>4 DEF Chosen, Book!Next
  <2> QED
    BY <2>1, <2>3, <2>4
<1> QED
  BY <1>3, <1>4

(* The book's calls keep the tables' types and the repaid amounts' bounds. *)
TablesTyped ==
  /\ loans \in [Loans -> Loan]
  /\ events \in [Loans -> [EventTypes -> Nat]]
  /\ paid \in [Loans -> Nat]
  /\ reputation \in [Borrowers -> Reputation]
  /\ \A l \in Loans : loans[l].repaid <= loans[l].due
  /\ BorrowersKnown

LEMMA EnterTyped ==
  ASSUME TablesTyped, NEW op, NEW l \in Loans, NEW new \in Loan,
         NEW amount \in Nat, new.borrower \in Borrowers,
         Book!Enter(op, l, new, amount)
  PROVE  TablesTyped'
<1>0. /\ WithinDue(new)
      /\ loans' = [loans EXCEPT ![l] = new]
      /\ events' = [events EXCEPT ![l] = WithEvents(@, Logged(op, new))]
      /\ paid' = [paid EXCEPT ![l] = @ + amount]
      /\ reputation' = IF Counter(op, new) = "none" THEN reputation
           ELSE [reputation EXCEPT ![new.borrower] = Bumped(@, Counter(op, new))]
  BY EnterIs, Zenon
<1>1. /\ loans' \in [Loans -> Loan] /\ paid' \in [Loans -> Nat]
      /\ \A m \in Loans : loans'[m] = IF m = l THEN new ELSE loans[m]
  BY <1>0 DEF TablesTyped
<1>2. events' \in [Loans -> [EventTypes -> Nat]]
  BY <1>0 DEF TablesTyped, WithEvents
<1>3. reputation' \in [Borrowers -> Reputation]
  <2>1. CASE Counter(op, new) = "none"
    BY <2>1, <1>0 DEF TablesTyped
  <2>2. CASE Counter(op, new) # "none"
    <3>1. Bumped(reputation[new.borrower], Counter(op, new)) \in Reputation
      BY <2>2, CounterTyped, BumpedTyped DEF TablesTyped
    <3> QED
      BY <2>2, <3>1, <1>0 DEF TablesTyped
  <2> QED
    BY <2>1, <2>2
<1>4. \A m \in Loans : loans'[m].repaid <= loans'[m].due
  BY <1>1, <1>0 DEF TablesTyped, WithinDue
<1>5. BorrowersKnown'
  BY <1>1 DEF TablesTyped, BorrowersKnown
<1> QED
  BY <1>1, <1>2, <1>3, <1>4, <1>5 DEF TablesTyped

LEMMA CommitKeeps ==
  ASSUME IInv, NEW r \in Requests, NEW answer \in Answers, Commit(r, answer)
  PROVE  IInv'
<1> DEFINE q == requests[r]
           l == q.loan
<1>1. /\ q \in Request /\ q.stage \in {"updated", "rated"} /\ l \in Loans
      /\ q.row \in Loan /\ q.amount \in Nat /\ q.row.borrower \in Borrowers
      /\ q.rating \in Reputation /\ WithinDue(q.row)
      /\ Holds(r) /\ loanLock[l] = r
      /\ q.stage = "rated" => reputationLock[q.row.borrower] = r
      /\ Apply(r) /\ Release(r) /\ Answer(r, answer)
  BY DEF IInv, TypeOK, Commit, Chosen, Written, Holds, Request
<1>2. /\ requests' \in [Requests -> Request]
      /\ requests'[r] = Idle(answer)
      /\ \A s \in Requests \ {r} : requests'[s] = requests[s]
      /\ loanLock' \in [Loans -> Requests \cup {None}]
      /\ reputationLock' \in [Borrowers -> Requests \cup {None}]
      /\ \A s \in Requests \ {r} :
           /\ \A m \in Loans : loanLock[m] = s => loanLock'[m] = s
           /\ \A b \in Borrowers : reputationLock[b] = s => reputationLock'[b] = s
  BY <1>1, IdleSound DEF IInv, TypeOK, Answer, Release, Released
<1>3. /\ \A m \in Loans : loans'[m] = IF m = l THEN q.row ELSE loans[m]
      /\ \A b \in Borrowers : \/ b = q.row.borrower /\ q.stage = "rated"
                              \/ reputation'[b] = reputation[b]
      /\ loans' \in [Loans -> Loan] /\ paid' \in [Loans -> Nat]
      /\ events' \in [Loans -> [EventTypes -> Nat]]
      /\ reputation' \in [Borrowers -> Reputation]
  BY <1>1 DEF IInv, TypeOK, Apply, WithEvents
<1>4. TypeOK' /\ BorrowersKnown'
  BY <1>1, <1>2, <1>3 DEF IInv, TypeOK, BorrowersKnown, WithinDue
<1>5. ASSUME NEW s \in Requests
      PROVE  (Chosen(requests[s]) /\ Holds(s) /\ Written(requests[s]) /\ RatedNow(requests[s]))'
  <2>1. CASE s = r
    BY <1>2, <2>1, IdleSound DEF Holds, Idle, Chosen, Written, RatedNow
  <2>2. CASE s # r
    <3>1. /\ requests'[s] = requests[s]
          /\ Chosen(requests[s]) /\ Holds(s) /\ Written(requests[s]) /\ RatedNow(requests[s])
      BY <1>2, <2>2 DEF IInv
    <3>2. Holds(s)'
      BY <1>2, <2>2, <3>1 DEF Holds, Chosen, Written
    <3>3. requests[s].stage \in {"updated", "rated"} =>
            loans'[requests[s].loan] = loans[requests[s].loan]
      BY <1>1, <1>3, <2>2, <3>1 DEF Holds, Chosen
    <3>4. requests[s].stage = "rated" =>
            reputation'[requests[s].row.borrower] = reputation[requests[s].row.borrower]
      BY <1>1, <1>3, <2>2, <3>1 DEF Holds, Written
    <3> QED
      BY <3>1, <3>2, <3>3, <3>4 DEF Chosen, Written, RatedNow
  <2> QED
    BY <2>1, <2>2
<1> QED
  BY <1>4, <1>5 DEF IInv

LEMMA CancelKeeps ==
  ASSUME IInv, NEW r \in Requests, CancelLoan(r)
  PROVE  IInv' /\ (Book!Next \/ UNCHANGED Book!vars)
<1> DEFINE q == requests[r]
           l == q.loan
           new == Moved(loans[l], "cancelled")
<1>1. /\ q \in Request /\ l \in Loans /\ loanLock[l] = None
      /\ loans[l] \in Loan /\ UNCHANGED <<events, paid, reputation, locks>>
  BY DEF IInv, TypeOK, CancelLoan, Chosen
<1>2. CASE Answer(r, "not_found") /\ UNCHANGED loans
  <2>1. UNCHANGED tables
    BY <1>1, <1>2 DEF tables
  <2>2. IInv'
    BY <1>1, <1>2, <2>1, AnswerKeeps DEF Answers
  <2> QED
    BY <2>1, <2>2 DEF tables, Book!vars
<1>3. CASE /\ loans[l].status = "pending" /\ Answer(r, "ok")
           /\ loans' = [loans EXCEPT ![l] = Moved(@, "cancelled")]
  <2>1. /\ new \in Loan /\ new.repaid = loans[l].repaid /\ new.due = loans[l].due
        /\ new.borrower = loans[l].borrower /\ new.borrower \in Borrowers
    BY <1>1, <1>3 DEF IInv, BorrowersKnown, Moved, Loan, Statuses
  <2>2. /\ requests' \in [Requests -> Request]
        /\ requests'[r] = Idle("ok")
        /\ \A s \in Requests \ {r} : requests'[s] = requests[s]
    BY <1>3, IdleSound DEF IInv, TypeOK, Answer, Answers
  <2>3. /\ loans' \in [Loans -> Loan] /\ loans'[l] = new
        /\ \A m \in Loans \ {l} : loans'[m] = loans[m]
    BY <1>1, <1>3, <2>1 DEF IInv, TypeOK
  <2>4. TypeOK' /\ BorrowersKnown'
    BY <1>1, <2>1, <2>2, <2>3 DEF IInv, TypeOK, BorrowersKnown, locks
  <2>5. ASSUME NEW s \in Requests
        PROVE  (Chosen(requests[s]) /\ Holds(s) /\ Written(requests[s]) /\ RatedNow(requests[s]))'
    <3>1. CASE s = r
      BY <2>2, <3>1, IdleSound DEF Holds, Idle, Chosen, Written, RatedNow, Answers
    <3>2. CASE s # r
      <4>1. /\ requests'[s] = requests[s]
            /\ Chosen(requests[s]) /\ Holds(s) /\ Written(requests[s]) /\ RatedNow(requests[s])
        BY <2>2, <3>2 DEF IInv
      <4>2. requests[s].stage \in {"updated", "rated"} =>
              loans'[requests[s].loan] = loans[requests[s].loan]
        BY <1>1, <2>3, <4>1, RequestsAssumption DEF Holds, Chosen
      <4> QED
        BY <1>1, <4>1, <4>2 DEF Chosen, Holds, Written, RatedNow, locks
    <3> QED
      BY <3>1, <3>2
  <2>6. Book!Cancel(l)
    <3>1. /\ WithinDue(new) /\ Counter("cancel", new) = "none"
          /\ WithEvents(events[l], Logged("cancel", new)) = events[l]
          /\ paid[l] + 0 = paid[l]
      BY <1>1, <2>1 DEF IInv, TypeOK, WithinDue, Counter, Logged, WithEvents
    <3>2. Book!Enter("cancel", l, new, 0)
      BY <1>1, <1>3, <3>1, EnterIs DEF IInv, TypeOK
    <3> QED
      BY <1>3, <3>2, SameRules DEF Book!Cancel
  <2>7. Book!Next
    BY <1>1, <2>6 DEF Book!Next
  <2> QED
    BY <2>4, <2>5, <2>7 DEF IInv
<1> QED
  BY <1>2, <1>3 DEF CancelLoan

(* Every step keeps the invariant, and is a call of the book or leaves the *)
(* book alone.                                                             *)
LEMMA NextKeeps ==
  ASSUME IInv, [Next]_vars
  PROVE  IInv' /\ [Book!Next]_(Book!vars)
<1>1. CASE UNCHANGED vars
  BY <1>1 DEF vars, tables, locks, IInv, TypeOK, BorrowersKnown, Chosen, Holds,
     Written, WrittenOver, RatedNow, Book!vars
<1>2. ASSUME NEW r \in Requests, Arrive(r)
      PROVE  IInv' /\ [Book!Next]_(Book!vars)
  <2>1. ASSUME NEW l \in Loans, NEW b \in Borrowers, NEW due \in Dues,
               BeginCreate(r, l, b, due)
        PROVE  IInv' /\ UNCHANGED tables
    BY <2>1, BeginCreateKeeps DEF BeginCreate
  <2>2. ASSUME NEW l \in Loans, NEW op \in {"disburse", "default", "cancel"},
               Begin(r, op, l, 0)
        PROVE  IInv' /\ UNCHANGED tables
    BY <2>2, BeginKeeps DEF Begin, Operations
  <2>3. ASSUME NEW l \in Loans, NEW amount \in Amounts,
               Begin(r, "repay", l, amount)
        PROVE  IInv' /\ UNCHANGED tables
    BY <2>3, BeginKeeps, TermsAssumption DEF Begin, Operations
  <2> QED
    BY <1>2, <2>1, <2>2, <2>3 DEF Arrive, tables, Book!vars
<1>3. ASSUME NEW r \in Requests, NEW answer \in {"ok", "error"},
             Commit(r, answer)
      PROVE  IInv' /\ [Book!Next]_(Book!vars)
  BY <1>3, CommitKeeps, CommitEnters DEF Answers
<1>4. ASSUME NEW r \in Requests, UpdateLoan(r) \/ Rate(r) \/ Fail(r)
      PROVE  IInv' /\ [Book!Next]_(Book!vars)
  BY <1>4, UpdateLoanKeeps, RateKeeps, FailKeeps
     DEF UpdateLoan, Rate, Fail, tables, Book!vars
<1>5. ASSUME NEW r \in Requests, CancelLoan(r)
      PROVE  IInv' /\ [Book!Next]_(Book!vars)
  BY <1>5, CancelKeeps
<1> QED
  BY <1>1, <1>2, <1>3, <1>4, <1>5 DEF Next, Proceed

(* The columns keep their types and bounds, and what a transaction has put *)
(* aside stays an update of the committed rows.                            *)
THEOREM IInvHolds == Spec => []IInv
<1>1. Init => IInv
  BY InitIInv
<1>2. IInv /\ [Next]_vars => IInv'
  BY NextKeeps
<1> QED
  BY <1>1, <1>2, PTL DEF Spec

THEOREM TypeCorrect == Spec => []TypeOK
<1>1. IInv => TypeOK
  BY DEF IInv
<1> QED
  BY <1>1, IInvHolds, PTL

(* Overlapping, failing, half answered requests look like the book's calls *)
(* one by one.                                                             *)
THEOREM LedgerImplementsBook == Spec => ImplementsBook
<1>1. Init => Book!Init
  BY DEF Init, Book!Init, Book!NoLoan, NoLoan, Book!NoEvents, NoEvents,
     Book!EventTypes, EventTypes, Book!NoReputation, NoReputation
<1>2. IInv /\ [Next]_vars => [Book!Next]_(Book!vars)
  BY NextKeeps
<1> QED
  BY <1>1, <1>2, IInvHolds, PTL DEF Spec, ImplementsBook, Book!Spec

-----------------------------------------------------------------------------
(* What every book has, hence every ledger.                                *)

(* How one call moves the row it is about.                                 *)
Moves(op, row, new, amount) ==
  \/ /\ op = "create" /\ row = NoLoan /\ new.status = "pending"
     /\ new.repaid = 0 /\ new.due >= Stroop /\ amount = 0
  \/ /\ op # "create" /\ new.borrower = row.borrower /\ new.due = row.due
     /\ new.repaid = row.repaid + amount
     /\ op # "repay" => amount = 0
     /\ \/ op = "disburse" /\ row.status = "pending" /\ new.status = "active"
        \/ op = "cancel" /\ row.status = "pending" /\ new.status = "cancelled"
        \/ op = "default" /\ row.status = "active" /\ new.status = "defaulted"
        \/ op = "repay" /\ row.status = "active" /\ new.status = "repaid"
        \/ /\ op = "repay" /\ row.status = "active" /\ new.status = "active"
           /\ MayStayOpen(row, amount)

LEMMA UpdatesMove ==
  ASSUME NEW row \in Loan, NEW op \in {"disburse", "default", "repay"},
         NEW amount \in Nat, op # "repay" => amount = 0,
         row.status = From(op), NEW new \in Updates(op, row, amount)
  PROVE  Moves(op, row, new, amount)
<1>1. CASE op \in {"disburse", "default"}
  BY <1>1 DEF Updates, Moved, Moves, From, Loan
<1>2. CASE op = "repay"
  <2>1. PICK s \in {"repaid", "active"} :
          /\ new = Repaid(row, amount, s)
          /\ s = "active" => MayStayOpen(row, amount)
    BY <1>2 DEF Updates
  <2>2. new = [row EXCEPT !.repaid = row.repaid + amount, !.status = s]
    BY <2>1 DEF Repaid
  <2> DEFINE repaid == row.repaid + amount
  <2> HIDE DEF repaid
  <2>3. LET u == [row EXCEPT !.repaid = repaid, !.status = s]
        IN /\ u.repaid = repaid /\ u.status = s
           /\ u.borrower = row.borrower /\ u.due = row.due
    BY DEF Loan
  <2> QED
    BY <1>2, <2>1, <2>2, <2>3 DEF Moves, From, repaid
<1> QED
  BY <1>1, <1>2

LEMMA BookCallMoves ==
  ASSUME TablesTyped, Book!Next
  PROVE  \E l \in Loans, op \in Operations, new \in Loan, amount \in Nat :
           /\ Book!Enter(op, l, new, amount)
           /\ new.borrower \in Borrowers
           /\ Moves(op, loans[l], new, amount)
<1>1. PICK l \in Loans :
        \/ \E b \in Borrowers, due \in Dues : Book!Create(l, b, due)
        \/ \E op \in {"disburse", "default"} : Book!Change(op, l, 0)
        \/ \E amount \in Amounts : Book!Change("repay", l, amount)
        \/ Book!Cancel(l)
  BY DEF Book!Next
<1>2. loans[l] \in Loan
        /\ (loans[l].status # "none" => loans[l].borrower \in Borrowers)
  BY DEF TablesTyped, BorrowersKnown
<1>3. ASSUME NEW b \in Borrowers, NEW due \in Dues, Book!Create(l, b, due)
      PROVE  \E op \in Operations, new \in Loan, amount \in Nat :
               /\ Book!Enter(op, l, new, amount)
               /\ new.borrower \in Borrowers
               /\ Moves(op, loans[l], new, amount)
  <2>1. /\ loans[l] = NoLoan
        /\ Book!Enter("create", l, NewLoan(b, due), 0)
    BY <1>3, SameRules DEF Book!Create
  <2>2. NewLoan(b, due) \in Loan /\ NewLoan(b, due).borrower = b
          /\ Moves("create", loans[l], NewLoan(b, due), 0)
    BY <2>1, TermsAssumption DEF NewLoan, Loan, Statuses, Moves
  <2> QED
    BY <2>1, <2>2 DEF Operations
<1>4. ASSUME NEW op \in {"disburse", "default", "repay"}, NEW amount \in Nat,
             op # "repay" => amount = 0, Book!Change(op, l, amount)
      PROVE  \E new \in Loan :
               /\ Book!Enter(op, l, new, amount)
               /\ new.borrower \in Borrowers
               /\ Moves(op, loans[l], new, amount)
  <2>1. loans[l].status = From(op)
    BY <1>4, SameRules DEF Book!Change
  <2>2. PICK new \in Updates(op, loans[l], amount) : Book!Enter(op, l, new, amount)
    BY <1>4, SameRules DEF Book!Change
  <2>3. new \in Loan /\ new.borrower = loans[l].borrower
    BY <1>2, UpdatesTyped DEF Operations
  <2>4. Moves(op, loans[l], new, amount)
    BY <1>2, <1>4, <2>1, UpdatesMove
  <2>5. loans[l].borrower \in Borrowers
    BY <1>2, <2>1 DEF From
  <2> QED
    BY <2>2, <2>3, <2>4, <2>5
<1>5. ASSUME Book!Cancel(l)
      PROVE  \E new \in Loan :
               /\ Book!Enter("cancel", l, new, 0)
               /\ new.borrower \in Borrowers
               /\ Moves("cancel", loans[l], new, 0)
  <2>1. /\ loans[l].status = "pending"
        /\ Book!Enter("cancel", l, Moved(loans[l], "cancelled"), 0)
    BY <1>5, SameRules DEF Book!Cancel
  <2>2. LET new == Moved(loans[l], "cancelled")
        IN /\ new \in Loan /\ new.borrower \in Borrowers
           /\ Moves("cancel", loans[l], new, 0)
    BY <1>2, <2>1 DEF Moved, Loan, Statuses, Moves
  <2> QED
    BY <2>1, <2>2
<1> QED
  BY <1>1, <1>3, <1>4, <1>5, TermsAssumption DEF Operations

(* What an active loan still owes is at least a stroop.                    *)
OwesAStroop ==
  \A l \in Loans :
    /\ loans[l].status = "pending" => loans[l].repaid = 0 /\ loans[l].due >= Stroop
    /\ loans[l].status = "active" => loans[l].repaid <= loans[l].due - Stroop

BookInv ==
  /\ TablesTyped
  /\ EventsAccountForLoan
  /\ ReputationCountsLoans
  /\ OwesAStroop

LEMMA EventsKept ==
  ASSUME TablesTyped, EventsAccountForLoan,
         NEW l \in Loans, NEW op \in Operations, NEW new \in Loan,
         NEW amount \in Nat,
         Book!Enter(op, l, new, amount), Moves(op, loans[l], new, amount)
  PROVE  EventsAccountForLoan'
<1>1. /\ loans' = [loans EXCEPT ![l] = new]
      /\ events' = [events EXCEPT ![l] = WithEvents(@, Logged(op, new))]
      /\ paid' = [paid EXCEPT ![l] = @ + amount]
  BY EnterIs, Zenon
<1>2. ASSUME NEW m \in Loans, m # l
      PROVE  loans'[m] = loans[m] /\ events'[m] = events[m] /\ paid'[m] = paid[m]
  BY <1>1, <1>2 DEF TablesTyped
<1>3. loans'[l] = new /\ paid'[l] = paid[l] + amount /\ loans[l] \in Loan
  BY <1>1 DEF TablesTyped
<1>4. ASSUME NEW t \in EventTypes
      PROVE  /\ events[l][t] \in Nat
             /\ events'[l][t] = events[l][t] + IF t \in Logged(op, new) THEN 1 ELSE 0
  BY <1>1, <1>4 DEF TablesTyped, WithEvents
<1>5. paid'[l] = new.repaid
  BY <1>3 DEF EventsAccountForLoan, Moves, NoLoan
<1>6. ASSUME NEW t \in EventTypes \ {"repayment"}
      PROVE  events'[l][t] = IF t \in Past(new.status) THEN 1 ELSE 0
  <2>1. events[l][t] = IF t \in Past(loans[l].status) THEN 1 ELSE 0
    BY <1>6 DEF EventsAccountForLoan
  <2>2. /\ t \in Past(new.status) <=>
             t \in Past(loans[l].status) \/ t \in Logged(op, new)
        /\ ~(t \in Past(loans[l].status) /\ t \in Logged(op, new))
    BY <1>6 DEF Moves, NoLoan, Past, Logged, EventTypes
  <2> QED
    BY <1>4, <1>6, <2>1, <2>2
<1> QED
  BY <1>2, <1>3, <1>5, <1>6 DEF EventsAccountForLoan

LEMMA OwesKept ==
  ASSUME TablesTyped, OwesAStroop,
         NEW l \in Loans, NEW op \in Operations, NEW new \in Loan,
         NEW amount \in Nat,
         Book!Enter(op, l, new, amount), Moves(op, loans[l], new, amount)
  PROVE  OwesAStroop'
<1>1. loans' = [loans EXCEPT ![l] = new]
  BY EnterIs, Zenon
<1>2. /\ loans'[l] = new /\ loans[l] \in Loan
      /\ \A m \in Loans : m # l => loans'[m] = loans[m]
  BY <1>1 DEF TablesTyped
<1>3. /\ new.status = "pending" => new.repaid = 0 /\ new.due >= Stroop
      /\ new.status = "active" => new.repaid <= new.due - Stroop
  BY <1>2, TermsAssumption DEF OwesAStroop, Moves, MayStayOpen, Loan
<1> QED
  BY <1>2, <1>3 DEF OwesAStroop

(* A set of loans that loses none gains the loan that enters it.           *)
Count(book, b, S) ==
  Cardinality({m \in Loans : book[m].borrower = b /\ book[m].status \in S})

(* 1 when new, in the place of row, is one more of those counted.          *)
Joins(row, new, b, S) ==
  IF /\ new.borrower = b /\ new.status \in S
     /\ ~(row.borrower = b /\ row.status \in S)
  THEN 1 ELSE 0

(* Nor does it leave it.                                                   *)
Stays(row, new, b, S) ==
  row.borrower = b /\ row.status \in S => new.borrower = b /\ new.status \in S

Replaced(book, next, l, new) ==
  \A m \in Loans : next[m] = IF m = l THEN new ELSE book[m]

LEMMA CountGrows ==
  ASSUME NEW book, NEW next, NEW l \in Loans, NEW new, NEW b, NEW S,
         Replaced(book, next, l, new), Stays(book[l], new, b, S)
  PROVE  /\ Count(book, b, S) \in Nat
         /\ Count(next, b, S) = Count(book, b, S) + Joins(book[l], new, b, S)
<1> DEFINE old == {m \in Loans : book[m].borrower = b /\ book[m].status \in S}
           cur == {m \in Loans : next[m].borrower = b /\ next[m].status \in S}
<1>1. IsFiniteSet(old) /\ Cardinality(old) \in Nat
  BY TermsAssumption, FS_Subset, FS_CardinalityType
<1>2. Count(book, b, S) = Cardinality(old) /\ Count(next, b, S) = Cardinality(cur)
  BY Zenon DEF Count
<1>3. CASE /\ new.borrower = b /\ new.status \in S
           /\ ~(book[l].borrower = b /\ book[l].status \in S)
  <2>1. cur = old \cup {l} /\ l \notin old
    BY <1>3 DEF Replaced
  <2>2. Cardinality(cur) = Cardinality(old) + 1
    BY <1>1, <2>1, FS_AddElement
  <2> QED
    BY <1>1, <1>2, <1>3, <2>2 DEF Joins
<1>4. CASE ~(/\ new.borrower = b /\ new.status \in S
             /\ ~(book[l].borrower = b /\ book[l].status \in S))
  <2>1. cur = old
    BY <1>4 DEF Replaced, Stays
  <2> HIDE DEF old, cur
  <2> QED
    BY <1>1, <1>2, <1>4, <2>1 DEF Joins
<1> QED
  BY <1>3, <1>4

(* The statuses the counters count.                                        *)
OnTime == {"repaid"}
Failed == {"defaulted"}

LEMMA ReputationKept ==
  ASSUME TablesTyped, ReputationCountsLoans,
         NEW l \in Loans, NEW op \in Operations, NEW new \in Loan,
         NEW amount \in Nat, new.borrower \in Borrowers,
         Book!Enter(op, l, new, amount), Moves(op, loans[l], new, amount)
  PROVE  ReputationCountsLoans'
<1> DEFINE c == Counter(op, new)
<1>1. /\ loans' = [loans EXCEPT ![l] = new]
      /\ reputation' = IF c = "none" THEN reputation
           ELSE [reputation EXCEPT ![new.borrower] = Bumped(@, c)]
  BY EnterIs, Zenon
<1> SUFFICES ASSUME NEW b \in Borrowers
    PROVE  LET row == reputation'[b]
           IN /\ row.total_loans = Count(loans', b, Statuses)
              /\ row.on_time_repayments = Count(loans', b, OnTime)
              /\ row.defaults = Count(loans', b, Failed)
              /\ row.score = Score(row.on_time_repayments, row.defaults)
  BY DEF ReputationCountsLoans, LoansOf, Count, OnTime, Failed
<1> DEFINE row == reputation[b]
           Gain(counter) == IF new.borrower = b /\ c = counter THEN 1 ELSE 0
<1>2. /\ loans[l] \in Loan /\ row \in Reputation
      /\ row.total_loans = Count(loans, b, Statuses)
      /\ row.on_time_repayments = Count(loans, b, OnTime)
      /\ row.defaults = Count(loans, b, Failed)
      /\ row.score = Score(row.on_time_repayments, row.defaults)
  BY DEF TablesTyped, ReputationCountsLoans, LoansOf, Count, OnTime, Failed
<1>0. Replaced(loans, loans', l, new)
  BY <1>1 DEF TablesTyped, Replaced
<1>3. Count(loans', b, Statuses) = Count(loans, b, Statuses) + Gain("total_loans")
  <2>1. /\ Stays(loans[l], new, b, Statuses)
        /\ c = "total_loans" <=> new.status \in Statuses /\ loans[l].status \notin Statuses
        /\ c = "total_loans" => loans[l].status \notin Statuses
        /\ loans[l].status \in Statuses => new.borrower = loans[l].borrower
    BY <1>2 DEF Stays, Moves, Counter, NoLoan, Loan, Statuses
  <2>2. /\ Count(loans, b, Statuses) \in Nat
        /\ Count(loans', b, Statuses) = Count(loans, b, Statuses) + Joins(loans[l], new, b, Statuses)
    BY <1>0, <2>1, CountGrows
  <2> HIDE DEF c
  <2> QED
    BY <2>1, <2>2 DEF Joins
<1>4. Count(loans', b, OnTime) = Count(loans, b, OnTime) + Gain("on_time_repayments")
  <2>1. Stays(loans[l], new, b, OnTime)
    BY <1>2 DEF Stays, Moves, NoLoan, OnTime
  <2>2. /\ Count(loans, b, OnTime) \in Nat
        /\ Count(loans', b, OnTime) = Count(loans, b, OnTime) + Joins(loans[l], new, b, OnTime)
    BY <1>0, <2>1, CountGrows
  <2>3. /\ loans[l].status \notin OnTime
        /\ c = "on_time_repayments" <=> new.status \in OnTime
    BY <1>2 DEF Moves, Counter, NoLoan, Loan, Statuses, OnTime
  <2> HIDE DEF c
  <2> QED
    BY <2>2, <2>3 DEF Joins
<1>5. Count(loans', b, Failed) = Count(loans, b, Failed) + Gain("defaults")
  <2>1. Stays(loans[l], new, b, Failed)
    BY <1>2 DEF Stays, Moves, NoLoan, Failed
  <2>2. /\ Count(loans, b, Failed) \in Nat
        /\ Count(loans', b, Failed) = Count(loans, b, Failed) + Joins(loans[l], new, b, Failed)
    BY <1>0, <2>1, CountGrows
  <2>3. /\ loans[l].status \notin Failed
        /\ c = "defaults" <=> new.status \in Failed
    BY <1>2 DEF Moves, Counter, NoLoan, Loan, Statuses, Failed
  <2> HIDE DEF c
  <2> QED
    BY <2>2, <2>3 DEF Joins
<1>6. CASE c = "none" \/ new.borrower # b
  <2>1. reputation'[b] = row
    BY <1>1, <1>6 DEF TablesTyped
  <2> QED
    BY <1>2, <1>3, <1>4, <1>5, <1>6, <2>1 DEF Reputation
<1>7. CASE c # "none" /\ new.borrower = b
  <2>1. c \in Counters
    BY <1>7, CounterTyped
  <2>2. reputation'[b] = Bumped(row, c)
    BY <1>1, <1>7 DEF TablesTyped
  <2> HIDE DEF c, row
  <2> DEFINE counts == [row EXCEPT ![c] = @ + 1]
  <2>3. /\ counts \in Reputation
        /\ counts.total_loans = row.total_loans + Gain("total_loans")
        /\ counts.on_time_repayments = row.on_time_repayments + Gain("on_time_repayments")
        /\ counts.defaults = row.defaults + Gain("defaults")
    BY <1>2, <1>7, <2>1 DEF Reputation, Counters
  <2> HIDE DEF counts
  <2>4. LET u == Bumped(row, c)
        IN /\ u.total_loans = counts.total_loans
           /\ u.on_time_repayments = counts.on_time_repayments
           /\ u.defaults = counts.defaults
           /\ u.score = Score(counts.on_time_repayments, counts.defaults)
    <3>1. Bumped(row, c) = [counts EXCEPT !.score =
                              Score(counts.on_time_repayments, counts.defaults)]
      BY DEF Bumped, counts
    <3> QED
      BY <2>3, <3>1 DEF Reputation
  <2> QED
    BY <1>2, <1>3, <1>4, <1>5, <2>2, <2>3, <2>4
<1> QED
  BY <1>6, <1>7

LEMMA BookInvInit == Init => BookInv
<1> SUFFICES ASSUME Init PROVE BookInv
  OBVIOUS
<1>1. TablesTyped
  BY InitIInv DEF IInv, TypeOK, TablesTyped
<1>2. EventsAccountForLoan
  BY DEF Init, EventsAccountForLoan, NoLoan, NoEvents, Past, EventTypes
<1>3. OwesAStroop
  BY DEF Init, OwesAStroop, NoLoan
<1>4. ReputationCountsLoans
  <2>1. ASSUME NEW b \in Borrowers, NEW S \in SUBSET Statuses
        PROVE  LoansOf(b, S) = 0
    <3>1. {l \in Loans : loans[l].borrower = b /\ loans[l].status \in S} = {}
      BY DEF Init, NoLoan, Statuses
    <3>2. Cardinality({}) = 0
      BY FS_EmptySet
    <3> QED
      BY <3>1, <3>2, Zenon DEF LoansOf
  <2>2. Score(0, 0) = 5000
    <3>1. (20000 * 1 + 2) \div 4 = 5000
      OBVIOUS
    <3> QED
      BY <3>1 DEF Score
  <2>3. ASSUME NEW b \in Borrowers
        PROVE  /\ LoansOf(b, Statuses) = 0
               /\ LoansOf(b, {"repaid"}) = 0
               /\ LoansOf(b, {"defaulted"}) = 0
    BY <2>1, Zenon DEF Statuses
  <2> QED
    BY <2>2, <2>3 DEF Init, ReputationCountsLoans, NoReputation
<1> QED
  BY <1>1, <1>2, <1>3, <1>4 DEF BookInv

LEMMA BookInvKept ==
  ASSUME BookInv, [Book!Next]_(Book!vars)
  PROVE  BookInv'
<1>1. CASE UNCHANGED Book!vars
  <2>1. TablesTyped' /\ EventsAccountForLoan' /\ OwesAStroop'
    BY <1>1 DEF BookInv, TablesTyped, BorrowersKnown, EventsAccountForLoan,
       OwesAStroop, Book!vars
  <2>2. loans' = loans /\ reputation' = reputation
    BY <1>1 DEF Book!vars
  <2>3. ReputationCountsLoans'
    <3>1. ASSUME NEW b \in Borrowers
          PROVE  /\ Count(loans', b, Statuses) = Count(loans, b, Statuses)
                 /\ Count(loans', b, OnTime) = Count(loans, b, OnTime)
                 /\ Count(loans', b, Failed) = Count(loans, b, Failed)
      BY <2>2
    <3> QED
      BY <2>2, <3>1 DEF BookInv, ReputationCountsLoans, LoansOf, Count,
         OnTime, Failed
  <2> QED
    BY <2>1, <2>3 DEF BookInv
<1>2. CASE Book!Next
  <2>1. PICK l \in Loans, op \in Operations, new \in Loan, amount \in Nat :
          /\ Book!Enter(op, l, new, amount)
          /\ new.borrower \in Borrowers
          /\ Moves(op, loans[l], new, amount)
    BY <1>2, BookCallMoves DEF BookInv
  <2>2. TablesTyped'
    BY <2>1, EnterTyped DEF BookInv
  <2>3. EventsAccountForLoan'
    BY <2>1, EventsKept DEF BookInv
  <2>4. OwesAStroop'
    BY <2>1, OwesKept DEF BookInv
  <2>5. ReputationCountsLoans'
    BY <2>1, ReputationKept DEF BookInv
  <2> QED
    BY <2>2, <2>3, <2>4, <2>5 DEF BookInv
<1> QED
  BY <1>1, <1>2

LEMMA BookInvHolds == Spec => []BookInv
<1>1. Init => BookInv
  BY BookInvInit
<1>2. IInv /\ BookInv /\ [Next]_vars => BookInv'
  BY NextKeeps, BookInvKept
<1> QED
  BY <1>1, <1>2, IInvHolds, PTL DEF Spec

(* The event log of a loan accounts for its row.                           *)
LEMMA LogIsRight == Spec => []EventsAccountForLoan
<1>1. BookInv => EventsAccountForLoan
  BY DEF BookInv
<1> QED
  BY <1>1, BookInvHolds, PTL

(* A borrower's counters are the numbers of its loans.                     *)
THEOREM ReputationIsRight == Spec => []ReputationCountsLoans
<1>1. BookInv => ReputationCountsLoans
  BY DEF BookInv
<1> QED
  BY <1>1, BookInvHolds, PTL

LEMMA WholeStroops ==
  ASSUME NEW owed \in Nat, owed >= Stroop
  PROVE  \E n \in 1 .. owed : n * Stroop <= owed /\ owed < n * Stroop + Stroop
<1>1. Stroop \in Nat /\ Stroop > 0
  BY TermsAssumption
<1> DEFINE n == owed \div Stroop
<1>2. n \in Int
  BY <1>1
<1>3. Stroop * n <= owed
  BY <1>1
<1>4. owed < Stroop * n + Stroop
  BY <1>1
<1> HIDE DEF n
<1>5. n >= 1
  <2>1. CASE n <= 0
    <3>1. Stroop * n <= 0
      BY <1>1, <1>2, <2>1
    <3> QED
      BY <1>1, <1>2, <1>4, <3>1
  <2> QED
    BY <1>2, <2>1
<1>6. n <= n * Stroop /\ n * Stroop = Stroop * n
  BY <1>1, <1>2, <1>5
<1> QED
  BY <1>1, <1>2, <1>3, <1>4, <1>5, <1>6

(* An active loan can be paid off.                                         *)
LEMMA ActivesCanClose == Spec => []ActiveCanClose
<1>1. BookInv => ActiveCanClose
  <2> SUFFICES ASSUME BookInv, NEW l \in Loans, loans[l].status = "active"
      PROVE  \E stroops \in 1 .. loans[l].due :
               LET amount == stroops * Stroop
               IN /\ ~MayRefuse(loans[l], amount)
                  /\ loans[l].repaid + amount <= loans[l].due
                  /\ ~MayStayOpen(loans[l], amount)
    BY DEF ActiveCanClose
  <2> DEFINE owed == loans[l].due - loans[l].repaid
  <2>1. /\ loans[l].due \in Nat /\ loans[l].repaid \in Nat /\ Stroop \in Nat
        /\ Stroop > 0 /\ owed \in Nat /\ owed >= Stroop /\ owed <= loans[l].due
    BY TermsAssumption DEF BookInv, TablesTyped, OwesAStroop, Loan
  <2> HIDE DEF owed
  <2>2. PICK n \in 1 .. owed : n * Stroop <= owed /\ owed < n * Stroop + Stroop
    BY <2>1, WholeStroops
  <2> DEFINE amount == n * Stroop
  <2>3. amount \in Nat /\ n \in 1 .. loans[l].due
    BY <2>1, <2>2
  <2>4. amount <= owed /\ owed < amount + Stroop
    BY <2>2
  <2> HIDE DEF amount
  <2>5. /\ ~MayRefuse(loans[l], amount)
        /\ loans[l].repaid + amount <= loans[l].due
        /\ ~MayStayOpen(loans[l], amount)
    BY <2>1, <2>3, <2>4 DEF MayRefuse, MayStayOpen, owed
  <2> QED
    BY <2>3, <2>5 DEF amount
<1> QED
  BY <1>1, BookInvHolds, PTL

(* Log and row of every loan agree, and an active loan can be paid off,    *)
(* however the handlers overlap and fail.                                  *)
THEOREM LoansAccountedFor == Spec => []LoansSound
BY LogIsRight, ActivesCanClose, PTL DEF LoansSound

(* A loan that ended stays as it ended, and no repayment is undone.        *)
Lasts(row, next) ==
  /\ row.status \in {"repaid", "defaulted", "cancelled"} => next = row
  /\ next.repaid >= row.repaid

THEOREM LoansEndOnce == Spec => EndsOnce
<1>1. ASSUME BookInv, [Book!Next]_(Book!vars), NEW m \in Loans
      PROVE  Lasts(loans[m], loans'[m])
  <2>1. CASE UNCHANGED Book!vars
    BY <1>1, <2>1 DEF Lasts, BookInv, TablesTyped, Loan, Book!vars
  <2>2. CASE Book!Next
    <3>1. PICK l \in Loans, op \in Operations, new \in Loan, amount \in Nat :
            /\ Book!Enter(op, l, new, amount)
            /\ new.borrower \in Borrowers
            /\ Moves(op, loans[l], new, amount)
      BY <1>1, <2>2, BookCallMoves DEF BookInv
    <3>2. loans' = [loans EXCEPT ![l] = new]
      BY <1>1, <3>1, EnterIs, Zenon DEF BookInv
    <3>3. loans'[m] = (IF m = l THEN new ELSE loans[m]) /\ loans[m] \in Loan
      BY <1>1, <3>2 DEF BookInv, TablesTyped
    <3>4. Lasts(loans[l], new)
      BY <1>1, <3>1 DEF Lasts, Moves, NoLoan, BookInv, TablesTyped, Loan
    <3> QED
      BY <3>3, <3>4 DEF Lasts, Loan
  <2> QED
    BY <1>1, <2>1, <2>2
<1>2. IInv /\ BookInv /\ [Next]_vars =>
        [\A l \in Loans :
           /\ loans[l].status \in {"repaid", "defaulted", "cancelled"} =>
                loans'[l] = loans[l]
           /\ loans'[l].repaid >= loans[l].repaid]_loans
  BY <1>1, NextKeeps DEF Lasts
<1> QED
  BY <1>2, IInvHolds, BookInvHolds, PTL DEF Spec, EndsOnce
=============================================================================
