--------------------------- MODULE MultisigProofs ---------------------------
(***************************************************************************)
(* Proofs about Multisig for any requests, calls in flight, hashes and     *)
(* thresholds, and about three of the components MCMultisig checks beside  *)
(* it: SignIn for any addresses, tabs, lifetimes and bounds, MembersScreen *)
(* for any people, MultisigScreen for any calls, thresholds and presses.   *)
(***************************************************************************)
EXTENDS MCMultisig, TLAPS

(* What a handler carries from its SELECT to its UPDATE stays true of the  *)
(* row while it is suspended, however stale the count has become: the row  *)
(* exists, its threshold is out of reach of the count that was read, and   *)
(* that many approvals have been answered.                                 *)
CallsGrounded ==
  \A c \in Calls : calls[c] # Idle =>
    /\ calls[c].op \in Operations
    /\ calls[c].request \in Requests
    /\ rows[calls[c].request].status # "none"
    /\ calls[c].seen <= approvals[calls[c].request]
    /\ calls[c].op = "approve" =>
         calls[c].seen < rows[calls[c].request].required
    /\ calls[c].op = "execute" => calls[c].hash \in TxHashes

IInv ==
  /\ TypeOK
  /\ CallsGrounded
  /\ StatusMatchesCount
  /\ CountBackedByApprovals

-----------------------------------------------------------------------------
(* What one successful UPDATE does to the rows: the row of the call's      *)
(* request is replaced, and the table's constraints still hold.            *)
LEMMA StoreKeepsRowsLegal ==
  ASSUME TypeOK, NEW c \in Calls, NEW r \in Requests, NEW row \in Row,
         StoreRow(c, r, row)
  PROVE  /\ rows' \in [Requests -> Row]
         /\ rows'[r] = row
         /\ \A q \in Requests \ {r} : rows'[q] = rows[q]
         /\ calls' \in [Calls -> Call]
         /\ calls'[c] = Idle
         /\ \A d \in Calls \ {c} : calls'[d] = calls[d]
         /\ \A q \in Requests : LegalRow(q, rows[q])'
<1>1. /\ rows' \in [Requests -> Row]
      /\ rows'[r] = row
      /\ \A q \in Requests \ {r} : rows'[q] = rows[q]
  BY DEF TypeOK, StoreRow
<1>2. Idle \in Call
  BY DEF Idle, Call
<1>3. /\ calls' \in [Calls -> Call]
      /\ calls'[c] = Idle
      /\ \A d \in Calls \ {c} : calls'[d] = calls[d]
  BY <1>2 DEF TypeOK, StoreRow
<1>4. ASSUME NEW q \in Requests PROVE LegalRow(q, rows[q])'
  <2>1. LegalRow(q, rows[q]) /\ LegalRow(r, row)
    BY DEF TypeOK, StoreRow
  <2>2. CASE q = r
    BY <1>1, <2>1, <2>2 DEF LegalRow
  <2>3. CASE q # r
    <3>1. rows'[q] = rows[q]
      BY <1>1, <2>3
    <3>2. ASSUME NEW other \in Requests \ {q}, rows[q].hash # None
          PROVE  rows'[other].hash # rows[q].hash
      BY <1>1, <2>1, <2>3, <3>2 DEF LegalRow
    <3>3. QED
      BY <2>1, <3>1, <3>2 DEF LegalRow
  <2>4. QED
    BY <2>2, <2>3
<1>5. QED
  BY <1>1, <1>3, <1>4

(* The rows the handlers write are rows.                                   *)
LEMMA WrittenRowsTyped ==
  ASSUME TypeOK, NEW r \in Requests
  PROVE  /\ \A n \in Nat : ApprovedRow(r, n) \in Row
         /\ RejectedRow(r) \in Row
         /\ \A h \in TxHashes : ExecutedRow(r, h) \in Row
<1>1. rows[r] \in Row
  BY DEF TypeOK
<1>2. ASSUME NEW n \in Nat PROVE ApprovedRow(r, n) \in Row
  <2>1. n + 1 \in Nat
    OBVIOUS
  <2>2. QED
    BY <1>1, <2>1 DEF ApprovedRow, Row
<1>3. RejectedRow(r) \in Row
  BY <1>1 DEF RejectedRow, Row
<1>4. ASSUME NEW h \in TxHashes PROVE ExecutedRow(r, h) \in Row
  BY <1>1 DEF ExecutedRow, Row
<1>5. QED
  BY <1>2, <1>3, <1>4

-----------------------------------------------------------------------------
(* The steps of the handlers preserve the invariant, one lemma each.       *)

LEMMA CreateKeepsIInv ==
  ASSUME IInv, NEW r \in Requests, NEW n \in Thresholds, CreateRequest(r, n)
  PROVE  IInv'
<1> DEFINE row == NewRow(n)
<1>1. /\ row \in Row
      /\ row.status = "pending" /\ row.required = n /\ row.current = 0
      /\ row.hash = None /\ ~row.executed_at /\ n >= 1 /\ n \in Nat
  BY BoundsAssumption DEF NewRow, Row
<1> HIDE DEF row
<1>2. /\ rows' \in [Requests -> Row]
      /\ rows'[r] = row
      /\ \A q \in Requests \ {r} : rows'[q] = rows[q]
      /\ UNCHANGED <<calls, approvals, rejected>>
  BY <1>1 DEF IInv, TypeOK, CreateRequest, row
<1>3. ASSUME NEW q \in Requests PROVE LegalRow(q, rows[q])'
  <2>1. CASE q = r
    BY <1>1, <1>2, <2>1 DEF LegalRow
  <2>2. CASE q # r
    <3>1. LegalRow(q, rows[q]) /\ rows'[q] = rows[q]
      BY <1>2, <2>2 DEF IInv, TypeOK
    <3>2. ASSUME NEW other \in Requests \ {q}, rows[q].hash # None
          PROVE  rows'[other].hash # rows[q].hash
      BY <1>1, <1>2, <3>1, <3>2 DEF LegalRow
    <3>3. QED
      BY <3>1, <3>2 DEF LegalRow
  <2>3. QED
    BY <2>1, <2>2
<1>4. TypeOK'
  BY <1>2, <1>3 DEF IInv, TypeOK
<1>5. CallsGrounded'
  BY <1>2 DEF IInv, CallsGrounded, CreateRequest
<1>6. StatusMatchesCount'
  BY <1>1, <1>2 DEF IInv, StatusMatchesCount
<1>7. CountBackedByApprovals'
  BY <1>1, <1>2 DEF IInv, TypeOK, CountBackedByApprovals
<1>8. QED
  BY <1>4, <1>5, <1>6, <1>7 DEF IInv

LEMMA ReadKeepsIInv ==
  ASSUME IInv, NEW c \in Calls, NEW op \in Operations, NEW r \in Requests,
         NEW hash \in TxHashes \cup {None},
         op = "execute" => hash \in TxHashes, ReadRow(c, op, r, hash)
  PROVE  IInv'
<1> DEFINE call == [op |-> op, request |-> r, seen |-> rows[r].current,
                    hash |-> hash]
<1>1. /\ call \in Call
      /\ call.op = op /\ call.request = r /\ call.hash = hash
      /\ call.seen = rows[r].current
  BY DEF IInv, TypeOK, Row, Call
<1>2. calls' = [calls EXCEPT ![c] = call]
  BY DEF ReadRow
<1> HIDE DEF call
<1>3. /\ calls' \in [Calls -> Call]
      /\ calls'[c] = call
      /\ \A d \in Calls \ {c} : calls'[d] = calls[d]
      /\ UNCHANGED <<rows, approvals, rejected>>
  BY <1>1, <1>2 DEF IInv, TypeOK, ReadRow
<1>4. TypeOK'
  BY <1>3 DEF IInv, TypeOK, LegalRow
<1>5. CallsGrounded'
  <2>1. /\ rows[r].status # "none"
        /\ op = "approve" => rows[r].current < rows[r].required
        /\ rows[r].current <= approvals[r]
    BY DEF IInv, ReadRow, Admits, StatusMatchesCount, CountBackedByApprovals
  <2>2. QED
    BY <1>1, <1>3, <2>1 DEF IInv, CallsGrounded
<1>6. StatusMatchesCount' /\ CountBackedByApprovals'
  BY <1>3 DEF IInv, StatusMatchesCount, CountBackedByApprovals
<1>7. QED
  BY <1>4, <1>5, <1>6 DEF IInv

LEMMA ApproveKeepsIInv ==
  ASSUME IInv, NEW c \in Calls, Approve(c)
  PROVE  IInv'
<1> DEFINE r == calls[c].request
           seen == calls[c].seen
<1>1. /\ r \in Requests
      /\ seen \in Nat /\ seen < rows[r].required /\ seen <= approvals[r]
      /\ rows[r] \in Row /\ approvals[r] \in Nat
  BY DEF IInv, CallsGrounded, Approve, TypeOK, Call, Idle
<1>2. PICK q \in Requests, n \in Nat : q = r /\ n = seen
  BY <1>1
<1>3. ApprovedRow(q, n) \in Row
  BY WrittenRowsTyped DEF IInv
<1>4. StoreRow(c, q, ApprovedRow(q, n))
  BY <1>2 DEF Approve
<1>5. PICK row \in Row : row = ApprovedRow(q, n)
  BY <1>3
<1>6. /\ row.current = n + 1
      /\ row.required = rows[q].required
      /\ row.status = IF n + 1 >= rows[q].required THEN "approved" ELSE "pending"
  BY <1>1, <1>2, <1>5 DEF ApprovedRow, Row
<1>7. /\ rows' \in [Requests -> Row]
      /\ rows'[q] = row
      /\ \A p \in Requests \ {q} : rows'[p] = rows[p]
      /\ calls' \in [Calls -> Call]
      /\ calls'[c] = Idle
      /\ \A d \in Calls \ {c} : calls'[d] = calls[d]
      /\ \A p \in Requests : LegalRow(p, rows[p])'
  BY <1>4, <1>5, StoreKeepsRowsLegal DEF IInv
<1>8. /\ approvals' \in [Requests -> Nat]
      /\ approvals'[q] = approvals[q] + 1
      /\ \A p \in Requests \ {q} : approvals'[p] = approvals[p]
      /\ rejected' = rejected
  BY <1>1, <1>2 DEF IInv, TypeOK, Approve
<1>9. TypeOK'
  BY <1>7, <1>8 DEF IInv, TypeOK
<1>10. CallsGrounded'
  <2> SUFFICES ASSUME NEW d \in Calls, calls'[d] # Idle
               PROVE  /\ calls'[d].op \in Operations
                      /\ calls'[d].request \in Requests
                      /\ rows'[calls'[d].request].status # "none"
                      /\ calls'[d].seen <= approvals'[calls'[d].request]
                      /\ calls'[d].op = "approve" =>
                           calls'[d].seen < rows'[calls'[d].request].required
                      /\ calls'[d].op = "execute" => calls'[d].hash \in TxHashes
    BY DEF CallsGrounded
  <2>1. d # c /\ calls'[d] = calls[d] /\ calls[d] \in Call
    BY <1>7 DEF IInv, TypeOK
  <2>2. PICK p \in Requests : p = calls[d].request
    BY <2>1 DEF IInv, CallsGrounded
  <2>3. /\ rows'[p].status # "none" /\ rows'[p].required = rows[p].required
        /\ approvals[p] <= approvals'[p]
    <3>1. CASE p = q
      BY <1>1, <1>2, <1>6, <1>7, <1>8, <3>1
    <3>2. CASE p # q
      BY <1>7, <1>8, <2>1, <2>2, <3>2 DEF IInv, CallsGrounded, TypeOK
    <3>3. QED
      BY <3>1, <3>2
  <2>4. /\ calls[d].op \in Operations
        /\ calls[d].seen <= approvals[p]
        /\ calls[d].op = "approve" => calls[d].seen < rows[p].required
        /\ calls[d].op = "execute" => calls[d].hash \in TxHashes
    BY <2>1, <2>2 DEF IInv, CallsGrounded
  <2>5. calls[d].seen \in Nat /\ approvals[p] \in Nat /\ approvals'[p] \in Nat
    BY <1>8, <2>1 DEF IInv, TypeOK, Call
  <2>6. QED
    BY <2>1, <2>2, <2>3, <2>4, <2>5
<1>11. StatusMatchesCount'
  BY <1>1, <1>2, <1>6, <1>7, SMTT(20) DEF IInv, StatusMatchesCount, Row
<1>12. CountBackedByApprovals'
  BY <1>1, <1>2, <1>6, <1>7, <1>8 DEF IInv, CountBackedByApprovals
<1>13. QED
  BY <1>9, <1>10, <1>11, <1>12 DEF IInv

(* A rejection and an execution change neither count nor threshold.        *)
LEMMA DecideKeepsIInv ==
  ASSUME IInv, NEW c \in Calls, NEW r \in Requests, NEW row \in Row,
         StoreRow(c, r, row), rows[r].status # "none",
         row.status \in {"rejected", "executed"},
         row.required = rows[r].required, row.current = rows[r].current,
         rejected' \subseteq Requests, UNCHANGED approvals
  PROVE  IInv'
<1>1. /\ rows' \in [Requests -> Row]
      /\ rows'[r] = row
      /\ \A q \in Requests \ {r} : rows'[q] = rows[q]
      /\ calls' \in [Calls -> Call]
      /\ calls'[c] = Idle
      /\ \A d \in Calls \ {c} : calls'[d] = calls[d]
      /\ \A q \in Requests : LegalRow(q, rows[q])'
  BY StoreKeepsRowsLegal DEF IInv
<1>2. TypeOK'
  BY <1>1 DEF IInv, TypeOK
<1>3. \A q \in Requests :
        /\ rows'[q].required = rows[q].required
        /\ rows'[q].current = rows[q].current
        /\ rows[q].status # "none" => rows'[q].status # "none"
  BY <1>1
<1>4. CallsGrounded'
  BY <1>1, <1>3 DEF IInv, CallsGrounded
<1>5. StatusMatchesCount'
  BY <1>1 DEF IInv, StatusMatchesCount
<1>6. CountBackedByApprovals'
  BY <1>3 DEF IInv, CountBackedByApprovals
<1>7. QED
  BY <1>2, <1>4, <1>5, <1>6 DEF IInv

LEMMA RejectKeepsIInv ==
  ASSUME IInv, NEW c \in Calls, Reject(c)
  PROVE  IInv'
<1>1. PICK r \in Requests : r = calls[c].request
  BY DEF IInv, CallsGrounded, Reject, Idle
<1>2. rows[r].status # "none" /\ rows[r] \in Row
  BY <1>1 DEF IInv, CallsGrounded, Reject, Idle, TypeOK
<1>3. PICK row \in Row : row = RejectedRow(r)
  BY WrittenRowsTyped DEF IInv
<1>4. /\ row.status = "rejected" /\ row.required = rows[r].required
      /\ row.current = rows[r].current
  BY <1>2, <1>3 DEF RejectedRow, Row
<1>5. StoreRow(c, r, row)
  BY <1>1, <1>3 DEF Reject
<1>6. rejected' \subseteq Requests /\ UNCHANGED approvals
  BY <1>1 DEF Reject, IInv, TypeOK
<1>7. QED
  BY <1>2, <1>4, <1>5, <1>6, DecideKeepsIInv

LEMMA ExecuteKeepsIInv ==
  ASSUME IInv, NEW c \in Calls, Execute(c)
  PROVE  IInv'
<1>1. PICK r \in Requests : r = calls[c].request
  BY DEF IInv, CallsGrounded, Execute, Idle
<1>2. rows[r].status # "none" /\ rows[r] \in Row /\ calls[c].hash \in TxHashes
  BY <1>1 DEF IInv, CallsGrounded, Execute, Idle, TypeOK
<1>3. PICK h \in TxHashes : h = calls[c].hash
  BY <1>2
<1>4. PICK row \in Row : row = ExecutedRow(r, h)
  BY WrittenRowsTyped DEF IInv
<1>5. /\ row.status = "executed" /\ row.required = rows[r].required
      /\ row.current = rows[r].current
  BY <1>2, <1>4 DEF ExecutedRow, Row
<1>6. StoreRow(c, r, row)
  BY <1>1, <1>3, <1>4 DEF Execute
<1>7. rejected' \subseteq Requests /\ UNCHANGED approvals
  BY DEF Execute, IInv, TypeOK
<1>8. QED
  BY <1>2, <1>5, <1>6, <1>7, DecideKeepsIInv

LEMMA RefusedKeepsIInv ==
  ASSUME IInv, NEW c \in Calls, Refused(c)
  PROVE  IInv'
<1>1. /\ calls' = [d \in Calls |-> Idle]
      /\ UNCHANGED <<rows, approvals, rejected>>
  BY DEF Refused
<1>2. Idle \in Call
  BY DEF Idle, Call
<1>3. TypeOK'
  BY <1>1, <1>2 DEF IInv, TypeOK, LegalRow
<1>4. CallsGrounded' /\ StatusMatchesCount' /\ CountBackedByApprovals'
  BY <1>1 DEF IInv, CallsGrounded, StatusMatchesCount, CountBackedByApprovals
<1>5. QED
  BY <1>3, <1>4 DEF IInv

-----------------------------------------------------------------------------
LEMMA InvariantHolds == Spec => []IInv
<1>1. Init => IInv
  <2> SUFFICES ASSUME Init PROVE IInv
    OBVIOUS
  <2>1. NoRow \in Row /\ Idle \in Call
    BY DEF NoRow, Row, Idle, Call
  <2>2. TypeOK
    BY <2>1 DEF Init, TypeOK, LegalRow, NoRow
  <2>3. CallsGrounded /\ StatusMatchesCount /\ CountBackedByApprovals
    BY DEF Init, CallsGrounded, StatusMatchesCount, CountBackedByApprovals, NoRow
  <2>4. QED
    BY <2>2, <2>3 DEF IInv
<1>2. IInv /\ [Next]_vars => IInv'
  <2> SUFFICES ASSUME IInv, [Next]_vars PROVE IInv'
    OBVIOUS
  <2>1. ASSUME NEW c \in Calls, NEW r \in Requests,
               NEW op \in {"approve", "reject"}, ReadRow(c, op, r, None)
        PROVE  IInv'
    BY <2>1, ReadKeepsIInv DEF Operations
  <2>2. ASSUME NEW c \in Calls, NEW r \in Requests, NEW h \in TxHashes,
               ReadRow(c, "execute", r, h)
        PROVE  IInv'
    BY <2>2, ReadKeepsIInv DEF Operations
  <2>3. CASE UNCHANGED vars
    BY <2>3 DEF vars, IInv, TypeOK, LegalRow, CallsGrounded,
                StatusMatchesCount, CountBackedByApprovals
  <2>4. QED
    BY <2>1, <2>2, <2>3, CreateKeepsIInv, ApproveKeepsIInv, RejectKeepsIInv,
       ExecuteKeepsIInv, RefusedKeepsIInv DEF Next
<1>3. QED
  BY <1>1, <1>2, PTL DEF Spec

(* Every stored row meets the constraints of its table.                    *)
THEOREM TypeCorrect == Spec => []TypeOK
BY InvariantHolds, PTL DEF IInv

(* The count, the status and the approvals that were answered agree as far *)
(* as they do, in every interleaving of the handlers.                      *)
THEOREM CountsAgree == Spec => []CountsSound
BY InvariantHolds, PTL DEF IInv, CountsSound

(* Nothing undoes an execution.                                            *)
THEOREM ExecutionIsFinal == Spec => ExecutedIsFinal
<1>1. IInv /\ [Next]_vars =>
        [\A r \in Requests :
           rows[r].status = "executed" => rows'[r].status = "executed"]_vars
  <2> SUFFICES ASSUME IInv, Next, NEW r \in Requests, rows[r].status = "executed"
               PROVE  rows'[r].status = "executed"
    OBVIOUS
  <2>1. rows[r] \in Row /\ rows[r].executed_at
    BY DEF IInv, TypeOK, LegalRow
  <2>2. CASE rows'[r] = rows[r]
    BY <2>2
  <2>3. ASSUME NEW q \in Requests, NEW n \in Thresholds, CreateRequest(q, n)
        PROVE  rows'[r] = rows[r]
    BY <2>3 DEF CreateRequest, IInv, TypeOK
  <2>4. ASSUME NEW c \in Calls, NEW q \in Requests, q = calls[c].request,
               NEW row \in Row, StoreRow(c, q, row),
               row.executed_at = rows[q].executed_at \/ row.status = "executed"
        PROVE  rows'[r].status = "executed"
    <3>1. CASE q = r
      BY <2>1, <2>4, <3>1 DEF StoreRow, LegalRow, IInv, TypeOK
    <3>2. CASE q # r
      BY <2>4, <3>2 DEF StoreRow, IInv, TypeOK
    <3>3. QED
      BY <3>1, <3>2
  <2>5. ASSUME NEW c \in Calls, Approve(c) PROVE rows'[r].status = "executed"
    <3>1. PICK q \in Requests, n \in Nat :
            q = calls[c].request /\ n = calls[c].seen
      BY <2>5 DEF Approve, IInv, CallsGrounded, Idle, TypeOK, Call
    <3>2. PICK row \in Row : row = ApprovedRow(q, n)
      BY WrittenRowsTyped DEF IInv
    <3>3. row.executed_at = rows[q].executed_at
      BY <3>2 DEF ApprovedRow, IInv, TypeOK, Row
    <3>4. QED
      BY <2>4, <2>5, <3>1, <3>2, <3>3 DEF Approve
  <2>6. ASSUME NEW c \in Calls, Reject(c) PROVE rows'[r].status = "executed"
    <3>1. PICK q \in Requests : q = calls[c].request
      BY <2>6 DEF Reject, IInv, CallsGrounded, Idle
    <3>2. PICK row \in Row : row = RejectedRow(q)
      BY WrittenRowsTyped DEF IInv
    <3>3. row.executed_at = rows[q].executed_at
      BY <3>2 DEF RejectedRow, IInv, TypeOK, Row
    <3>4. QED
      BY <2>4, <2>6, <3>1, <3>2, <3>3 DEF Reject
  <2>7. ASSUME NEW c \in Calls, Execute(c) PROVE rows'[r].status = "executed"
    <3>1. PICK q \in Requests, h \in TxHashes :
            q = calls[c].request /\ h = calls[c].hash
      BY <2>7 DEF Execute, IInv, CallsGrounded, Idle
    <3>2. PICK row \in Row : row = ExecutedRow(q, h)
      BY WrittenRowsTyped DEF IInv
    <3>3. row.status = "executed"
      BY <3>2 DEF ExecutedRow, IInv, TypeOK, Row
    <3>4. QED
      BY <2>4, <2>7, <3>1, <3>2, <3>3 DEF Execute
  <2>8. CASE UNCHANGED rows
    BY <2>2, <2>8
  <2>9. QED
    BY <2>2, <2>3, <2>5, <2>6, <2>7, <2>8 DEF Next, ReadRow, Refused
<1>2. QED
  BY <1>1, InvariantHolds, PTL DEF Spec, ExecutedIsFinal

-----------------------------------------------------------------------------
(* SignIn.  Each token knows the challenge and the token it came from; a   *)
(* token that can be redeemed and a challenge that can be signed has been  *)
(* used by nothing; and no two attempts hold one challenge.                *)
Challenge == [address : Requests, at : Nat]
Minted == [address : Requests, family : Nat, from : Nat, by : TxHashes \cup {None},
           at : Nat]
Try == [step : {"idle", "challenge", "sign", "answered", "reading"}, nonce : 0 .. MaxChallenges,
        mint : 0 .. MaxMints, connects : BOOLEAN]
TabWith(n) == [publicKey : Requests \cup {None}, token : 0 .. n, csrf : 0 .. n]
JarWith(n) == [session : 0 .. n, refresh : 0 .. n, csrf : 0 .. n]

SignInTypes ==
  /\ x1 \in 0 .. LastWindow /\ x2 \in 0 .. MaxRestarts
  /\ x3 \in Seq(Challenge) /\ Len(x3) <= MaxChallenges
  /\ \A n \in 1 .. Len(x3) : x3[n].at <= x1
  /\ x4 \in [Requests -> 0 .. Len(x3)]
  /\ x5 \in Seq(Minted) /\ Len(x5) <= MaxMints
  /\ x6 \subseteq 1 .. Len(x5)
  /\ x7 \in [at : Nat, count : 0 .. MaxFailures]
  /\ x8 \in JarWith(Len(x5)) /\ x9 \in Requests
  /\ x10 \in [TxHashes -> TabWith(Len(x5))]
  /\ x11 \in [TxHashes -> [Requests -> Try]]

Grounded(mints, nonces) ==
  \A k \in 1 .. Len(mints) :
    /\ mints[k].family \in 1 .. Len(nonces)
    /\ mints[k].address = nonces[mints[k].family].address
    /\ mints[k].from < k

UsedOnce(mints) ==
  \A j, k \in 1 .. Len(mints) :
    j # k => /\ mints[j].from = mints[k].from => mints[j].from = 0
             /\ mints[j].from = 0 /\ mints[k].from = 0 => mints[j].family # mints[k].family

Unspent(live, pending, mints, nonces) ==
  /\ \A k \in live, j \in 1 .. Len(mints) : mints[j].from # k
  /\ \A a \in Requests : pending[a] # 0 =>
       /\ nonces[pending[a]].address = a
       /\ \A j \in 1 .. Len(mints) : mints[j].from = 0 => mints[j].family # pending[a]

TriesSound(tries, mints, nonces) ==
  \A t \in TxHashes, a \in Requests :
    /\ tries[t][a].nonce <= Len(nonces)
    /\ tries[t][a].step = "sign" => tries[t][a].nonce # 0
    /\ tries[t][a].mint <= Len(mints)
    /\ tries[t][a].mint # 0 => mints[tries[t][a].mint].by = t
    /\ \A u \in TxHashes \ {t} :
         tries[t][a].nonce = tries[u][a].nonce => tries[t][a].nonce = 0

SignInInv ==
  /\ SignInTypes
  /\ Grounded(x5, x3)
  /\ UsedOnce(x5)
  /\ Unspent(x6, x4, x5, x3)
  /\ TriesSound(x11, x5, x3)

LEMMA ExpiryOnlyForgets ==
  ASSUME SignInTypes
  PROVE  /\ SignIn!Unexpired \in [Requests -> 0 .. Len(x3)]
         /\ \A a \in Requests : SignIn!Unexpired[a] \in {0, x4[a]}
BY DEF SignInTypes, SignIn!Unexpired

(* A set of tokens is minted.                                              *)
LEMMA MintsGrow ==
  ASSUME SignInTypes, NEW m \in Minted, x5' = Append(x5, m)
  PROVE  /\ x5' \in Seq(Minted) /\ Len(x5) \in Nat /\ Len(x5') = Len(x5) + 1
         /\ \A k \in 1 .. Len(x5) : x5'[k] = x5[k]
         /\ x5'[Len(x5) + 1] = m
BY DEF SignInTypes

(* One attempt moves.                                                      *)
LEMMA TryMoves ==
  ASSUME SignInTypes, NEW t \in TxHashes, NEW a \in Requests, NEW q \in Try,
         x11' = [x11 EXCEPT ![t] = [x11[t] EXCEPT ![a] = q]]
  PROVE  /\ x11' \in [TxHashes -> [Requests -> Try]]
         /\ x11'[t][a] = q
         /\ \A u \in TxHashes, b \in Requests :
              (u # t \/ b # a) => x11'[u][b] = x11[u][b]
BY DEF SignInTypes

(* Nothing is minted and nothing is issued; an attempt of one tab moves    *)
(* without a new challenge, and what was pending is pending or forgotten.  *)
LEMMA OnlyForgets ==
  ASSUME SignInInv, UNCHANGED <<x3, x5>>,
         x1' \in 0 .. LastWindow, x1 <= x1', x2' \in 0 .. MaxRestarts,
         x4' \in [Requests -> 0 .. Len(x3)],
         \A a \in Requests : x4'[a] \in {0, x4[a]},
         x6' \subseteq x6, x7' \in [at : Nat, count : 0 .. MaxFailures],
         x8' \in JarWith(Len(x5)), x9' \in Requests,
         x10' \in [TxHashes -> TabWith(Len(x5))],
         x11' \in [TxHashes -> [Requests -> Try]],
         \A t \in TxHashes, a \in Requests :
           /\ x11'[t][a].nonce \in {0, x11[t][a].nonce}
           /\ x11'[t][a].step = "sign" => x11[t][a].step = "sign" /\ x11'[t][a].nonce # 0
           /\ x11'[t][a].mint \in {0, x11[t][a].mint}
  PROVE  SignInInv'
<1> USE SignInAssumption
<1>1. SignInTypes'
  <2>1. x1 \in Nat /\ x1' \in Nat /\ x1 <= x1'
    BY DEF SignInInv, SignInTypes
  <2>2. ASSUME NEW n \in 1 .. Len(x3) PROVE x3[n].at <= x1'
    <3>1. x3[n] \in Challenge
      BY SMTT(20) DEF SignInInv, SignInTypes
    <3>2. x3[n].at \in Nat
      BY <3>1 DEF Challenge
    <3>3. x3[n].at <= x1
      BY DEF SignInInv, SignInTypes
    <3>4. QED
      BY <2>1, <3>2, <3>3
  <2>3. QED
    BY <2>2 DEF SignInInv, SignInTypes
<1>2. Grounded(x5', x3') /\ UsedOnce(x5')
  BY DEF SignInInv, Grounded, UsedOnce
<1>3. Unspent(x6', x4', x5', x3')
  <2>1. ASSUME NEW a \in Requests, x4'[a] # 0
        PROVE  x4'[a] = x4[a] /\ x4[a] # 0
    BY <2>1
  <2>2. QED
    BY <2>1 DEF SignInInv, Unspent
<1>4. TriesSound(x11', x5', x3')
  <2>1. SUFFICES ASSUME NEW t \in TxHashes, NEW a \in Requests
                 PROVE  /\ x11'[t][a].nonce <= Len(x3)
                        /\ x11'[t][a].step = "sign" => x11'[t][a].nonce # 0
                        /\ x11'[t][a].mint <= Len(x5)
                        /\ x11'[t][a].mint # 0 => x5[x11'[t][a].mint].by = t
                        /\ \A u \in TxHashes \ {t} :
                             x11'[t][a].nonce = x11'[u][a].nonce => x11'[t][a].nonce = 0
    BY DEF TriesSound
  <2>2. Len(x3) \in Nat /\ Len(x5) \in Nat
    BY SMTT(20) DEF SignInInv, SignInTypes
  <2>3. /\ x11[t][a].nonce <= Len(x3)
        /\ x11[t][a].mint <= Len(x5)
        /\ x11[t][a].mint # 0 => x5[x11[t][a].mint].by = t
        /\ \A u \in TxHashes \ {t} :
             x11[t][a].nonce = x11[u][a].nonce => x11[t][a].nonce = 0
    BY DEF SignInInv, TriesSound
  <2>4. \A u \in TxHashes : x11'[u][a].nonce \in {0, x11[u][a].nonce}
    OBVIOUS
  <2>5. x11'[t][a].nonce <= Len(x3)
    BY <2>2, <2>3, <2>4, SMTT(20)
  <2>6. x11'[t][a].step = "sign" => x11'[t][a].nonce # 0
    OBVIOUS
  <2>7. x11'[t][a].mint \in {0, x11[t][a].mint}
    OBVIOUS
  <2>8. x11'[t][a].mint <= Len(x5)
    BY <2>2, <2>3, <2>7
  <2>9. x11'[t][a].mint # 0 => x5[x11'[t][a].mint].by = t
    BY <2>3, <2>7
  <2>10. ASSUME NEW u \in TxHashes \ {t}, x11'[t][a].nonce = x11'[u][a].nonce
         PROVE  x11'[t][a].nonce = 0
    <3>1. x11'[t][a].nonce \in {0, x11[t][a].nonce} /\ x11'[u][a].nonce \in {0, x11[u][a].nonce}
      BY <2>4
    <3>2. x11[t][a].nonce = x11[u][a].nonce => x11[t][a].nonce = 0
      BY <2>3
    <3>3. QED
      BY <2>10, <3>1, <3>2
  <2>11. QED
    BY <2>5, <2>6, <2>8, <2>9, <2>10
<1>5. QED
  BY <1>1, <1>2, <1>3, <1>4 DEF SignInInv

LEMMA SignInTyped ==
  ASSUME SignInTypes
  PROVE  /\ Len(x3) \in Nat /\ Len(x5) \in Nat /\ x1 \in Nat
         /\ \A n \in 1 .. Len(x3) : x3[n] \in Challenge
         /\ \A k \in 1 .. Len(x5) : x5[k] \in Minted
         /\ \A t \in TxHashes, a \in Requests : x11[t][a] \in Try
BY SignInAssumption DEF SignInTypes

(* A sign-in that is joined, or that ends, goes on without a new challenge.  *)
Follows(q, p) ==
  /\ q.nonce \in {0, p.nonce} /\ q.mint \in {0, p.mint}
  /\ q.step = "sign" => p.step = "sign" /\ q.nonce = p.nonce

LEMMA JoinMoves ==
  ASSUME SignInTypes, NEW t \in TxHashes, NEW a \in Requests, NEW c \in BOOLEAN,
         SignIn!Join(t, a, c)
  PROVE  \E q \in Try :
           /\ x11' = [x11 EXCEPT ![t] = [x11[t] EXCEPT ![a] = q]]
           /\ Follows(q, x11[t][a])
           /\ x11[t][a].step = "sign" => q.step = "sign" /\ q.nonce = x11[t][a].nonce
           /\ q.mint = x11[t][a].mint
           /\ x11[t][a].step # "idle" => q.step = x11[t][a].step
           /\ x11[t][a].step = "idle" => q.step = "challenge"
<1> DEFINE p == x11[t][a]
           s == IF p.step = "idle" THEN "challenge" ELSE p.step
           d == p.connects \/ c
           q == [p EXCEPT !.step = s, !.connects = d]
<1>1. p \in Try
  BY SignInTyped
<1>2. s \in {"idle", "challenge", "sign", "answered", "reading"} /\ d \in BOOLEAN
  BY <1>1 DEF Try
<1>3. x11' = [x11 EXCEPT ![t] = [x11[t] EXCEPT ![a] = q]]
  BY DEF SignIn!Join, SignInTypes
<1>4. /\ p.step = "sign" <=> s = "sign"
      /\ p.step # "idle" => s = p.step
      /\ p.step = "idle" => s = "challenge"
  OBVIOUS
<1> HIDE DEF p, s, d
<1>5. q \in Try
  BY <1>1, <1>2 DEF Try
<1>6. q.step = s /\ q.nonce = p.nonce /\ q.mint = p.mint
  BY <1>1, <1>2 DEF Try
<1> HIDE DEF q
<1>7. /\ Follows(q, p) /\ (p.step = "sign" => q.step = "sign" /\ q.nonce = p.nonce)
      /\ q.mint = p.mint
      /\ p.step # "idle" => q.step = p.step
      /\ p.step = "idle" => q.step = "challenge"
  BY <1>4, <1>6 DEF Follows
<1>8. QED
  BY <1>3, <1>5, <1>7 DEF p

(* The end of an attempt.                                                  *)
LEMMA IdleTyped == SignIn!Idle \in Try /\ SignIn!Idle.nonce = 0 /\ SignIn!Idle.mint = 0
                   /\ SignIn!Idle.step = "idle"
BY SignInAssumption DEF SignIn!Idle, Try

LEMMA IdleFollows == \A p : Follows(SignIn!Idle, p)
BY IdleTyped DEF Follows

(* An attempt of one tab moves as Follows says: the sign-ins stay sound.   *)
LEMMA OneFollows ==
  ASSUME SignInInv, NEW t \in TxHashes, NEW a \in Requests, NEW q \in Try,
         Follows(q, x11[t][a]),
         x11' = [x11 EXCEPT ![t] = [x11[t] EXCEPT ![a] = q]]
  PROVE  /\ x11' \in [TxHashes -> [Requests -> Try]]
         /\ \A u \in TxHashes, b \in Requests :
              /\ x11'[u][b].nonce \in {0, x11[u][b].nonce}
              /\ x11'[u][b].step = "sign" => x11[u][b].step = "sign" /\ x11'[u][b].nonce # 0
              /\ x11'[u][b].mint \in {0, x11[u][b].mint}
<1>1. SignInTypes
  BY DEF SignInInv
<1>2. x11' \in [TxHashes -> [Requests -> Try]]
  BY <1>1, TryMoves
<1>3. SUFFICES ASSUME NEW u \in TxHashes, NEW b \in Requests
               PROVE /\ x11'[u][b].nonce \in {0, x11[u][b].nonce}
                     /\ x11'[u][b].step = "sign" => x11[u][b].step = "sign" /\ x11'[u][b].nonce # 0
                     /\ x11'[u][b].mint \in {0, x11[u][b].mint}
  BY <1>2
<1>4. x11[u][b].step = "sign" => x11[u][b].nonce # 0
  BY DEF SignInInv, TriesSound
<1>5. CASE u = t /\ b = a
  <2>1. x11'[u][b] = q
    BY <1>1, <1>5, TryMoves
  <2>2. QED
    BY <1>4, <1>5, <2>1 DEF Follows
<1>6. CASE u # t \/ b # a
  <2>1. x11'[u][b] = x11[u][b]
    BY <1>1, <1>6, TryMoves
  <2>2. QED
    BY <1>4, <2>1
<1>7. QED
  BY <1>5, <1>6

LEMMA SettledMoves ==
  ASSUME SignInTypes, NEW t \in TxHashes, NEW a \in Requests, NEW ok \in BOOLEAN,
         x11[t][a].mint \in 0 .. Len(x5), SignIn!Settled(t, a, ok)
  PROVE  /\ x11' = [x11 EXCEPT ![t] = [x11[t] EXCEPT ![a] = SignIn!Idle]]
         /\ x10' \in [TxHashes -> TabWith(Len(x5))]
         /\ \A u \in TxHashes \ {t} : x10'[u] = x10[u]
         /\ x10'[t].csrf = IF ok THEN x11[t][a].mint ELSE x10[t].csrf
<1> DEFINE p == x10[t]
           k == IF x11[t][a].connects THEN a ELSE p.publicKey
           m == IF ok THEN x11[t][a].mint ELSE p.token
           c == IF ok THEN x11[t][a].mint ELSE p.csrf
           q == [p EXCEPT !.publicKey = k, !.token = m, !.csrf = c]
<1>1. p \in TabWith(Len(x5))
  BY DEF SignInTypes
<1>2. k \in Requests \cup {None} /\ m \in 0 .. Len(x5) /\ c \in 0 .. Len(x5)
  BY <1>1 DEF TabWith
<1>3. x10' = [x10 EXCEPT ![t] = q]
  BY DEF SignIn!Settled, SignInTypes
<1>4. x11' = [x11 EXCEPT ![t] = [x11[t] EXCEPT ![a] = SignIn!Idle]]
  BY DEF SignIn!Settled, SignInTypes
<1>5. c = IF ok THEN x11[t][a].mint ELSE x10[t].csrf
  OBVIOUS
<1>6. x10 \in [TxHashes -> TabWith(Len(x5))]
  BY DEF SignInTypes
<1> HIDE DEF p, k, m, c
<1>7. q \in TabWith(Len(x5)) /\ q.csrf = c
  BY <1>1, <1>2 DEF TabWith
<1> HIDE DEF q
<1>8. QED
  BY <1>3, <1>4, <1>5, <1>6, <1>7
(* Tokens are minted: for a challenge that was pending and no longer is,   *)
(* or for a refresh token that was redeemable and no longer is.            *)
LEMMA Minting ==
  ASSUME SignInInv, NEW m \in Minted, x5' = Append(x5, m), Len(x5) < MaxMints,
         UNCHANGED <<x1, x2, x3, x9, x10>>,
         m.family \in 1 .. Len(x3), m.address = x3[m.family].address,
         m.from \in 0 .. Len(x5), m.from # 0 => m.from \in x6,
         m.from = 0 => x4[m.address] = m.family /\ x4'[m.address] = 0,
         x4' \in [Requests -> 0 .. Len(x3)],
         \A a \in Requests : x4'[a] \in {0, x4[a]},
         x6' \subseteq (x6 \ {m.from}) \cup {Len(x5) + 1},
         x7' \in [at : Nat, count : 0 .. MaxFailures],
         x8' \in JarWith(Len(x5) + 1),
         x11' \in [TxHashes -> [Requests -> Try]],
         \A t \in TxHashes, a \in Requests :
           /\ x11'[t][a].nonce \in {0, x11[t][a].nonce}
           /\ x11'[t][a].step = "sign" => x11[t][a].step = "sign" /\ x11'[t][a].nonce # 0
           /\ \/ x11'[t][a].mint \in {0, x11[t][a].mint}
              \/ x11'[t][a].mint = Len(x5) + 1 /\ m.by = t
  PROVE  SignInInv'
<1> USE SignInAssumption
<1> DEFINE n == Len(x5)
<1>0. SignInTypes /\ m.from \in 0 .. n /\ m.family \in 1 .. Len(x3)
  BY DEF SignInInv
<1>1. /\ n \in Nat /\ Len(x3) \in Nat /\ x5' \in Seq(Minted) /\ Len(x5') = n + 1
      /\ \A k \in 1 .. n : x5'[k] = x5[k]
      /\ x5'[n + 1] = m
  BY <1>0, MintsGrow, SignInTyped
<1>14. Len(x5') = n + 1 /\ x3' = x3
  BY <1>1
<1>2. \A k \in 1 .. n + 1 : k = n + 1 \/ k \in 1 .. n
  BY <1>1
<1>3. \A k \in 1 .. n : k # n + 1 /\ k \in 1 .. n + 1 /\ k # 0
  BY <1>1
<1>4. /\ \A k \in 1 .. n : x5[k].family \in 1 .. Len(x3)
      /\ \A k \in 1 .. n : x5[k].address = x3[x5[k].family].address
      /\ \A k \in 1 .. n : x5[k].from < k
  BY DEF SignInInv, Grounded
<1>5. m.from \in Nat /\ m.from < n + 1 /\ m.from # n + 1
  BY <1>0, <1>1
<1>6. \A k \in 1 .. n : x5[k].from # n + 1
  <2>1. ASSUME NEW k \in 1 .. n PROVE x5[k].from # n + 1
    <3>1. x5[k] \in Minted
      BY <1>0, SignInTyped
    <3>2. x5[k].from \in Nat
      BY <3>1 DEF Minted
    <3>3. QED
      BY <1>1, <1>4, <3>2
  <2>2. QED
    BY <2>1
<1>7. x6 \subseteq 1 .. n
  BY DEF SignInInv, SignInTypes
<1>8. \A k \in x6, j \in 1 .. n : x5[j].from # k
  BY DEF SignInInv, Unspent
<1>9. \A a \in Requests : x4[a] # 0 =>
        /\ x3[x4[a]].address = a
        /\ \A j \in 1 .. n : x5[j].from = 0 => x5[j].family # x4[a]
  BY DEF SignInInv, Unspent
<1>10. m.address \in Requests
  BY DEF Minted
<1>11. \A j, k \in 1 .. n : j # k =>
         /\ x5[j].from = x5[k].from => x5[j].from = 0
         /\ x5[j].from = 0 /\ x5[k].from = 0 => x5[j].family # x5[k].family
  BY DEF SignInInv, UsedOnce
<1>12. \A j \in 1 .. n :
         /\ x5[j].from = m.from => m.from = 0
         /\ x5[j].from = 0 /\ m.from = 0 => x5[j].family # m.family
  <2>1. ASSUME NEW j \in 1 .. n, x5[j].from = m.from, m.from # 0 PROVE FALSE
    BY <1>8, <2>1
  <2>2. ASSUME NEW j \in 1 .. n, x5[j].from = 0, m.from = 0 PROVE x5[j].family # m.family
    <3>1. x4[m.address] = m.family /\ m.family # 0
      BY <1>0, <1>1, <2>2
    <3>2. QED
      BY <1>9, <1>10, <2>2, <3>1
  <2>3. QED
    BY <2>1, <2>2
<1> HIDE DEF n
<1>20. SignInTypes'
  <2>1. n + 1 <= MaxMints
    BY <1>1 DEF n
  <2>2. x6' \subseteq 1 .. n + 1
    BY <1>1, <1>3, <1>7 DEF n
  <2>3. x10' \in [TxHashes -> TabWith(n + 1)]
    <3>1. 0 .. n \subseteq 0 .. n + 1
      BY <1>1
    <3>2. TabWith(n) \subseteq TabWith(n + 1)
      BY <3>1 DEF TabWith
    <3>3. x10' \in [TxHashes -> TabWith(n)]
      BY <1>0 DEF SignInTypes, n
    <3>4. QED
      BY <3>2, <3>3
  <2>4. x8' \in JarWith(n + 1)
    BY DEF n
  <2>5. QED
    BY <1>0, <1>1, <2>1, <2>2, <2>3, <2>4 DEF SignInTypes
<1>21. Grounded(x5', x3')
  <2>1. SUFFICES ASSUME NEW k \in 1 .. n + 1
                 PROVE  /\ x5'[k].family \in 1 .. Len(x3)
                        /\ x5'[k].address = x3[x5'[k].family].address
                        /\ x5'[k].from < k
    BY <1>1 DEF Grounded
  <2>2. CASE k = n + 1
    BY <1>0, <1>1, <1>5, <2>2
  <2>3. CASE k \in 1 .. n
    BY <1>1, <1>4, <2>3, SMTT(20)
  <2>4. QED
    BY <1>2, <2>2, <2>3
<1>22. UsedOnce(x5')
  <2>1. ASSUME NEW j \in 1 .. n + 1, NEW k \in 1 .. n + 1, j # k
        PROVE  /\ x5'[j].from = x5'[k].from => x5'[j].from = 0
               /\ x5'[j].from = 0 /\ x5'[k].from = 0 => x5'[j].family # x5'[k].family
    <3>2. CASE j \in 1 .. n /\ k \in 1 .. n
      BY <1>1, <1>11, <2>1, <3>2, SMTT(20)
    <3>3. CASE j \in 1 .. n /\ k = n + 1
      BY <1>1, <1>12, <3>3
    <3>4. CASE j = n + 1 /\ k \in 1 .. n
      BY <1>1, <1>12, <3>4
    <3>5. QED
      BY <1>2, <2>1, <3>2, <3>3, <3>4
  <2>2. QED
    BY <1>14, <2>1 DEF UsedOnce
<1>23. Unspent(x6', x4', x5', x3')
  <2>1. ASSUME NEW k \in x6', NEW j \in 1 .. n + 1 PROVE x5'[j].from # k
    <3>1. CASE k = n + 1
      BY <1>1, <1>2, <1>5, <1>6, <3>1
    <3>2. CASE k \in x6 /\ k # m.from
      BY <1>1, <1>2, <1>8, <3>2
    <3>3. QED
      BY <3>1, <3>2 DEF n
  <2>2. ASSUME NEW a \in Requests, x4'[a] # 0
        PROVE  /\ x3[x4'[a]].address = a
               /\ \A j \in 1 .. n + 1 : x5'[j].from = 0 => x5'[j].family # x4'[a]
    <3>1. x4'[a] = x4[a] /\ x4[a] # 0
      BY <2>2
    <3>2. x3[x4[a]].address = a /\ \A j \in 1 .. n : x5[j].from = 0 => x5[j].family # x4[a]
      BY <1>9, <3>1
    <3>3. m.from = 0 => m.family # x4[a]
      <4>1. ASSUME m.from = 0, m.family = x4[a] PROVE FALSE
        <5>1. m.address = a
          BY <3>2, <4>1
        <5>2. QED
          BY <2>2, <4>1, <5>1
      <4>2. QED
        BY <4>1
    <3>4. QED
      BY <1>1, <1>2, <3>1, <3>2, <3>3
  <2>3. QED
    BY <1>1, <2>1, <2>2 DEF Unspent
<1>24. TriesSound(x11', x5', x3')
  <2>1. ASSUME NEW t \in TxHashes, NEW a \in Requests
        PROVE  /\ x11'[t][a].nonce <= Len(x3')
               /\ x11'[t][a].step = "sign" => x11'[t][a].nonce # 0
               /\ x11'[t][a].mint <= Len(x5')
               /\ x11'[t][a].mint # 0 => x5'[x11'[t][a].mint].by = t
               /\ \A u \in TxHashes \ {t} :
                    x11'[t][a].nonce = x11'[u][a].nonce => x11'[t][a].nonce = 0
    <3>2. /\ x11[t][a].nonce <= Len(x3)
          /\ x11[t][a].mint <= n
          /\ x11[t][a].mint # 0 => x5[x11[t][a].mint].by = t
          /\ \A u \in TxHashes \ {t} :
               x11[t][a].nonce = x11[u][a].nonce => x11[t][a].nonce = 0
      BY DEF SignInInv, TriesSound, n
    <3>3. \A u \in TxHashes : x11'[u][a].nonce \in {0, x11[u][a].nonce}
      OBVIOUS
    <3>4. x11[t][a].mint \in Nat /\ x11'[t][a].nonce \in Nat /\ x11[t][a].nonce \in Nat
      <4>1. x11[t][a] \in Try /\ x11'[t][a] \in Try
        BY <1>0, SignInTyped
      <4>2. QED
        BY <4>1 DEF Try
    <3>5. x11'[t][a].nonce <= Len(x3)
      BY <1>1, <3>2, <3>3, <3>4, SMTT(20)
    <3>6. x11'[t][a].step = "sign" => x11'[t][a].nonce # 0
      OBVIOUS
    <3>7. \/ x11'[t][a].mint \in {0, x11[t][a].mint}
          \/ x11'[t][a].mint = n + 1 /\ m.by = t
      BY DEF n
    <3>8. x11'[t][a].mint <= n + 1
      BY <1>1, <3>2, <3>4, <3>7
    <3>9. x11'[t][a].mint # 0 => x5'[x11'[t][a].mint].by = t
      <4>1. CASE x11'[t][a].mint = x11[t][a].mint /\ x11[t][a].mint # 0
        <5>1. x11[t][a].mint \in 1 .. n
          BY <1>1, <3>2, <3>4, <4>1, SMTT(20)
        <5>2. QED
          BY <1>1, <3>2, <4>1, <5>1
      <4>2. CASE x11'[t][a].mint = n + 1 /\ m.by = t
        BY <1>1, <4>2
      <4>3. QED
        BY <3>7, <4>1, <4>2
    <3>10. ASSUME NEW u \in TxHashes \ {t}, x11'[t][a].nonce = x11'[u][a].nonce
           PROVE  x11'[t][a].nonce = 0
      <4>1. x11'[t][a].nonce \in {0, x11[t][a].nonce} /\ x11'[u][a].nonce \in {0, x11[u][a].nonce}
        BY <3>3
      <4>2. x11[t][a].nonce = x11[u][a].nonce => x11[t][a].nonce = 0
        BY <3>2
      <4>3. QED
        BY <3>10, <4>1, <4>2
    <3>11. QED
      BY <1>14, <3>5, <3>6, <3>8, <3>9, <3>10
  <2>2. QED
    BY <2>1 DEF TriesSound
<1>25. QED
  BY <1>20, <1>21, <1>22, <1>23, <1>24 DEF SignInInv
(* A challenge is issued: nothing was minted for it, and no tab signs it.  *)
LEMMA Issuing ==
  ASSUME SignInInv, NEW t \in TxHashes, NEW a \in Requests,
         SignIn!RequestChallenge(t, a)
  PROVE  SignInInv'
<1> USE SignInAssumption
<1> DEFINE n == Len(x3)
           c == [address |-> a, at |-> x1]
           p == x11[t][a]
           q == [p EXCEPT !.step = "sign", !.nonce = n + 1]
<1>0. SignInTypes
  BY DEF SignInInv
<1>1. n \in Nat /\ Len(x5) \in Nat /\ x1 \in Nat /\ c \in Challenge /\ p \in Try
  BY <1>0, SignInTyped DEF Challenge
<1>2. /\ n < MaxChallenges /\ x3' = Append(x3, c)
      /\ x4' = [SignIn!Unexpired EXCEPT ![a] = n + 1]
      /\ UNCHANGED <<x1, x2, x5, x6, x7, x8, x9, x10>>
  BY DEF SignIn!RequestChallenge, SignIn!IssueChallenge
<1>3. x11' = [x11 EXCEPT ![t] = [x11[t] EXCEPT ![a] = q]]
  BY <1>0 DEF SignIn!RequestChallenge, SignInTypes
<1>4. /\ x3' \in Seq(Challenge) /\ Len(x3') = n + 1
      /\ \A k \in 1 .. n : x3'[k] = x3[k]
      /\ x3'[n + 1] = c
  BY <1>0, <1>1, <1>2 DEF SignInTypes
<1>5. n + 1 \in 0 .. MaxChallenges
  BY <1>1, <1>2
<1>6. /\ SignIn!Unexpired \in [Requests -> 0 .. n]
      /\ \A b \in Requests : SignIn!Unexpired[b] \in {0, x4[b]}
  BY <1>0, ExpiryOnlyForgets
<1>7. c.address = a /\ c.at = x1
  OBVIOUS
<1> HIDE DEF p, n, c
<1>8. q \in Try /\ q.step = "sign" /\ q.nonce = n + 1 /\ q.mint = p.mint
  BY <1>1, <1>5 DEF Try
<1> HIDE DEF q
<1>9. /\ x11' \in [TxHashes -> [Requests -> Try]]
      /\ x11'[t][a] = q
      /\ \A u \in TxHashes, b \in Requests :
           (u # t \/ b # a) => x11'[u][b] = x11[u][b]
  <2>1. q \in Try
    BY <1>8
  <2>2. PICK r \in Try : r = q
    BY <2>1
  <2>3. x11' = [x11 EXCEPT ![t] = [x11[t] EXCEPT ![a] = r]]
    BY <1>3, <2>2
  <2>4. x11' \in [TxHashes -> [Requests -> Try]]
    BY <1>0, <2>3, TryMoves
  <2>5. x11'[t][a] = r
    BY <1>0, <2>3, TryMoves
  <2>6. \A u \in TxHashes, b \in Requests :
             (u # t \/ b # a) => x11'[u][b] = x11[u][b]
    BY <1>0, <2>3, TryMoves
  <2>7. QED
    BY <2>2, <2>4, <2>5, <2>6
<1>10. 0 .. n \subseteq 0 .. n + 1 /\ n + 1 \in 0 .. n + 1 /\ \A k \in 0 .. n : k # n + 1
  BY <1>1
<1>11. \A k \in 1 .. n + 1 : k = n + 1 \/ k \in 1 .. n
  BY <1>1
<1>12. /\ x4' \in [Requests -> 0 .. n + 1] /\ x4'[a] = n + 1
       /\ \A b \in Requests : b # a => x4'[b] \in {0, x4[b]}
  <2>1. SignIn!Unexpired \in [Requests -> 0 .. n + 1]
    BY <1>6, <1>10
  <2>2. QED
    BY <1>2, <1>6, <1>10, <2>1
<1>13. x4 \in [Requests -> 0 .. n]
  BY <1>0 DEF SignInTypes, n
<1>20. SignInTypes'
  <2>1. ASSUME NEW k \in 1 .. n + 1 PROVE x3'[k].at <= x1
    <3>1. CASE k = n + 1
      BY <1>1, <1>4, <1>7, <3>1
    <3>2. CASE k \in 1 .. n
      BY <1>0, <1>4, <3>2 DEF SignInTypes, n
    <3>3. QED
      BY <1>11, <3>1, <3>2
  <2>2. Len(x3') <= MaxChallenges
    BY <1>1, <1>4, <1>5
  <2>3. QED
    BY <1>0, <1>2, <1>4, <1>9, <1>12, <2>1, <2>2 DEF SignInTypes
<1>21. Grounded(x5', x3')
  <2>1. ASSUME NEW k \in 1 .. Len(x5)
        PROVE  /\ x5[k].family \in 1 .. Len(x3')
               /\ x5[k].address = x3'[x5[k].family].address
               /\ x5[k].from < k
    <3>1. /\ x5[k].family \in 1 .. n
          /\ x5[k].address = x3[x5[k].family].address
          /\ x5[k].from < k
      BY DEF SignInInv, Grounded, n
    <3>2. QED
      BY <1>1, <1>4, <3>1
  <2>2. QED
    BY <1>2, <2>1 DEF Grounded
<1>22. UsedOnce(x5')
  BY <1>2 DEF SignInInv, UsedOnce
<1>23. Unspent(x6', x4', x5', x3')
  <2>1. \A k \in x6, j \in 1 .. Len(x5) : x5[j].from # k
    BY DEF SignInInv, Unspent
  <2>2. ASSUME NEW b \in Requests, x4'[b] # 0
        PROVE  /\ x3'[x4'[b]].address = b
               /\ \A j \in 1 .. Len(x5) : x5[j].from = 0 => x5[j].family # x4'[b]
    <3>1. CASE b = a
      <4>1. \A j \in 1 .. Len(x5) : x5[j].family \in 1 .. n
        BY DEF SignInInv, Grounded, n
      <4>2. \A k \in 1 .. n : k # n + 1
        BY <1>1
      <4>3. QED
        BY <1>4, <1>7, <1>12, <3>1, <4>1, <4>2
    <3>2. CASE b # a
      <4>1. x4'[b] = x4[b] /\ x4[b] # 0
        BY <1>12, <2>2, <3>2
      <4>2. /\ x3[x4[b]].address = b
            /\ \A j \in 1 .. Len(x5) : x5[j].from = 0 => x5[j].family # x4[b]
        BY <4>1 DEF SignInInv, Unspent
      <4>3. x4[b] \in 1 .. n
        BY <1>1, <1>13, <4>1
      <4>4. QED
        BY <1>4, <4>1, <4>2, <4>3
    <3>3. QED
      BY <3>1, <3>2
  <2>3. QED
    BY <1>2, <2>1, <2>2 DEF Unspent
<1>24. TriesSound(x11', x5', x3')
  <2>1. ASSUME NEW u \in TxHashes, NEW b \in Requests
        PROVE  /\ x11[u][b].nonce \in 0 .. n /\ x11[u][b].mint <= Len(x5)
               /\ x11[u][b].step = "sign" => x11[u][b].nonce # 0
               /\ x11[u][b].mint # 0 => x5[x11[u][b].mint].by = u
               /\ \A v \in TxHashes \ {u} :
                    x11[u][b].nonce = x11[v][b].nonce => x11[u][b].nonce = 0
    <3>1. /\ x11[u][b].nonce <= n /\ x11[u][b].mint <= Len(x5)
          /\ x11[u][b].step = "sign" => x11[u][b].nonce # 0
          /\ x11[u][b].mint # 0 => x5[x11[u][b].mint].by = u
          /\ \A v \in TxHashes \ {u} :
               x11[u][b].nonce = x11[v][b].nonce => x11[u][b].nonce = 0
      BY DEF SignInInv, TriesSound, n
    <3>2. x11[u][b] \in Try
      BY <1>0, SignInTyped
    <3>3. x11[u][b].nonce \in 0 .. n
      BY <1>1, <3>1, <3>2 DEF Try
    <3>4. QED
      BY <3>1, <3>3
  <2>2. ASSUME NEW u \in TxHashes, NEW b \in Requests
        PROVE  /\ x11'[u][b].nonce <= Len(x3')
               /\ x11'[u][b].step = "sign" => x11'[u][b].nonce # 0
               /\ x11'[u][b].mint <= Len(x5')
               /\ x11'[u][b].mint # 0 => x5'[x11'[u][b].mint].by = u
               /\ \A v \in TxHashes \ {u} :
                    x11'[u][b].nonce = x11'[v][b].nonce => x11'[u][b].nonce = 0
    <3>1. x5' = x5
      BY <1>2
    <3>2. CASE u = t /\ b = a
      <4>1. x11'[u][b].nonce = n + 1 /\ x11'[u][b].mint = x11[u][b].mint
        BY <1>8, <1>9, <3>2 DEF p
      <4>2. n + 1 # 0 /\ n + 1 <= Len(x3')
        BY <1>1, <1>4
      <4>3. \A v \in TxHashes \ {u} : x11'[v][b].nonce # n + 1
        BY <1>9, <1>10, <2>1, <3>2
      <4>4. QED
        BY <2>1, <3>1, <4>1, <4>2, <4>3
    <3>3. CASE u # t \/ b # a
      <4>1. x11'[u][b] = x11[u][b]
        BY <1>9, <3>3
      <4>2. x11[u][b].nonce <= Len(x3') /\ x11[u][b].nonce # n + 1
        BY <1>1, <1>4, <1>10, <2>1
      <4>3. \A v \in TxHashes \ {u} :
              x11'[v][b].nonce = x11[v][b].nonce \/ x11'[v][b].nonce = n + 1
        BY <1>8, <1>9
      <4>4. QED
        BY <2>1, <3>1, <4>1, <4>2, <4>3
    <3>4. QED
      BY <3>2, <3>3
  <2>3. QED
    BY <2>2 DEF TriesSound
<1>25. QED
  BY <1>20, <1>21, <1>22, <1>23, <1>24 DEF SignInInv
LEMMA FailuresTyped ==
  ASSUME SignInTypes
  PROVE  /\ SignIn!Recent \in 0 .. MaxFailures
         /\ ~ SignIn!Blocked => SignIn!Recent + 1 \in 0 .. MaxFailures
         /\ SignIn!NoFailures \in [at : Nat, count : 0 .. MaxFailures]
<1> USE SignInAssumption
<1>1. SignIn!Recent \in 0 .. MaxFailures
  <2>1. x7.count \in 0 .. MaxFailures
    BY DEF SignInTypes
  <2>2. QED
    BY <2>1 DEF SignIn!Recent
<1>2. SignIn!NoFailures \in [at : Nat, count : 0 .. MaxFailures]
  BY DEF SignIn!NoFailures
<1>3. QED
  BY <1>1, <1>2 DEF SignIn!Blocked

(* A challenge that is presented is gone, the others stay or expire.       *)
LEMMA Presented ==
  ASSUME SignInTypes, NEW c, NEW a \in Requests
  PROVE  /\ SignIn!AfterPresenting(c, a) \in [Requests -> 0 .. Len(x3)]
         /\ \A b \in Requests : SignIn!AfterPresenting(c, a)[b] \in {0, x4[b]}
         /\ SignIn!Matches(c, a) =>
              SignIn!AfterPresenting(c, a)[a] = 0 /\ c \in {0, x4[a]}
         /\ \A b \in Requests :
              ~ (b = a /\ SignIn!Matches(c, a)) =>
                SignIn!AfterPresenting(c, a)[b] = SignIn!Unexpired[b]
<1>1. /\ SignIn!Unexpired \in [Requests -> 0 .. Len(x3)]
      /\ \A b \in Requests : SignIn!Unexpired[b] \in {0, x4[b]}
  BY ExpiryOnlyForgets
<1>2. 0 \in 0 .. Len(x3)
  BY SignInTyped
<1>3. CASE SignIn!Matches(c, a)
  <2>1. SignIn!AfterPresenting(c, a) = [SignIn!Unexpired EXCEPT ![a] = 0]
    BY <1>3 DEF SignIn!AfterPresenting
  <2>2. c = SignIn!Unexpired[a]
    BY <1>3 DEF SignIn!Matches
  <2>3. QED
    BY <1>1, <1>2, <1>3, <2>1, <2>2
<1>4. CASE ~ SignIn!Matches(c, a)
  <2>1. SignIn!AfterPresenting(c, a) = SignIn!Unexpired
    BY <1>4 DEF SignIn!AfterPresenting
  <2>2. QED
    BY <1>1, <1>4, <2>1
<1>5. QED
  BY <1>3, <1>4

LEMMA Submitting ==
  ASSUME SignInInv, NEW t \in TxHashes, NEW a \in Requests,
         SignIn!SubmitSignature(t, a)
  PROVE  SignInInv'
<1> USE SignInAssumption
<1> DEFINE p == x11[t][a]
           m == IF x5' = x5 THEN 0 ELSE Len(x5')
           q == [p EXCEPT !.step = "answered", !.mint = m]
<1>0. SignInTypes /\ p.step = "sign" /\ p.nonce # 0
  BY DEF SignInInv, SignIn!SubmitSignature, TriesSound
<1>1. PICK good \in BOOLEAN :
        /\ SignIn!Verify(p.nonce, a, t, good)
        /\ x11' = [x11 EXCEPT ![t][a].step = "answered", ![t][a].mint = m]
  BY DEF SignIn!SubmitSignature
<1>2. Len(x5) < MaxMints /\ UNCHANGED <<x1, x2, x3, x8, x9, x10>>
  BY DEF SignIn!SubmitSignature
<1>3. x11' = [x11 EXCEPT ![t] = [x11[t] EXCEPT ![a] = q]]
  BY <1>0, <1>1 DEF SignInTypes
<1>4. p \in Try /\ Len(x5) \in Nat /\ x1 \in Nat /\ Len(x3) \in Nat
  BY <1>0, SignInTyped
<1>5. /\ SignIn!Recent \in 0 .. MaxFailures
      /\ ~ SignIn!Blocked => SignIn!Recent + 1 \in 0 .. MaxFailures
      /\ SignIn!NoFailures \in [at : Nat, count : 0 .. MaxFailures]
  BY <1>0, FailuresTyped
<1>6. x7' \in [at : Nat, count : 0 .. MaxFailures]
  <2>1. \/ x7' = [at |-> x1, count |-> SignIn!Recent]
        \/ x7' = SignIn!NoFailures
        \/ ~ SignIn!Blocked /\ x7' = [at |-> x1, count |-> SignIn!Recent + 1]
    BY <1>1 DEF SignIn!Verify
  <2>2. QED
    BY <1>4, <1>5, <2>1
<1>7. /\ x4' \in [Requests -> 0 .. Len(x3)]
      /\ \A b \in Requests : x4'[b] \in {0, x4[b]}
      /\ ~ SignIn!Blocked /\ SignIn!Matches(p.nonce, a) => x4'[a] = 0 /\ p.nonce = x4[a]
  <2>1. CASE SignIn!Blocked
    BY <1>0, <1>1, <2>1 DEF SignIn!Verify, SignInTypes
  <2>2. CASE ~ SignIn!Blocked
    <3>1. x4' = SignIn!AfterPresenting(p.nonce, a)
      BY <1>1, <2>2 DEF SignIn!Verify
    <3>2. QED
      BY <1>0, <3>1, Presented
  <2>3. QED
    BY <2>1, <2>2
<1>8. x8 \in JarWith(Len(x5)) /\ x9 \in Requests /\ x10 \in [TxHashes -> TabWith(Len(x5))]
      /\ x6 \subseteq 1 .. Len(x5) /\ x1 \in 0 .. LastWindow /\ x2 \in 0 .. MaxRestarts
  BY DEF SignInInv, SignInTypes
<1>9. x11 \in [TxHashes -> [Requests -> Try]]
  BY <1>0 DEF SignInTypes
<1>20. CASE x5' = x5
  <2>1. m = 0 /\ m \in 0 .. MaxMints
    BY <1>20
  <2>2. x6' \subseteq x6
    BY <1>1, <1>4, <1>20 DEF SignIn!Verify, SignIn!Mint, SignInInv, SignInTypes
  <2> HIDE DEF p, m
  <2>3. q \in Try /\ q.step = "answered" /\ q.nonce = p.nonce /\ q.mint = 0
    BY <1>4, <2>1 DEF Try
  <2>4. q \in Try /\ Follows(q, p)
    BY <2>3 DEF Follows
  <2> HIDE DEF q
  <2>5. PICK r \in Try : r = q
    BY <2>4
  <2>6. x11' = [x11 EXCEPT ![t] = [x11[t] EXCEPT ![a] = r]] /\ Follows(r, x11[t][a])
    BY <1>3, <2>4, <2>5 DEF p
  <2>7. /\ x11' \in [TxHashes -> [Requests -> Try]]
        /\ \A u \in TxHashes, b \in Requests :
             /\ x11'[u][b].nonce \in {0, x11[u][b].nonce}
             /\ x11'[u][b].step = "sign" => x11[u][b].step = "sign" /\ x11'[u][b].nonce # 0
             /\ x11'[u][b].mint \in {0, x11[u][b].mint}
    BY <2>6, OneFollows
  <2>8. x1 <= x1' /\ UNCHANGED <<x3, x5>>
    BY <1>2, <1>4, <1>8, <1>20
  <2>9. QED
    BY <1>2, <1>6, <1>7, <1>8, <2>2, <2>7, <2>8, OnlyForgets
<1>21. CASE x5' # x5
  <2> DEFINE c == [address |-> a, family |-> p.nonce, from |-> 0, by |-> t, at |-> x1]
  <2>1. /\ ~ SignIn!Blocked /\ SignIn!Matches(p.nonce, a)
        /\ x5' = Append(x5, c)
        /\ x6' = SignIn!Redeemable \cup {Len(x5) + 1}
    BY <1>1, <1>21 DEF SignIn!Verify, SignIn!Mint
  <2>2. x4'[a] = 0 /\ p.nonce = x4[a]
    BY <1>7, <2>1
  <2>3. c \in Minted /\ p.nonce \in 1 .. Len(x3)
    <3>1. x4[a] \in 0 .. Len(x3)
      BY <1>0 DEF SignInTypes
    <3>2. p.nonce \in 1 .. Len(x3)
      BY <1>0, <1>4, <2>2, <3>1
    <3>3. QED
      BY <1>4, <3>2 DEF Minted
  <2>4. x3[p.nonce].address = a
    BY <1>0, <2>2 DEF SignInInv, Unspent
  <2>5. c.family = p.nonce /\ c.address = a /\ c.from = 0 /\ c.by = t
    OBVIOUS
  <2>6. Len(x5') = Len(x5) + 1 /\ m = Len(x5) + 1
    BY <1>0, <1>21, <2>1, <2>3, MintsGrow
  <2>7. x6' \subseteq (x6 \ {0}) \cup {Len(x5) + 1}
    BY <1>4, <1>8, <2>1 DEF SignIn!Redeemable
  <2>8. x8' \in JarWith(Len(x5) + 1) /\ x8'.csrf = x8.csrf
    <3>1. 0 .. Len(x5) \subseteq 0 .. Len(x5) + 1
      BY <1>4
    <3>2. QED
      BY <1>2, <1>8, <3>1 DEF JarWith
  <2>9. m \in 0 .. MaxMints
    BY <1>2, <1>4, <2>6
  <2> HIDE DEF c, p, m
  <2>10. q \in Try /\ q.step = "answered" /\ q.nonce = p.nonce /\ q.mint = m
    BY <1>4, <2>9 DEF Try
  <2> HIDE DEF q
  <2>11. PICK r \in Try : r = q
    BY <2>10
  <2>12. x11' = [x11 EXCEPT ![t] = [x11[t] EXCEPT ![a] = r]]
    BY <1>3, <2>11
  <2>13. x11' \in [TxHashes -> [Requests -> Try]]
    BY <1>0, <2>12, TryMoves
  <2>14. x11'[t][a] = r
    BY <1>0, <2>12, TryMoves
  <2>15. \A u \in TxHashes, b \in Requests : (u # t \/ b # a) => x11'[u][b] = x11[u][b]
    BY <1>0, <2>12, TryMoves
  <2>16. ASSUME NEW u \in TxHashes, NEW b \in Requests
         PROVE  /\ x11'[u][b].nonce \in {0, x11[u][b].nonce}
                /\ x11'[u][b].step = "sign" => x11[u][b].step = "sign" /\ x11'[u][b].nonce # 0
                /\ \/ x11'[u][b].mint \in {0, x11[u][b].mint}
                   \/ x11'[u][b].mint = Len(x5) + 1 /\ c.by = u
    <3>1. CASE u = t /\ b = a
      BY <2>5, <2>6, <2>10, <2>11, <2>14, <3>1 DEF p
    <3>2. CASE u # t \/ b # a
      <4>1. x11'[u][b] = x11[u][b]
        BY <2>15, <3>2
      <4>2. x11[u][b].step = "sign" => x11[u][b].nonce # 0
        BY DEF SignInInv, TriesSound
      <4>3. QED
        BY <4>1, <4>2
    <3>3. QED
      BY <3>1, <3>2
  <2>17. /\ c.family \in 1 .. Len(x3) /\ c.address = x3[c.family].address
         /\ c.from \in 0 .. Len(x5) /\ (c.from # 0 => c.from \in x6)
         /\ (c.from = 0 => x4[c.address] = c.family /\ x4'[c.address] = 0)
         /\ x6' \subseteq (x6 \ {c.from}) \cup {Len(x5) + 1}
    BY <1>4, <2>2, <2>3, <2>4, <2>5, <2>7
  <2>18. UNCHANGED <<x1, x2, x3, x9, x10>>
    BY <1>2
  <2>19. c \in Minted /\ x5' = Append(x5, c)
    BY <2>1, <2>3
  <2>20. QED
    BY <1>2, <1>6, <1>7, <2>8, <2>13, <2>16, <2>17, <2>18, <2>19, Minting
<1>22. QED
  BY <1>20, <1>21
LEMMA TriesStay ==
  ASSUME SignInInv, x11' = x11
  PROVE  /\ x11' \in [TxHashes -> [Requests -> Try]]
         /\ \A t \in TxHashes, a \in Requests :
              /\ x11'[t][a].nonce \in {0, x11[t][a].nonce}
              /\ x11'[t][a].step = "sign" => x11[t][a].step = "sign" /\ x11'[t][a].nonce # 0
              /\ x11'[t][a].mint \in {0, x11[t][a].mint}
<1>1. x11' \in [TxHashes -> [Requests -> Try]]
  BY DEF SignInInv, SignInTypes
<1>2. \A t \in TxHashes, a \in Requests : x11[t][a].step = "sign" => x11[t][a].nonce # 0
  BY DEF SignInInv, TriesSound
<1>3. QED
  BY <1>1, <1>2

LEMMA Refreshing ==
  ASSUME SignInInv, NEW k \in 1 .. Len(x5), SignIn!Refresh(k)
  PROVE  SignInInv'
<1> USE SignInAssumption
<1>0. SignInTypes /\ UNCHANGED <<x1, x2, x3, x4, x7, x9, x10, x11>>
  BY DEF SignInInv, SignIn!Refresh
<1>1. /\ x1 \in 0 .. LastWindow /\ x2 \in 0 .. MaxRestarts
      /\ x4 \in [Requests -> 0 .. Len(x3)] /\ x6 \subseteq 1 .. Len(x5)
      /\ x7 \in [at : Nat, count : 0 .. MaxFailures]
      /\ x8 \in JarWith(Len(x5)) /\ x9 \in Requests
      /\ x10 \in [TxHashes -> TabWith(Len(x5))]
  BY DEF SignInInv, SignInTypes
<1>2. Len(x5) \in Nat /\ x1 \in Nat /\ x5[k] \in Minted /\ Len(x3) \in Nat
  BY <1>0, SignInTyped
<1>3. /\ x11' \in [TxHashes -> [Requests -> Try]]
      /\ \A t \in TxHashes, a \in Requests :
           /\ x11'[t][a].nonce \in {0, x11[t][a].nonce}
           /\ x11'[t][a].step = "sign" => x11[t][a].step = "sign" /\ x11'[t][a].nonce # 0
           /\ x11'[t][a].mint \in {0, x11[t][a].mint}
  BY <1>0, TriesStay
<1>4. x4' = x4 /\ x7' = x7
  BY <1>0
<1>5. SignIn!Redeemable \subseteq x6
  BY DEF SignIn!Redeemable
<1>6. CASE k \notin SignIn!Redeemable
  <2>1. x5' = x5 /\ x6' \subseteq x6 /\ x8' \in {x8, [x8 EXCEPT !.refresh = 0]}
    BY <1>5, <1>6 DEF SignIn!Refresh, SignIn!AfterLookup
  <2>2. 0 \in 0 .. Len(x5)
    BY <1>2
  <2>3. x8' \in JarWith(Len(x5)) /\ x8'.csrf = x8.csrf
    BY <1>1, <2>1, <2>2 DEF JarWith
  <2>4. x1 <= x1' /\ UNCHANGED <<x3, x5>> /\ x1' \in 0 .. LastWindow
        /\ x2' \in 0 .. MaxRestarts /\ x9' \in Requests
        /\ x10' \in [TxHashes -> TabWith(Len(x5))]
    BY <1>0, <1>1, <1>2, <2>1
  <2>5. QED
    BY <1>1, <1>3, <1>4, <2>1, <2>3, <2>4, OnlyForgets
<1>7. CASE k \in SignIn!Redeemable
  <2> DEFINE c == [address |-> x5[k].address, family |-> x5[k].family, from |-> k,
                   by |-> None, at |-> x1]
             n == Len(x5)
  <2>1. /\ n < MaxMints /\ x5' = Append(x5, c)
        /\ x6' = (SignIn!Redeemable \ {k}) \cup {n + 1}
        /\ x8' \in {x8, [session |-> Len(x5'), refresh |-> Len(x5'), csrf |-> Len(x5')]}
    BY <1>7 DEF SignIn!Refresh, SignIn!AfterLookup, SignIn!Mint
  <2>2. /\ x5[k].family \in 1 .. Len(x3)
        /\ x5[k].address = x3[x5[k].family].address
    BY DEF SignInInv, Grounded
  <2>3. c \in Minted
    BY <1>2 DEF Minted
  <2>4. c.address = x5[k].address /\ c.family = x5[k].family /\ c.from = k /\ c.by = None
    OBVIOUS
  <2>5. Len(x5') = n + 1
    BY <1>0, <2>1, <2>3, MintsGrow
  <2> HIDE DEF c
  <2>6. 0 .. n \subseteq 0 .. n + 1 /\ n + 1 \in 0 .. n + 1 /\ k # 0 /\ k \in 0 .. n
    BY <1>2
  <2>7. /\ x8' \in JarWith(n + 1)
        /\ x8'.csrf = x8.csrf \/ (x8'.csrf = n + 1 /\ c.by = None)
    <3>1. CASE x8' = x8
      BY <1>1, <2>6, <3>1 DEF JarWith
    <3>2. CASE x8' = [session |-> Len(x5'), refresh |-> Len(x5'), csrf |-> Len(x5')]
      BY <2>4, <2>5, <2>6, <3>2 DEF JarWith
    <3>3. QED
      BY <2>1, <3>1, <3>2
  <2>8. /\ c.family \in 1 .. Len(x3) /\ c.address = x3[c.family].address
        /\ c.from \in 0 .. n /\ c.from \in x6 /\ c.from # 0
        /\ x6' \subseteq (x6 \ {c.from}) \cup {n + 1}
    BY <1>5, <1>7, <2>1, <2>2, <2>4, <2>6
  <2>9. UNCHANGED <<x1, x2, x3, x9, x10>>
    BY <1>0
  <2>10. QED
    BY <1>1, <1>3, <1>4, <2>1, <2>3, <2>7, <2>8, <2>9, Minting, SMTT(20)
<1>8. QED
  BY <1>6, <1>7

(* The server is left alone, and the browser keeps no more than it had.    *)
LEMMA BrowserMoves ==
  ASSUME SignInInv, UNCHANGED <<x1, x2, x3, x4, x5, x6, x7>>,
         x8' \in JarWith(Len(x5)), x9' \in Requests,
         x10' \in [TxHashes -> TabWith(Len(x5))],
         x11' \in [TxHashes -> [Requests -> Try]],
         \A t \in TxHashes, a \in Requests :
           /\ x11'[t][a].nonce \in {0, x11[t][a].nonce}
           /\ x11'[t][a].step = "sign" => x11[t][a].step = "sign" /\ x11'[t][a].nonce # 0
           /\ x11'[t][a].mint \in {0, x11[t][a].mint}
  PROVE  SignInInv'
<1>1. /\ x1' \in 0 .. LastWindow /\ x1 <= x1' /\ x2' \in 0 .. MaxRestarts
      /\ x4' \in [Requests -> 0 .. Len(x3)] /\ x4' = x4 /\ x6' \subseteq x6
      /\ x7' \in [at : Nat, count : 0 .. MaxFailures]
  BY SignInTyped DEF SignInInv, SignInTypes
<1>2. UNCHANGED <<x3, x5>>
  OBVIOUS
<1>3. QED
  BY <1>1, <1>2, OnlyForgets

LEMMA Joining ==
  ASSUME SignInInv, NEW t \in TxHashes, NEW a \in Requests, NEW c \in BOOLEAN,
         SignIn!Join(t, a, c), UNCHANGED <<x1, x2, x3, x4, x5, x6, x7, x8, x9, x10>>
  PROVE  SignInInv'
<1>1. SignInTypes
  BY DEF SignInInv
<1>2. PICK q \in Try :
        /\ x11' = [x11 EXCEPT ![t] = [x11[t] EXCEPT ![a] = q]]
        /\ Follows(q, x11[t][a])
  BY <1>1, JoinMoves
<1>3. /\ x11' \in [TxHashes -> [Requests -> Try]]
      /\ \A u \in TxHashes, b \in Requests :
           /\ x11'[u][b].nonce \in {0, x11[u][b].nonce}
           /\ x11'[u][b].step = "sign" => x11[u][b].step = "sign" /\ x11'[u][b].nonce # 0
           /\ x11'[u][b].mint \in {0, x11[u][b].mint}
  BY <1>2, OneFollows
<1>4. /\ x8' \in JarWith(Len(x5)) /\ x9' \in Requests
      /\ x10' \in [TxHashes -> TabWith(Len(x5))]
  BY DEF SignInInv, SignInTypes
<1>5. UNCHANGED <<x1, x2, x3, x4, x5, x6, x7>>
  OBVIOUS
<1>6. QED
  BY <1>3, <1>4, <1>5, BrowserMoves

(* An attempt ends, well or not.                                           *)
LEMMA Ending ==
  ASSUME SignInInv, NEW t \in TxHashes, NEW a \in Requests, NEW ok \in BOOLEAN,
         SignIn!Settled(t, a, ok), UNCHANGED <<x1, x2, x3, x4, x5, x6, x7, x8, x9>>
  PROVE  SignInInv'
<1> DEFINE k == x11[t][a].mint
           n == Len(x5)
<1>1. SignInTypes
  BY DEF SignInInv
<1>2. k \in 0 .. n
  <2>1. k <= n
    BY DEF SignInInv, TriesSound
  <2>2. x11[t][a] \in Try /\ n \in Nat
    BY <1>1, SignInTyped
  <2>3. QED
    BY <2>1, <2>2 DEF Try
<1>3. /\ x11' = [x11 EXCEPT ![t] = [x11[t] EXCEPT ![a] = SignIn!Idle]]
      /\ x10' \in [TxHashes -> TabWith(n)]
  BY <1>1, <1>2, SettledMoves
<1>4. PICK q \in Try : q = SignIn!Idle
  BY IdleTyped
<1>5. x11' = [x11 EXCEPT ![t] = [x11[t] EXCEPT ![a] = q]] /\ Follows(q, x11[t][a])
  BY <1>3, <1>4, IdleFollows
<1>6. x8' \in JarWith(n) /\ x9' \in Requests
  BY <1>1 DEF SignInTypes
<1>7. UNCHANGED <<x1, x2, x3, x4, x5, x6, x7>>
  OBVIOUS
<1>8. QED
  BY <1>3, <1>5, <1>6, <1>7, OneFollows, BrowserMoves

(* The cookies of an answer are stored.                                    *)
LEMMA Storing ==
  ASSUME SignInInv, NEW t \in TxHashes, NEW a \in Requests, SignIn!CookiesStored(t, a)
  PROVE  SignInInv'
<1> DEFINE p == x11[t][a]
           q == [p EXCEPT !.step = "reading"]
<1>1. SignInTypes
  BY DEF SignInInv
<1>2. p \in Try /\ Len(x5) \in Nat
  BY <1>1, SignInTyped
<1>3. p.mint \in 0 .. Len(x5)
  BY <1>2 DEF Try, SignInInv, TriesSound
<1>4. x8' \in JarWith(Len(x5))
  BY <1>3 DEF SignIn!CookiesStored, JarWith
<1>5. x11' = [x11 EXCEPT ![t] = [x11[t] EXCEPT ![a] = q]]
  BY <1>1 DEF SignIn!CookiesStored, SignInTypes
<1>6. /\ UNCHANGED <<x1, x2, x3, x4, x5, x6, x7, x9, x10>>
      /\ x9' \in Requests /\ x10' \in [TxHashes -> TabWith(Len(x5))]
  BY <1>1 DEF SignIn!CookiesStored, SignIn!server, SignInTypes
<1> HIDE DEF p
<1>7. q \in Try /\ q.step = "reading" /\ q.nonce = p.nonce /\ q.mint = p.mint
  BY <1>2 DEF Try
<1> HIDE DEF q
<1>8. q \in Try /\ Follows(q, x11[t][a])
  BY <1>7 DEF Follows, p
<1>9. PICK r \in Try : r = q
  BY <1>8
<1>10. x11' = [x11 EXCEPT ![t] = [x11[t] EXCEPT ![a] = r]] /\ Follows(r, x11[t][a])
  BY <1>5, <1>8, <1>9
<1>11. QED
  BY <1>4, <1>6, <1>10, OneFollows, BrowserMoves

(* What a tab, or the browser, forgets.                                    *)
LEMMA Forgetting ==
  ASSUME SignInInv,
         \/ \E t \in TxHashes : SignIn!Disconnect(t) \/ SignIn!Reload(t)
         \/ SignIn!Logout \/ SignIn!SwitchAccount
  PROVE  SignInInv'
<1>1. SignInTypes /\ UNCHANGED <<x1, x2, x3, x4, x5, x6, x7>>
  BY DEF SignInInv, SignIn!Disconnect, SignIn!Reload, SignIn!Logout,
         SignIn!SwitchAccount, SignIn!server
<1>2. Len(x5) \in Nat /\ 0 \in 0 .. Len(x5)
  BY <1>1, SignInTyped
<1>3. SignIn!Blank \in TabWith(Len(x5)) /\ SignIn!Empty \in JarWith(Len(x5))
  BY <1>2 DEF SignIn!Blank, SignIn!Empty, TabWith, JarWith
<1>4. /\ x8 \in JarWith(Len(x5)) /\ x9 \in Requests
      /\ x10 \in [TxHashes -> TabWith(Len(x5))]
      /\ x11 \in [TxHashes -> [Requests -> Try]]
  BY <1>1 DEF SignInTypes
<1>6. ASSUME NEW t \in TxHashes, x10' = [x10 EXCEPT ![t] = SignIn!Blank]
      PROVE  x10' \in [TxHashes -> TabWith(Len(x5))]
  BY <1>3, <1>4, <1>6
<1>7. ASSUME NEW t \in TxHashes, SignIn!Disconnect(t) PROVE SignInInv'
  <2>1. /\ x10' = [x10 EXCEPT ![t] = SignIn!Blank] /\ x8' = x8 /\ x9' = x9 /\ x11' = x11
    BY <1>7 DEF SignIn!Disconnect
  <2>2. /\ x11' \in [TxHashes -> [Requests -> Try]]
        /\ \A u \in TxHashes, b \in Requests :
             /\ x11'[u][b].nonce \in {0, x11[u][b].nonce}
             /\ x11'[u][b].step = "sign" => x11[u][b].step = "sign" /\ x11'[u][b].nonce # 0
             /\ x11'[u][b].mint \in {0, x11[u][b].mint}
    BY <2>1, TriesStay
  <2>3. x10' \in [TxHashes -> TabWith(Len(x5))]
    BY <1>6, <2>1
  <2>4. QED
    BY <1>1, <1>4, <2>1, <2>2, <2>3, BrowserMoves
<1>8. ASSUME NEW t \in TxHashes, SignIn!Reload(t) PROVE SignInInv'
  <2>1. /\ x10' = [x10 EXCEPT ![t] = SignIn!Blank] /\ x8' = x8 /\ x9' = x9
        /\ x11' = [x11 EXCEPT ![t] = [a \in Requests |-> SignIn!Idle]]
    BY <1>8 DEF SignIn!Reload
  <2>2. x11' \in [TxHashes -> [Requests -> Try]]
    BY <1>4, <2>1, IdleTyped
  <2>3. ASSUME NEW u \in TxHashes, NEW b \in Requests
        PROVE  /\ x11'[u][b].nonce \in {0, x11[u][b].nonce}
               /\ x11'[u][b].step = "sign" => x11[u][b].step = "sign" /\ x11'[u][b].nonce # 0
               /\ x11'[u][b].mint \in {0, x11[u][b].mint}
    <3>1. x11[u][b].step = "sign" => x11[u][b].nonce # 0
      BY DEF SignInInv, TriesSound
    <3>2. x11'[u][b] = x11[u][b] \/ x11'[u][b] = SignIn!Idle
      BY <1>4, <2>1
    <3>3. QED
      BY <3>1, <3>2, IdleTyped
  <2>4. x10' \in [TxHashes -> TabWith(Len(x5))]
    BY <1>6, <2>1
  <2>5. QED
    BY <1>1, <1>4, <2>1, <2>2, <2>3, <2>4, BrowserMoves
<1>9. ASSUME SignIn!Logout \/ SignIn!SwitchAccount PROVE SignInInv'
  <2>1. /\ x10' = x10 /\ x11' = x11 /\ x9' \in Requests
        /\ x8' = SignIn!Empty \/ x8' = x8
    BY <1>4, <1>9 DEF SignIn!Logout, SignIn!SwitchAccount
  <2>2. /\ x11' \in [TxHashes -> [Requests -> Try]]
        /\ \A u \in TxHashes, b \in Requests :
             /\ x11'[u][b].nonce \in {0, x11[u][b].nonce}
             /\ x11'[u][b].step = "sign" => x11[u][b].step = "sign" /\ x11'[u][b].nonce # 0
             /\ x11'[u][b].mint \in {0, x11[u][b].mint}
    BY <2>1, TriesStay
  <2>3. x8' \in JarWith(Len(x5))
    BY <1>3, <1>4, <2>1
  <2>4. x10' \in [TxHashes -> TabWith(Len(x5))]
    BY <1>4, <2>1
  <2>5. QED
    BY <1>1, <2>1, <2>2, <2>3, <2>4, BrowserMoves
<1>10. QED
  BY <1>7, <1>8, <1>9

(* The server restarts, or time passes.                                    *)
LEMMA ServerForgets ==
  ASSUME SignInInv, SignIn!Restart \/ SignIn!Tick
  PROVE  SignInInv'
<1> USE SignInAssumption
<1>1. SignInTypes
  BY DEF SignInInv
<1>2. /\ x8' = x8 /\ x9' = x9 /\ x10' = x10 /\ x11' = x11 /\ UNCHANGED <<x3, x5>>
      /\ x4' = x4 \/ x4' = SignIn!NoChallenge
      /\ x6' \subseteq x6
      /\ x7' = x7 \/ x7' = SignIn!NoFailures
      /\ \/ x1' = x1 /\ x2' = x2 + 1 /\ x2 < MaxRestarts
         \/ x1' = x1 + 1 /\ x2' = x2 /\ x1 < LastWindow
  BY DEF SignIn!Restart, SignIn!Tick, SignIn!server, SignIn!browser
<1>3. /\ x1 \in 0 .. LastWindow /\ x2 \in 0 .. MaxRestarts
      /\ x4 \in [Requests -> 0 .. Len(x3)]
      /\ x7 \in [at : Nat, count : 0 .. MaxFailures]
      /\ x8 \in JarWith(Len(x5)) /\ x9 \in Requests
      /\ x10 \in [TxHashes -> TabWith(Len(x5))]
  BY DEF SignInInv, SignInTypes
<1>4. x1' \in 0 .. LastWindow /\ x1 <= x1' /\ x2' \in 0 .. MaxRestarts
  BY <1>2, <1>3
<1>5. x7' \in [at : Nat, count : 0 .. MaxFailures]
  BY <1>1, <1>2, <1>3, FailuresTyped
<1>6. /\ x4' \in [Requests -> 0 .. Len(x3)]
      /\ \A a \in Requests : x4'[a] \in {0, x4[a]}
  <2>1. 0 \in 0 .. Len(x3)
    BY <1>1, SignInTyped
  <2>2. QED
    BY <1>2, <1>3, <2>1 DEF SignIn!NoChallenge
<1>7. /\ x11' \in [TxHashes -> [Requests -> Try]]
      /\ \A t \in TxHashes, a \in Requests :
           /\ x11'[t][a].nonce \in {0, x11[t][a].nonce}
           /\ x11'[t][a].step = "sign" => x11[t][a].step = "sign" /\ x11'[t][a].nonce # 0
           /\ x11'[t][a].mint \in {0, x11[t][a].mint}
  BY <1>2, TriesStay
<1>8. /\ x8' \in JarWith(Len(x5)) /\ x9' \in Requests
      /\ x10' \in [TxHashes -> TabWith(Len(x5))]
  BY <1>2, <1>3
<1>9. x6' \subseteq x6 /\ UNCHANGED <<x3, x5>>
  BY <1>2
<1>10. QED
  BY <1>4, <1>5, <1>6, <1>7, <1>8, <1>9, OnlyForgets

LEMMA SignInStep ==
  ASSUME SignInInv, SignIn!Next
  PROVE  SignInInv'
<1>1. ASSUME NEW t \in TxHashes, SignIn!EstablishSession(t) \/ SignIn!Reauthenticate(t)
      PROVE  SignInInv'
  <2>1. UNCHANGED <<x1, x2, x3, x4, x5, x6, x7, x8, x9, x10>>
    BY <1>1 DEF SignIn!EstablishSession, SignIn!Reauthenticate, SignIn!server
  <2>2. PICK a \in Requests, c \in BOOLEAN : SignIn!Join(t, a, c)
    <3>1. x9 \in Requests /\ x10[t].publicKey \in Requests \cup {None}
      <4>1. x10[t] \in TabWith(Len(x5)) /\ x9 \in Requests
        BY DEF SignInInv, SignInTypes
      <4>2. QED
        BY <4>1 DEF TabWith
    <3>2. QED
      BY <1>1, <3>1 DEF SignIn!EstablishSession, SignIn!Reauthenticate
  <2>3. QED
    BY <2>1, <2>2, Joining
<1>2. ASSUME NEW t \in TxHashes, NEW a \in Requests,
             SignIn!Answered(t, a) \/ SignIn!Failed(t, a)
      PROVE  SignInInv'
  <2>1. UNCHANGED <<x1, x2, x3, x4, x5, x6, x7, x8, x9>>
    BY <1>2 DEF SignIn!Answered, SignIn!Failed, SignIn!server
  <2>2. CASE SignIn!Answered(t, a)
    <3>1. SignIn!Settled(t, a, TRUE)
      BY <2>2 DEF SignIn!Answered
    <3>2. QED
      BY <2>1, <3>1, Ending
  <2>3. CASE SignIn!Failed(t, a)
    <3>1. SignIn!Settled(t, a, FALSE)
      BY <2>3 DEF SignIn!Failed
    <3>2. QED
      BY <2>1, <3>1, Ending
  <2>4. QED
    BY <1>2, <2>2, <2>3
<1>3. QED
  BY <1>1, <1>2, Issuing, Submitting, Storing, Refreshing, Forgetting, ServerForgets
     DEF SignIn!Next

(* The two halves of an answer, the cookie and the tab's token, are of one *)
(* mint, or the mint is torn: of a sign-in whose cookies are stored, the   *)
(* cookie is still its own, another client's, or none, or it is torn.      *)
Whole(t, a) ==
  x11[t][a].step = "reading" =>
    /\ x11[t][a].mint # 0
    /\ x8.csrf # 0 /\ x8.csrf # x11[t][a].mint /\ x5[x8.csrf].by = t => x11[t][a].mint \in x12

Current(t) ==
  x10[t].csrf # 0 /\ x8.csrf # 0 /\ x8.csrf # x10[t].csrf /\ x5[x8.csrf].by = t =>
    \/ x8.csrf \in x12 \/ x10[t].csrf \in x12
    \/ \E a \in Requests : x11[t][a].step = "reading" /\ x11[t][a].mint = x8.csrf

HalvesSound ==
  /\ x12 \subseteq 1 .. Len(x5)
  /\ \A t \in TxHashes, a \in Requests : Whole(t, a)
  /\ \A t \in TxHashes : Current(t)

(* Nothing of an answer arrives: the cookie stays, goes or is refreshed, a *)
(* tab keeps its token or none, and a sign-in that stops reading leaves a  *)
(* torn mint or a blank tab.                                               *)
LEMMA HalvesStay ==
  ASSUME SignInTypes, HalvesSound, Len(x5) <= Len(x5'), Len(x5') \in Nat,
         \A k \in 1 .. Len(x5) : x5'[k] = x5[k],
         x12 \subseteq x12', x12' \subseteq 1 .. Len(x5),
         x8'.csrf = x8.csrf \/ x8'.csrf = 0 \/ x5'[x8'.csrf].by = None,
         \A t \in TxHashes : x10'[t].csrf = x10[t].csrf \/ x10'[t].csrf = 0,
         \A t \in TxHashes, a \in Requests :
           /\ x11'[t][a].step = "reading" =>
                x11[t][a].step = "reading" /\ x11'[t][a].mint = x11[t][a].mint
           /\ x11[t][a].step = "reading" =>
                \/ x11'[t][a].step = "reading" /\ x11'[t][a].mint = x11[t][a].mint
                \/ x11[t][a].mint \in x12' \/ x10'[t].csrf = 0
  PROVE  HalvesSound'
<1> USE SignInAssumption
<1>1. x8.csrf \in 0 .. Len(x5) /\ Len(x5) \in Nat
  <2>1. x8 \in JarWith(Len(x5))
    BY DEF SignInTypes
  <2>2. QED
    BY <2>1, SignInTyped DEF JarWith
<1>2. ASSUME NEW t \in TxHashes, x8'.csrf # 0, x5'[x8'.csrf].by = t
      PROVE  x8'.csrf = x8.csrf /\ x5[x8.csrf].by = t
  <2>1. x8'.csrf = x8.csrf /\ x8.csrf \in 1 .. Len(x5)
    BY <1>1, <1>2
  <2>2. QED
    BY <1>2, <2>1
<1>3. ASSUME NEW t \in TxHashes, NEW a \in Requests PROVE Whole(t, a)'
  <2>1. SUFFICES ASSUME x11'[t][a].step = "reading"
                 PROVE  /\ x11'[t][a].mint # 0
                        /\ x8'.csrf # 0 /\ x8'.csrf # x11'[t][a].mint /\ x5'[x8'.csrf].by = t
                             => x11'[t][a].mint \in x12'
    BY DEF Whole
  <2>2. x11[t][a].step = "reading" /\ x11'[t][a].mint = x11[t][a].mint
    BY <2>1
  <2>3. /\ x11[t][a].mint # 0
        /\ x8.csrf # 0 /\ x8.csrf # x11[t][a].mint /\ x5[x8.csrf].by = t
             => x11[t][a].mint \in x12
    BY <2>2 DEF HalvesSound, Whole
  <2>4. QED
    BY <1>2, <2>2, <2>3
<1>4. ASSUME NEW t \in TxHashes PROVE Current(t)'
  <2>1. SUFFICES ASSUME x10'[t].csrf # 0, x8'.csrf # 0, x8'.csrf # x10'[t].csrf,
                        x5'[x8'.csrf].by = t
                 PROVE  \/ x8'.csrf \in x12' \/ x10'[t].csrf \in x12'
                        \/ \E a \in Requests :
                             x11'[t][a].step = "reading" /\ x11'[t][a].mint = x8'.csrf
    BY DEF Current
  <2>2. x10'[t].csrf = x10[t].csrf /\ x8'.csrf = x8.csrf /\ x5[x8.csrf].by = t
    BY <1>2, <2>1
  <2>3. \/ x8.csrf \in x12 \/ x10[t].csrf \in x12
        \/ \E a \in Requests : x11[t][a].step = "reading" /\ x11[t][a].mint = x8.csrf
    BY <2>1, <2>2 DEF HalvesSound, Current
  <2>4. QED
    BY <2>1, <2>2, <2>3
<1>5. x12' \subseteq 1 .. Len(x5')
  BY <1>1
<1>6. QED
  BY <1>3, <1>4, <1>5 DEF HalvesSound

(* One sign-in moves that is not reading, to a step other than that.       *)
LEMMA HalvesApart ==
  ASSUME SignInTypes, HalvesSound, NEW t \in TxHashes, NEW a \in Requests, NEW q \in Try,
         x11' = [x11 EXCEPT ![t] = [x11[t] EXCEPT ![a] = q]],
         Len(x5) <= Len(x5'), Len(x5') \in Nat,
         \A k \in 1 .. Len(x5) : x5'[k] = x5[k],
         UNCHANGED <<x8, x10, x12>>,
         \/ x11[t][a].step # "reading" /\ q.step # "reading"
         \/ q.step = x11[t][a].step /\ q.mint = x11[t][a].mint
  PROVE  HalvesSound'
<1>1. /\ x11'[t][a] = q
      /\ \A u \in TxHashes, b \in Requests :
           (u # t \/ b # a) => x11'[u][b] = x11[u][b]
  <2>1. x11 \in [TxHashes -> [Requests -> Try]]
    BY DEF SignInTypes
  <2>2. QED
    BY <2>1
<1>2. x12 \subseteq x12' /\ x12' \subseteq 1 .. Len(x5)
  BY DEF HalvesSound
<1>3. ASSUME NEW u \in TxHashes, NEW b \in Requests
      PROVE  /\ x11'[u][b].step = "reading" =>
                  x11[u][b].step = "reading" /\ x11'[u][b].mint = x11[u][b].mint
             /\ x11[u][b].step = "reading" =>
                  x11'[u][b].step = "reading" /\ x11'[u][b].mint = x11[u][b].mint
  BY <1>1
<1>4. x8'.csrf = x8.csrf /\ \A u \in TxHashes : x10'[u].csrf = x10[u].csrf
  OBVIOUS
<1>5. QED
  BY <1>2, <1>3, <1>4, HalvesStay

(* The cookies of an answer are stored: those that are being read beside   *)
(* it are torn.                                                            *)
LEMMA HalvesStored ==
  ASSUME SignInInv, HalvesSound, NEW t \in TxHashes, NEW a \in Requests,
         SignIn!CookiesStored(t, a)
  PROVE  HalvesSound'
<1> DEFINE k == x11[t][a].mint
<1>1. SignInTypes /\ x11 \in [TxHashes -> [Requests -> Try]] /\ Len(x5) \in Nat
  BY SignInTyped DEF SignInInv, SignInTypes
<1>2. k # 0 /\ k \in 1 .. Len(x5) /\ x5[k].by = t
  <2>1. k # 0
    BY DEF SignIn!CookiesStored
  <2>2. k <= Len(x5) /\ x5[k].by = t
    BY <2>1 DEF SignInInv, TriesSound
  <2>3. k \in Nat
    BY <1>1, SignInTyped DEF Try
  <2>4. QED
    BY <1>1, <2>1, <2>2, <2>3
<1>3. /\ x8'.csrf = k /\ UNCHANGED <<x5, x10>>
      /\ x12' = x12 \cup SignIn!Reading(t)
  BY DEF SignIn!CookiesStored, SignIn!server
<1>4. /\ x11'[t][a].step = "reading" /\ x11'[t][a].mint = k
      /\ \A u \in TxHashes, b \in Requests :
           (u # t \/ b # a) => x11'[u][b] = x11[u][b]
  <2>1. x11[t][a] \in Try
    BY <1>1
  <2>2. QED
    BY <1>1, <2>1 DEF SignIn!CookiesStored, Try
<1>5. \A b \in Requests : x11[t][b].step = "reading" => x11[t][b].mint \in x12'
  BY <1>3 DEF SignIn!Reading
<1>6. x12' \subseteq 1 .. Len(x5')
  <2>1. ASSUME NEW b \in Requests, x11[t][b].step = "reading"
        PROVE  x11[t][b].mint \in 1 .. Len(x5)
    <3>1. x11[t][b].mint # 0 /\ x11[t][b].mint <= Len(x5)
      BY <2>1 DEF HalvesSound, Whole, SignInInv, TriesSound
    <3>2. x11[t][b].mint \in Nat
      BY <1>1, SignInTyped DEF Try
    <3>3. QED
      BY <1>1, <3>1, <3>2
  <2>2. QED
    BY <1>3, <2>1 DEF SignIn!Reading, HalvesSound
<1>7. ASSUME NEW u \in TxHashes, NEW b \in Requests PROVE Whole(u, b)'
  <2>1. CASE u = t /\ b = a
    BY <1>2, <1>3, <1>4, <2>1 DEF Whole
  <2>2. CASE u = t /\ b # a
    BY <1>4, <1>5, <2>2 DEF Whole, HalvesSound
  <2>3. CASE u # t
    BY <1>2, <1>3, <1>4, <2>3 DEF Whole, HalvesSound
  <2>4. QED
    BY <2>1, <2>2, <2>3
<1>8. ASSUME NEW u \in TxHashes PROVE Current(u)'
  BY <1>2, <1>3, <1>4 DEF Current
<1>9. QED
  BY <1>6, <1>7, <1>8 DEF HalvesSound

(* A sign-in ends: its body was read, or it failed and is torn.            *)
LEMMA HalvesSettled ==
  ASSUME SignInInv, HalvesSound, NEW t \in TxHashes, NEW a \in Requests,
         SignIn!Answered(t, a) \/ SignIn!Failed(t, a)
  PROVE  HalvesSound'
<1> DEFINE k == x11[t][a].mint
<1>1. SignInTypes /\ x11 \in [TxHashes -> [Requests -> Try]] /\ Len(x5) \in Nat
  BY SignInTyped DEF SignInInv, SignInTypes
<1>2. k \in 0 .. Len(x5)
  <2>1. k <= Len(x5) /\ k \in Nat
    BY <1>1, SignInTyped DEF Try, SignInInv, TriesSound
  <2>2. QED
    BY <1>1, <2>1
<1>3. UNCHANGED <<x5, x8>>
  BY DEF SignIn!Answered, SignIn!Failed, SignIn!server
<1>4. PICK ok \in BOOLEAN :
        /\ SignIn!Settled(t, a, ok)
        /\ ok => x11[t][a].step = "reading" /\ x12' = x12
        /\ ~ ok => x12' = x12 \cup (IF x11[t][a].step = "reading" THEN {k} ELSE {})
  <2>1. CASE SignIn!Answered(t, a)
    BY <2>1 DEF SignIn!Answered
  <2>2. CASE SignIn!Failed(t, a)
    BY <2>2 DEF SignIn!Failed
  <2>3. QED
    BY <2>1, <2>2
<1>5. /\ x11' = [x11 EXCEPT ![t] = [x11[t] EXCEPT ![a] = SignIn!Idle]]
      /\ \A u \in TxHashes \ {t} : x10'[u] = x10[u]
      /\ x10'[t].csrf = IF ok THEN k ELSE x10[t].csrf
  BY <1>1, <1>2, <1>4, SettledMoves
<1>6. /\ x11'[t][a].step # "reading"
      /\ \A u \in TxHashes, b \in Requests :
           (u # t \/ b # a) => x11'[u][b] = x11[u][b]
  BY <1>1, <1>5, IdleTyped
<1>7. x11[t][a].step = "reading" => k # 0 /\ k \in 1 .. Len(x5)
  BY <1>1, <1>2 DEF HalvesSound, Whole
<1>8. x12 \subseteq x12' /\ x12' \subseteq 1 .. Len(x5)
  BY <1>4, <1>7 DEF HalvesSound
<1>9. CASE ~ ok
  <2>1. \A u \in TxHashes : x10'[u].csrf = x10[u].csrf
    BY <1>5, <1>9
  <2>2. ASSUME NEW u \in TxHashes, NEW b \in Requests
        PROVE  /\ x11'[u][b].step = "reading" =>
                    x11[u][b].step = "reading" /\ x11'[u][b].mint = x11[u][b].mint
               /\ x11[u][b].step = "reading" =>
                    \/ x11'[u][b].step = "reading" /\ x11'[u][b].mint = x11[u][b].mint
                    \/ x11[u][b].mint \in x12'
    BY <1>4, <1>6, <1>9
  <2>3. QED
    BY <1>1, <1>3, <1>8, <2>1, <2>2, HalvesStay
<1>10. CASE ok
  <2>1. x11[t][a].step = "reading" /\ x12' = x12
    BY <1>4, <1>10
  <2>2. ASSUME NEW u \in TxHashes, NEW b \in Requests PROVE Whole(u, b)'
    BY <1>3, <1>6, <2>1 DEF Whole, HalvesSound
  <2>3. ASSUME NEW u \in TxHashes, u # t PROVE Current(u)'
    BY <1>3, <1>5, <1>6, <2>1, <2>3 DEF Current, HalvesSound
  <2>4. Current(t)'
    <3>1. x10'[t].csrf = k
      BY <1>5, <1>10
    <3>2. x8.csrf # 0 /\ x8.csrf # k /\ x5[x8.csrf].by = t => k \in x12
      BY <2>1 DEF HalvesSound, Whole
    <3>3. QED
      BY <1>3, <2>1, <3>1, <3>2 DEF Current
  <2>5. QED
    BY <1>3, <1>8, <2>2, <2>3, <2>4 DEF HalvesSound
<1>11. QED
  BY <1>9, <1>10

LEMMA HalvesStep ==
  ASSUME SignInInv, HalvesSound, SignIn!Next
  PROVE  HalvesSound'
<1> USE SignInAssumption
<1>1. SignInTypes /\ x11 \in [TxHashes -> [Requests -> Try]] /\ Len(x5) \in Nat
  BY SignInTyped DEF SignInInv, SignInTypes
<1>2. x12 \subseteq 1 .. Len(x5)
  BY DEF HalvesSound
<1>3. ASSUME x5' = x5, x12' = x12, x11' = x11, x8'.csrf = x8.csrf \/ x8'.csrf = 0,
             \A t \in TxHashes : x10'[t].csrf = x10[t].csrf \/ x10'[t].csrf = 0
      PROVE  HalvesSound'
  <2>1. Len(x5) <= Len(x5') /\ Len(x5') \in Nat /\ \A k \in 1 .. Len(x5) : x5'[k] = x5[k]
    BY <1>1, <1>3
  <2>2. QED
    BY <1>1, <1>2, <1>3, <2>1, HalvesStay
<1>4. ASSUME NEW t \in TxHashes, SignIn!EstablishSession(t) \/ SignIn!Reauthenticate(t)
      PROVE  HalvesSound'
  <2>1. UNCHANGED <<x5, x8, x10, x12>>
    BY <1>4 DEF SignIn!EstablishSession, SignIn!Reauthenticate, SignIn!server
  <2>2. PICK a \in Requests, c \in BOOLEAN : SignIn!Join(t, a, c)
    <3>1. x9 \in Requests /\ x10[t].publicKey \in Requests \cup {None}
      <4>1. x10[t] \in TabWith(Len(x5)) /\ x9 \in Requests
        BY <1>1 DEF SignInTypes
      <4>2. QED
        BY <4>1 DEF TabWith
    <3>2. QED
      BY <1>4, <3>1 DEF SignIn!EstablishSession, SignIn!Reauthenticate
  <2>3. PICK q \in Try :
          /\ x11' = [x11 EXCEPT ![t] = [x11[t] EXCEPT ![a] = q]]
          /\ q.mint = x11[t][a].mint
          /\ x11[t][a].step # "idle" => q.step = x11[t][a].step
          /\ x11[t][a].step = "idle" => q.step = "challenge"
    BY <1>1, <2>2, JoinMoves
  <2>4. \/ x11[t][a].step # "reading" /\ q.step # "reading"
        \/ q.step = x11[t][a].step /\ q.mint = x11[t][a].mint
    BY <2>3
  <2>5. Len(x5) <= Len(x5') /\ Len(x5') \in Nat /\ \A k \in 1 .. Len(x5) : x5'[k] = x5[k]
    BY <1>1, <2>1
  <2>6. QED
    BY <1>1, <2>1, <2>3, <2>4, <2>5, HalvesApart
<1>5. ASSUME NEW t \in TxHashes, SignIn!Disconnect(t) PROVE HalvesSound'
  <2>1. /\ UNCHANGED <<x5, x8, x11, x12>> /\ x10' = [x10 EXCEPT ![t] = SignIn!Blank]
        /\ SignIn!Blank.csrf = 0 /\ x10 \in [TxHashes -> TabWith(Len(x5))]
    BY <1>1, <1>5 DEF SignIn!Disconnect, SignIn!server, SignIn!Blank, SignInTypes
  <2>2. QED
    BY <1>3, <2>1
<1>6. ASSUME SignIn!Logout \/ SignIn!SwitchAccount \/ SignIn!Restart \/ SignIn!Tick
      PROVE  HalvesSound'
  <2>1. UNCHANGED <<x5, x10, x11, x12>> /\ (x8' = x8 \/ x8' = SignIn!Empty)
    BY <1>6 DEF SignIn!Logout, SignIn!SwitchAccount, SignIn!Restart, SignIn!Tick,
                SignIn!server, SignIn!browser
  <2>2. SignIn!Empty.csrf = 0
    BY DEF SignIn!Empty
  <2>3. QED
    BY <1>3, <2>1, <2>2
<1>7. ASSUME NEW t \in TxHashes, SignIn!Reload(t) PROVE HalvesSound'
  <2>1. /\ UNCHANGED <<x5, x8, x12>> /\ x10' = [x10 EXCEPT ![t] = SignIn!Blank]
        /\ SignIn!Blank.csrf = 0 /\ x10 \in [TxHashes -> TabWith(Len(x5))]
        /\ x11' = [x11 EXCEPT ![t] = [a \in Requests |-> SignIn!Idle]]
    BY <1>1, <1>7 DEF SignIn!Reload, SignIn!server, SignIn!Blank, SignInTypes
  <2>2. x10'[t].csrf = 0 /\ \A u \in TxHashes : x10'[u].csrf = x10[u].csrf \/ x10'[u].csrf = 0
    BY <2>1
  <2>3. ASSUME NEW u \in TxHashes, NEW b \in Requests
        PROVE  /\ x11'[u][b].step = "reading" =>
                    x11[u][b].step = "reading" /\ x11'[u][b].mint = x11[u][b].mint
               /\ x11[u][b].step = "reading" =>
                    \/ x11'[u][b].step = "reading" /\ x11'[u][b].mint = x11[u][b].mint
                    \/ x10'[u].csrf = 0
    <3>1. CASE u = t
      BY <1>1, <2>1, <2>2, <3>1, IdleTyped
    <3>2. CASE u # t
      BY <1>1, <2>1, <3>2
    <3>3. QED
      BY <3>1, <3>2
  <2>4. Len(x5) <= Len(x5') /\ Len(x5') \in Nat /\ \A k \in 1 .. Len(x5) : x5'[k] = x5[k]
    BY <1>1, <2>1
  <2>5. QED
    BY <1>1, <1>2, <2>1, <2>2, <2>3, <2>4, HalvesStay
<1>8. ASSUME NEW t \in TxHashes, NEW a \in Requests, SignIn!RequestChallenge(t, a)
      PROVE  HalvesSound'
  <2> DEFINE q == [x11[t][a] EXCEPT !.step = "sign", !.nonce = Len(x3) + 1]
  <2>1. /\ UNCHANGED <<x5, x8, x10, x12>> /\ x11[t][a].step = "challenge"
        /\ Len(x3) < MaxChallenges
        /\ x11' = [x11 EXCEPT ![t] = [x11[t] EXCEPT ![a] = q]]
    BY <1>1, <1>8 DEF SignIn!RequestChallenge, SignIn!IssueChallenge
  <2>2. q \in Try /\ q.step = "sign"
    <3>1. x11[t][a] \in Try /\ Len(x3) + 1 \in 0 .. MaxChallenges
      BY <1>1, <2>1, SignInTyped
    <3>2. QED
      BY <3>1 DEF Try
  <2> HIDE DEF q
  <2>3. PICK r \in Try : r = q
    BY <2>2
  <2>4. Len(x5) <= Len(x5') /\ Len(x5') \in Nat /\ \A k \in 1 .. Len(x5) : x5'[k] = x5[k]
    BY <1>1, <2>1
  <2>5. x11' = [x11 EXCEPT ![t] = [x11[t] EXCEPT ![a] = r]] /\ r.step = "sign"
    BY <2>1, <2>2, <2>3
  <2>6. x11[t][a].step # "reading" /\ r.step # "reading" /\ UNCHANGED <<x8, x10, x12>>
    BY <2>1, <2>5
  <2>7. QED
    BY <1>1, <2>4, <2>5, <2>6, HalvesApart
<1>9. ASSUME NEW t \in TxHashes, NEW a \in Requests, SignIn!SubmitSignature(t, a)
      PROVE  HalvesSound'
  <2> DEFINE m == IF x5' = x5 THEN 0 ELSE Len(x5')
             q == [x11[t][a] EXCEPT !.step = "answered", !.mint = m]
  <2>1. /\ UNCHANGED <<x3, x8, x10, x12>> /\ x11[t][a].step = "sign" /\ Len(x5) < MaxMints
        /\ x11' = [x11 EXCEPT ![t] = [x11[t] EXCEPT ![a] = q]]
    BY <1>1, <1>9 DEF SignIn!SubmitSignature
  <2>2. SignInInv'
    BY <1>9, Submitting
  <2>3. Len(x5) <= Len(x5') /\ Len(x5') \in Nat /\ Len(x5') <= MaxMints
        /\ \A k \in 1 .. Len(x5) : x5'[k] = x5[k]
    <3>1. PICK good \in BOOLEAN : SignIn!Verify(x11[t][a].nonce, a, t, good)
      BY <1>9 DEF SignIn!SubmitSignature
    <3>2. x5' = x5 \/ \E c : x5' = Append(x5, c)
      BY <3>1 DEF SignIn!Verify, SignIn!Mint
    <3>3. x5 \in Seq(Minted) /\ x5' \in Seq(Minted) /\ Len(x5') <= MaxMints
      BY <1>1, <2>2 DEF SignInInv, SignInTypes
    <3>4. QED
      BY <1>1, <3>2, <3>3
  <2>4. m \in 0 .. MaxMints
    BY <2>3
  <2>5. x11[t][a] \in Try
    BY <1>1
  <2> HIDE DEF m
  <2>6. q \in Try /\ q.step = "answered"
    BY <2>4, <2>5 DEF Try
  <2> HIDE DEF q
  <2>7. PICK r \in Try : r = q
    BY <2>6
  <2>8. x11' = [x11 EXCEPT ![t] = [x11[t] EXCEPT ![a] = r]] /\ r.step = "answered"
    BY <2>1, <2>6, <2>7
  <2>9. x11[t][a].step # "reading" /\ r.step # "reading" /\ UNCHANGED <<x8, x10, x12>>
    BY <2>1, <2>8
  <2>10. QED
    BY <1>1, <2>3, <2>8, <2>9, HalvesApart
<1>10. ASSUME NEW k \in 1 .. Len(x5), SignIn!Refresh(k) PROVE HalvesSound'
  <2>1. UNCHANGED <<x10, x11, x12>>
    BY <1>10 DEF SignIn!Refresh
  <2>2. CASE k \notin SignIn!Redeemable
    <3>1. x5' = x5 /\ x8' \in {x8, [x8 EXCEPT !.refresh = 0]} /\ x8 \in JarWith(Len(x5))
      BY <1>1, <1>10, <2>2 DEF SignIn!Refresh, SignInTypes
    <3>2. x8'.csrf = x8.csrf
      BY <3>1 DEF JarWith
    <3>3. QED
      BY <1>3, <2>1, <3>1, <3>2
  <2>3. CASE k \in SignIn!Redeemable
    <3> DEFINE c == [address |-> x5[k].address, family |-> x5[k].family, from |-> k,
                     by |-> None, at |-> x1]
               j == [session |-> Len(x5'), refresh |-> Len(x5'), csrf |-> Len(x5')]
    <3>1. x5' = Append(x5, c) /\ (x8' = x8 \/ x8' = j)
      BY <1>10, <2>3 DEF SignIn!Refresh, SignIn!Mint
    <3>2. c \in Minted /\ c.by = None
      <4>1. x5[k] \in Minted /\ x1 \in Nat
        BY <1>1, SignInTyped
      <4>2. QED
        BY <1>1, <4>1 DEF Minted
    <3> HIDE DEF c
    <3>3. /\ Len(x5') = Len(x5) + 1 /\ \A i \in 1 .. Len(x5) : x5'[i] = x5[i]
          /\ x5'[Len(x5) + 1].by = None
      BY <1>1, <3>1, <3>2, MintsGrow
    <3>4. x8'.csrf = x8.csrf \/ x5'[x8'.csrf].by = None
      BY <3>1, <3>3
    <3>5. Len(x5) <= Len(x5') /\ Len(x5') \in Nat /\ x12 \subseteq x12' /\ x12' \subseteq 1 .. Len(x5)
      BY <1>1, <1>2, <2>1, <3>3
    <3>6. QED
      BY <1>1, <2>1, <3>3, <3>4, <3>5, HalvesStay
  <2>4. QED
    BY <2>2, <2>3
<1>11. QED
  BY <1>4, <1>5, <1>6, <1>7, <1>8, <1>9, <1>10, HalvesStored, HalvesSettled DEF SignIn!Next

(* While a tab signs the challenge the server expects, that challenge is   *)
(* pending; as long as it and the attempt stay, so does the signing.       *)
LEMMA StillSigned ==
  ASSUME SignInInv, NEW t \in TxHashes, NEW a \in Requests, SignIn!Signing(t, a),
         x1' = x1, \A k \in 1 .. Len(x3) : x3'[k] = x3[k],
         x4' \in [Requests -> Nat], x4'[a] \in {x4[a], SignIn!Unexpired[a]},
         x11'[t][a].step = "sign", x11'[t][a].nonce = x11[t][a].nonce
  PROVE  SignIn!Signing(t, a)'
<1>1. x4 \in [Requests -> 0 .. Len(x3)] /\ Len(x3) \in Nat
  BY SignInTyped DEF SignInInv, SignInTypes
<1>2. x11[t][a].nonce # 0 /\ x11[t][a].nonce = SignIn!Unexpired[a]
  BY DEF SignIn!Signing, SignInInv, TriesSound
<1>3. /\ SignIn!Unexpired[a] = x4[a] /\ x4[a] # 0
      /\ ~ (x3[x4[a]].at + 1 < x1)
  BY <1>1, <1>2 DEF SignIn!Unexpired
<1>4. x4'[a] = x4[a] /\ x4[a] \in 1 .. Len(x3)
  BY <1>1, <1>3
<1>5. SignIn!Unexpired'[a] = x4[a]
  <2>1. x3'[x4'[a]].at = x3[x4[a]].at
    BY <1>4
  <2>2. SignIn!Unexpired'[a] =
          IF x4'[a] # 0 /\ x3'[x4'[a]].at + 1 < x1' THEN 0 ELSE x4'[a]
    BY DEF SignIn!Unexpired
  <2>3. QED
    BY <1>3, <1>4, <2>1, <2>2
<1>6. QED
  BY <1>2, <1>3, <1>5 DEF SignIn!Signing

(* What a step may do to a challenge that is being signed.                 *)
LEMMA ChallengeKept ==
  ASSUME SignInInv, SignIn!Next
  PROVE  SignIn!ChallengeStands
<1> SUFFICES ASSUME NEW t \in TxHashes, NEW a \in Requests, SignIn!Signing(t, a),
                    ~ (x11'[t][a].step = "answered" \/ x11'[t][a] = SignIn!Idle),
                    x1' = x1, x2' = x2,
                    ~ (\E u \in TxHashes \ {t} : x11'[u][a].nonce > x11[t][a].nonce)
             PROVE  SignIn!Signing(t, a)'
  BY DEF SignIn!ChallengeStands
<1>1. SignInTypes
  BY DEF SignInInv
<1>2. /\ x4 \in [Requests -> 0 .. Len(x3)] /\ Len(x3) \in Nat /\ Len(x5) \in Nat
      /\ x4 \in [Requests -> Nat]
      /\ x11 \in [TxHashes -> [Requests -> Try]] /\ x11[t][a] \in Try
      /\ x3 \in Seq(Challenge)
  BY <1>1, SignInTyped DEF SignInTypes
<1>3. /\ x11[t][a].step = "sign" /\ x11[t][a].nonce = SignIn!Unexpired[a]
      /\ x11[t][a].nonce # 0 /\ x11[t][a].nonce <= Len(x3) /\ x11[t][a].nonce \in Nat
  <2>1. x11[t][a].step = "sign" /\ x11[t][a].nonce = SignIn!Unexpired[a]
    BY DEF SignIn!Signing
  <2>2. x11[t][a].nonce # 0 /\ x11[t][a].nonce <= Len(x3)
    BY <2>1 DEF SignInInv, TriesSound
  <2>3. QED
    BY <1>2, <2>1, <2>2 DEF Try
<1>4. /\ SignIn!Unexpired \in [Requests -> 0 .. Len(x3)]
      /\ SignIn!Unexpired \in [Requests -> Nat]
  <2>1. SignIn!Unexpired \in [Requests -> 0 .. Len(x3)]
    BY <1>1, ExpiryOnlyForgets
  <2>2. QED
    BY <1>2, <2>1
<1>5. ASSUME UNCHANGED <<x3, x4>>, x11'[t][a].step = "sign",
             x11'[t][a].nonce = x11[t][a].nonce
      PROVE  SignIn!Signing(t, a)'
  BY <1>2, <1>5, StillSigned
<1>6. ASSUME UNCHANGED <<x3, x4>>, x11' = x11 PROVE SignIn!Signing(t, a)'
  BY <1>3, <1>5, <1>6
<1>7. ASSUME NEW u \in TxHashes, NEW b \in Requests, NEW q \in Try,
             x11' = [x11 EXCEPT ![u] = [x11[u] EXCEPT ![b] = q]], u # t \/ b # a
      PROVE  x11'[t][a] = x11[t][a]
  BY <1>1, <1>7, TryMoves
<1>8. ASSUME NEW u \in TxHashes,
             SignIn!EstablishSession(u) \/ SignIn!Reauthenticate(u)
      PROVE  SignIn!Signing(t, a)'
  <2>1. UNCHANGED <<x3, x4>>
    BY <1>8 DEF SignIn!EstablishSession, SignIn!Reauthenticate, SignIn!server
  <2>2. PICK b \in Requests, c \in BOOLEAN : SignIn!Join(u, b, c)
    <3>1. x9 \in Requests /\ x10[u].publicKey \in Requests \cup {None}
      <4>1. x10[u] \in TabWith(Len(x5)) /\ x9 \in Requests
        BY <1>1 DEF SignInTypes
      <4>2. QED
        BY <4>1 DEF TabWith
    <3>2. QED
      BY <1>8, <3>1 DEF SignIn!EstablishSession, SignIn!Reauthenticate
  <2>3. PICK q \in Try :
          /\ x11' = [x11 EXCEPT ![u] = [x11[u] EXCEPT ![b] = q]]
          /\ x11[u][b].step = "sign" => q.step = "sign" /\ q.nonce = x11[u][b].nonce
    BY <1>1, <2>2, JoinMoves
  <2>4. CASE u = t /\ b = a
    <3>1. x11'[t][a] = q
      BY <1>1, <2>3, <2>4, TryMoves
    <3>2. QED
      BY <1>3, <1>5, <2>1, <2>3, <2>4, <3>1
  <2>5. CASE u # t \/ b # a
    <3>1. x11'[t][a] = x11[t][a]
      BY <1>7, <2>3, <2>5
    <3>2. QED
      BY <1>3, <1>5, <2>1, <3>1
  <2>6. QED
    BY <2>4, <2>5
<1>9. ASSUME NEW u \in TxHashes, SignIn!Disconnect(u) \/ SignIn!Logout \/ SignIn!SwitchAccount
      PROVE  SignIn!Signing(t, a)'
  BY <1>6, <1>9 DEF SignIn!Disconnect, SignIn!Logout, SignIn!SwitchAccount, SignIn!server
<1>10. ASSUME NEW u \in TxHashes, SignIn!Reload(u) PROVE SignIn!Signing(t, a)'
  <2>1. /\ UNCHANGED <<x3, x4>>
        /\ x11' = [x11 EXCEPT ![u] = [b \in Requests |-> SignIn!Idle]]
    BY <1>10 DEF SignIn!Reload, SignIn!server
  <2>2. u # t /\ x11'[t] = x11[t]
    BY <1>2, <2>1
  <2>3. QED
    BY <1>3, <1>5, <2>1, <2>2
<1>11. ASSUME NEW u \in TxHashes, NEW b \in Requests, SignIn!RequestChallenge(u, b)
       PROVE  SignIn!Signing(t, a)'
  <2> DEFINE q == [x11[u][b] EXCEPT !.step = "sign", !.nonce = Len(x3) + 1]
  <2>1. /\ x11[u][b].step = "challenge" /\ Len(x3) < MaxChallenges
        /\ x3' = Append(x3, [address |-> b, at |-> x1])
        /\ x4' = [SignIn!Unexpired EXCEPT ![b] = Len(x3) + 1]
    BY <1>11 DEF SignIn!RequestChallenge, SignIn!IssueChallenge
  <2>2. x11' = [x11 EXCEPT ![u] = [x11[u] EXCEPT ![b] = q]]
    BY <1>2, <1>11 DEF SignIn!RequestChallenge
  <2>3. Len(x3) + 1 \in 0 .. MaxChallenges /\ x11[u][b] \in Try
    BY <1>2, <2>1, SignInAssumption
  <2>4. q \in Try /\ q.nonce = Len(x3) + 1
    BY <2>3 DEF Try
  <2> HIDE DEF q
  <2>5. PICK r \in Try : r = q
    BY <2>4
  <2>6. x11' = [x11 EXCEPT ![u] = [x11[u] EXCEPT ![b] = r]]
    BY <2>2, <2>5
  <2>7. x11'[u][b] = r
    BY <1>1, <2>6, TryMoves
  <2>8. Len(x3) + 1 > x11[t][a].nonce
    BY <1>2, <1>3
  <2>9. b # a
    <3>1. ASSUME b = a PROVE FALSE
      <4>1. u # t
        BY <1>3, <2>1, <3>1
      <4>2. QED
        BY <2>4, <2>5, <2>7, <2>8, <3>1, <4>1
    <3>2. QED
      BY <3>1
  <2>10. x11'[t][a] = x11[t][a]
    BY <1>7, <2>6, <2>9
  <2>11. \A k \in 1 .. Len(x3) : x3'[k] = x3[k]
    BY <1>2, <2>1
  <2>12. x4' \in [Requests -> Nat] /\ x4'[a] = SignIn!Unexpired[a]
    BY <1>2, <1>4, <2>1, <2>9
  <2>13. QED
    BY <1>3, <2>10, <2>11, <2>12, StillSigned
<1>12. ASSUME NEW u \in TxHashes, NEW b \in Requests, SignIn!SubmitSignature(u, b)
       PROVE  SignIn!Signing(t, a)'
  <2> DEFINE m == IF x5' = x5 THEN 0 ELSE Len(x5')
             q == [x11[u][b] EXCEPT !.step = "answered", !.mint = m]
  <2>1. PICK good \in BOOLEAN : SignIn!Verify(x11[u][b].nonce, b, u, good)
    BY <1>12 DEF SignIn!SubmitSignature
  <2>2. x11' = [x11 EXCEPT ![u] = [x11[u] EXCEPT ![b] = q]]
    BY <1>2, <1>12 DEF SignIn!SubmitSignature
  <2>3. x3' = x3 /\ x11[u][b].step = "sign"
    BY <1>12 DEF SignIn!SubmitSignature
  <2>4. x4' = x4 \/ x4' = SignIn!AfterPresenting(x11[u][b].nonce, b)
    BY <2>1 DEF SignIn!Verify
  <2>5. ~ (u = t /\ b = a)
    <3>1. ASSUME u = t, b = a PROVE FALSE
      <4>1. x11'[t][a] = q
        BY <1>2, <2>2, <3>1
      <4>2. q.step = "answered"
        BY <1>2, <3>1 DEF Try
      <4>3. QED
        BY <4>1, <4>2
    <3>2. QED
      BY <3>1
  <2>6. x11'[t][a] = x11[t][a]
    BY <1>2, <2>2, <2>5
  <2>7. ~ (a = b /\ SignIn!Matches(x11[u][b].nonce, b))
    <3>1. ASSUME a = b, SignIn!Matches(x11[u][b].nonce, b) PROVE FALSE
      <4>1. u \in TxHashes \ {t} /\ x11[u][a].nonce = x11[t][a].nonce
        BY <1>3, <2>5, <3>1 DEF SignIn!Matches
      <4>2. x11[t][a].nonce = x11[u][a].nonce => x11[t][a].nonce = 0
        BY <4>1 DEF SignInInv, TriesSound
      <4>3. QED
        BY <1>3, <4>1, <4>2
    <3>2. QED
      BY <3>1
  <2>8. x4' \in [Requests -> Nat] /\ x4'[a] \in {x4[a], SignIn!Unexpired[a]}
    <3>1. CASE x4' = x4
      BY <1>2, <3>1
    <3>2. CASE x4' = SignIn!AfterPresenting(x11[u][b].nonce, b)
      <4>1. x4' \in [Requests -> 0 .. Len(x3)]
        BY <1>1, <3>2, Presented
      <4>2. x4'[a] = SignIn!Unexpired[a]
        BY <1>1, <2>7, <3>2, Presented
      <4>3. QED
        BY <1>2, <4>1, <4>2
    <3>3. QED
      BY <2>4, <3>1, <3>2
  <2>9. \A k \in 1 .. Len(x3) : x3'[k] = x3[k]
    BY <2>3
  <2>10. QED
    BY <1>3, <2>6, <2>8, <2>9, StillSigned
<1>13. ASSUME NEW u \in TxHashes, NEW b \in Requests,
              SignIn!Answered(u, b) \/ SignIn!Failed(u, b)
       PROVE  SignIn!Signing(t, a)'
  <2>1. /\ UNCHANGED <<x3, x4>>
        /\ x11' = [x11 EXCEPT ![u] = [x11[u] EXCEPT ![b] = SignIn!Idle]]
    BY <1>2, <1>13 DEF SignIn!Answered, SignIn!Failed, SignIn!Settled, SignIn!server
  <2>2. ~ (u = t /\ b = a)
    BY <1>2, <2>1
  <2>3. x11'[t][a] = x11[t][a]
    BY <1>2, <2>1, <2>2
  <2>4. QED
    BY <1>3, <1>5, <2>1, <2>3
<1>17. ASSUME NEW u \in TxHashes, NEW b \in Requests, SignIn!CookiesStored(u, b)
       PROVE  SignIn!Signing(t, a)'
  <2>1. UNCHANGED <<x3, x4>> /\ x11[u][b].step = "answered"
    BY <1>17 DEF SignIn!CookiesStored, SignIn!server
  <2>2. ~ (u = t /\ b = a)
    BY <1>3, <2>1
  <2>3. x11'[t][a] = x11[t][a]
    BY <1>2, <1>17, <2>2 DEF SignIn!CookiesStored
  <2>4. QED
    BY <1>3, <1>5, <2>1, <2>3
<1>14. ASSUME NEW k \in 1 .. Len(x5), SignIn!Refresh(k) PROVE SignIn!Signing(t, a)'
  BY <1>6, <1>14 DEF SignIn!Refresh
<1>15. ASSUME SignIn!Restart \/ SignIn!Tick PROVE FALSE
  BY <1>1, <1>15, SignInAssumption DEF SignIn!Restart, SignIn!Tick, SignIn!server, SignInTypes
<1>16. QED
  BY <1>8, <1>9, <1>10, <1>11, <1>12, <1>13, <1>14, <1>15, <1>17 DEF SignIn!Next

LEMMA SignInStarts ==
  ASSUME SignIn!Init
  PROVE  SignInInv
<1> USE SignInAssumption
<1>1. /\ x1 = 0 /\ x2 = 0 /\ x3 = <<>> /\ x4 = SignIn!NoChallenge /\ x5 = <<>> /\ x6 = {}
      /\ x7 = SignIn!NoFailures /\ x8 = SignIn!Empty /\ x9 \in Requests
      /\ x10 = [t \in TxHashes |-> SignIn!Blank]
      /\ x11 = [t \in TxHashes |-> [a \in Requests |-> SignIn!Idle]]
  BY DEF SignIn!Init
<1>2. /\ <<>> \in Seq(Challenge) /\ <<>> \in Seq(Minted) /\ Len(<<>>) = 0
      /\ \A i : i \notin 1 .. 0
  OBVIOUS
<1>3. /\ SignIn!Blank \in TabWith(0) /\ SignIn!Blank.csrf = 0
      /\ SignIn!Empty \in JarWith(0)
      /\ SignIn!NoFailures \in [at : Nat, count : 0 .. MaxFailures]
      /\ SignIn!NoChallenge \in [Requests -> 0 .. 0]
  BY DEF SignIn!Blank, SignIn!Empty, SignIn!NoFailures, SignIn!NoChallenge, TabWith, JarWith
<1>4. SignInTypes
  <2>1. x11 \in [TxHashes -> [Requests -> Try]]
    BY <1>1, IdleTyped
  <2>2. x10 \in [TxHashes -> TabWith(0)]
    BY <1>1, <1>3
  <2>3. Len(x3) = 0 /\ Len(x5) = 0
    BY <1>1, <1>2
  <2>4. QED
    BY <1>1, <1>2, <1>3, <2>1, <2>2, <2>3 DEF SignInTypes
<1>5. Grounded(x5, x3) /\ UsedOnce(x5)
  BY <1>1, <1>2 DEF Grounded, UsedOnce
<1>6. Unspent(x6, x4, x5, x3)
  BY <1>1, <1>2 DEF Unspent, SignIn!NoChallenge
<1>7. TriesSound(x11, x5, x3)
  <2>1. Len(x3) = 0 /\ Len(x5) = 0
    BY <1>1, <1>2
  <2>2. \A t \in TxHashes, a \in Requests : x11[t][a] = SignIn!Idle
    BY <1>1
  <2>3. QED
    BY <2>1, <2>2, IdleTyped DEF TriesSound
<1>8. QED
  BY <1>4, <1>5, <1>6, <1>7 DEF SignInInv

(* However tabs, calls and restarts interleave: a signed challenge and a   *)
(* refresh token are used once, a tab's own sign-ins leave it with the     *)
(* cookie's CSRF token unless an answer of theirs was torn (its body lost  *)
(* after its cookies, or read after another's), and nothing a tab does     *)
(* takes away the challenge it is signing.                                 *)
THEOREM TokensHold == MCSpec => TokensSound
<1> DEFINE Inv == part = "SignIn" => SignInInv /\ HalvesSound
<1>1. MCInit => Inv
  <2>1. SignIn!Init => HalvesSound
    BY DEF SignIn!Init, SignIn!Empty, SignIn!Idle, HalvesSound, Whole, Current
  <2>2. QED
    BY <2>1, SignInStarts DEF MCInit
<1>2. Inv /\ [MCNext]_<<part, vars, xs>> => Inv'
  <2> SUFFICES ASSUME Inv, [MCNext]_<<part, vars, xs>> PROVE Inv'
    OBVIOUS
  <2>1. CASE part = "SignIn" /\ SignIn!Next /\ part' = part
    BY <2>1, SignInStep, HalvesStep
  <2>2. CASE UNCHANGED <<part, vars, xs>>
    BY <2>2 DEF xs, SignInInv, SignInTypes, Grounded, UsedOnce, Unspent, TriesSound,
                HalvesSound, Whole, Current
  <2>3. CASE part # "SignIn" /\ part' = part
    BY <2>3
  <2>4. QED
    BY <2>1, <2>2, <2>3 DEF MCNext
<1>3. Inv => (part = "SignIn" => SignIn!TypeOK /\ SignIn!SingleUse /\ SignIn!OwnCsrfCurrent)
  <2> SUFFICES ASSUME SignInInv, HalvesSound
               PROVE  SignIn!TypeOK /\ SignIn!SingleUse /\ SignIn!OwnCsrfCurrent
    OBVIOUS
  <2>1. SignInTypes
    BY DEF SignInInv
  <2>2. SignIn!TypeOK
    <3>1. ASSUME NEW n \in 1 .. Len(x3) PROVE x3[n] \in [address : Requests, at : 0 .. x1]
      <4>1. x3[n] \in Challenge /\ x3[n].at <= x1 /\ x1 \in Nat
        BY <2>1, SignInTyped DEF SignInTypes
      <4>2. QED
        BY <4>1 DEF Challenge
    <3>2. \A k \in 1 .. Len(x5) : x5[k].address = x3[x5[k].family].address
      BY DEF SignInInv, Grounded
    <3>3. SignIn!Recent <= MaxFailures
      BY <2>1, FailuresTyped, SignInAssumption
    <3>4. QED
      BY <2>1, <3>1, <3>2, <3>3
         DEF SignInTypes, JarWith, TabWith, Try, HalvesSound, SignIn!TypeOK, SignIn!Attempt
  <2>3. SignIn!SingleUse
    BY DEF SignInInv, UsedOnce, SignIn!SingleUse
  <2>4. SignIn!OwnCsrfCurrent
    <3>1. ASSUME NEW t \in TxHashes, NEW a \in Requests,
                 x11[t][a].step = "reading"
          PROVE  x11[t][a].mint \in SignIn!Reading(t)
      BY <3>1 DEF SignIn!Reading
    <3>2. QED
      BY <3>1 DEF HalvesSound, Current, SignIn!OwnCsrfCurrent
  <2>5. QED
    BY <2>2, <2>3, <2>4
<1>4. Inv /\ [MCNext]_<<part, vars, xs>> =>
        [part = "SignIn" => SignIn!ChallengeStands]_<<part, vars, xs>>
  BY ChallengeKept DEF MCNext
<1> HIDE DEF Inv
<1>5. QED
  BY <1>1, <1>2, <1>3, <1>4, PTL DEF MCSpec, TokensSound

-----------------------------------------------------------------------------
(* MembersScreen.  Of the rows under way only the latest request's can be  *)
(* shown, and a member removed from here is in none of them; a removal     *)
(* that waits for its rows is the one that asked for them; and while the   *)
(* row a dialog is about has stayed on the page, the focus came from it.   *)
Fetched == [stage : {"none", "sent", "answered"}, rows : SUBSET Requests]
Elements == MembersScreen!Elements
Modal == [before : Elements \cup {None}, timer : BOOLEAN, kept : BOOLEAN]

MembersTypes ==
  /\ x1 \subseteq Requests /\ x10 \subseteq Requests
  /\ x3 = None \/ x3 \subseteq Requests
  /\ x4 \in [MembersScreen!Causes -> Fetched] /\ x5 \in MembersScreen!Causes
  /\ x6 \in MembersScreen!Form /\ x7 \in MembersScreen!Removal
  /\ x8 \in Elements /\ x9 \in Modal

GoneStay(gone, members, coming, roster) ==
  /\ gone \cap members = {}
  /\ gone \cap coming = {}
  /\ gone \cap MembersScreen!Shows(roster) = {}

Busy(fetches, form, removal) ==
  /\ fetches["remove"].stage # "none" => removal.stage = "refreshing"
  /\ form.stage = "posting" => form.adding \in Requests
  /\ removal.stage = "deleting" => removal.deleting \in Requests

FocusFrom(removal, dialog, roster) ==
  removal.pending # None /\ removal.stage = "none" /\ dialog.kept =>
    /\ dialog.before = removal.pending
    /\ removal.pending \in MembersScreen!Shows(roster)

MembersInv ==
  /\ MembersTypes
  /\ GoneStay(x10, x1, x4[x5].rows, x3)
  /\ Busy(x4, x6, x7)
  /\ FocusFrom(x7, x9, x3)

(* A render leaves the focus somewhere, and knows where it came from as    *)
(* long as the row is there.                                               *)
LEMMA RenderMoves ==
  ASSUME MembersTypes, NEW shows, shows = None \/ shows \subseteq Requests,
         NEW removing \in BOOLEAN, NEW open \in BOOLEAN,
         open => x7.pending # None,
         MembersScreen!Render(shows, removing, open)
  PROVE  /\ x8' \in Elements /\ x9' \in Modal
         /\ open /\ x9'.kept => /\ x9.kept /\ x7.pending \in MembersScreen!Shows(shows)
                                /\ x9.before = x7.pending /\ ~ removing =>
                                     x9'.before = x7.pending
<1> DEFINE there == MembersScreen!Shows(shows)
<1>1. there \subseteq Requests
  BY DEF MembersScreen!Shows
<1>2. /\ {"input", "body"} \subseteq Elements /\ Requests \subseteq Elements
      /\ MembersScreen!Inside \subseteq Elements
  BY DEF Elements, MembersScreen!Elements
<1>3. MembersScreen!Settled(shows, removing, open) \subseteq Elements
  BY <1>2 DEF MembersTypes, MembersScreen!Settled
<1>4. MembersScreen!Restored(shows, removing, open) \subseteq Elements
  BY <1>1, <1>2, <1>3 DEF MembersScreen!Restored, MembersScreen!Focusable
<1>5. CASE ~ MembersScreen!IsOpen /\ ~ open
  BY <1>3, <1>5 DEF MembersScreen!Render, MembersTypes
<1>6. CASE ~ (~ MembersScreen!IsOpen /\ ~ open)
  <2>1. /\ x8' \in Elements
        /\ x7.pending # None /\ open => x8' \in MembersScreen!Restored(shows, removing, open)
        /\ x9' = [before |-> IF open THEN MembersScreen!Attached(x8', shows) ELSE None,
                  timer |-> open, kept |-> open => x9.kept /\ x7.pending \in there]
    BY <1>3, <1>4, <1>6 DEF MembersScreen!Render, MembersScreen!IsOpen
  <2>2. MembersScreen!Attached(x8', shows) \in Elements \cup {None}
    BY <2>1 DEF MembersScreen!Attached
  <2>3. x9' \in Modal
    BY <2>1, <2>2 DEF Modal
  <2>4. open /\ x9'.kept => x9.kept /\ x7.pending \in there
    BY <2>1
  <2>5. ASSUME open, x9'.kept, x9.before = x7.pending, ~ removing
        PROVE  x9'.before = x7.pending
    <3>1. x8' = x7.pending
      BY <2>1, <2>4, <2>5 DEF MembersScreen!Restored, MembersScreen!Focusable
    <3>2. QED
      BY <2>1, <2>4, <2>5, <3>1 DEF MembersScreen!Attached
  <2>6. QED
    BY <2>1, <2>3, <2>4, <2>5
<1>7. QED
  BY <1>5, <1>6

(* Requests for the rows.                                                  *)
LEMMA FetchesTyped ==
  /\ MembersScreen!Unsent \in Fetched /\ MembersScreen!Unsent.rows = {}
  /\ MembersScreen!Unsent.stage = "none"
  /\ [MembersScreen!Unsent EXCEPT !.stage = "sent"] \in Fetched
  /\ [MembersScreen!Unsent EXCEPT !.stage = "sent"].rows = {}
  /\ [MembersScreen!Unsent EXCEPT !.stage = "sent"].stage = "sent"
  /\ \A some \in SUBSET Requests : [stage |-> "answered", rows |-> some] \in Fetched
BY DEF MembersScreen!Unsent, Fetched

LEMMA SentMoves ==
  ASSUME MembersTypes, NEW c \in MembersScreen!Causes, x4' = MembersScreen!Sent(c)
  PROVE  /\ x4' \in [MembersScreen!Causes -> Fetched]
         /\ x4'[c].rows = {} /\ x4'[c].stage = "sent"
         /\ \A d \in MembersScreen!Causes : d # c => x4'[d] = x4[d]
<1>1. PICK f \in Fetched :
        f = [MembersScreen!Unsent EXCEPT !.stage = "sent"] /\ f.rows = {} /\ f.stage = "sent"
  BY FetchesTyped
<1>2. x4' = [x4 EXCEPT ![c] = f] /\ x4 \in [MembersScreen!Causes -> Fetched]
  BY <1>1 DEF MembersScreen!Sent, MembersTypes
<1>3. QED
  BY <1>1, <1>2

(* A request ends, with its rows or without, and who waits for it goes on. *)
LEMMA Finishing ==
  ASSUME MembersInv, NEW c \in MembersScreen!Causes, x4[c].stage # "none",
         MembersScreen!Finish(c), x3' \in {x3, x4[c].rows},
         x3' = x4[c].rows => c = x5 \/ x3' = x3, MembersScreen!Renders(x3')
  PROVE  MembersInv'
<1>1. /\ MembersTypes /\ Busy(x4, x6, x7)
      /\ UNCHANGED <<x1, x5, x10>> /\ x4' = [x4 EXCEPT ![c] = MembersScreen!Unsent]
  BY DEF MembersInv, MembersScreen!Finish
<1>2. /\ x4' \in [MembersScreen!Causes -> Fetched] /\ x4'[c] = MembersScreen!Unsent
      /\ \A d \in MembersScreen!Causes : d # c => x4'[d] = x4[d]
  <2>1. PICK f \in Fetched : f = MembersScreen!Unsent
    BY FetchesTyped
  <2>2. x4' = [x4 EXCEPT ![c] = f] /\ x4 \in [MembersScreen!Causes -> Fetched]
    BY <1>1, <2>1 DEF MembersTypes
  <2>3. QED
    BY <2>1, <2>2
<1>3. /\ x6' \in MembersScreen!Form
      /\ x6'.stage = "posting" => x6.stage = "posting" /\ x6'.adding = x6.adding
  BY <1>1 DEF MembersScreen!Finish, MembersTypes, MembersScreen!Form
<1>4. /\ x7' \in MembersScreen!Removal
      /\ c # "remove" => x7' = x7
      /\ c = "remove" => x7'.pending = None /\ x7'.stage = "none"
  BY <1>1 DEF MembersScreen!Finish, MembersTypes, MembersScreen!Removal
<1>5. x4[c].rows \subseteq Requests /\ (x3' = None \/ x3' \subseteq Requests)
  BY <1>1 DEF MembersTypes, Fetched
<1>6. PICK removing \in BOOLEAN, open \in BOOLEAN, shows \in {x3'} :
        removing = (x7'.stage # "none") /\ open = (x7'.pending # None)
  OBVIOUS
<1>7. open => x7.pending # None
  BY <1>4, <1>6
<1>8. MembersScreen!Render(shows, removing, open)
  BY <1>6 DEF MembersScreen!Renders
<1>9. /\ x8' \in Elements /\ x9' \in Modal
      /\ open /\ x9'.kept => /\ x9.kept /\ x7.pending \in MembersScreen!Shows(shows)
                             /\ x9.before = x7.pending /\ ~ removing => x9'.before = x7.pending
  BY <1>1, <1>5, <1>6, <1>7, <1>8, RenderMoves
<1>10. MembersTypes'
  BY <1>1, <1>2, <1>3, <1>4, <1>5, <1>9 DEF MembersTypes
<1>11. GoneStay(x10', x1', x4'[x5'].rows, x3')
  <2>1. x4'[x5'].rows \subseteq x4[x5].rows
    BY <1>1, <1>2, FetchesTyped DEF MembersTypes
  <2>2. x4[x5].rows # x3' \/ x3' = None => x10 \cap MembersScreen!Shows(x3') = {}
    BY <1>1 DEF MembersInv, GoneStay, MembersScreen!Shows
  <2>3. QED
    BY <1>1, <2>1, <2>2 DEF MembersInv, GoneStay, MembersScreen!Shows
<1>12. Busy(x4', x6', x7')
  <2>1. x4'["remove"].stage # "none" => c # "remove" /\ x4["remove"].stage # "none"
    BY <1>2, FetchesTyped DEF MembersScreen!Causes
  <2>2. QED
    BY <1>1, <1>3, <1>4, <2>1 DEF Busy
<1>13. FocusFrom(x7', x9', x3')
  BY <1>4, <1>6, <1>9 DEF FocusFrom, MembersInv
<1>14. QED
  BY <1>10, <1>11, <1>12, <1>13 DEF MembersInv

(* Members are added and removed, here and by others.                      *)
LEMMA Adding ==
  ASSUME MembersInv, MembersScreen!MemberAdded \/ MembersScreen!AddFails
  PROVE  MembersInv'
<1>1. /\ MembersTypes /\ Busy(x4, x6, x7) /\ UNCHANGED x7
      /\ x6.stage = "posting" /\ x6.adding \in Requests
  BY DEF MembersInv, Busy, MembersScreen!MemberAdded, MembersScreen!AddFails
<1>2. x6' \in MembersScreen!Form /\ x6'.stage # "posting"
  BY <1>1 DEF MembersScreen!MemberAdded, MembersScreen!AddFails, MembersTypes, MembersScreen!Form
<1>3. \/ /\ MembersScreen!MemberAdded
         /\ x1' = x1 \cup {x6.adding} /\ x10' = x10 \ {x6.adding}
         /\ x3' = None /\ x4' = MembersScreen!Sent("add") /\ x5' = "add"
      \/ MembersScreen!AddFails /\ UNCHANGED <<x1, x3, x4, x5, x10>>
  BY DEF MembersScreen!MemberAdded, MembersScreen!AddFails, MembersScreen!RevalidateMembers
<1>4. PICK removing \in BOOLEAN, open \in BOOLEAN, shows \in {x3'} :
        removing = MembersScreen!Removing /\ open = MembersScreen!IsOpen
  BY DEF MembersScreen!Removing, MembersScreen!IsOpen
<1>5. MembersScreen!Render(shows, removing, open) /\ (shows = None \/ shows \subseteq Requests)
  BY <1>1, <1>3, <1>4 DEF MembersScreen!MemberAdded, MembersScreen!AddFails, MembersTypes
<1>6. /\ x8' \in Elements /\ x9' \in Modal
      /\ open /\ x9'.kept => /\ x9.kept /\ x7.pending \in MembersScreen!Shows(shows)
                             /\ x9.before = x7.pending /\ ~ removing => x9'.before = x7.pending
  BY <1>1, <1>4, <1>5, RenderMoves DEF MembersScreen!IsOpen
<1>7. /\ x4' \in [MembersScreen!Causes -> Fetched] /\ x4'["remove"] = x4["remove"]
      /\ x5' \in MembersScreen!Causes
  <2>1. CASE x4' = MembersScreen!Sent("add") /\ x5' = "add"
    <3>1. "add" \in MembersScreen!Causes /\ "remove" \in MembersScreen!Causes /\ "add" # "remove"
      BY DEF MembersScreen!Causes
    <3>2. QED
      BY <1>1, <2>1, <3>1, SentMoves
  <2>2. CASE UNCHANGED <<x4, x5>>
    BY <1>1, <2>2 DEF MembersTypes
  <2>3. QED
    BY <1>3, <2>1, <2>2
<1>8. MembersTypes'
  BY <1>1, <1>2, <1>3, <1>6, <1>7 DEF MembersTypes
<1>9. GoneStay(x10', x1', x4'[x5'].rows, x3')
  BY <1>1, <1>3, <1>7, SentMoves DEF MembersScreen!Causes, MembersInv, GoneStay, MembersScreen!Shows
<1>10. Busy(x4', x6', x7')
  BY <1>1, <1>2, <1>7 DEF Busy
<1>11. FocusFrom(x7', x9', x3')
  BY <1>1, <1>4, <1>6 DEF FocusFrom, MembersInv, MembersScreen!Removing, MembersScreen!IsOpen
<1>12. QED
  BY <1>8, <1>9, <1>10, <1>11 DEF MembersInv

LEMMA Removing ==
  ASSUME MembersInv, MembersScreen!MemberRemoved \/ MembersScreen!RemoveFails
  PROVE  MembersInv'
<1>1. /\ MembersTypes /\ Busy(x4, x6, x7) /\ UNCHANGED x6
      /\ x7.stage = "deleting" /\ x7.deleting \in Requests
  BY DEF MembersInv, Busy, MembersScreen!MemberRemoved, MembersScreen!RemoveFails
<1>2. /\ x7' \in MembersScreen!Removal
      /\ \/ x7'.stage = "refreshing" /\ x4' = MembersScreen!Sent("remove")
         \/ x7'.stage = "none" /\ x7'.pending = None /\ x4' = x4
  <2>1. CASE MembersScreen!MemberRemoved
    BY <1>1, <2>1 DEF MembersScreen!MemberRemoved, MembersTypes, MembersScreen!Removal,
                      MembersScreen!RevalidateMembers
  <2>2. CASE MembersScreen!RemoveFails
    BY <1>1, <2>2 DEF MembersScreen!RemoveFails, MembersTypes, MembersScreen!Removal
  <2>3. QED
    BY <2>1, <2>2
<1>3. \/ /\ MembersScreen!MemberRemoved
         /\ x1' = x1 \ {x7.deleting} /\ x10' = x10 \cup {x7.deleting}
         /\ x3' = None /\ x4' = MembersScreen!Sent("remove") /\ x5' = "remove"
      \/ MembersScreen!RemoveFails /\ UNCHANGED <<x1, x3, x4, x5, x10>>
  BY DEF MembersScreen!MemberRemoved, MembersScreen!RemoveFails, MembersScreen!RevalidateMembers
<1>4. PICK removing \in BOOLEAN, open \in BOOLEAN, shows \in {x3'} :
        /\ MembersScreen!Render(shows, removing, open)
        /\ shows = None \/ shows \subseteq Requests
        /\ open => x7.pending # None
  <2>1. CASE MembersScreen!MemberRemoved
    <3>1. PICK open \in BOOLEAN, shows \in {x3'} : open = MembersScreen!IsOpen
      BY DEF MembersScreen!IsOpen
    <3>2. MembersScreen!Render(shows, TRUE, open) /\ shows = None
      BY <1>3, <2>1, <3>1 DEF MembersScreen!MemberRemoved, MembersScreen!RevalidateMembers
    <3>3. QED
      BY <3>1, <3>2 DEF MembersScreen!IsOpen
  <2>2. CASE MembersScreen!RemoveFails
    <3>1. PICK shows \in {x3'} : shows = x3
      BY <2>2 DEF MembersScreen!RemoveFails
    <3>2. MembersScreen!Render(shows, FALSE, FALSE)
      BY <2>2, <3>1 DEF MembersScreen!RemoveFails
    <3>3. QED
      BY <1>1, <3>1, <3>2 DEF MembersTypes
  <2>3. QED
    BY <2>1, <2>2
<1>5. x8' \in Elements /\ x9' \in Modal
  BY <1>1, <1>4, RenderMoves
<1>6. /\ x4' \in [MembersScreen!Causes -> Fetched] /\ x5' \in MembersScreen!Causes
      /\ x4' = MembersScreen!Sent("remove") => x4'["remove"].rows = {}
  BY <1>1, <1>3, SentMoves DEF MembersScreen!Causes, MembersTypes
<1>7. MembersTypes'
  BY <1>1, <1>2, <1>3, <1>5, <1>6 DEF MembersTypes
<1>8. GoneStay(x10', x1', x4'[x5'].rows, x3')
  BY <1>1, <1>3, <1>6 DEF MembersInv, GoneStay, MembersScreen!Shows
<1>9. Busy(x4', x6', x7')
  BY <1>1, <1>2, <1>3 DEF Busy
<1>10. FocusFrom(x7', x9', x3')
  BY <1>2, <1>3 DEF FocusFrom
<1>11. QED
  BY <1>7, <1>8, <1>9, <1>10 DEF MembersInv

(* The dialog opens, and closes again without a removal.                   *)
LEMMA Asking ==
  ASSUME MembersInv,
         \/ \E m \in Requests : MembersScreen!AskToRemove(m)
         \/ MembersScreen!Cancel \/ MembersScreen!HandleConfirm
  PROVE  MembersInv'
<1>1. MembersTypes /\ Busy(x4, x6, x7) /\ UNCHANGED <<x1, x3, x4, x5, x6, x10>>
  BY DEF MembersInv, MembersScreen!AskToRemove, MembersScreen!Cancel, MembersScreen!HandleConfirm
<1>2. /\ {"input", "body", "confirm"} \subseteq Elements /\ Requests \subseteq Elements
  BY DEF Elements, MembersScreen!Elements, MembersScreen!Inside
<1>3. CASE MembersScreen!Cancel
  <2>1. PICK removing \in BOOLEAN, shows \in {x3} : removing = MembersScreen!Removing
    BY DEF MembersScreen!Removing
  <2>2. MembersScreen!Render(shows, removing, FALSE) /\ (shows = None \/ shows \subseteq Requests)
    BY <1>1, <1>3, <2>1 DEF MembersScreen!Cancel, MembersTypes
  <2>3. x8' \in Elements /\ x9' \in Modal
    BY <1>1, <2>1, <2>2, RenderMoves
  <2>4. /\ x7' \in MembersScreen!Removal
        /\ x7'.pending = None /\ x7'.stage = x7.stage /\ x7'.deleting = x7.deleting
    BY <1>1, <1>3 DEF MembersScreen!Cancel, MembersTypes, MembersScreen!Removal
  <2>5. QED
    BY <1>1, <2>3, <2>4 DEF MembersInv, MembersTypes, Busy, FocusFrom
<1>4. CASE MembersScreen!HandleConfirm
  <2>1. x8' \in Elements
    BY <1>1, <1>2, <1>4 DEF MembersScreen!HandleConfirm, MembersTypes
  <2>2. x9' \in Modal
    BY <1>1, <1>4, <2>1 DEF MembersScreen!HandleConfirm, MembersTypes, Modal
  <2>3. /\ x7' \in MembersScreen!Removal /\ x7'.stage = "deleting" /\ x7'.deleting \in Requests
        /\ x7.stage = "none"
    BY <1>1, <1>4 DEF MembersScreen!HandleConfirm, MembersScreen!IsOpen, MembersScreen!Removing,
                      MembersTypes, MembersScreen!Removal
  <2>4. QED
    BY <1>1, <2>1, <2>2, <2>3 DEF MembersInv, MembersTypes, Busy, FocusFrom
<1>5. ASSUME NEW m \in Requests, MembersScreen!AskToRemove(m) PROVE MembersInv'
  <2>1. x8' \in Elements /\ x9' \in Modal /\ x9'.before = m /\ m \in MembersScreen!Shows(x3)
    BY <1>2, <1>5 DEF MembersScreen!AskToRemove, Modal
  <2>2. /\ x7' \in MembersScreen!Removal
        /\ x7'.pending = m /\ x7'.stage = x7.stage /\ x7'.deleting = x7.deleting
    BY <1>1, <1>5 DEF MembersScreen!AskToRemove, MembersTypes, MembersScreen!Removal
  <2>3. QED
    BY <1>1, <2>1, <2>2 DEF MembersInv, MembersTypes, Busy, FocusFrom
<1>6. QED
  BY <1>3, <1>4, <1>5

(* The other steps.                                                        *)
LEMMA Typing ==
  ASSUME MembersInv,
         \/ MembersScreen!FocusDialog \/ MembersScreen!Tab \/ MembersScreen!HandleAdd
         \/ \E text \in Requests \cup {"invalid"} : MembersScreen!Type(text)
  PROVE  MembersInv'
<1>1. MembersTypes /\ Busy(x4, x6, x7) /\ UNCHANGED <<x1, x3, x4, x5, x7, x10>>
  BY DEF MembersInv, MembersScreen!FocusDialog, MembersScreen!Tab, MembersScreen!HandleAdd,
         MembersScreen!Type
<1>2. x8' \in Elements
  BY <1>1 DEF MembersScreen!FocusDialog, MembersScreen!Tab, MembersScreen!HandleAdd,
         MembersScreen!Type, MembersTypes, Elements, MembersScreen!Elements,
         MembersScreen!Inside, MembersScreen!Shows
<1>3. x9' \in Modal /\ x9'.before = x9.before /\ x9'.kept = x9.kept
  BY <1>1 DEF MembersScreen!FocusDialog, MembersScreen!Tab, MembersScreen!HandleAdd,
         MembersScreen!Type, MembersTypes, Modal
<1>4. x6' \in MembersScreen!Form /\ (x6'.stage = "posting" => x6'.adding \in Requests)
  BY <1>1 DEF MembersScreen!FocusDialog, MembersScreen!Tab, MembersScreen!HandleAdd,
         MembersScreen!Type, MembersTypes, Busy, MembersScreen!Form
<1>5. QED
  BY <1>1, <1>2, <1>3, <1>4 DEF MembersInv, MembersTypes, Busy, FocusFrom

LEMMA Asked ==
  ASSUME MembersInv,
         \/ MembersScreen!Poll \/ MembersScreen!OthersChange
         \/ \E c \in MembersScreen!Causes : MembersScreen!ServerAnswers(c)
  PROVE  MembersInv'
<1>1. MembersTypes /\ Busy(x4, x6, x7) /\ UNCHANGED <<x3, x6, x7, x8, x9>>
  BY DEF MembersInv, MembersScreen!Poll, MembersScreen!OthersChange, MembersScreen!ServerAnswers
<1>2. CASE MembersScreen!Poll
  <2>1. UNCHANGED <<x1, x10>> /\ x5' = "poll" /\ x4' = MembersScreen!Sent("poll")
    BY <1>2 DEF MembersScreen!Poll
  <2>2. /\ x4' \in [MembersScreen!Causes -> Fetched] /\ x4'["poll"].rows = {}
        /\ x4'["remove"] = x4["remove"] /\ x5' \in MembersScreen!Causes
    BY <1>1, <2>1, SentMoves DEF MembersScreen!Causes
  <2>3. QED
    BY <1>1, <2>1, <2>2 DEF MembersInv, MembersTypes, GoneStay, Busy
<1>3. CASE MembersScreen!OthersChange
  BY <1>1, <1>3 DEF MembersScreen!OthersChange, MembersInv, MembersTypes, GoneStay
<1>4. ASSUME NEW c \in MembersScreen!Causes, MembersScreen!ServerAnswers(c) PROVE MembersInv'
  <2>1. PICK f \in Fetched : f = [stage |-> "answered", rows |-> x1]
    BY <1>1, FetchesTyped DEF MembersTypes
  <2>2. /\ UNCHANGED <<x1, x5, x10>> /\ x4[c].stage = "sent"
        /\ x4' = [x4 EXCEPT ![c] = f] /\ x4 \in [MembersScreen!Causes -> Fetched]
    BY <1>1, <1>4, <2>1 DEF MembersScreen!ServerAnswers, MembersTypes
  <2>3. /\ x4' \in [MembersScreen!Causes -> Fetched]
        /\ x4'[x5].rows = x4[x5].rows \/ x4'[x5].rows = x1
        /\ x4'["remove"].stage # "none" => x4["remove"].stage # "none"
    <3>1. f.rows = x1
      BY <2>1
    <3>2. QED
      BY <1>1, <2>2, <3>1 DEF MembersTypes, MembersScreen!Causes
  <2>4. QED
    BY <1>1, <2>2, <2>3 DEF MembersInv, MembersTypes, GoneStay, Busy
<1>5. QED
  BY <1>2, <1>3, <1>4

LEMMA MembersStep ==
  ASSUME MembersInv, MembersScreen!Next
  PROVE  MembersInv'
<1>1. ASSUME NEW c \in MembersScreen!Causes, MembersScreen!Receive(c) PROVE MembersInv'
  <2>1. x4[c].stage # "none" /\ x3' \in {x3, x4[c].rows} /\ (c = x5 \/ x3' = x3)
    BY <1>1 DEF MembersScreen!Receive
  <2>2. MembersScreen!Finish(c) /\ MembersScreen!Renders(x3')
    BY <1>1 DEF MembersScreen!Receive
  <2>3. QED
    BY <2>1, <2>2, Finishing
<1>2. ASSUME NEW c \in MembersScreen!Causes, MembersScreen!FetchFails(c) PROVE MembersInv'
  <2>1. x4[c].stage # "none" /\ x3' = x3 /\ MembersScreen!Finish(c)
    BY <1>2 DEF MembersScreen!FetchFails
  <2>2. MembersScreen!Renders(x3')
    BY <1>2, <2>1 DEF MembersScreen!FetchFails, MembersScreen!Renders
  <2>3. QED
    BY <2>1, <2>2, Finishing
<1>3. QED
  BY <1>1, <1>2, Typing, Asked, Adding, Asking, Removing DEF MembersScreen!Next

LEMMA MembersStart ==
  ASSUME MembersScreen!Init
  PROVE  MembersInv
<1>1. /\ x1 \subseteq Requests /\ x3 = None /\ x10 = {} /\ x5 = "poll"
      /\ x6 = [typed |-> None, adding |-> None, stage |-> "none", note |-> "none"]
      /\ x7 = [pending |-> None, deleting |-> None, stage |-> "none", failed |-> FALSE]
      /\ x8 = "body" /\ x9 = [before |-> None, timer |-> FALSE, kept |-> TRUE]
  BY DEF MembersScreen!Init
<1>2. /\ x4 \in [MembersScreen!Causes -> Fetched]
      /\ x4["remove"].stage = "none" /\ x4["poll"].rows = {}
  BY FetchesTyped DEF MembersScreen!Init, MembersScreen!Causes
<1>3. x5 \in MembersScreen!Causes /\ x8 \in Elements
  BY <1>1 DEF MembersScreen!Causes, Elements, MembersScreen!Elements
<1>4. MembersTypes
  BY <1>1, <1>2, <1>3 DEF MembersTypes, MembersScreen!Form, MembersScreen!Removal, Modal
<1>5. QED
  BY <1>1, <1>2, <1>4 DEF MembersInv, GoneStay, Busy, FocusFrom

(* Cancelling a dialog whose row stayed on the page.                       *)
LEMMA FocusStep ==
  ASSUME MembersInv, MembersScreen!Next
  PROVE  MembersScreen!FocusReturns
<1> SUFFICES ASSUME x7.pending # None, x9.kept, x7.stage = "none", x7'.pending = None
             PROVE  x8' = x7.pending
  BY DEF MembersScreen!FocusReturns, MembersScreen!IsOpen, MembersScreen!Removing
<1>1. /\ MembersTypes /\ Busy(x4, x6, x7)
      /\ x9.before = x7.pending /\ x7.pending \in MembersScreen!Shows(x3)
  BY DEF MembersInv, FocusFrom
<1>2. MembersScreen!Cancel
  <2>1. x7' # x7
    OBVIOUS
  <2>2. ASSUME NEW c \in MembersScreen!Causes, MembersScreen!Finish(c), x4[c].stage # "none"
        PROVE  FALSE
    <3>1. c # "remove"
      BY <1>1, <2>2 DEF Busy
    <3>2. QED
      BY <2>1, <2>2, <3>1 DEF MembersScreen!Finish
  <2>3. ~ \E c \in MembersScreen!Causes : MembersScreen!Receive(c) \/ MembersScreen!FetchFails(c)
    BY <2>2 DEF MembersScreen!Receive, MembersScreen!FetchFails
  <2>4. ~ MembersScreen!MemberRemoved /\ ~ MembersScreen!RemoveFails
    BY DEF MembersScreen!MemberRemoved, MembersScreen!RemoveFails
  <2>5. ~ \E m \in Requests : MembersScreen!AskToRemove(m)
    BY DEF MembersScreen!AskToRemove, MembersScreen!IsOpen
  <2>6. ~ MembersScreen!HandleConfirm
    BY <1>1 DEF MembersScreen!HandleConfirm, MembersTypes, MembersScreen!Removal
  <2>7. QED
    BY <2>1, <2>3, <2>4, <2>5, <2>6 DEF MembersScreen!Next, MembersScreen!FocusDialog,
       MembersScreen!Tab, MembersScreen!Poll, MembersScreen!ServerAnswers, MembersScreen!Type,
       MembersScreen!HandleAdd, MembersScreen!MemberAdded, MembersScreen!AddFails,
       MembersScreen!OthersChange
<1>3. MembersScreen!Render(x3, MembersScreen!Removing, FALSE) /\ ~ MembersScreen!Removing
  BY <1>2 DEF MembersScreen!Cancel, MembersScreen!Removing
<1>4. x8' \in MembersScreen!Restored(x3, MembersScreen!Removing, FALSE)
  BY <1>3 DEF MembersScreen!Render, MembersScreen!IsOpen
<1>5. QED
  BY <1>1, <1>3, <1>4 DEF MembersScreen!Restored, MembersScreen!Focusable

-----------------------------------------------------------------------------
(* MultisigScreen.  What the page has fetched tells of every press that is *)
(* done, since the fetch a press waits for was sent after its UPDATE; and  *)
(* whatever would execute the request - a call, a form, a press, the row   *)
(* that offers one - was there only once it had been approved.             *)
PageRow == MultisigScreen!Server!Row
PageCall == MultisigScreen!Server!Call
Serving == PageCalls \cup OtherCalls
Seen == [row : PageRow, stored : SUBSET Nat]
Outcomes == {"open", "lost", "refused", "unseen", "done"}
Stages == {"none", "sent", "serving", "answered", "refetching"}

PageTypes ==
  /\ x1 \in [{PageRequest} -> PageRow]
  /\ x2 \in [Serving -> PageCall]
  /\ x3 \in [{PageRequest} -> Nat]
  /\ x5 # None => x5 \in Seen
  /\ x6 # None => x6 \in Seen
  /\ x7 \in {{}, {"reject"}, {"execute"}}
  /\ x8 \in [no : Nat, op : {"approve", "reject", "execute", None},
             call : PageCalls \cup {None}, stage : Stages]
  /\ x9 \in Seq(Outcomes)
  /\ x10 \subseteq DOMAIN x9
  /\ x11 \in BOOLEAN
  /\ x8.stage # "none" => /\ x8.no \in DOMAIN x9 /\ x8.call \in PageCalls
                          /\ x8.op \in Operations
  /\ x8.call \in PageCalls => x8.stage # "none"
  /\ \A c \in Serving : x2[c].op # "idle" => x2[c].request = PageRequest

(* The presses that are done, and the one that is being fetched for.       *)
Told(ends, press, view, fetch, stored) ==
  /\ \A n \in DOMAIN ends : ends[n] = "done" =>
       /\ n \in view.stored /\ n \in stored
       /\ fetch # None => n \in fetch.stored
  /\ press.stage \in {"answered", "refetching"} => press.no \in stored
  /\ press.stage = "refetching" /\ fetch # None => press.no \in fetch.stored

Needs(row) == row.status = "pending" => row.current < row.required
Was(row, reached) == row.status \in {"approved", "executed"} => reached

Backed(row, tries, view, fetch, forms, press, reached) ==
  /\ Needs(row) /\ Was(row, reached)
  /\ view # None => Needs(view.row) /\ Was(view.row, reached)
  /\ fetch # None => Needs(fetch.row) /\ Was(fetch.row, reached)
  /\ \A c \in Serving : tries[c].op = "execute" => reached
  /\ "execute" \in forms \/ press.op = "execute" => reached

PageInv ==
  /\ PageTypes
  /\ Told(x9, x8, x5, x6, x10)
  /\ Backed(x1[PageRequest], x2, x5, x6, x7, x8, x11)

LEMMA PageDomain == PageTypes => DOMAIN x9 = 1 .. Len(x9) /\ Len(x9) \in Nat
BY DEF PageTypes

LEMMA PageShapes ==
  /\ MultisigScreen!Server!Idle \in PageCall /\ MultisigScreen!Server!Idle.op = "idle"
  /\ MultisigScreen!Server!NoRow \in PageRow
  /\ MultisigScreen!Server!NoRow.status = "none"
  /\ MultisigScreen!NoPress \in [no : Nat, op : {"approve", "reject", "execute", None},
       call : PageCalls \cup {None}, stage : Stages]
  /\ MultisigScreen!NoPress.stage = "none" /\ MultisigScreen!NoPress.call = None
  /\ MultisigScreen!NoPress.op = None
BY DEF MultisigScreen!Server!Idle, MultisigScreen!Server!NoRow, MultisigScreen!NoPress,
       PageCall, PageRow, MultisigScreen!Server!Call, MultisigScreen!Server!Row, Stages

(* A press ends some other way than done.                                  *)
LEMMA PressEnds ==
  ASSUME PageTypes, x8.stage # "none", NEW how \in Outcomes, MultisigScreen!End(how)
  PROVE  /\ x8' = MultisigScreen!NoPress
         /\ x9' \in Seq(Outcomes) /\ DOMAIN x9' = DOMAIN x9
         /\ x8.no \in DOMAIN x9 /\ x9'[x8.no] = how
         /\ \A n \in DOMAIN x9 : n # x8.no => x9'[n] = x9[n]
BY DEF PageTypes, MultisigScreen!End

(* One request, so a stored row is its row.                                *)
LEMMA RowStored ==
  ASSUME PageTypes, NEW row \in PageRow, x1' = [x1 EXCEPT ![PageRequest] = row]
  PROVE  x1' \in [{PageRequest} -> PageRow] /\ x1'[PageRequest] = row
BY DEF PageTypes

LEMMA CallStored ==
  ASSUME PageTypes, NEW c \in Serving, NEW call \in PageCall, x2' = [x2 EXCEPT ![c] = call]
  PROVE  /\ x2' \in [Serving -> PageCall] /\ x2'[c] = call
         /\ \A d \in Serving : d # c => x2'[d] = x2[d]
BY DEF PageTypes

(* The UPDATE of a call: the row it leaves is below its threshold if it is *)
(* pending, and executed only if the call was one of an approved request.  *)
LEMMA Updating ==
  ASSUME PageInv, NEW c \in Serving, MultisigScreen!Update(c), MultisigScreen!Reaches
  PROVE  /\ x1' \in [{PageRequest} -> PageRow]
         /\ x2' \in [Serving -> PageCall] /\ x2'[c].op = "idle"
         /\ \A d \in Serving : d # c => x2'[d] = x2[d]
         /\ x3' \in [{PageRequest} -> Nat]
         /\ Needs(x1'[PageRequest]) /\ Was(x1'[PageRequest], x11')
         /\ x11' \in BOOLEAN /\ (x11 => x11')
<1> DEFINE r == x2[c].request
           old == x1[PageRequest]
           n == x2[c].seen
<1>1. PageTypes /\ Needs(old) /\ Was(old, x11) /\ (x2[c].op = "execute" => x11)
  BY DEF PageInv, Backed
<1>2. x2[c] \in PageCall /\ old \in PageRow
  BY <1>1 DEF PageTypes
<1>3. r = PageRequest /\ x2[c].op \in {"approve", "reject", "execute"}
  BY <1>1 DEF PageTypes, MultisigScreen!Update, MultisigScreen!Server!Approve,
              MultisigScreen!Server!Reject, MultisigScreen!Server!Execute
<1>4. ASSUME NEW row \in PageRow, MultisigScreen!Server!StoreRow(c, r, row),
             Needs(row), row.status = "executed" => x11
      PROVE  /\ x1' \in [{PageRequest} -> PageRow] /\ x1'[PageRequest] = row
             /\ x2' \in [Serving -> PageCall] /\ x2'[c].op = "idle"
             /\ \A d \in Serving : d # c => x2'[d] = x2[d]
             /\ Needs(x1'[PageRequest]) /\ Was(x1'[PageRequest], x11')
             /\ x11' \in BOOLEAN /\ (x11 => x11')
  <2>1. x1' = [x1 EXCEPT ![PageRequest] = row]
    BY <1>3, <1>4 DEF MultisigScreen!Server!StoreRow
  <2>2. PICK idle \in PageCall : idle = MultisigScreen!Server!Idle
    BY PageShapes
  <2>3. x2' = [x2 EXCEPT ![c] = idle]
    BY <1>4, <2>2 DEF MultisigScreen!Server!StoreRow
  <2>4. x1' \in [{PageRequest} -> PageRow] /\ x1'[PageRequest] = row
    BY <1>1, <2>1, RowStored
  <2>5. /\ x2' \in [Serving -> PageCall] /\ x2'[c] = idle
        /\ \A d \in Serving : d # c => x2'[d] = x2[d]
    BY <1>1, <2>3, CallStored
  <2>6. x11' = (x11 \/ row.status = "approved") /\ x11 \in BOOLEAN
    BY <1>1, <2>4 DEF MultisigScreen!Reaches, PageTypes
  <2>7. QED
    BY <1>4, <2>2, <2>4, <2>5, <2>6, PageShapes DEF Was
<1>5. CASE MultisigScreen!Server!Approve(c)
  <2>1. PICK status \in {"approved", "pending"} :
          status = IF n + 1 >= old.required THEN "approved" ELSE "pending"
    OBVIOUS
  <2>2. PICK row : row = [old EXCEPT !.current = n + 1, !.status = status]
    OBVIOUS
  <2>3. row = MultisigScreen!Server!ApprovedRow(r, n)
    BY <1>3, <2>1, <2>2 DEF MultisigScreen!Server!ApprovedRow
  <2>4. n \in Nat /\ n + 1 \in Nat /\ old.required \in Nat
    BY <1>2 DEF PageCall, PageRow, MultisigScreen!Server!Call, MultisigScreen!Server!Row
  <2>5. /\ row \in PageRow /\ row.status = status /\ row.current = n + 1
        /\ row.required = old.required
    BY <1>2, <2>2, <2>4 DEF PageRow, MultisigScreen!Server!Row
  <2>6. Needs(row) /\ row.status # "executed"
    BY <2>1, <2>4, <2>5 DEF Needs
  <2>7. MultisigScreen!Server!StoreRow(c, r, row)
    BY <1>5, <2>3 DEF MultisigScreen!Server!Approve
  <2>8. x3' \in [{PageRequest} -> Nat]
    BY <1>1, <1>3, <1>5 DEF MultisigScreen!Server!Approve, PageTypes
  <2>9. QED
    BY <1>4, <2>5, <2>6, <2>7, <2>8
<1>6. CASE MultisigScreen!Server!Reject(c)
  <2>1. PICK row : row = [old EXCEPT !.status = "rejected"]
    OBVIOUS
  <2>2. MultisigScreen!Server!StoreRow(c, r, row) /\ UNCHANGED x3
    BY <1>3, <1>6, <2>1 DEF MultisigScreen!Server!Reject, MultisigScreen!Server!RejectedRow
  <2>3. row \in PageRow /\ row.status = "rejected"
    BY <1>2, <2>1 DEF PageRow, MultisigScreen!Server!Row
  <2>4. QED
    BY <1>1, <1>4, <2>2, <2>3 DEF Needs, PageTypes
<1>7. CASE MultisigScreen!Server!Execute(c)
  <2>1. PICK row : row = [old EXCEPT !.status = "executed", !.hash = x2[c].hash,
                                     !.executed_at = TRUE]
    OBVIOUS
  <2>2. MultisigScreen!Server!StoreRow(c, r, row) /\ UNCHANGED x3 /\ x2[c].op = "execute"
    BY <1>3, <1>7, <2>1 DEF MultisigScreen!Server!Execute, MultisigScreen!Server!ExecutedRow
  <2>3. row \in PageRow /\ row.status = "executed"
    BY <1>2, <2>1 DEF PageRow, MultisigScreen!Server!Row, PageCall, MultisigScreen!Server!Call
  <2>4. QED
    BY <1>1, <1>4, <2>2, <2>3 DEF Needs, PageTypes
<1>8. QED
  BY <1>5, <1>6, <1>7 DEF MultisigScreen!Update

(* Snapshots tell of what was stored when they were taken.                 *)
LEMMA SnapshotTells ==
  ASSUME PageInv
  PROVE  /\ MultisigScreen!Snapshot \in Seen
         /\ MultisigScreen!Snapshot.stored = x10
         /\ MultisigScreen!Snapshot.row = x1[PageRequest]
<1>1. x10 \subseteq Nat
  BY PageDomain DEF PageInv, PageTypes
<1>2. QED
  BY <1>1 DEF PageInv, PageTypes, Seen, MultisigScreen!Snapshot

LEMMA Fetching ==
  ASSUME PageInv, MultisigScreen!Fetch \/ MultisigScreen!Fetched
  PROVE  PageInv'
<1>1. UNCHANGED <<x1, x2, x3, x7, x8, x9, x10, x11>> /\ x8.stage # "refetching"
  BY DEF MultisigScreen!Fetch, MultisigScreen!Fetched, MultisigScreen!serverVars
<1>2. \/ x5' = x5 /\ x6' = MultisigScreen!Snapshot
      \/ x5' \in {x5, x6} /\ x6 # None /\ x6' = None
  BY DEF MultisigScreen!Fetch, MultisigScreen!Fetched
<1>3. PageTypes'
  BY <1>1, <1>2, SnapshotTells DEF PageInv, PageTypes
<1>4. Told(x9', x8', x5', x6', x10')
  BY <1>1, <1>2, SnapshotTells DEF PageInv, Told
<1>5. Backed(x1'[PageRequest], x2', x5', x6', x7', x8', x11')
  BY <1>1, <1>2, SnapshotTells DEF PageInv, Backed
<1>6. QED
  BY <1>3, <1>4, <1>5 DEF PageInv

LEMMA Forms ==
  ASSUME PageInv,
         \/ MultisigScreen!Cancel
         \/ \E op \in {"reject", "execute"} : MultisigScreen!ShowForm(op)
  PROVE  PageInv'
<1>1. UNCHANGED <<x1, x2, x3, x5, x6, x8, x9, x10, x11>>
  BY DEF MultisigScreen!Cancel, MultisigScreen!ShowForm, MultisigScreen!serverVars
<1>2. /\ x7' \in {{}, {"reject"}, {"execute"}}
      /\ "execute" \in x7' => x11
  <2>1. CASE MultisigScreen!Cancel
    BY <2>1 DEF MultisigScreen!Cancel
  <2>2. ASSUME NEW op \in {"reject", "execute"}, MultisigScreen!ShowForm(op)
        PROVE  /\ x7' \in {{}, {"reject"}, {"execute"}}
               /\ "execute" \in x7' => x11
    <3>1. op = "execute" => x11
      BY <2>2 DEF MultisigScreen!ShowForm, MultisigScreen!Offered, PageInv, Backed, Was
    <3>2. QED
      BY <2>2, <3>1 DEF MultisigScreen!ShowForm
  <2>3. QED
    BY <2>1, <2>2
<1>3. PageTypes'
  BY <1>1, <1>2 DEF PageInv, PageTypes
<1>4. QED
  BY <1>1, <1>2, <1>3 DEF PageInv, Told, Backed

LEMMA Pressing ==
  ASSUME PageInv, NEW op \in {"approve", "reject", "execute"}, MultisigScreen!Press(op)
  PROVE  PageInv'
<1>1. UNCHANGED <<x1, x2, x3, x5, x6, x7, x10, x11>> /\ x9' = Append(x9, "open")
  BY DEF MultisigScreen!Press, MultisigScreen!serverVars
<1>2. PICK call \in PageCalls :
        x8' = [no |-> Len(x9) + 1, op |-> op, call |-> call, stage |-> "sent"]
  BY DEF MultisigScreen!Press
<1>3. PageTypes /\ x9 \in Seq(Outcomes) /\ DOMAIN x9 = 1 .. Len(x9) /\ Len(x9) \in Nat
  BY PageDomain DEF PageInv, PageTypes
<1>4. /\ x9' \in Seq(Outcomes) /\ DOMAIN x9' = 1 .. Len(x9) + 1
      /\ \A n \in DOMAIN x9' : x9'[n] = "done" => n \in DOMAIN x9 /\ x9[n] = "done"
  <2>1. x9' \in Seq(Outcomes) /\ Len(x9') = Len(x9) + 1
    <3>1. PICK o \in Outcomes : o = "open"
      BY DEF Outcomes
    <3>2. QED
      BY <1>1, <1>3, <3>1
  <2>2. DOMAIN x9' = 1 .. Len(x9) + 1
    BY <2>1
  <2>3. \A n \in 1 .. Len(x9) + 1 : x9'[n] = IF n = Len(x9) + 1 THEN "open" ELSE x9[n]
    BY <1>1, <1>3
  <2>4. \A n \in 1 .. Len(x9) + 1 : n = Len(x9) + 1 \/ n \in 1 .. Len(x9)
    BY <1>3
  <2>5. QED
    BY <1>3, <2>1, <2>2, <2>3, <2>4
<1>5. Len(x9) + 1 \in DOMAIN x9' /\ Len(x9) + 1 \in Nat /\ DOMAIN x9 \subseteq DOMAIN x9'
  BY <1>3, <1>4
<1>6. op = "execute" => x11
  BY DEF MultisigScreen!Press, PageInv, Backed
<1>7. PageTypes'
  BY <1>1, <1>2, <1>3, <1>4, <1>5 DEF PageTypes, Stages, Operations
<1>8. Told(x9', x8', x5', x6', x10')
  BY <1>1, <1>2, <1>4 DEF PageInv, Told
<1>9. QED
  BY <1>1, <1>2, <1>6, <1>7, <1>8 DEF PageInv, Backed

(* A press ends without a fetch of its own, or with one that failed.       *)
LEMMA Ends ==
  ASSUME PageInv, x8.stage # "none", NEW how \in Outcomes, MultisigScreen!End(how),
         UNCHANGED <<x1, x3, x5, x10, x11>>, x6' \in {x6, None}, x7' \in {x7, {}},
         x2' \in [Serving -> PageCall],
         \A c \in Serving : x2'[c].op = "idle" \/ x2'[c] = x2[c], how # "done"
  PROVE  PageInv'
<1>1. /\ x8' = MultisigScreen!NoPress
      /\ x9' \in Seq(Outcomes) /\ DOMAIN x9' = DOMAIN x9
      /\ \A n \in DOMAIN x9 : x9'[n] = "done" => x9[n] = "done"
  BY PressEnds DEF PageInv
<1>2. PageTypes'
  <2>1. \A c \in Serving : x2'[c].op # "idle" => x2'[c].request = PageRequest
    BY DEF PageInv, PageTypes
  <2>2. x8'.stage = "none" /\ x8'.call \notin PageCalls
    BY <1>1, PageShapes, ScreenAssumption
  <2>3. QED
    BY <1>1, <2>1, <2>2, PageShapes DEF PageInv, PageTypes
<1>3. Told(x9', x8', x5', x6', x10')
  BY <1>1, PageShapes DEF PageInv, Told
<1>4. Backed(x1'[PageRequest], x2', x5', x6', x7', x8', x11')
  <2>1. \A c \in Serving : x2'[c].op = "execute" => x11'
    BY DEF PageInv, Backed
  <2>2. x8'.op # "execute" \/ x11'
    BY <1>1, PageShapes, ScreenAssumption DEF Operations
  <2>3. QED
    BY <2>1, <2>2 DEF PageInv, Backed
<1>5. QED
  BY <1>2, <1>3, <1>4 DEF PageInv

(* The answer arrives, the rows are fetched anew, and the press is done.   *)
LEMMA Answering ==
  ASSUME PageInv, MultisigScreen!Answered
  PROVE  PageInv'
<1>1. /\ UNCHANGED <<x1, x2, x3, x5, x7, x9, x10, x11>> /\ x8.stage = "answered"
      /\ x6' = MultisigScreen!Snapshot /\ x8' = [x8 EXCEPT !.stage = "refetching"]
  BY DEF MultisigScreen!Answered, MultisigScreen!Refetch, MultisigScreen!serverVars
<1>2. /\ x8' \in [no : Nat, op : {"approve", "reject", "execute", None},
                  call : PageCalls \cup {None}, stage : Stages]
      /\ x8'.stage = "refetching" /\ x8'.no = x8.no /\ x8'.op = x8.op /\ x8'.call = x8.call
  BY <1>1 DEF PageInv, PageTypes, Stages
<1>3. PageTypes'
  BY <1>1, <1>2, SnapshotTells DEF PageInv, PageTypes
<1>4. Told(x9', x8', x5', x6', x10')
  BY <1>1, <1>2, SnapshotTells DEF PageInv, Told
<1>5. Backed(x1'[PageRequest], x2', x5', x6', x7', x8', x11')
  BY <1>1, <1>2, SnapshotTells DEF PageInv, Backed
<1>6. QED
  BY <1>3, <1>4, <1>5 DEF PageInv

LEMMA Finished ==
  ASSUME PageInv, MultisigScreen!Finish
  PROVE  PageInv'
<1>1. /\ UNCHANGED <<x1, x2, x3, x10, x11>> /\ x8.stage = "refetching"
      /\ x6 # None /\ x6' = None /\ x7' = x7 \ {x8.op}
  BY DEF MultisigScreen!Finish, MultisigScreen!serverVars
<1>2. x7' \in {x7, {}}
  BY <1>1 DEF PageInv, PageTypes
<1>3. CASE UNCHANGED x5 /\ MultisigScreen!End("unseen")
  <2>1. "unseen" \in Outcomes /\ "unseen" # "done"
    BY DEF Outcomes
  <2>2. x2' \in [Serving -> PageCall]
    BY <1>1 DEF PageInv, PageTypes
  <2>3. QED
    BY <1>1, <1>2, <1>3, <2>1, <2>2, Ends
<1>4. CASE x5' = x6 /\ MultisigScreen!End("done")
  <2>1. "done" \in Outcomes
    BY DEF Outcomes
  <2>2. /\ x8' = MultisigScreen!NoPress
        /\ x9' \in Seq(Outcomes) /\ DOMAIN x9' = DOMAIN x9 /\ x8.no \in DOMAIN x9
        /\ \A n \in DOMAIN x9 : n # x8.no => x9'[n] = x9[n]
    BY <1>1, <1>4, <2>1, PressEnds DEF PageInv
  <2>3. PageTypes'
    <3>1. x8'.stage = "none" /\ x8'.call \notin PageCalls
      BY <2>2, PageShapes, ScreenAssumption
    <3>2. QED
      BY <1>1, <1>2, <1>4, <2>2, <3>1, PageShapes DEF PageInv, PageTypes
  <2>4. Told(x9', x8', x5', x6', x10')
    BY <1>1, <1>4, <2>2, PageShapes DEF PageInv, Told
  <2>5. Backed(x1'[PageRequest], x2', x5', x6', x7', x8', x11')
    BY <1>1, <1>2, <1>4, <2>2, PageShapes, ScreenAssumption DEF PageInv, Backed, Operations
  <2>6. QED
    BY <2>3, <2>4, <2>5 DEF PageInv
<1>5. QED
  BY <1>3, <1>4 DEF MultisigScreen!Finish

(* The page stops waiting.                                                 *)
LEMMA GivingUp ==
  ASSUME PageInv, MultisigScreen!GiveUp
  PROVE  PageInv'
<1>1. /\ UNCHANGED <<x1, x2, x3, x5, x6, x7, x10, x11>> /\ x8.stage # "none"
      /\ MultisigScreen!End("lost")
  BY DEF MultisigScreen!GiveUp, MultisigScreen!serverVars
<1>2. "lost" \in Outcomes /\ "lost" # "done" /\ x2' \in [Serving -> PageCall]
  BY <1>1 DEF Outcomes, PageInv, PageTypes
<1>3. QED
  BY <1>1, <1>2, Ends

(* What a SELECT puts into the slot of a call.                             *)
LEMMA Reading ==
  ASSUME PageTypes, NEW c \in Serving, NEW op \in Operations,
         NEW hash \in PageHashes \cup {None},
         MultisigScreen!Server!ReadRow(c, op, PageRequest, hash)
  PROVE  /\ UNCHANGED <<x1, x3>>
         /\ x2' \in [Serving -> PageCall] /\ x2'[c].op = op /\ x2'[c].request = PageRequest
         /\ \A d \in Serving : d # c => x2'[d] = x2[d]
<1>1. x1[PageRequest] \in PageRow
  BY DEF PageTypes
<1>2. PICK call : call = [op |-> op, request |-> PageRequest,
                          seen |-> x1[PageRequest].current, hash |-> hash]
  OBVIOUS
<1>3. call \in PageCall /\ call.op = op /\ call.request = PageRequest
  BY <1>1, <1>2 DEF PageCall, PageRow, MultisigScreen!Server!Call, MultisigScreen!Server!Row,
                    MultisigScreen!Server!Operations, Operations
<1>4. x2' = [x2 EXCEPT ![c] = call] /\ UNCHANGED <<x1, x3>>
  BY <1>2 DEF MultisigScreen!Server!ReadRow
<1>5. QED
  BY <1>3, <1>4, CallStored

LEMMA Beginning ==
  ASSUME PageInv, MultisigScreen!Begin
  PROVE  PageInv'
<1>1. UNCHANGED <<x5, x6, x7, x10, x11>> /\ x8.stage = "sent"
  BY DEF MultisigScreen!Begin
<1>2. CASE MultisigScreen!End("refused") /\ UNCHANGED MultisigScreen!serverVars
  <2>1. "refused" \in Outcomes /\ "refused" # "done" /\ x2' \in [Serving -> PageCall]
    BY <1>2 DEF Outcomes, PageInv, PageTypes, MultisigScreen!serverVars
  <2>2. QED
    BY <1>1, <1>2, <2>1, Ends DEF MultisigScreen!serverVars
<1>3. ASSUME NEW hash \in IF x8.op = "execute" THEN PageHashes ELSE {None},
             MultisigScreen!Server!ReadRow(x8.call, x8.op, PageRequest, hash),
             x8' = [x8 EXCEPT !.stage = "serving"], UNCHANGED x9
      PROVE  PageInv'
  <2>1. PICK c \in Serving, op \in Operations : c = x8.call /\ op = x8.op
    BY <1>1 DEF PageInv, PageTypes, Serving
  <2>2. /\ UNCHANGED <<x1, x3>>
        /\ x2' \in [Serving -> PageCall] /\ x2'[c].op = op /\ x2'[c].request = PageRequest
        /\ \A d \in Serving : d # c => x2'[d] = x2[d]
    <3>1. hash \in PageHashes \cup {None}
      BY <1>3
    <3>2. MultisigScreen!Server!ReadRow(c, op, PageRequest, hash)
      BY <1>3, <2>1
    <3>3. QED
      BY <3>1, <3>2, Reading DEF PageInv
  <2>3. /\ x8' \in [no : Nat, op : {"approve", "reject", "execute", None},
                    call : PageCalls \cup {None}, stage : Stages]
        /\ x8'.stage = "serving" /\ x8'.no = x8.no /\ x8'.op = x8.op /\ x8'.call = x8.call
    BY <1>3 DEF PageInv, PageTypes, Stages
  <2>4. PageTypes'
    <3>1. \A d \in Serving : x2'[d].op # "idle" => x2'[d].request = PageRequest
      BY <2>2 DEF PageInv, PageTypes
    <3>2. QED
      BY <1>1, <1>3, <2>2, <2>3, <3>1 DEF PageInv, PageTypes
  <2>5. Told(x9', x8', x5', x6', x10')
    BY <1>1, <1>3, <2>3 DEF PageInv, Told
  <2>6. Backed(x1'[PageRequest], x2', x5', x6', x7', x8', x11')
    <3>1. \A d \in Serving : x2'[d].op = "execute" => x11'
      BY <1>1, <2>1, <2>2 DEF PageInv, Backed
    <3>2. QED
      BY <1>1, <2>2, <2>3, <3>1 DEF PageInv, Backed
  <2>7. QED
    BY <2>4, <2>5, <2>6 DEF PageInv
<1>4. QED
  BY <1>2, <1>3 DEF MultisigScreen!Begin

(* The routes serve this page and others.                                  *)
LEMMA UpdatingMine ==
  ASSUME PageInv, NEW c \in PageCalls, MultisigScreen!UpdateMine(c)
  PROVE  PageInv'
<1>1. /\ c \in Serving /\ MultisigScreen!Update(c) /\ MultisigScreen!Reaches
      /\ UNCHANGED <<x5, x6, x7, x9>>
  BY DEF MultisigScreen!UpdateMine, Serving
<1>2. /\ x1' \in [{PageRequest} -> PageRow]
      /\ x2' \in [Serving -> PageCall] /\ x2'[c].op = "idle"
      /\ \A d \in Serving : d # c => x2'[d] = x2[d]
      /\ x3' \in [{PageRequest} -> Nat]
      /\ Needs(x1'[PageRequest]) /\ Was(x1'[PageRequest], x11')
      /\ x11' \in BOOLEAN /\ (x11 => x11')
  BY <1>1, Updating
<1>3. /\ x8' \in [no : Nat, op : {"approve", "reject", "execute", None},
                  call : PageCalls \cup {None}, stage : Stages]
      /\ x8'.no = x8.no /\ x8'.op = x8.op /\ x8'.call = x8.call
      /\ \/ x8' = x8 /\ x10' = x10
         \/ x8.stage # "none" /\ x8'.stage = "answered" /\ x10' = x10 \cup {x8.no}
  BY DEF MultisigScreen!UpdateMine, PageInv, PageTypes, Stages
<1>4. PageTypes'
  <2>1. \A d \in Serving : x2'[d].op # "idle" => x2'[d].request = PageRequest
    BY <1>2 DEF PageInv, PageTypes
  <2>2. x10' \subseteq DOMAIN x9
    BY <1>3 DEF PageInv, PageTypes
  <2>3. QED
    BY <1>1, <1>2, <1>3, <2>1, <2>2 DEF PageInv, PageTypes
<1>5. Told(x9', x8', x5', x6', x10')
  BY <1>1, <1>3 DEF PageInv, Told
<1>6. Backed(x1'[PageRequest], x2', x5', x6', x7', x8', x11')
  <2>1. \A d \in Serving : x2'[d].op = "execute" => x11'
    BY <1>2 DEF PageInv, Backed
  <2>2. QED
    BY <1>1, <1>2, <1>3, <2>1 DEF PageInv, Backed, Was
<1>7. QED
  BY <1>4, <1>5, <1>6 DEF PageInv

LEMMA OthersAct ==
  ASSUME PageInv, NEW c \in OtherCalls, MultisigScreen!Other(c)
  PROVE  PageInv'
<1>1. /\ c \in Serving /\ MultisigScreen!Reaches
      /\ UNCHANGED <<x5, x6, x7, x8, x9, x10>>
  BY DEF MultisigScreen!Other, MultisigScreen!screenVars, Serving
<1>2. /\ x1' \in [{PageRequest} -> PageRow]
      /\ x2' \in [Serving -> PageCall]
      /\ x2'[c].op # "idle" => x2'[c].request = PageRequest
      /\ x2'[c].op = "execute" => x11'
      /\ \A d \in Serving : d # c => x2'[d] = x2[d]
      /\ x3' \in [{PageRequest} -> Nat]
      /\ Needs(x1'[PageRequest]) /\ Was(x1'[PageRequest], x11')
      /\ x11' \in BOOLEAN /\ (x11 => x11')
  <2>1. CASE MultisigScreen!Update(c)
    BY <1>1, <2>1, Updating
  <2>2. ASSUME NEW op \in Operations, NEW hash \in PageHashes \cup {None},
               MultisigScreen!Server!ReadRow(c, op, PageRequest, hash),
               op = "execute" => x11
        PROVE  /\ UNCHANGED <<x1, x3>>
               /\ x2' \in [Serving -> PageCall] /\ x2'[c].request = PageRequest
               /\ x2'[c].op = "execute" => x11'
               /\ \A d \in Serving : d # c => x2'[d] = x2[d]
               /\ x11' = (x11 \/ x1[PageRequest].status = "approved")
    BY <1>1, <2>2, Reading DEF PageInv, MultisigScreen!Reaches
  <2>3. CASE \E op \in {"approve", "reject"} :
               MultisigScreen!Server!ReadRow(c, op, PageRequest, None)
    BY <2>2, <2>3 DEF Operations, PageInv, PageTypes, Backed, Was
  <2>4. CASE x11 /\ \E hash \in PageHashes :
               MultisigScreen!Server!ReadRow(c, "execute", PageRequest, hash)
    BY <2>2, <2>4 DEF Operations, PageInv, PageTypes, Backed, Was
  <2>5. QED
    BY <2>1, <2>3, <2>4 DEF MultisigScreen!Other
<1>3. PageTypes'
  <2>1. \A d \in Serving : x2'[d].op # "idle" => x2'[d].request = PageRequest
    BY <1>2 DEF PageInv, PageTypes
  <2>2. QED
    BY <1>1, <1>2, <2>1 DEF PageInv, PageTypes
<1>4. Backed(x1'[PageRequest], x2', x5', x6', x7', x8', x11')
  <2>1. \A d \in Serving : x2'[d].op = "execute" => x11'
    BY <1>2 DEF PageInv, Backed
  <2>2. QED
    BY <1>1, <1>2, <2>1 DEF PageInv, Backed, Was
<1>5. QED
  BY <1>1, <1>3, <1>4 DEF PageInv, Told

LEMMA Creating ==
  ASSUME PageInv, MultisigScreen!Create
  PROVE  PageInv'
<1>1. PICK n \in PageThresholds : MultisigScreen!Server!CreateRequest(PageRequest, n)
  BY DEF MultisigScreen!Create
<1>2. PICK row : row = MultisigScreen!Server!NewRow(n)
  OBVIOUS
<1>3. /\ row \in PageRow /\ Needs(row) /\ Was(row, x11)
  BY <1>2, ScreenAssumption
     DEF MultisigScreen!Server!NewRow, PageRow, MultisigScreen!Server!Row, Needs, Was
<1>4. UNCHANGED <<x2, x3, x5, x6, x7, x8, x9, x10, x11>>
  BY <1>1 DEF MultisigScreen!Create, MultisigScreen!screenVars,
              MultisigScreen!Server!CreateRequest
<1>5. x1' \in [{PageRequest} -> PageRow] /\ x1'[PageRequest] = row
  BY <1>1, <1>2, <1>3, RowStored DEF MultisigScreen!Server!CreateRequest, PageInv
<1>6. PageTypes'
  BY <1>4, <1>5 DEF PageInv, PageTypes
<1>7. QED
  BY <1>3, <1>4, <1>5, <1>6 DEF PageInv, Told, Backed

LEMMA Crashing ==
  ASSUME PageInv, MultisigScreen!Crash
  PROVE  PageInv'
<1>1. UNCHANGED <<x1, x3, x5, x6, x7, x10, x11>>
  BY DEF MultisigScreen!Crash, MultisigScreen!Server!Refused
<1>2. x2' \in [Serving -> PageCall] /\ \A c \in Serving : x2'[c].op = "idle"
  <2>1. x2' = [c \in Serving |-> MultisigScreen!Server!Idle]
    BY DEF MultisigScreen!Crash, MultisigScreen!Server!Refused, Serving
  <2>2. QED
    BY <2>1, PageShapes
<1>3. CASE x8.stage = "serving"
  <2>1. "lost" \in Outcomes /\ "lost" # "done" /\ MultisigScreen!End("lost")
    BY <1>3 DEF Outcomes, MultisigScreen!Crash
  <2>2. QED
    BY <1>1, <1>2, <1>3, <2>1, Ends
<1>4. CASE x8.stage # "serving"
  <2>1. UNCHANGED <<x8, x9>>
    BY <1>4 DEF MultisigScreen!Crash
  <2>2. PageTypes'
    BY <1>1, <1>2, <2>1 DEF PageInv, PageTypes
  <2>3. QED
    BY <1>1, <1>2, <2>1, <2>2 DEF PageInv, Told, Backed
<1>5. QED
  BY <1>3, <1>4

LEMMA PageStep ==
  ASSUME PageInv, MultisigScreen!Next
  PROVE  PageInv'
BY Fetching, Forms, Pressing, Answering, Finished, GivingUp, Beginning, UpdatingMine,
   OthersAct, Creating, Crashing DEF MultisigScreen!Next

LEMMA PageStart ==
  ASSUME MultisigScreen!Init
  PROVE  PageInv
<1>1. /\ x1 = [r \in {PageRequest} |-> MultisigScreen!Server!NoRow]
      /\ x2 = [c \in Serving |-> MultisigScreen!Server!Idle]
      /\ x3 = [r \in {PageRequest} |-> 0]
      /\ x5 = None /\ x6 = None /\ x7 = {} /\ x8 = MultisigScreen!NoPress /\ x9 = <<>>
      /\ x10 = {} /\ x11 = FALSE
  BY DEF MultisigScreen!Init, MultisigScreen!Server!Init, Serving
<1>2. <<>> \in Seq(Outcomes) /\ DOMAIN <<>> = {}
  OBVIOUS
<1>3. PageTypes
  BY <1>1, <1>2, PageShapes, ScreenAssumption DEF PageTypes
<1>4. Told(x9, x8, x5, x6, x10)
  BY <1>1, <1>2, PageShapes DEF Told
<1>5. Backed(x1[PageRequest], x2, x5, x6, x7, x8, x11)
  BY <1>1, PageShapes, ScreenAssumption DEF Backed, Needs, Was, Operations
<1>6. QED
  BY <1>3, <1>4, <1>5 DEF PageInv

LEMMA PageSafe ==
  ASSUME PageInv
  PROVE  MultisigScreen!ScreenSound
<1>1. MultisigScreen!TypeOK
  BY DEF PageInv, PageTypes, Stages, MultisigScreen!TypeOK
<1>2. MultisigScreen!OneForm
  BY DEF PageInv, PageTypes, MultisigScreen!OneForm
<1>3. MultisigScreen!SeenWhenDone
  BY DEF PageInv, Told, MultisigScreen!SeenWhenDone
<1>4. MultisigScreen!ExecutedWasApproved
  BY DEF PageInv, Backed, Was, MultisigScreen!ExecutedWasApproved
<1>5. MultisigScreen!ListOffersSigning
  <2> SUFFICES ASSUME x5 # None
               PROVE  /\ x5.row.status = "pending" => x5.row.current < x5.row.required
                      /\ x5.row.status = "pending" => ~ (x5.row.current >= x5.row.required)
    BY DEF MultisigScreen!ListOffersSigning, MultisigScreen!ListOffers
  <2>1. x5.row \in PageRow /\ Needs(x5.row)
    BY DEF PageInv, PageTypes, Seen, Backed
  <2>2. QED
    BY <2>1 DEF Needs, PageRow, MultisigScreen!Server!Row
<1>6. QED
  BY <1>1, <1>2, <1>3, <1>4, <1>5 DEF MultisigScreen!ScreenSound

(* The two pages, whatever is pressed, answered, lost or done by others    *)
(* meanwhile: a member removed from the members page is not shown again,   *)
(* and cancelling its dialog puts the focus back on the button that opened *)
(* it; a form of the request's page that closes leaves the page with what  *)
(* was done, and behind the page nothing is executed that was never        *)
(* approved.                                                               *)
THEOREM ScreensHold == MCSpec => ScreensSound
<1> DEFINE Inv == /\ part = "MembersScreen" => MembersInv
                  /\ part = "MultisigScreen" => PageInv
<1>1. MCInit => Inv
  BY MembersStart, PageStart DEF MCInit
<1>2. Inv /\ [MCNext]_<<part, vars, xs>> => Inv'
  <2> SUFFICES ASSUME Inv, [MCNext]_<<part, vars, xs>> PROVE Inv'
    OBVIOUS
  <2>1. CASE part = "MembersScreen" /\ MembersScreen!Next /\ part' = part
    BY <2>1, MembersStep
  <2>2. CASE part = "MultisigScreen" /\ MultisigScreen!Next /\ part' = part
    BY <2>2, PageStep
  <2>3. CASE UNCHANGED <<part, vars, xs>>
    BY <2>3 DEF xs, MembersInv, MembersTypes, GoneStay, Busy, FocusFrom,
                PageInv, PageTypes, Told, Backed
  <2>4. CASE part \notin {"MembersScreen", "MultisigScreen"} /\ part' = part
    BY <2>4
  <2>5. QED
    BY <2>1, <2>2, <2>3, <2>4 DEF MCNext
<1>3. Inv => (part = "MultisigScreen" => MultisigScreen!ScreenSound)
  BY PageSafe
<1>4. Inv => (part = "MembersScreen" =>
                MembersScreen!TypeOK /\ MembersScreen!RemovedStaysGone)
  BY DEF MembersInv, MembersTypes, GoneStay, Fetched, Modal, Elements,
         MembersScreen!TypeOK, MembersScreen!RemovedStaysGone
<1>5. Inv /\ [MCNext]_<<part, vars, xs>> =>
        [part = "MembersScreen" => MembersScreen!FocusReturns]_<<part, vars, xs>>
  BY FocusStep DEF MCNext
<1> HIDE DEF Inv
<1>6. QED
  BY <1>1, <1>2, <1>3, <1>4, <1>5, PTL DEF MCSpec, ScreensSound
=============================================================================
