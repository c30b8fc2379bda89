-------------------------- MODULE ProposalsProofs --------------------------
(***************************************************************************)
(* Theorems about Proposals, for any number of requests, members and       *)
(* proposals: delegation stays one hop, and none is stored after a vote.   *)
(*                                                                         *)
(* Neither follows from the tables alone, for a delegation is stored after *)
(* the queries that allow it.  The invariant says what each query has      *)
(* established and why it still holds at the insertion: at most one        *)
(* transaction is past the lock of a proposal (Exclusive), so nobody       *)
(* changes its votes and delegations in between (Clear).                   *)
(*                                                                         *)
(* The last parts are about TokenLedger, Disbursements and Envelopes, which *)
(* MCProposals checks beside it.                                           *)
(***************************************************************************)
EXTENDS MCProposals, FiniteSetTheorems, WellFoundedInduction, TLAPS

Holds(q) == q # None /\ q.op # "create" /\ q.stage # "lock"

Proper(q) ==
  q # None =>
    /\ q.op = "create" => q.stage = "write"
    /\ q.op = "vote" => q.arg \in Choices
    /\ q.op = "delegate" => q.arg \in Addresses /\ q.arg # q.caller

Unvoted(q) == votes[q.id][q.caller] = None /\ votes[q.id][q.arg] = None

Unchained(q) ==
  /\ \A a \in Addresses : delegations[q.id][a] # q.caller
  /\ delegations[q.id][q.arg] = None

Clear(q) ==
  q # None /\ q.op = "delegate" =>
    /\ q.stage \in {"chain", "write"} => Unvoted(q)
    /\ q.stage = "write" => Unchained(q)

Exclusive ==
  \A r, s \in Requests :
    r # s /\ Holds(requests[r]) /\ Holds(requests[s]) => requests[r].id # requests[s].id

IInv ==
  /\ TypeOK
  /\ \A r \in Requests : Proper(requests[r])
  /\ Exclusive
  /\ \A r \in Requests : Clear(requests[r])
  /\ OneHop

(* What a constructed request is.                                          *)
LEMMA AtFields ==
  ASSUME NEW op, NEW stage, NEW p, NEW caller, NEW arg
  PROVE  /\ At(op, stage, p, caller, arg).op = op
         /\ At(op, stage, p, caller, arg).stage = stage
         /\ At(op, stage, p, caller, arg).id = p
         /\ At(op, stage, p, caller, arg).caller = caller
         /\ At(op, stage, p, caller, arg).arg = arg
BY DEF At

LEMMA AtType ==
  ASSUME NEW op \in {"create", "vote", "delegate"},
         NEW stage \in {"lock", "member", "votes", "chain", "write"},
         NEW p \in Ids, NEW caller \in Addresses, NEW arg \in Choices \cup Addresses \cup {None}
  PROVE  At(op, stage, p, caller, arg) \in Request
BY DEF At, Request

(* The rows stay as they are and one request becomes q, which takes no     *)
(* lock another holds and whose queries found what it claims.              *)
LEMMA RequestMoves ==
  ASSUME IInv, UNCHANGED rows, members' \in SUBSET Addresses, now' \in Time,
         NEW r \in Requests, NEW q \in Request \cup {None},
         requests' = [requests EXCEPT ![r] = q],
         Proper(q), Clear(q),
         \A s \in Requests \ {r} : Holds(q) /\ Holds(requests[s]) => requests[s].id # q.id
  PROVE  IInv'
<1>1. \A s \in Requests : requests'[s] = IF s = r THEN q ELSE requests[s]
  BY DEF IInv, TypeOK
<1>2. TypeOK'
  BY DEF IInv, TypeOK, rows
<1>3. \A s \in Requests : Proper(requests'[s])
  BY <1>1 DEF IInv
<1>4. Exclusive'
  BY <1>1 DEF IInv, Exclusive
<1>5. \A s \in Requests : Clear(requests[s])'
  <2>1. \A x : Clear(x) => Clear(x)'
    BY DEF Clear, Unvoted, Unchained, rows
  <2>. QED BY <1>1, <2>1 DEF IInv, Clear, Unvoted, Unchained, rows
<1>6. OneHop'
  BY DEF IInv, OneHop, rows
<1>. QED BY <1>2, <1>3, <1>4, <1>5, <1>6 DEF IInv, Proper

(* A request that is answered leaves the rest as it was.                   *)
LEMMA RequestEnds ==
  ASSUME IInv, UNCHANGED rows, members' \in SUBSET Addresses, now' \in Time,
         NEW r \in Requests, Answered(r)
  PROVE  IInv'
<1>1. None \in Request \cup {None} /\ Proper(None) /\ Clear(None) /\ ~Holds(None)
  BY DEF Proper, Clear, Holds
<1>. QED BY <1>1, RequestMoves DEF Answered

(* A request begins.                                                       *)
LEMMA BeginKeeps ==
  ASSUME IInv, NEW r \in Requests, BeginCreate(r) \/ BeginVote(r) \/ BeginDelegate(r)
  PROVE  IInv'
<1>0. UNCHANGED rows /\ members' \in SUBSET Addresses /\ now' \in Time
  BY DEF IInv, TypeOK, BeginCreate, BeginVote, BeginDelegate, Begin, rows
<1>. SUFFICES ASSUME NEW q, q \in Request, Begin(r, q), Proper(q), Clear(q), ~Holds(q) PROVE IInv'
  <2>1. CASE BeginCreate(r)
    <3>1. PICK p \in Ids, caller \in members : Begin(r, At("create", "write", p, caller, None))
      BY <2>1 DEF BeginCreate
    <3>2. At("create", "write", p, caller, None) \in Request
      BY AtType DEF IInv, TypeOK
    <3>. QED BY <3>1, <3>2, AtFields DEF Proper, Clear, Holds
  <2>2. CASE BeginVote(r)
    <3>1. PICK p \in Ids, caller \in Addresses, choice \in Choices :
            Begin(r, At("vote", "lock", p, caller, choice))
      BY <2>2 DEF BeginVote
    <3>2. At("vote", "lock", p, caller, choice) \in Request
      BY AtType
    <3>. QED BY <3>1, <3>2, AtFields DEF Proper, Clear, Holds
  <2>3. CASE BeginDelegate(r)
    <3>1. PICK p \in Ids, caller \in Addresses, delegatee \in Addresses :
            caller # delegatee /\ Begin(r, At("delegate", "lock", p, caller, delegatee))
      BY <2>3 DEF BeginDelegate
    <3>2. At("delegate", "lock", p, caller, delegatee) \in Request
      BY AtType
    <3>. QED BY <3>1, <3>2, AtFields DEF Proper, Clear, Holds
  <2>. QED BY <2>1, <2>2, <2>3
<1>. QED BY <1>0, RequestMoves DEF Begin

(* A query is answered.  The lock is the only one that needs the others;   *)
(* the queries for votes and chains establish Clear.                       *)
LEMMA QueryKeeps ==
  ASSUME IInv, NEW r \in Requests,
         LockProposal(r) \/ CheckMember(r) \/ CheckVotes(r) \/ CheckChain(r)
  PROVE  IInv'
<1>. DEFINE q == requests[r]
<1>0. q # None /\ q \in Request /\ Proper(q) /\ Clear(q)
  BY DEF IInv, TypeOK, LockProposal, CheckMember, CheckVotes, CheckChain, Is
<1>00. UNCHANGED rows /\ members' \in SUBSET Addresses /\ now' \in Time
  BY DEF IInv, TypeOK, LockProposal, CheckMember, CheckVotes, CheckChain, Query, rows
<1>1. CASE Answered(r)
  BY <1>00, <1>1, RequestEnds
<1>2. ASSUME NEW next \in {"member", "votes", "chain", "write"},
             requests' = [requests EXCEPT ![r] = At(q.op, next, q.id, q.caller, q.arg)],
             q.op # "create",
             q.op = "delegate" /\ next \in {"chain", "write"} => Unvoted(q),
             q.op = "delegate" /\ next = "write" => Unchained(q),
             \A s \in Requests \ {r} : Holds(requests[s]) => requests[s].id # q.id
      PROVE  IInv'
  <2>. DEFINE n == At(q.op, next, q.id, q.caller, q.arg)
  <2>1. n \in Request
    <3>1. q.op \in {"create", "vote", "delegate"} /\ q.id \in Ids /\ q.caller \in Addresses
          /\ q.arg \in Choices \cup Addresses \cup {None}
      BY <1>0 DEF Request
    <3>. QED BY <3>1, AtType
  <2>2. n.op = q.op /\ n.stage = next /\ n.id = q.id /\ n.caller = q.caller /\ n.arg = q.arg
    BY AtFields
  <2>3. Proper(n) /\ Clear(n)
    BY <1>0, <1>2, <2>2 DEF Proper, Clear, Unvoted, Unchained
  <2>4. \A s \in Requests \ {r} : Holds(n) /\ Holds(requests[s]) => requests[s].id # n.id
    BY <1>2, <2>2
  <2>5. n \in Request \cup {None} /\ requests' = [requests EXCEPT ![r] = n]
    BY <1>2, <2>1
  <2>. HIDE DEF n
  <2>. QED BY <1>00, <2>3, <2>4, <2>5, RequestMoves
<1>3. CASE LockProposal(r)
  <2>1. q.stage = "lock" /\ q.op # "create" /\ LockFree(q.id, r)
    BY <1>0, <1>3 DEF LockProposal, Is, Proper
  <2>2. \A s \in Requests \ {r} : Holds(requests[s]) => requests[s].id # q.id
    BY <2>1 DEF LockFree, Holds
  <2>3. Answered(r) \/ requests' = [requests EXCEPT ![r] = At(q.op, "member", q.id, q.caller, q.arg)]
    BY <1>3 DEF LockProposal, Query
  <2>. QED BY <1>1, <1>2, <2>1, <2>2, <2>3
<1>4. ASSUME q.stage # "lock", q.op # "create"
      PROVE  \A s \in Requests \ {r} : Holds(requests[s]) => requests[s].id # q.id
  BY <1>0, <1>4 DEF IInv, Exclusive, Holds
<1>5. CASE CheckMember(r)
  <2>1. q.stage = "member" /\ q.op # "create"
    BY <1>0, <1>5 DEF CheckMember, Is, Proper
  <2>2. \/ Answered(r)
        \/ q.op = "vote" /\ requests' = [requests EXCEPT ![r] = At(q.op, "write", q.id, q.caller, q.arg)]
        \/ requests' = [requests EXCEPT ![r] = At(q.op, "votes", q.id, q.caller, q.arg)]
    BY <1>5 DEF CheckMember, Query
  <2>. QED BY <1>1, <1>2, <1>4, <2>1, <2>2
<1>6. CASE CheckVotes(r)
  <2>1. q.stage = "votes" /\ q.op # "create"
    BY <1>0, <1>6 DEF CheckVotes, Is, Proper
  <2>2. \/ Answered(r)
        \/ Unvoted(q) /\ requests' = [requests EXCEPT ![r] = At(q.op, "chain", q.id, q.caller, q.arg)]
    BY <1>6 DEF CheckVotes, Query, Unvoted
  <2>. QED BY <1>1, <1>2, <1>4, <2>1, <2>2
<1>7. CASE CheckChain(r)
  <2>1. q.stage = "chain" /\ q.op # "create"
    BY <1>0, <1>7 DEF CheckChain, Is, Proper
  <2>2. \/ Answered(r)
        \/ Unchained(q) /\ requests' = [requests EXCEPT ![r] = At(q.op, "write", q.id, q.caller, q.arg)]
    BY <1>7 DEF CheckChain, Query, Unchained
  <2>3. q.op = "delegate" => Unvoted(q)
    BY <1>0, <2>1 DEF Clear
  <2>. QED BY <1>1, <1>2, <1>4, <2>1, <2>2, <2>3
<1>. QED BY <1>3, <1>5, <1>6, <1>7

(* A vote is inserted, or refused by the constraint.  Nobody else is past  *)
(* the lock, so no delegation that found the accounts without votes waits. *)
LEMMA VoteKeeps ==
  ASSUME IInv, NEW r \in Requests, InsertVote(r)
  PROVE  IInv'
<1>. DEFINE q == requests[r]
<1>1. q # None /\ q \in Request /\ q.op = "vote" /\ q.stage = "write" /\ q.arg \in Choices
  BY DEF IInv, TypeOK, InsertVote, Is, Proper
<1>2. q.id \in Ids /\ q.caller \in Addresses
  BY <1>1 DEF Request
<1>3. \A s \in Requests : requests'[s] = IF s = r THEN None ELSE requests[s]
  BY DEF IInv, TypeOK, InsertVote, Answered
<1>4. \A p \in Ids, a \in Addresses : votes'[p][a] # votes[p][a] => p = q.id
  BY <1>2 DEF IInv, TypeOK, InsertVote
<1>5. TypeOK'
  <2>1. votes' \in [Ids -> [Addresses -> Choices \cup {None}]]
    BY <1>1, <1>2 DEF IInv, TypeOK, InsertVote
  <2>2. requests' \in [Requests -> Request \cup {None}]
    BY DEF IInv, TypeOK, InsertVote, Answered
  <2>. QED BY <2>1, <2>2 DEF IInv, TypeOK, InsertVote
<1>6. \A s \in Requests : Proper(requests'[s])
  BY <1>3 DEF IInv, Proper
<1>7. Exclusive'
  BY <1>3 DEF IInv, Exclusive, Holds
<1>8. ASSUME NEW s \in Requests PROVE Clear(requests[s])'
  <2>1. CASE s = r
    BY <1>3, <2>1 DEF Clear
  <2>2. CASE s # r /\ ~Holds(requests[s])
    BY <1>3, <2>2 DEF IInv, Clear, Holds
  <2>3. CASE s # r /\ Holds(requests[s])
    <3>. DEFINE t == requests[s]
    <3>1. t.id # q.id /\ t \in Request /\ t # None /\ Clear(t) /\ Proper(t)
      BY <1>1, <2>3 DEF IInv, TypeOK, Exclusive, Holds
    <3>2. t.id \in Ids /\ t.caller \in Addresses
      BY <3>1 DEF Request
    <3>3. requests'[s] = t
      BY <1>3, <2>3
    <3>4. t.op = "delegate" => t.arg \in Addresses
      BY <3>1 DEF Proper
    <3>5. votes'[t.id][t.caller] = votes[t.id][t.caller]
          /\ (t.op = "delegate" => votes'[t.id][t.arg] = votes[t.id][t.arg])
      BY <1>4, <3>1, <3>2, <3>4
    <3>6. delegations' = delegations
      BY DEF InsertVote
    <3>. QED BY <3>1, <3>3, <3>5, <3>6 DEF Clear, Unvoted, Unchained
  <2>. QED BY <2>1, <2>2, <2>3
<1>9. OneHop'
  BY DEF IInv, OneHop, InsertVote
<1>. QED BY <1>5, <1>6, <1>7, <1>8, <1>9 DEF IInv, Proper

(* A delegation is stored: nobody delegates to the caller and its          *)
(* delegatee delegates to nobody, so no chain comes about.                 *)
LEMMA DelegationKeeps ==
  ASSUME IInv, NEW r \in Requests, SaveDelegation(r)
  PROVE  IInv'
<1>. DEFINE q == requests[r]
<1>1. q # None /\ q \in Request /\ q.op = "delegate" /\ q.stage = "write"
      /\ q.arg \in Addresses /\ q.arg # q.caller /\ Unchained(q)
  BY DEF IInv, TypeOK, SaveDelegation, Is, Proper, Clear
<1>2. q.id \in Ids /\ q.caller \in Addresses
  BY <1>1 DEF Request
<1>3. \A s \in Requests : requests'[s] = IF s = r THEN None ELSE requests[s]
  BY DEF IInv, TypeOK, SaveDelegation, Answered
<1>4. \A p \in Ids, a \in Addresses :
        delegations'[p][a] = IF p = q.id /\ a = q.caller THEN q.arg ELSE delegations[p][a]
  BY <1>2 DEF IInv, TypeOK, SaveDelegation
<1>5. TypeOK'
  <2>1. delegations' \in [Ids -> [Addresses -> Addresses \cup {None}]]
    BY <1>1, <1>2 DEF IInv, TypeOK, SaveDelegation
  <2>2. requests' \in [Requests -> Request \cup {None}]
    BY DEF IInv, TypeOK, SaveDelegation, Answered
  <2>. QED BY <2>1, <2>2 DEF IInv, TypeOK, SaveDelegation
<1>6. \A s \in Requests : Proper(requests'[s])
  BY <1>3 DEF IInv, Proper
<1>7. Exclusive'
  BY <1>3 DEF IInv, Exclusive, Holds
<1>8. ASSUME NEW s \in Requests PROVE Clear(requests[s])'
  <2>1. CASE s = r
    BY <1>3, <2>1 DEF Clear
  <2>2. CASE s # r /\ ~Holds(requests[s])
    BY <1>3, <2>2 DEF IInv, Clear, Holds
  <2>3. CASE s # r /\ Holds(requests[s])
    <3>. DEFINE t == requests[s]
    <3>1. t.id # q.id /\ t \in Request /\ t # None /\ Clear(t) /\ Proper(t)
      BY <1>1, <2>3 DEF IInv, TypeOK, Exclusive, Holds
    <3>2. t.id \in Ids /\ (t.op = "delegate" => t.arg \in Addresses)
      BY <3>1 DEF Request, Proper
    <3>3. requests'[s] = t
      BY <1>3, <2>3
    <3>4. \A a \in Addresses : delegations'[t.id][a] = delegations[t.id][a]
      BY <1>4, <3>1, <3>2
    <3>5. votes' = votes
      BY DEF SaveDelegation
    <3>. QED BY <3>1, <3>2, <3>3, <3>4, <3>5 DEF Clear, Unvoted, Unchained
  <2>. QED BY <2>1, <2>2, <2>3
<1>9. OneHop'
  <2>. SUFFICES ASSUME NEW p \in Ids, NEW a \in Addresses, NEW b \in Addresses,
                       delegations'[p][a] = b
                PROVE  delegations'[p][b] = None
    BY DEF OneHop
  <2>1. CASE p # q.id
    BY <1>4, <2>1 DEF IInv, OneHop
  <2>2. CASE p = q.id /\ a = q.caller
    BY <1>1, <1>4, <2>2 DEF Unchained
  <2>3. CASE p = q.id /\ a # q.caller
    BY <1>1, <1>4, <2>3 DEF IInv, OneHop, Unchained
  <2>. QED BY <2>1, <2>2, <2>3
<1>. QED BY <1>5, <1>6, <1>7, <1>8, <1>9 DEF IInv, Proper

LEMMA CreateKeeps ==
  ASSUME IInv, NEW r \in Requests, CreateProposal(r)
  PROVE  IInv'
<1>. DEFINE p == requests[r].id
<1>1. requests[r] \in Request
  BY DEF IInv, TypeOK, CreateProposal, Is
<1>2. PICK ends \in now + 1 .. MaxTime : proposals' = [proposals EXCEPT ![p] = ends]
  BY DEF CreateProposal
<1>3. ends \in Time
  BY <1>2, TimeAssumption DEF IInv, TypeOK, Time
<1>4. proposals' \in [Ids -> Time \cup {None}]
  BY <1>2, <1>3 DEF IInv, TypeOK
<1>5. \A s \in Requests : requests'[s] = IF s = r THEN None ELSE requests[s]
  BY DEF IInv, TypeOK, CreateProposal, Answered
<1>6. TypeOK'
  <2>1. requests' \in [Requests -> Request \cup {None}]
    BY DEF IInv, TypeOK, CreateProposal, Answered
  <2>. QED BY <1>4, <2>1 DEF IInv, TypeOK, CreateProposal
<1>7. (\A s \in Requests : Proper(requests'[s])) /\ Exclusive'
  BY <1>5 DEF IInv, Proper, Exclusive, Holds
<1>8. \A s \in Requests : Clear(requests[s])'
  BY <1>5 DEF IInv, Clear, Unvoted, Unchained, CreateProposal
<1>9. OneHop'
  BY DEF IInv, OneHop, CreateProposal
<1>. QED BY <1>6, <1>7, <1>8, <1>9 DEF IInv, Proper

LEMMA Inductive == Spec => []IInv
<1>1. Init => IInv
  BY NoneAssumption, TimeAssumption
     DEF Init, IInv, TypeOK, Time, Proper, Exclusive, Clear, Holds, OneHop
<1>2. IInv /\ [Next]_vars => IInv'
  <2>. SUFFICES ASSUME IInv, [Next]_vars PROVE IInv'
    OBVIOUS
  <2>1. ASSUME NEW r \in Requests, Serve(r) PROVE IInv'
    <3>1. CASE Fail(r)
      BY <3>1, RequestEnds DEF Fail, IInv, TypeOK, rows
    <3>. QED BY <2>1, <3>1, BeginKeeps, QueryKeeps, VoteKeeps, DelegationKeeps, CreateKeeps
             DEF Serve
  <2>2. CASE ChangeMembers
    BY <2>2 DEF ChangeMembers, IInv, TypeOK, Exclusive, Clear, Unvoted, Unchained, OneHop,
                Proper, Holds, rows
  <2>3. CASE Tick
    <3>1. now' \in Time
      BY <2>3, TimeAssumption DEF Tick, IInv, TypeOK, Time
    <3>. QED BY <2>3, <3>1 DEF Tick, IInv, TypeOK, Exclusive, Clear, Unvoted, Unchained, OneHop,
                Proper, Holds, rows
  <2>4. CASE UNCHANGED vars
    BY <2>4 DEF vars, IInv, TypeOK, Exclusive, Clear, Unvoted, Unchained, OneHop, Proper, Holds, rows
  <2>. QED BY <2>1, <2>2, <2>3, <2>4 DEF Next
<1>. QED BY <1>1, <1>2, PTL DEF Spec

(* Every reachable state is well typed (the columns of the tables).        *)
THEOREM TypeCorrect == Spec => []TypeOK
BY Inductive, PTL DEF IInv

(* Delegation stays one hop whatever is requested at the same time         *)
(* (saveDelegation).                                                       *)
THEOREM DelegationOneHop == Spec => []OneHop
BY Inductive, PTL DEF IInv

(* No delegation is stored once either account has voted, and votes are    *)
(* never changed (saveDelegation, POST /:id/votes).                        *)
THEOREM DelegationsBeforeVotes == Spec => DelegationsPrecedeVotes
<1>. DEFINE Kept == \A p \in Ids, a, b \in Addresses :
       /\ delegations[p][a] # b /\ delegations'[p][a] = b =>
            votes[p][a] = None /\ votes[p][b] = None
       /\ votes[p][a] # None => votes'[p][a] = votes[p][a]
<1>1. IInv /\ [Next]_vars => [Kept]_vars
  <2>. SUFFICES ASSUME IInv, Next PROVE Kept
    OBVIOUS
  <2>1. ASSUME NEW r \in Requests, InsertVote(r) PROVE Kept
    <3>1. requests[r] \in Request
      BY <2>1 DEF IInv, TypeOK, InsertVote, Is
    <3>2. requests[r].id \in Ids /\ requests[r].caller \in Addresses
      BY <3>1 DEF Request
    <3>. QED BY <2>1, <3>2 DEF InsertVote, IInv, TypeOK
  <2>2. ASSUME NEW r \in Requests, SaveDelegation(r) PROVE Kept
    <3>1. requests[r] \in Request /\ Unvoted(requests[r])
      BY <2>2 DEF IInv, TypeOK, SaveDelegation, Is, Clear
    <3>2. requests[r].id \in Ids /\ requests[r].caller \in Addresses
      BY <3>1 DEF Request
    <3>. QED BY <2>2, <3>1, <3>2 DEF SaveDelegation, IInv, TypeOK, Unvoted
  <2>3. UNCHANGED <<votes, delegations>> => Kept
    BY NoneAssumption DEF Kept
  <2>4. \/ \E r \in Requests : InsertVote(r) \/ SaveDelegation(r)
        \/ UNCHANGED <<votes, delegations>>
    BY DEF Next, Serve, BeginCreate, BeginVote, BeginDelegate, Begin, LockProposal, CheckMember,
           CheckVotes, CheckChain, Query, CreateProposal, Fail, ChangeMembers, Tick, rows
  <2>. QED BY <2>1, <2>2, <2>3, <2>4
<1>. QED BY <1>1, Inductive, PTL DEF Spec, DelegationsPrecedeVotes

-----------------------------------------------------------------------------
(* TokenLedger.  The supply is a number: SumFunction takes one holder after *)
(* another out of the set, and IsSum is the function of subsets it defines  *)
(* on the way.                                                              *)
Pick(s) == CHOOSE x \in s : TRUE

IsSum(S, it, f) ==
  it = [s \in SUBSET S |-> IF s = {} THEN 0 ELSE f[Pick(s)] + it[s \ {Pick(s)}]]

LEMMA PickIn == ASSUME NEW s, s # {} PROVE Pick(s) \in s
BY DEF Pick

LEMMA LeastNat ==
  ASSUME NEW T \in SUBSET Nat, T # {}
  PROVE  \E n \in T : \A m \in T : n <= m
<1>1. \E n \in T : \A m \in T : ~ (<<m, n>> \in OpToRel(<, Nat))
  BY NatLessThanWellFounded, WFMin
<1>2. PICK n \in T : \A m \in T : ~ (<<m, n>> \in OpToRel(<, Nat))
  BY <1>1
<1>3. \A m \in T : <<m, n>> \in Nat \X Nat /\ (m < n => <<m, n>> \in OpToRel(<, Nat))
  BY DEF OpToRel
<1>4. \A m \in T : m \in Nat /\ n \in Nat /\ ~ (m < n)
  BY <1>2, <1>3
<1>5. QED
  BY <1>4

(* The cardinality of a subset is a number, less by one without an element. *)
LEMMA SubsetsCounted ==
  ASSUME NEW S, IsFiniteSet(S), NEW s \in SUBSET S
  PROVE  /\ Cardinality(s) \in Nat /\ Cardinality(s) <= Cardinality(S)
         /\ Cardinality(S) \in Nat
         /\ s # {} => Cardinality(s \ {Pick(s)}) = Cardinality(s) - 1
         /\ Cardinality(s) = 0 => s = {}
BY PickIn, FS_Subset, FS_CardinalityType, FS_RemoveElement, FS_EmptySet

(* What holds of a subset whenever it holds of the rest after a pick holds *)
(* of every subset.                                                        *)
LEMMA PickInduction ==
  ASSUME NEW S, IsFiniteSet(S), NEW Good \in SUBSET (SUBSET S),
         \A s \in SUBSET S : (s # {} => s \ {Pick(s)} \in Good) => s \in Good
  PROVE  Good = SUBSET S
<1> DEFINE Bad == {Cardinality(s) : s \in (SUBSET S) \ Good}
<1> SUFFICES ASSUME Bad # {} PROVE FALSE
  OBVIOUS
<1>1. PICK n \in Bad : \A m \in Bad : n <= m
  <2>1. \A s \in SUBSET S : Cardinality(s) \in Nat
    BY SubsetsCounted
  <2>2. Bad \in SUBSET Nat
    BY <2>1
  <2>3. QED
    BY <2>2, LeastNat
<1>2. PICK s \in (SUBSET S) \ Good : n = Cardinality(s)
  BY <1>1
<1>3. s # {} /\ s \ {Pick(s)} \in (SUBSET S) \ Good
  BY <1>2
<1>4. Cardinality(s \ {Pick(s)}) \in Bad
  BY <1>3
<1>5. Cardinality(s \ {Pick(s)}) = Cardinality(s) - 1 /\ Cardinality(s) \in Nat
  BY <1>2, <1>3, SubsetsCounted
<1>6. Cardinality(s) <= Cardinality(s) - 1
  BY <1>1, <1>2, <1>4, <1>5
<1>7. QED
  BY <1>5, <1>6

LEMMA SumExists ==
  ASSUME NEW S, IsFiniteSet(S), NEW f \in [S -> Nat]
  PROVE  \E it : IsSum(S, it, f)
<1> DEFINE step(it) == [s \in SUBSET S |->
                          IF s = {} THEN 0 ELSE f[Pick(s)] + it[s \ {Pick(s)}]]
           Upto(it, n) ==
             \A s \in SUBSET S : Cardinality(s) <= n => it[s] = step(it)[s]
           Bad == {n \in Nat : ~ \E it \in [SUBSET S -> Nat] : Upto(it, n)}
<1>1. ASSUME NEW it \in [SUBSET S -> Nat] PROVE step(it) \in [SUBSET S -> Nat]
  <2>1. ASSUME NEW s \in SUBSET S, s # {} PROVE f[Pick(s)] + it[s \ {Pick(s)}] \in Nat
    <3>1. Pick(s) \in S /\ s \ {Pick(s)} \in SUBSET S
      BY <2>1, PickIn
    <3>2. QED
      BY <3>1
  <2>2. QED
    BY <2>1
<1>2. ASSUME NEW n \in Bad, \A m \in Bad : n <= m PROVE FALSE
  <2>1. CASE n = 0
    <3> DEFINE it == [s \in SUBSET S |-> 0]
    <3>1. \A s \in SUBSET S : Cardinality(s) <= 0 => s = {}
      <4>1. \A s \in SUBSET S : Cardinality(s) \in Nat /\ (Cardinality(s) = 0 => s = {})
        BY SubsetsCounted
      <4>2. QED
        BY <4>1
    <3>2. it \in [SUBSET S -> Nat] /\ Upto(it, 0)
      BY <3>1
    <3>3. QED
      BY <2>1, <3>2
  <2>2. CASE n # 0
    <3>1. n \in Nat /\ n - 1 \in Nat /\ ~ (n <= n - 1)
      <4>1. n \in Nat
        OBVIOUS
      <4> HIDE DEF Bad
      <4>2. QED
        BY <2>2, <4>1
    <3>2. PICK it \in [SUBSET S -> Nat] : Upto(it, n - 1)
      BY <1>2, <3>1
    <3>3. ASSUME NEW s \in SUBSET S, Cardinality(s) <= n, s # {}
          PROVE  step(it)[s] = f[Pick(s)] + step(it)[s \ {Pick(s)}]
      <4> DEFINE r == s \ {Pick(s)}
      <4>1. Cardinality(s) \in Nat /\ Cardinality(r) = Cardinality(s) - 1
        BY <3>3, SubsetsCounted
      <4>2. Cardinality(r) <= n - 1
        BY <3>1, <3>3, <4>1
      <4>3. step(it)[r] = it[r]
        BY <3>2, <4>2
      <4>4. QED
        BY <3>3, <4>3
    <3>4. Upto(step(it), n)
      BY <3>3
    <3>5. QED
      BY <1>1, <3>2, <3>4
  <2>3. QED
    BY <2>1, <2>2
<1>3. Bad = {}
  <2>1. Bad \in SUBSET Nat
    OBVIOUS
  <2> HIDE DEF Bad
  <2>2. QED
    BY <1>2, <2>1, LeastNat
<1>4. Cardinality(S) \in Nat /\ \A s \in SUBSET S : Cardinality(s) <= Cardinality(S)
  BY SubsetsCounted
<1>5. PICK it \in [SUBSET S -> Nat] : Upto(it, Cardinality(S))
  BY <1>3, <1>4
<1>6. QED
  BY <1>4, <1>5 DEF IsSum

LEMMA SumIsNat ==
  ASSUME NEW S, IsFiniteSet(S), NEW f \in [S -> Nat], NEW it, IsSum(S, it, f)
  PROVE  it[S] \in Nat
<1> DEFINE Good == {s \in SUBSET S : it[s] \in Nat}
<1>1. ASSUME NEW s \in SUBSET S, s # {} => s \ {Pick(s)} \in Good
      PROVE  s \in Good
  <2>1. it[s] = IF s = {} THEN 0 ELSE f[Pick(s)] + it[s \ {Pick(s)}]
    BY DEF IsSum
  <2>2. s # {} => f[Pick(s)] \in Nat
    BY PickIn
  <2>3. QED
    BY <1>1, <2>1, <2>2
<1>2. Good = SUBSET S
  <2>1. Good \in SUBSET (SUBSET S)
    OBVIOUS
  <2> HIDE DEF Good
  <2>2. QED
    BY <1>1, <2>1, PickInduction
<1>3. QED
  BY <1>2

LEMMA SupplyIsNat ==
  ASSUME x1 \in [Holders -> [open : BOOLEAN, balance : Nat, authorized : BOOLEAN]],
         x2 \in [Holders -> Nat]
  PROVE  TokenLedger!Supply \in Nat
<1> DEFINE f == [h \in Holders |-> x1[h].balance + x2[h]]
           sum == CHOOSE it : IsSum(Holders, it, f)
<1>1. f \in [Holders -> Nat]
  OBVIOUS
<1>2. TokenLedger!Supply = sum[Holders]
  BY DEF TokenLedger!Supply, TokenLedger!SumFunction, TokenLedger!SumFunctionOnSet,
     TokenLedger!FoldFunctionOnSet, TokenLedger!MapThenFoldSet, IsSum, Pick
<1> HIDE DEF f
<1>3. IsSum(Holders, sum, f)
  BY <1>1, SumExists, HoldersAssumption
<1> HIDE DEF sum
<1>4. QED
  BY <1>1, <1>2, <1>3, SumIsNat, HoldersAssumption

(* What a call under way may be, and what holds as long as nothing spoils  *)
(* the supply: one call at a time asks for the refresh, what it has read   *)
(* is still so, and between its operation and its UPDATE alone may the     *)
(* record differ from the ledger.                                          *)
Stages == {"idle", "checking", "submitting", "applied", "read", "ok", "failed"}
TokenCall == [pc : Stages, op : {None} \cup TokenLedger!Operations,
              via : {None, "server", "client"}, refresh : BOOLEAN, supply : Nat]
Line == [open : BOOLEAN, balance : Nat, authorized : BOOLEAN]

Sound(q) ==
  /\ q.pc \in {"checking", "submitting", "applied", "read"} => q.op \in TokenLedger!Operations
  /\ q.refresh => q.via = "client" /\ q.op.kind # "lock"
  /\ q.pc = "read" => q.refresh
  /\ q.pc \in {"idle", "ok", "failed"} => ~ q.refresh

SupplyFollows(issued, record, serving) ==
  /\ \A c, d \in Requests : serving[c].refresh /\ serving[d].refresh => c = d
  /\ \A c \in Requests : serving[c].pc = "applied" => serving[c].refresh
  /\ \A c \in Requests : serving[c].pc = "read" => serving[c].supply = issued
  /\ record = issued \/ \E c \in Requests : serving[c].pc \in {"applied", "read"}

(* Balances that were read and not overtaken are those of the last answer; *)
(* with every tick a read goes on, and an entry lives, they may miss what  *)
(* was told one tick longer ago.                                           *)
Entry == {None} \cup [seen : Nat, overtaken : BOOLEAN, left : 1 .. BalanceTTL]
Read == [pc : {"idle", "asking", "storing"}, holder : {None} \cup Holders, seen : Nat,
         overtaken : BOOLEAN, age : 0 .. ReadDelay]
Past == 1 .. TokenLedger!Staleness

ReadSound(q, last, said) ==
  /\ q.pc # "idle" => q.holder \in Holders
  /\ q.pc = "storing" =>
       /\ q.overtaken \/ q.seen >= last[q.holder]
       /\ \A k \in Past : k > q.age => q.seen >= said[k][q.holder]

EntrySound(e, h, last, said) ==
  e # None =>
    /\ e.overtaken \/ e.seen >= last[h]
    /\ \A k \in Past : k + e.left > TokenLedger!Staleness => e.seen >= said[k][h]

CacheTyped ==
  /\ x3 \in [Holders -> Nat] /\ x6 \in [Holders -> Entry] /\ x8 \in [Readers -> Read]
  /\ x9 \in [Holders -> Nat] /\ x10 \in [0 .. TokenLedger!Staleness -> [Holders -> Nat]]

CacheInv ==
  /\ CacheTyped
  /\ \A h \in Holders : x9[h] <= x3[h] /\ \A k \in 0 .. TokenLedger!Staleness : x10[k][h] <= x3[h]
  /\ \A r \in Readers : ReadSound(x8[r], x9, x10)
  /\ \A h \in Holders : EntrySound(x6[h], h, x9, x10)

LedgerInv ==
  /\ TokenLedger!TypeOK
  /\ CacheInv
  /\ \A c \in Requests : Sound(x7[c])
  /\ x11 = "no" => SupplyFollows(TokenLedger!Supply, x5, x7)

LEMMA CallsTyped == TokenLedger!TypeOK => x7 \in [Requests -> TokenCall]
BY DEF TokenLedger!TypeOK, TokenCall, Stages

LEMMA SupplyKept == ASSUME UNCHANGED <<x1, x2>> PROVE TokenLedger!Supply' = TokenLedger!Supply
BY DEF TokenLedger!Supply

LEMMA CallMoves ==
  ASSUME x7 \in [Requests -> TokenCall], \A d \in Requests : Sound(x7[d]),
         NEW c \in Requests, NEW q \in TokenCall, Sound(q), x7' = [x7 EXCEPT ![c] = q]
  PROVE  /\ x7' \in [Requests -> TokenCall] /\ \A d \in Requests : Sound(x7'[d])
         /\ x7'[c] = q /\ \A d \in Requests : d # c => x7'[d] = x7[d]
OBVIOUS

LEMMA IdleTyped ==
  /\ TokenLedger!Idle \in TokenCall /\ Sound(TokenLedger!Idle)
  /\ TokenLedger!Idle.pc = "idle" /\ TokenLedger!Idle.refresh = FALSE
BY DEF TokenLedger!Idle, TokenCall, Stages, Sound

(* A call that ends, and one that goes on.                                 *)
LEMMA CallEnds ==
  ASSUME x7 \in [Requests -> TokenCall], \A d \in Requests : Sound(x7[d]),
         NEW c \in Requests, NEW pc \in {"ok", "failed"}, TokenLedger!End(c, pc)
  PROVE  /\ x7' \in [Requests -> TokenCall] /\ \A d \in Requests : Sound(x7'[d])
         /\ x7'[c].pc = pc /\ ~ x7'[c].refresh
         /\ \A d \in Requests : d # c => x7'[d] = x7[d]
<1> DEFINE q == [TokenLedger!Idle EXCEPT !.pc = pc]
<1>1. q \in TokenCall /\ q.pc = pc /\ q.refresh = FALSE
  BY IdleTyped DEF TokenCall, Stages
<1>2. x7' = [x7 EXCEPT ![c] = q]
  BY DEF TokenLedger!End
<1> HIDE DEF q
<1>3. Sound(q)
  BY <1>1 DEF Sound
<1>4. QED
  BY <1>1, <1>2, <1>3, CallMoves

LEMMA CallGoesOn ==
  ASSUME x7 \in [Requests -> TokenCall], \A d \in Requests : Sound(x7[d]),
         NEW c \in Requests, x7[c].op \in TokenLedger!Operations,
         NEW q \in TokenCall, x7' = [x7 EXCEPT ![c] = q],
         q.op = x7[c].op, q.via = x7[c].via, q.refresh = x7[c].refresh,
         q.pc \in {"submitting", "applied", "read"}, q.pc = "read" => q.refresh
  PROVE  /\ x7' \in [Requests -> TokenCall] /\ \A d \in Requests : Sound(x7'[d])
         /\ x7'[c] = q /\ \A d \in Requests : d # c => x7'[d] = x7[d]
<1>1. Sound(q)
  BY DEF Sound
<1>2. QED
  BY <1>1, CallMoves

(* The operations the calls make are operations.                           *)
LEMMA OperationsMade ==
  ASSUME NEW h \in Holders
  PROVE  /\ \A hs \in (SUBSET Holders) \ {{}} :
              TokenLedger!Op("pay", None, hs) \in TokenLedger!Operations
         /\ \A hs \in (SUBSET Holders) \ {{}} :
              TokenLedger!Op("send", h, hs) \in TokenLedger!Operations
         /\ \A g \in Holders, kind \in {"send", "lock"} :
              TokenLedger!Op(kind, h, {g}) \in TokenLedger!Operations
         /\ \A kind \in {"burn", "claim", "trust", "revoke", "freeze", "authorize"} :
              TokenLedger!Op(kind, h, {}) \in TokenLedger!Operations
BY DEF TokenLedger!Op, TokenLedger!Operations

Starts(c) ==
  \E op \in TokenLedger!Operations, via \in {"server", "client"}, refresh \in BOOLEAN :
    (refresh => op.kind # "lock") /\ TokenLedger!Begin(c, op, via, refresh)

LEMMA ServesStart ==
  ASSUME NEW c \in Requests, NEW op \in TokenLedger!Operations, TokenLedger!Serve(c, op)
  PROVE  Starts(c)
BY DEF TokenLedger!Serve, Starts

LEMMA CallsStart ==
  ASSUME NEW c \in Requests,
         \/ TokenLedger!IssueAsset(c) \/ TokenLedger!DistributeAsset(c)
         \/ TokenLedger!SubmitBatchPayment(c) \/ TokenLedger!SubmitPayment(c)
         \/ TokenLedger!BurnAsset(c) \/ TokenLedger!EstablishTrustline(c)
         \/ TokenLedger!RevokeTrustline(c) \/ TokenLedger!SetTrustlineFlags(c)
         \/ TokenLedger!CreateClaimable(c) \/ TokenLedger!Claim(c)
         \/ TokenLedger!SubmitSigned(c)
  PROVE  Starts(c)
<1>1. CASE TokenLedger!SubmitSigned(c)
  <2>1. PICK op \in TokenLedger!BuildIssue \cup TokenLedger!BuildTrustline
                      \cup TokenLedger!BuildBurn \cup TokenLedger!BuildPayment
                      \cup TokenLedger!BuildAirdrop,
             refresh \in BOOLEAN : TokenLedger!Begin(c, op, "client", refresh)
    BY <1>1 DEF TokenLedger!SubmitSigned
  <2>2. op \in TokenLedger!Operations /\ op.kind # "lock"
    <3>1. \/ \E hs \in (SUBSET Holders) \ {{}} : op = TokenLedger!Op("pay", None, hs)
          \/ \E h \in Holders : op = TokenLedger!Op("trust", h, {})
          \/ \E h \in Holders : op = TokenLedger!Op("burn", h, {})
          \/ \E h, g \in Holders : op = TokenLedger!Op("send", h, {g})
      <4>1. CASE op \in TokenLedger!BuildIssue
        <5>1. PICK h \in Holders : op = TokenLedger!Op("pay", None, {h})
          BY <4>1 DEF TokenLedger!BuildIssue
        <5>2. {h} \in (SUBSET Holders) \ {{}}
          OBVIOUS
        <5>3. QED
          BY <5>1, <5>2
      <4>2. CASE op \in TokenLedger!BuildAirdrop
        BY <4>2 DEF TokenLedger!BuildAirdrop
      <4>3. CASE op \in TokenLedger!BuildTrustline \/ op \in TokenLedger!BuildBurn
        BY <4>3 DEF TokenLedger!BuildTrustline, TokenLedger!BuildBurn
      <4>4. CASE op \in TokenLedger!BuildPayment
        <5>1. \E h \in Holders, g \in Holders : op = TokenLedger!Op("send", h, {g})
          BY <4>4 DEF TokenLedger!BuildPayment
        <5>2. QED
          BY <5>1
      <4>5. QED
        BY <2>1, <4>1, <4>2, <4>3, <4>4
    <3>2. CASE \E hs \in (SUBSET Holders) \ {{}} : op = TokenLedger!Op("pay", None, hs)
      BY <3>2 DEF TokenLedger!Op, TokenLedger!Operations
    <3>3. CASE ~ \E hs \in (SUBSET Holders) \ {{}} : op = TokenLedger!Op("pay", None, hs)
      BY <3>1, <3>3 DEF TokenLedger!Op, TokenLedger!Operations
    <3>4. QED
      BY <3>2, <3>3
  <2>3. QED
    BY <2>1, <2>2 DEF Starts
<1>2. CASE ~ TokenLedger!SubmitSigned(c)
  <2>1. \E op \in TokenLedger!Operations : TokenLedger!Serve(c, op)
    BY <1>2, OperationsMade DEF TokenLedger!IssueAsset, TokenLedger!DistributeAsset,
       TokenLedger!SubmitBatchPayment, TokenLedger!SubmitPayment, TokenLedger!BurnAsset,
       TokenLedger!EstablishTrustline, TokenLedger!RevokeTrustline,
       TokenLedger!SetTrustlineFlags, TokenLedger!CreateClaimable, TokenLedger!Claim
  <2>2. QED
    BY <2>1, ServesStart
<1>3. QED
  BY <1>1, <1>2

LEMMA SameSize == \A S : TokenLedger!Cardinality(S) = Cardinality(S)
BY DEF TokenLedger!Cardinality, Cardinality

LEMMA PaidIs ==
  ASSUME NEW op, NEW n \in Nat, Cardinality(op.to) = n
  PROVE  /\ op.kind = "send" => TokenLedger!Paid(op) = n
         /\ op.kind \in {"burn", "lock"} => TokenLedger!Paid(op) = 1
         /\ op.kind \notin {"send", "burn", "lock"} => TokenLedger!Paid(op) = 0
<1>1. CASE op.kind = "send"
  BY <1>1, SameSize DEF TokenLedger!Paid
<1>2. CASE op.kind \in {"burn", "lock"}
  BY <1>2 DEF TokenLedger!Paid
<1>3. CASE op.kind \notin {"send", "burn", "lock"}
  BY <1>3 DEF TokenLedger!Paid
<1>4. QED
  BY <1>1, <1>2, <1>3

(* What a holder of a balance gains leaves it a balance.                   *)
LEMMA GainIs ==
  ASSUME NEW op, NEW n \in Nat, Cardinality(op.to) = n, NEW h, NEW balance \in Nat,
         h = op.from /\ op.kind = "send" =>
           balance >= (IF h \in op.to THEN n - 1 ELSE n),
         h = op.from /\ op.kind \in {"burn", "lock"} => balance > 0
  PROVE  balance + TokenLedger!Gain(op, h) \in Nat
<1> DEFINE paid == TokenLedger!Paid(op)
<1>1. /\ op.kind = "send" => paid = n
      /\ op.kind \in {"burn", "lock"} => paid = 1
      /\ op.kind \notin {"send", "burn", "lock"} => paid = 0
  BY PaidIs
<1>2. TokenLedger!Gain(op, h) =
        (IF \/ op.kind \in {"pay", "send"} /\ h \in op.to
            \/ op.kind = "claim" /\ h = op.from THEN 1 ELSE 0)
          - (IF h = op.from THEN paid ELSE 0)
  BY DEF TokenLedger!Gain
<1> HIDE DEF paid
<1>3. CASE h # op.from
  BY <1>2, <1>3
<1>4. CASE h = op.from /\ op.kind = "send"
  BY <1>1, <1>2, <1>4
<1>5. CASE h = op.from /\ op.kind \in {"burn", "lock"}
  BY <1>1, <1>2, <1>5
<1>6. CASE h = op.from /\ op.kind \notin {"send", "burn", "lock"}
  BY <1>1, <1>2, <1>6
<1>7. QED
  BY <1>3, <1>4, <1>5, <1>6

(* Whatever the ledger accepts leaves it a ledger.                         *)
LEMMA MovedTyped ==
  ASSUME x1 \in [Holders -> Line], x2 \in [Holders -> Nat], x3 \in [Holders -> Nat],
         NEW op \in TokenLedger!Operations, TokenLedger!CanApply(op), TokenLedger!Moved(op)
  PROVE  /\ x1' \in [Holders -> Line] /\ x2' \in [Holders -> Nat] /\ x3' \in [Holders -> Nat]
         /\ \A h \in Holders : x3[h] <= x3'[h]
<1>1. /\ op.kind \in {"pay", "send", "lock", "burn", "claim", "trust", "revoke", "freeze",
                      "authorize"}
      /\ op.from \in {None} \cup Holders
      /\ op.kind = "pay" \/ op.from \in Holders
      /\ op.to \subseteq Holders
  BY DEF TokenLedger!Operations
<1>8. IsFiniteSet(op.to) /\ Cardinality(op.to) \in Nat
  BY <1>1, HoldersAssumption, FS_Subset, FS_CardinalityType
<1>2. ASSUME NEW h \in Holders PROVE TokenLedger!LineAfter(op, h) \in Line
  <2>2. x1[h].balance + TokenLedger!Gain(op, h) \in Nat
    <3>1. x1[h].balance \in Nat
      BY DEF Line
    <3>2. h = op.from /\ op.kind = "send" =>
            x1[h].balance >= (IF h \in op.to THEN Cardinality(op.to) - 1 ELSE Cardinality(op.to))
      <4>1. CASE h \in op.to
        <5>1. h = op.from /\ op.kind = "send" =>
                x1[h].balance >= TokenLedger!Cardinality(op.to \ {h})
          BY DEF TokenLedger!CanApply
        <5>2. TokenLedger!Cardinality(op.to \ {h}) = Cardinality(op.to) - 1
          BY <1>8, <4>1, SameSize, FS_RemoveElement
        <5>3. QED
          BY <4>1, <5>1, <5>2
      <4>2. CASE h \notin op.to
        <5>1. op.to \ {h} = op.to
          BY <4>2
        <5>2. QED
          BY <4>2, <5>1, SameSize DEF TokenLedger!CanApply
      <4>3. QED
        BY <4>1, <4>2
    <3>3. h = op.from /\ op.kind \in {"burn", "lock"} => x1[h].balance > 0
      BY DEF TokenLedger!CanApply
    <3>4. QED
      BY <1>8, <3>1, <3>2, <3>3, GainIs
  <2>3. [x1[h] EXCEPT !.balance = x1[h].balance + TokenLedger!Gain(op, h)] \in Line
    BY <2>2 DEF Line
  <2>4. ASSUME NEW flag \in BOOLEAN PROVE [x1[h] EXCEPT !.authorized = flag] \in Line
    BY DEF Line
  <2>5. /\ TokenLedger!Shut \in Line
        /\ [TokenLedger!Shut EXCEPT !.open = TRUE, !.authorized = TRUE] \in Line
    BY DEF Line, TokenLedger!Shut
  <2>6. CASE h # op.from \/ op.kind \in {"pay", "send", "burn", "lock", "claim"}
    BY <2>3, <2>6 DEF TokenLedger!LineAfter
  <2>7. CASE h = op.from /\ op.kind \in {"trust", "revoke"}
    BY <2>5, <2>7 DEF TokenLedger!LineAfter
  <2>8. CASE h = op.from /\ op.kind \in {"freeze", "authorize"}
    BY <2>4, <2>8 DEF TokenLedger!LineAfter
  <2>9. QED
    BY <1>1, <2>6, <2>7, <2>8
<1>3. x1' \in [Holders -> Line]
  BY <1>2 DEF TokenLedger!Moved
<1>4. ASSUME NEW h \in Holders
      PROVE  x2[h] + (IF op.kind = "lock" /\ h \in op.to THEN 1 ELSE 0)
                   - (IF op.kind = "claim" /\ h = op.from THEN 1 ELSE 0) \in Nat
  <2>1. op.kind = "claim" /\ h = op.from => x2[h] > 0
    BY DEF TokenLedger!CanApply
  <2>2. x2[h] \in Nat
    OBVIOUS
  <2>3. QED
    BY <2>1, <2>2
<1>5. x2' \in [Holders -> Nat]
  BY <1>4 DEF TokenLedger!Moved
<1>6. x3' \in [Holders -> Nat] /\ \A h \in Holders : x3[h] <= x3'[h]
  BY DEF TokenLedger!Moved
<1>7. QED
  BY <1>3, <1>5, <1>6

(* What follows for the cache of a step of a call that evicts nothing.     *)
Tells == UNCHANGED x10 \/ \E op \in TokenLedger!Operations : TokenLedger!Tell(op)

LEMMA TellTyped ==
  ASSUME CacheInv, NEW op, TokenLedger!Tell(op)
  PROVE  /\ x10' \in [0 .. TokenLedger!Staleness -> [Holders -> Nat]]
         /\ \A k \in Past : x10'[k] = x10[k]
         /\ \A h \in Holders : \A k \in 0 .. TokenLedger!Staleness : x10'[k][h] <= x3[h]
<1> DEFINE said == [h \in Holders |-> IF h \in TokenLedger!Touched(op) THEN x3[h] ELSE x10[0][h]]
<1>1. TokenLedger!Staleness \in Nat
  BY TicksAssumption DEF TokenLedger!Staleness
<1>2. x10 \in [0 .. TokenLedger!Staleness -> [Holders -> Nat]] /\ x3 \in [Holders -> Nat]
  BY DEF CacheInv, CacheTyped
<1>3. x10' = [x10 EXCEPT ![0] = said]
  BY DEF TokenLedger!Tell
<1>4. x10[0] \in [Holders -> Nat]
  BY <1>1, <1>2
<1>5. said \in [Holders -> Nat] /\ \A h \in Holders : said[h] <= x3[h]
  <2>1. \A h \in Holders : x10[0][h] <= x3[h]
    BY <1>1 DEF CacheInv
  <2>2. QED
    BY <1>2, <1>4, <2>1
<1> HIDE DEF said
<1>6. /\ x10' \in [0 .. TokenLedger!Staleness -> [Holders -> Nat]]
      /\ x10'[0] = said /\ \A k \in Past : x10'[k] = x10[k]
  BY <1>1, <1>2, <1>3, <1>5 DEF Past
<1>7. ASSUME NEW h \in Holders, NEW k \in 0 .. TokenLedger!Staleness PROVE x10'[k][h] <= x3[h]
  <2>1. k = 0 \/ k \in Past
    BY <1>1 DEF Past
  <2>2. QED
    BY <1>5, <1>6, <2>1 DEF CacheInv
<1>8. QED
  BY <1>6, <1>7

LEMMA CacheKeeps ==
  ASSUME CacheInv, UNCHANGED <<x6, x8, x9>>, Tells,
         x3' \in [Holders -> Nat], \A h \in Holders : x3[h] <= x3'[h]
  PROVE  CacheInv'
<1>1. /\ x10' \in [0 .. TokenLedger!Staleness -> [Holders -> Nat]]
      /\ \A k \in Past : x10'[k] = x10[k]
      /\ \A h \in Holders : \A k \in 0 .. TokenLedger!Staleness : x10'[k][h] <= x3[h]
  <2>1. CASE UNCHANGED x10
    BY <2>1 DEF CacheInv, CacheTyped
  <2>2. CASE \E op \in TokenLedger!Operations : TokenLedger!Tell(op)
    BY <2>2, TellTyped
  <2>3. QED
    BY <2>1, <2>2 DEF Tells
<1>2. CacheTyped'
  BY <1>1 DEF CacheInv, CacheTyped
<1>3. \A h \in Holders : x9'[h] <= x3'[h] /\ \A k \in 0 .. TokenLedger!Staleness : x10'[k][h] <= x3'[h]
  <2>1. \A h \in Holders : /\ x9[h] \in Nat /\ x3[h] \in Nat /\ x3'[h] \in Nat /\ x9[h] <= x3[h]
                           /\ \A k \in 0 .. TokenLedger!Staleness : x10'[k][h] \in Nat
    BY <1>1 DEF CacheInv, CacheTyped
  <2>2. QED
    BY <1>1, <2>1
<1>4. \A r \in Readers : ReadSound(x8'[r], x9', x10')
  BY <1>1 DEF CacheInv, ReadSound
<1>5. \A h \in Holders : EntrySound(x6'[h], h, x9', x10')
  BY <1>1 DEF CacheInv, EntrySound
<1>6. QED
  BY <1>2, <1>3, <1>4, <1>5 DEF CacheInv

(* What is left to show of such a step.                                    *)
LEMMA LedgerKeeps ==
  ASSUME LedgerInv, UNCHANGED <<x6, x8, x9>>, Tells,
         x1' \in [Holders -> Line], x2' \in [Holders -> Nat], x3' \in [Holders -> Nat],
         \A h \in Holders : x3[h] <= x3'[h],
         x4' \subseteq TokenLedger!Operations, x5' \in Nat,
         x7' \in [Requests -> TokenCall], \A d \in Requests : Sound(x7'[d]),
         x11' = "no" => SupplyFollows(TokenLedger!Supply', x5', x7')
  PROVE  LedgerInv'
<1>1. CacheInv'
  BY CacheKeeps DEF LedgerInv
<1>2. TokenLedger!TypeOK'
  BY <1>1 DEF LedgerInv, CacheInv, CacheTyped, TokenLedger!TypeOK, Line, TokenCall, Stages
<1>3. QED
  BY <1>1, <1>2 DEF LedgerInv

(* The types of what a call's step leaves alone.                           *)
LEMMA LedgerTyped ==
  ASSUME LedgerInv
  PROVE  /\ x1 \in [Holders -> Line] /\ x2 \in [Holders -> Nat] /\ x3 \in [Holders -> Nat]
         /\ x4 \subseteq TokenLedger!Operations /\ x5 \in Nat
         /\ x7 \in [Requests -> TokenCall] /\ \A d \in Requests : Sound(x7[d])
         /\ TokenLedger!Supply \in Nat /\ \A h \in Holders : x3[h] <= x3[h]
<1>1. x1 \in [Holders -> Line] /\ x2 \in [Holders -> Nat]
  BY DEF LedgerInv, TokenLedger!TypeOK, Line
<1>2. TokenLedger!Supply \in Nat
  BY <1>1, SupplyIsNat DEF Line
<1>3. QED
  BY <1>1, <1>2 DEF LedgerInv, TokenLedger!TypeOK, TokenCall, Stages

(* The record follows where a call ends that was not between its operation *)
(* and its UPDATE, or with the record put right.                           *)
LEMMA EndFollows ==
  ASSUME NEW issued, SupplyFollows(issued, x5, x7), NEW c \in Requests,
         ~ x7'[c].refresh, x7'[c].pc \in {"ok", "failed"},
         \A d \in Requests : d # c => x7'[d] = x7[d],
         x5' = issued \/ (x5' = x5 /\ x7[c].pc \notin {"applied", "read"})
  PROVE  SupplyFollows(issued, x5', x7')
<1>1. /\ \A d, e \in Requests : x7'[d].refresh /\ x7'[e].refresh => d = e
      /\ \A d \in Requests : x7'[d].pc = "applied" => x7'[d].refresh
      /\ \A d \in Requests : x7'[d].pc = "read" => x7'[d].supply = issued
  BY DEF SupplyFollows
<1>2. x5' = issued \/ \E d \in Requests : x7'[d].pc \in {"applied", "read"}
  <2>1. CASE x5' = x5 /\ x7[c].pc \notin {"applied", "read"} /\ x5 # issued
    <3>1. PICK d \in Requests : x7[d].pc \in {"applied", "read"}
      BY <2>1 DEF SupplyFollows
    <3>2. x7'[d].pc \in {"applied", "read"}
      BY <2>1, <3>1
    <3>3. QED
      BY <3>2
  <2>2. QED
    BY <2>1
<1>3. QED
  BY <1>1, <1>2 DEF SupplyFollows

LEMMA StartKeeps ==
  ASSUME LedgerInv, NEW c \in Requests, Starts(c)
  PROVE  LedgerInv'
<1>1. PICK op \in TokenLedger!Operations, via \in {"server", "client"}, refresh \in BOOLEAN :
        (refresh => op.kind # "lock") /\ TokenLedger!Begin(c, op, via, refresh)
  BY DEF Starts
<1> DEFINE pc == IF op.kind = "revoke" /\ via = "server" THEN "checking" ELSE "submitting"
           q == [TokenLedger!Idle EXCEPT
                   !.pc = pc, !.op = op, !.via = via, !.refresh = refresh]
<1>0. /\ q \in TokenCall /\ q.op = op /\ q.via = via /\ q.refresh = refresh
      /\ q.pc \in {"checking", "submitting"}
  BY IdleTyped DEF TokenCall, Stages
<1>2. /\ x7[c].pc = "idle" /\ (refresh => via = "client") /\ x7' = [x7 EXCEPT ![c] = q]
      /\ x11' = IF refresh /\ TokenLedger!Refreshing # {} THEN "yes" ELSE x11
      /\ UNCHANGED <<x1, x2, x3, x4, x5, x6, x8, x9, x10>>
  BY <1>1 DEF TokenLedger!Begin, TokenLedger!ledger
<1> HIDE DEF q
<1>3. q \in TokenCall /\ Sound(q) /\ q.pc \in {"checking", "submitting"} /\ q.refresh = refresh
  BY <1>0, <1>1, <1>2 DEF Sound
<1>4. /\ x7' \in [Requests -> TokenCall] /\ \A d \in Requests : Sound(x7'[d])
      /\ x7'[c] = q /\ \A d \in Requests : d # c => x7'[d] = x7[d]
  BY <1>2, <1>3, LedgerTyped, CallMoves
<1>5. ASSUME x11' = "no" PROVE SupplyFollows(TokenLedger!Supply, x5, x7')
  <2>1. SupplyFollows(TokenLedger!Supply, x5, x7)
    BY <1>2, <1>5 DEF LedgerInv
  <2>2. ASSUME refresh, NEW d \in Requests, x7[d].refresh PROVE FALSE
    <3>1. Sound(x7[d])
      BY LedgerTyped
    <3>2. d \in TokenLedger!Refreshing
      BY <2>2, <3>1 DEF TokenLedger!Refreshing, Sound
    <3>3. QED
      BY <1>2, <1>5, <2>2, <3>2
  <2>3. \A d, e \in Requests : x7'[d].refresh /\ x7'[e].refresh => d = e
    BY <1>3, <1>4, <2>1, <2>2 DEF SupplyFollows
  <2>4. /\ \A d \in Requests : x7'[d].pc = "applied" => x7'[d].refresh
        /\ \A d \in Requests : x7'[d].pc = "read" => x7'[d].supply = TokenLedger!Supply
    BY <1>3, <1>4, <2>1 DEF SupplyFollows
  <2>5. x5 = TokenLedger!Supply \/ \E d \in Requests : x7'[d].pc \in {"applied", "read"}
    <3>1. CASE \E d \in Requests : x7[d].pc \in {"applied", "read"}
      <4>1. PICK d \in Requests : x7[d].pc \in {"applied", "read"}
        BY <3>1
      <4>2. x7'[d].pc \in {"applied", "read"}
        BY <1>2, <1>4, <4>1
      <4>3. QED
        BY <4>2
    <3>2. QED
      BY <2>1, <3>1 DEF SupplyFollows
  <2>6. QED
    BY <2>3, <2>4, <2>5 DEF SupplyFollows
<1>6. TokenLedger!Supply' = TokenLedger!Supply
  BY <1>2, SupplyKept
<1>7. QED
  BY <1>2, <1>4, <1>5, <1>6, LedgerTyped, LedgerKeeps DEF Tells

LEMMA CheckKeeps ==
  ASSUME LedgerInv, NEW c \in Requests, TokenLedger!CheckLine(c)
  PROVE  LedgerInv'
<1>1. /\ x7[c].pc = "checking" /\ UNCHANGED <<x1, x2, x3, x4, x5, x6, x8, x9, x10, x11>>
      /\ \/ TokenLedger!End(c, "failed")
         \/ x7' = [x7 EXCEPT ![c] = [@ EXCEPT !.pc = "submitting"]]
  BY DEF TokenLedger!CheckLine, TokenLedger!ledger
<1>2. TokenLedger!Supply' = TokenLedger!Supply
  BY <1>1, SupplyKept
<1>3. CASE TokenLedger!End(c, "failed")
  <2>1. /\ x7' \in [Requests -> TokenCall] /\ \A d \in Requests : Sound(x7'[d])
        /\ x7'[c].pc = "failed" /\ ~ x7'[c].refresh
        /\ \A d \in Requests : d # c => x7'[d] = x7[d]
    BY <1>3, LedgerTyped, CallEnds
  <2>2. ASSUME x11' = "no" PROVE SupplyFollows(TokenLedger!Supply, x5', x7')
    <3>1. SupplyFollows(TokenLedger!Supply, x5, x7)
      BY <1>1, <2>2 DEF LedgerInv
    <3>2. QED
      BY <1>1, <2>1, <3>1, EndFollows
  <2>3. QED
    BY <1>1, <1>2, <2>1, <2>2, LedgerTyped, LedgerKeeps DEF Tells
<1>4. CASE x7' = [x7 EXCEPT ![c] = [@ EXCEPT !.pc = "submitting"]]
  <2> DEFINE q == [x7[c] EXCEPT !.pc = "submitting"]
  <2>1. x7[c] \in TokenCall /\ Sound(x7[c])
    BY LedgerTyped
  <2>2. /\ q \in TokenCall /\ q.op = x7[c].op /\ q.via = x7[c].via
        /\ q.refresh = x7[c].refresh /\ q.pc = "submitting"
    BY <2>1 DEF TokenCall, Stages
  <2>7. x7' = [x7 EXCEPT ![c] = q]
    BY <1>4
  <2> HIDE DEF q
  <2>3. x7[c].op \in TokenLedger!Operations
    BY <1>1, <2>1 DEF Sound
  <2>4. /\ x7' \in [Requests -> TokenCall] /\ \A d \in Requests : Sound(x7'[d])
        /\ x7'[c].pc = "submitting" /\ x7'[c].refresh = x7[c].refresh
        /\ \A d \in Requests : d # c => x7'[d] = x7[d]
    BY <2>2, <2>3, <2>7, LedgerTyped, CallGoesOn
  <2>5. ASSUME x11' = "no" PROVE SupplyFollows(TokenLedger!Supply, x5', x7')
    <3>1. SupplyFollows(TokenLedger!Supply, x5, x7)
      BY <1>1, <2>5 DEF LedgerInv
    <3>2. x5 = TokenLedger!Supply \/ \E d \in Requests : x7'[d].pc \in {"applied", "read"}
      BY <1>1, <2>4, <3>1 DEF SupplyFollows
    <3>3. QED
      BY <1>1, <2>4, <3>1, <3>2 DEF SupplyFollows
  <2>6. QED
    BY <1>1, <1>2, <2>4, <2>5, LedgerTyped, LedgerKeeps DEF Tells
<1>5. QED
  BY <1>1, <1>3, <1>4

LEMMA AppliedKeeps ==
  ASSUME LedgerInv, NEW c \in Requests, TokenLedger!Applied(c)
  PROVE  LedgerInv'
<1>1. /\ x7[c].pc = "submitting" /\ UNCHANGED <<x4, x5, x6, x8, x9, x10>>
      /\ TokenLedger!CanApply(x7[c].op) /\ TokenLedger!Moved(x7[c].op)
      /\ x7' = [x7 EXCEPT ![c] = [@ EXCEPT !.pc = "applied"]]
      /\ x11' = IF x7[c].refresh THEN x11 ELSE "yes"
  BY DEF TokenLedger!Applied
<1>2. x7[c] \in TokenCall /\ Sound(x7[c])
  BY LedgerTyped
<1> DEFINE q == [x7[c] EXCEPT !.pc = "applied"]
<1>3. /\ q \in TokenCall /\ q.op = x7[c].op /\ q.via = x7[c].via
      /\ q.refresh = x7[c].refresh /\ q.pc = "applied"
  BY <1>2 DEF TokenCall, Stages
<1>4. x7' = [x7 EXCEPT ![c] = q]
  BY <1>1
<1> HIDE DEF q
<1>5. x7[c].op \in TokenLedger!Operations
  BY <1>1, <1>2 DEF Sound
<1>6. /\ x7' \in [Requests -> TokenCall] /\ \A d \in Requests : Sound(x7'[d])
      /\ x7'[c].pc = "applied" /\ x7'[c].refresh = x7[c].refresh
      /\ \A d \in Requests : d # c => x7'[d] = x7[d]
  BY <1>3, <1>5, <1>4, LedgerTyped, CallGoesOn
<1>7. /\ x1' \in [Holders -> Line] /\ x2' \in [Holders -> Nat] /\ x3' \in [Holders -> Nat]
      /\ \A h \in Holders : x3[h] <= x3'[h]
  BY <1>1, <1>5, LedgerTyped, MovedTyped
<1>8. ASSUME x11' = "no" PROVE SupplyFollows(TokenLedger!Supply', x5', x7')
  <2>1. SupplyFollows(TokenLedger!Supply, x5, x7) /\ x7[c].refresh
    BY <1>1, <1>8 DEF LedgerInv
  <2>2. \A d \in Requests : x7'[d].pc # "read"
    <3>1. \A d \in Requests : x7[d].pc = "read" => x7[d].refresh
      BY LedgerTyped DEF Sound
    <3>2. QED
      BY <1>1, <1>6, <2>1, <3>1 DEF SupplyFollows
  <2>3. QED
    BY <1>6, <2>1, <2>2 DEF SupplyFollows
<1>9. QED
  BY <1>1, <1>6, <1>7, <1>8, LedgerTyped, LedgerKeeps DEF Tells

(* The calls that end without a change of the ledger.                      *)
LEMMA EndKeeps ==
  ASSUME LedgerInv, NEW c \in Requests,
         \/ TokenLedger!Refused(c) \/ TokenLedger!Unanswered(c)
         \/ TokenLedger!ExtractionFails(c) \/ TokenLedger!RefreshFails(c)
         \/ TokenLedger!RecordSupply(c)
  PROVE  LedgerInv'
<1>1. PICK pc \in {"ok", "failed"} :
        TokenLedger!End(c, pc) /\ UNCHANGED <<x1, x2, x3, x6, x8, x9>>
  BY DEF TokenLedger!Refused, TokenLedger!Unanswered, TokenLedger!ExtractionFails,
     TokenLedger!RefreshFails, TokenLedger!RecordSupply, TokenLedger!ledger
<1>9. Tells
  <2>1. CASE TokenLedger!RecordSupply(c)
    <3>1. x7[c].op \in TokenLedger!Operations
      BY <2>1, LedgerTyped DEF Sound, TokenLedger!RecordSupply
    <3>2. QED
      BY <2>1, <3>1 DEF Tells, TokenLedger!RecordSupply
  <2>2. QED
    BY <2>1 DEF Tells, TokenLedger!Refused, TokenLedger!Unanswered,
       TokenLedger!ExtractionFails, TokenLedger!RefreshFails
<1>2. /\ x7' \in [Requests -> TokenCall] /\ \A d \in Requests : Sound(x7'[d])
      /\ x7'[c].pc \in {"ok", "failed"} /\ ~ x7'[c].refresh
      /\ \A d \in Requests : d # c => x7'[d] = x7[d]
  BY <1>1, LedgerTyped, CallEnds
<1>3. TokenLedger!Supply' = TokenLedger!Supply
  BY <1>1, SupplyKept
<1>4. x7[c] \in TokenCall /\ Sound(x7[c]) /\ x7[c].supply \in Nat
  BY LedgerTyped DEF TokenCall
<1>5. x4' \subseteq TokenLedger!Operations
  <2>1. x7[c].pc = "submitting" => x7[c].op \in TokenLedger!Operations
    BY <1>4 DEF Sound
  <2>2. QED
    BY <2>1, LedgerTyped DEF TokenLedger!Refused, TokenLedger!Unanswered,
       TokenLedger!ExtractionFails, TokenLedger!RefreshFails, TokenLedger!RecordSupply
<1>6. x5' \in Nat
  BY <1>4, LedgerTyped DEF TokenLedger!Refused, TokenLedger!Unanswered,
     TokenLedger!ExtractionFails, TokenLedger!RefreshFails, TokenLedger!RecordSupply
<1>7. ASSUME x11' = "no" PROVE SupplyFollows(TokenLedger!Supply, x5', x7')
  <2>1. x11 = "no" /\ ~ TokenLedger!RefreshFails(c)
    BY <1>7 DEF TokenLedger!Refused, TokenLedger!Unanswered, TokenLedger!ExtractionFails,
       TokenLedger!RefreshFails, TokenLedger!RecordSupply
  <2>2. SupplyFollows(TokenLedger!Supply, x5, x7)
    BY <2>1 DEF LedgerInv
  <2>3. ~ TokenLedger!ExtractionFails(c)
    BY <1>4, <2>2 DEF TokenLedger!ExtractionFails, SupplyFollows, Sound
  <2>4. x5' = TokenLedger!Supply \/ (x5' = x5 /\ x7[c].pc \notin {"applied", "read"})
    <3>1. CASE TokenLedger!RecordSupply(c)
      BY <2>2, <3>1 DEF TokenLedger!RecordSupply, SupplyFollows
    <3>2. CASE ~ TokenLedger!RecordSupply(c)
      BY <2>1, <2>3, <3>2 DEF TokenLedger!Refused, TokenLedger!Unanswered
    <3>3. QED
      BY <3>1, <3>2
  <2>5. QED
    BY <1>2, <2>2, <2>4, EndFollows
<1>8. QED
  BY <1>1, <1>2, <1>3, <1>5, <1>6, <1>7, <1>9, LedgerTyped, LedgerKeeps

LEMMA ReadSupplyKeeps ==
  ASSUME LedgerInv, NEW c \in Requests, TokenLedger!ReadSupply(c)
  PROVE  LedgerInv'
<1>1. /\ x7[c].pc = "applied" /\ UNCHANGED <<x1, x2, x3, x4, x5, x6, x8, x9, x11>>
      /\ IF x7[c].refresh
         THEN x7' = [x7 EXCEPT ![c] = [@ EXCEPT !.pc = "read", !.supply = TokenLedger!Supply]]
         ELSE TokenLedger!End(c, "ok")
      /\ UNCHANGED x10 \/ TokenLedger!Tell(x7[c].op)
  BY DEF TokenLedger!ReadSupply, TokenLedger!ledger
<1>2. TokenLedger!Supply' = TokenLedger!Supply
  BY <1>1, SupplyKept
<1>3. x7[c] \in TokenCall /\ Sound(x7[c])
  BY LedgerTyped
<1>7. Tells
  BY <1>1, <1>3 DEF Tells, Sound
<1>4. CASE ~ x7[c].refresh
  <2>1. /\ x7' \in [Requests -> TokenCall] /\ \A d \in Requests : Sound(x7'[d])
    BY <1>1, <1>4, LedgerTyped, CallEnds
  <2>2. x11' # "no"
    BY <1>1, <1>4 DEF LedgerInv, SupplyFollows
  <2>3. QED
    BY <1>1, <1>7, <2>1, <2>2, LedgerTyped, LedgerKeeps
<1>5. CASE x7[c].refresh
  <2> DEFINE q == [x7[c] EXCEPT !.pc = "read", !.supply = TokenLedger!Supply]
  <2>1. /\ q \in TokenCall /\ q.op = x7[c].op /\ q.via = x7[c].via
        /\ q.refresh = x7[c].refresh /\ q.pc = "read" /\ q.supply = TokenLedger!Supply
    BY <1>3, LedgerTyped DEF TokenCall, Stages
  <2>6. x7' = [x7 EXCEPT ![c] = q]
    BY <1>1, <1>5
  <2> HIDE DEF q
  <2>2. x7[c].op \in TokenLedger!Operations
    BY <1>1, <1>3 DEF Sound
  <2>3. /\ x7' \in [Requests -> TokenCall] /\ \A d \in Requests : Sound(x7'[d])
        /\ x7'[c].pc = "read" /\ x7'[c].supply = TokenLedger!Supply
        /\ x7'[c].refresh = x7[c].refresh
        /\ \A d \in Requests : d # c => x7'[d] = x7[d]
    BY <1>5, <2>1, <2>2, <2>6, LedgerTyped, CallGoesOn
  <2>4. ASSUME x11' = "no" PROVE SupplyFollows(TokenLedger!Supply, x5', x7')
    <3>1. SupplyFollows(TokenLedger!Supply, x5, x7)
      BY <1>1, <2>4 DEF LedgerInv
    <3>2. QED
      BY <1>5, <2>3, <3>1 DEF SupplyFollows
  <2>5. QED
    BY <1>1, <1>2, <1>7, <2>3, <2>4, LedgerTyped, LedgerKeeps
<1>6. QED
  BY <1>4, <1>5

LEMMA LateKeeps ==
  ASSUME LedgerInv, NEW op \in x4, TokenLedger!AppliedLate(op)
  PROVE  LedgerInv'
<1>1. op \in TokenLedger!Operations
  BY LedgerTyped
<1>2. /\ x1' \in [Holders -> Line] /\ x2' \in [Holders -> Nat] /\ x3' \in [Holders -> Nat]
      /\ \A h \in Holders : x3[h] <= x3'[h]
  BY <1>1, LedgerTyped, MovedTyped DEF TokenLedger!AppliedLate
<1>3. /\ UNCHANGED <<x5, x6, x7, x8, x9, x10>> /\ x4' = x4 \ {op}
      /\ x11' = "yes"
  BY DEF TokenLedger!AppliedLate
<1>4. QED
  BY <1>2, <1>3, LedgerTyped, LedgerKeeps DEF Tells

(* An eviction: whoever was changed has no entry, or one overtaken, and so *)
(* are the balances read of it.                                            *)
LEMMA EvictKeeps ==
  ASSUME LedgerInv, NEW c \in Requests, TokenLedger!Evict(c)
  PROVE  LedgerInv'
<1> DEFINE op == x7[c].op
<1>1. PICK lost \in SUBSET TokenLedger!Evicted(op) :
        x6' = [h \in Holders |->
          IF h \notin TokenLedger!Evicted(op) \/ x6[h] = None THEN x6[h]
          ELSE IF h \in lost THEN [x6[h] EXCEPT !.overtaken = TRUE] ELSE None]
  BY DEF TokenLedger!Evict
<1>2. /\ x9' = [h \in Holders |-> IF h \in TokenLedger!Touched(op) THEN x3[h] ELSE x9[h]]
      /\ x8' = [r \in Readers |->
           IF x8[r].pc = "storing" /\ x8[r].holder \in TokenLedger!Evicted(op)
           THEN [x8[r] EXCEPT !.overtaken = TRUE] ELSE x8[r]]
      /\ x7[c].pc = "applied" /\ x7[c].via = "server" /\ TokenLedger!End(c, "ok")
      /\ TokenLedger!Tell(op) /\ UNCHANGED <<x1, x2, x3, x4, x5, x11>>
  BY DEF TokenLedger!Evict, TokenLedger!ledger
<1>3. x7' \in [Requests -> TokenCall] /\ \A d \in Requests : Sound(x7'[d])
  BY <1>2, LedgerTyped, CallEnds
<1>4. Sound(x7[c])
  BY LedgerTyped
<1>6. TokenLedger!Evicted(op) = TokenLedger!Touched(op)
  BY DEF TokenLedger!Evicted
<1>5. CacheInv /\ CacheTyped
  BY DEF LedgerInv, CacheInv
<1> HIDE DEF op
<1>7. /\ x10' \in [0 .. TokenLedger!Staleness -> [Holders -> Nat]]
      /\ \A k \in Past : x10'[k] = x10[k]
      /\ \A h \in Holders : \A k \in 0 .. TokenLedger!Staleness : x10'[k][h] <= x3[h]
  BY <1>2, <1>5, TellTyped
<1>11. /\ x9' \in [Holders -> Nat]
       /\ \A h \in Holders : x9'[h] <= x3[h]
       /\ \A h \in Holders : h \notin TokenLedger!Evicted(op) => x9'[h] = x9[h]
  BY <1>2, <1>5, <1>6 DEF CacheInv, CacheTyped
<1>12. ASSUME NEW h \in Holders PROVE x6'[h] \in Entry /\ EntrySound(x6'[h], h, x9', x10')
  <2>1. x6[h] \in Entry /\ EntrySound(x6[h], h, x9, x10)
    BY <1>5 DEF CacheInv, CacheTyped
  <2>2. CASE x6'[h] = None
    BY <2>2 DEF Entry, EntrySound
  <2>3. CASE h \notin TokenLedger!Evicted(op) /\ x6'[h] = x6[h]
    BY <1>7, <1>11, <2>1, <2>3 DEF EntrySound
  <2>4. CASE x6[h] # None /\ x6'[h] = [x6[h] EXCEPT !.overtaken = TRUE]
    <3>1. /\ x6'[h] \in Entry /\ x6'[h].overtaken = TRUE
          /\ x6'[h].seen = x6[h].seen /\ x6'[h].left = x6[h].left
      BY <2>1, <2>4 DEF Entry
    <3>2. QED
      BY <1>7, <2>1, <2>4, <3>1 DEF EntrySound
  <2>5. CASE h \notin TokenLedger!Evicted(op)
    <3>1. x6'[h] = x6[h]
      BY <1>1, <2>5
    <3>2. QED
      BY <2>3, <2>5, <3>1
  <2>6. CASE x6[h] = None
    <3>1. x6'[h] = None
      BY <1>1, <2>6
    <3>2. QED
      BY <2>2, <3>1
  <2>7. CASE h \in TokenLedger!Evicted(op) /\ x6[h] # None
    <3>1. x6'[h] = IF h \in lost THEN [x6[h] EXCEPT !.overtaken = TRUE] ELSE None
      BY <1>1, <2>7
    <3>2. QED
      BY <2>2, <2>4, <2>7, <3>1
  <2>8. QED
    BY <2>5, <2>6, <2>7
<1>13. x6' \in [Holders -> Entry]
  BY <1>1, <1>12
<1>14. ASSUME NEW r \in Readers PROVE x8'[r] \in Read /\ ReadSound(x8'[r], x9', x10')
  <2>1. x8[r] \in Read /\ ReadSound(x8[r], x9, x10)
    BY <1>5 DEF CacheInv, CacheTyped
  <2>2. CASE x8[r].pc = "storing" /\ x8[r].holder \in TokenLedger!Evicted(op)
    <3>1. x8'[r] = [x8[r] EXCEPT !.overtaken = TRUE]
      BY <1>2, <2>2
    <3>2. /\ x8'[r] \in Read /\ x8'[r].overtaken = TRUE /\ x8'[r].pc = x8[r].pc
          /\ x8'[r].holder = x8[r].holder /\ x8'[r].seen = x8[r].seen /\ x8'[r].age = x8[r].age
      BY <2>1, <3>1 DEF Read
    <3>3. QED
      BY <1>7, <2>1, <3>2 DEF ReadSound
  <2>3. CASE ~ (x8[r].pc = "storing" /\ x8[r].holder \in TokenLedger!Evicted(op))
    <3>1. x8'[r] = x8[r]
      BY <1>2, <2>3
    <3>2. x8[r].pc = "storing" => x9'[x8[r].holder] = x9[x8[r].holder]
      BY <1>11, <2>1, <2>3 DEF ReadSound
    <3>3. QED
      BY <1>7, <2>1, <3>1, <3>2 DEF ReadSound
  <2>4. QED
    BY <2>2, <2>3
<1>15. x8' \in [Readers -> Read]
  BY <1>2, <1>14
<1>16. CacheInv'
  BY <1>2, <1>5, <1>7, <1>11, <1>12, <1>13, <1>14, <1>15 DEF CacheInv, CacheTyped
<1>8. TokenLedger!TypeOK'
  BY <1>2, <1>3, <1>16 DEF LedgerInv, CacheInv, CacheTyped, Entry, Read, TokenLedger!TypeOK,
     TokenCall, Stages
<1>9. x11' # "no"
  BY <1>2, <1>4 DEF LedgerInv, SupplyFollows, Sound
<1>10. QED
  BY <1>2, <1>3, <1>8, <1>9, <1>16 DEF LedgerInv

(* What is left to show of the reads and of a tick.                        *)
LEMMA CacheMoves ==
  ASSUME LedgerInv, UNCHANGED <<x1, x2, x3, x4, x5, x7, x9, x11>>,
         x10' \in [0 .. TokenLedger!Staleness -> [Holders -> Nat]],
         \A h \in Holders : \A k \in 0 .. TokenLedger!Staleness : x10'[k][h] <= x3[h],
         x8' \in [Readers -> Read], \A r \in Readers : ReadSound(x8'[r], x9, x10'),
         x6' \in [Holders -> Entry], \A h \in Holders : EntrySound(x6'[h], h, x9, x10')
  PROVE  LedgerInv'
<1>1. CacheInv'
  BY DEF LedgerInv, CacheInv, CacheTyped
<1>2. TokenLedger!TypeOK'
  BY <1>1 DEF LedgerInv, CacheInv, CacheTyped, Entry, Read, TokenLedger!TypeOK
<1>3. TokenLedger!Supply' = TokenLedger!Supply
  BY SupplyKept
<1>4. QED
  BY <1>1, <1>2, <1>3 DEF LedgerInv

LEMMA NoReadTyped ==
  /\ TokenLedger!NoRead \in Read /\ TokenLedger!NoRead.pc = "idle"
  /\ ReadSound(TokenLedger!NoRead, x9, x10)
<1>1. TokenLedger!NoRead.pc = "idle" /\ 0 \in 0 .. ReadDelay
  BY TicksAssumption DEF TokenLedger!NoRead, TokenLedger!Reading
<1>2. TokenLedger!NoRead \in Read
  BY <1>1 DEF TokenLedger!NoRead, TokenLedger!Reading, Read
<1>3. ReadSound(TokenLedger!NoRead, x9, x10)
  BY <1>1 DEF ReadSound
<1>4. QED
  BY <1>1, <1>2, <1>3

(* The reads of balances.                                                  *)
LEMMA ReadsKeep ==
  ASSUME LedgerInv, NEW r \in Readers,
         \/ TokenLedger!ReadAnswered(r) \/ TokenLedger!CacheBalances(r) \/ TokenLedger!ReadFails(r)
         \/ \E h \in Holders : TokenLedger!ReadMisses(r, h)
  PROVE  LedgerInv'
<1>1. UNCHANGED <<x1, x2, x3, x4, x5, x7, x9, x10, x11>>
  <2>1. CASE TokenLedger!ReadAnswered(r)
    BY <2>1 DEF TokenLedger!ReadAnswered, TokenLedger!ledger
  <2>2. CASE TokenLedger!CacheBalances(r)
    BY <2>2 DEF TokenLedger!CacheBalances, TokenLedger!ledger
  <2>3. CASE TokenLedger!ReadFails(r)
    BY <2>3 DEF TokenLedger!ReadFails, TokenLedger!ledger
  <2>4. CASE \E h \in Holders : TokenLedger!ReadMisses(r, h)
    BY <2>4 DEF TokenLedger!ReadMisses, TokenLedger!ledger
  <2>5. QED
    BY <2>1, <2>2, <2>3, <2>4
<1>2. CacheInv /\ CacheTyped
  BY DEF LedgerInv, CacheInv
<1>3. x8[r] \in Read /\ ReadSound(x8[r], x9, x10)
  BY <1>2 DEF CacheInv, CacheTyped
<1>4. ASSUME NEW q \in Read, ReadSound(q, x9, x10), x8' = [x8 EXCEPT ![r] = q]
      PROVE  x8' \in [Readers -> Read] /\ \A s \in Readers : ReadSound(x8'[s], x9, x10)
  BY <1>2, <1>4 DEF CacheInv, CacheTyped
<1>5. /\ x10 \in [0 .. TokenLedger!Staleness -> [Holders -> Nat]]
      /\ \A h \in Holders : \A k \in 0 .. TokenLedger!Staleness : x10[k][h] <= x3[h]
  BY <1>2 DEF CacheInv, CacheTyped
<1>6. ASSUME UNCHANGED x6, NEW q \in Read, ReadSound(q, x9, x10), x8' = [x8 EXCEPT ![r] = q]
      PROVE  LedgerInv'
  <2>1. x6' \in [Holders -> Entry] /\ \A h \in Holders : EntrySound(x6'[h], h, x9, x10)
    BY <1>2, <1>6 DEF CacheInv, CacheTyped
  <2>2. QED
    BY <1>1, <1>4, <1>5, <1>6, <2>1, CacheMoves
<1>7. CASE TokenLedger!ReadFails(r)
  <2>1. UNCHANGED x6 /\ x8' = [x8 EXCEPT ![r] = TokenLedger!NoRead]
    BY <1>7 DEF TokenLedger!ReadFails
  <2>2. QED
    BY <1>6, <2>1, NoReadTyped
<1>8. ASSUME NEW h \in Holders, TokenLedger!ReadMisses(r, h) PROVE LedgerInv'
  <2> DEFINE q == TokenLedger!Reading("asking", h)
  <2>1. q \in Read /\ q.pc = "asking" /\ q.holder = h
    BY TicksAssumption DEF Read, TokenLedger!Reading
  <2>2. x8' = [x8 EXCEPT ![r] = q] /\ UNCHANGED x6
    BY <1>8 DEF TokenLedger!ReadMisses
  <2> HIDE DEF q
  <2>3. ReadSound(q, x9, x10)
    BY <2>1 DEF ReadSound
  <2>4. QED
    BY <1>6, <2>1, <2>2, <2>3
<1>9. CASE TokenLedger!ReadAnswered(r)
  <2> DEFINE h == x8[r].holder
             q == [x8[r] EXCEPT !.pc = "storing", !.seen = x3[h]]
  <2>1. h \in Holders
    BY <1>3, <1>9 DEF ReadSound, TokenLedger!ReadAnswered
  <2>2. x8' = [x8 EXCEPT ![r] = q] /\ UNCHANGED x6
    BY <1>9 DEF TokenLedger!ReadAnswered
  <2>3. x3[h] \in Nat /\ x9[h] \in Nat /\ x9[h] <= x3[h]
    BY <1>2, <2>1 DEF CacheInv, CacheTyped
  <2>4. q \in Read /\ q.holder = h /\ q.seen = x3[h] /\ q.pc = "storing"
    BY <1>3, <2>3 DEF Read
  <2> HIDE DEF q, h
  <2>5. ASSUME NEW k \in Past PROVE q.seen >= x10[k][h]
    <3>1. k \in 0 .. TokenLedger!Staleness
      BY TicksAssumption DEF Past, TokenLedger!Staleness
    <3>2. x10[k][h] <= x3[h] /\ x10[k][h] \in Nat
      BY <1>5, <2>1, <3>1
    <3>3. QED
      BY <2>3, <2>4, <3>2
  <2>6. ReadSound(q, x9, x10)
    BY <2>1, <2>3, <2>4, <2>5 DEF ReadSound
  <2>7. QED
    BY <1>6, <2>2, <2>4, <2>6
<1>10. CASE TokenLedger!CacheBalances(r)
  <2> DEFINE h == x8[r].holder
             e == [seen |-> x8[r].seen, overtaken |-> x8[r].overtaken, left |-> BalanceTTL]
  <2>1. h \in Holders
    BY <1>3, <1>10 DEF ReadSound, TokenLedger!CacheBalances
  <2>2. x6' = [x6 EXCEPT ![h] = e] /\ x8' = [x8 EXCEPT ![r] = TokenLedger!NoRead]
    BY <1>10 DEF TokenLedger!CacheBalances
  <2>3. e \in Entry
    BY <1>3, TicksAssumption DEF Entry, Read
  <2>4. EntrySound(e, h, x9, x10)
    <3>1. e.overtaken \/ e.seen >= x9[h]
      BY <1>3, <1>10 DEF ReadSound, TokenLedger!CacheBalances
    <3>2. ASSUME NEW k \in Past, k + e.left > TokenLedger!Staleness PROVE e.seen >= x10[k][h]
      <4>1. x8[r].age \in 0 .. ReadDelay
        BY <1>3 DEF Read
      <4>2. k \in Int /\ k + BalanceTTL > ReadDelay + BalanceTTL
        BY <3>2 DEF Past, TokenLedger!Staleness
      <4>3. k > x8[r].age
        BY <4>1, <4>2, TicksAssumption
      <4>4. QED
        BY <1>3, <1>10, <4>3 DEF ReadSound, TokenLedger!CacheBalances
    <3>3. QED
      BY <3>1, <3>2 DEF EntrySound
  <2> HIDE DEF e, h
  <2>5. x6' \in [Holders -> Entry] /\ \A g \in Holders : EntrySound(x6'[g], g, x9, x10)
    BY <1>2, <2>1, <2>2, <2>3, <2>4 DEF CacheInv, CacheTyped
  <2>6. x8' \in [Readers -> Read] /\ \A s \in Readers : ReadSound(x8'[s], x9, x10)
    BY <1>4, <2>2, NoReadTyped
  <2>7. QED
    BY <1>1, <1>5, <2>5, <2>6, CacheMoves
<1>11. QED
  BY <1>7, <1>8, <1>9, <1>10

LEMMA TickKeeps ==
  ASSUME LedgerInv, TokenLedger!Tick
  PROVE  LedgerInv'
<1> DEFINE S == TokenLedger!Staleness
<1>1. /\ UNCHANGED <<x1, x2, x3, x4, x5, x7, x9, x11>>
      /\ x10' = [k \in 0 .. S |-> IF k = 0 THEN x10[0] ELSE x10[k - 1]]
      /\ x8' = [r \in Readers |->
           IF x8[r].pc = "idle" THEN x8[r] ELSE [x8[r] EXCEPT !.age = x8[r].age + 1]]
      /\ x6' = [h \in Holders |-> TokenLedger!Aged(x6[h])]
      /\ \A r \in Readers : x8[r].pc # "idle" => x8[r].age < ReadDelay
  BY DEF TokenLedger!Tick, TokenLedger!ledger
<1>2. CacheInv /\ CacheTyped /\ S \in Nat
  BY TicksAssumption DEF LedgerInv, CacheInv, TokenLedger!Staleness
<1>3. \A k \in 1 .. S : x10'[k] = x10[k - 1] /\ k - 1 \in 0 .. S
  BY <1>1, <1>2
<1>4. 0 \in 0 .. S /\ x10'[0] = x10[0]
  BY <1>1, <1>2
<1>5. /\ x10' \in [0 .. S -> [Holders -> Nat]]
      /\ \A h \in Holders : \A k \in 0 .. S : x10'[k][h] <= x3[h]
  <2>1. \A k \in 0 .. S : \E i \in 0 .. S : x10'[k] = x10[i]
    <3>1. \A k \in 0 .. S : k = 0 \/ k \in 1 .. S
      BY <1>2
    <3>2. QED
      BY <1>3, <1>4, <3>1
  <2>2. DOMAIN x10' = 0 .. S /\ x10' = [k \in 0 .. S |-> x10'[k]]
    BY <1>1
  <2>3. \A k \in 0 .. S : x10'[k] \in [Holders -> Nat]
    BY <1>2, <2>1 DEF CacheTyped
  <2>4. x10' \in [0 .. S -> [Holders -> Nat]]
    BY <2>2, <2>3
  <2>5. QED
    BY <1>2, <2>1, <2>4 DEF CacheInv
<1>6. ASSUME NEW r \in Readers PROVE x8'[r] \in Read /\ ReadSound(x8'[r], x9, x10')
  <2>1. /\ x8[r] \in Read /\ ReadSound(x8[r], x9, x10)
        /\ x8[r].pc # "idle" => x8[r].age < ReadDelay
    BY <1>1, <1>2 DEF CacheInv, CacheTyped
  <2>2. CASE x8[r].pc = "idle"
    BY <1>1, <2>1, <2>2 DEF ReadSound
  <2>3. CASE x8[r].pc # "idle"
    <3>1. x8'[r] = [x8[r] EXCEPT !.age = x8[r].age + 1]
      BY <1>1, <2>3
    <3>2. /\ x8'[r].pc = x8[r].pc /\ x8'[r].holder = x8[r].holder /\ x8'[r].seen = x8[r].seen
          /\ x8'[r].overtaken = x8[r].overtaken /\ x8'[r].age = x8[r].age + 1
          /\ x8[r].age \in 0 .. ReadDelay /\ x8'[r] \in Read
      BY <2>1, <2>3, <3>1, TicksAssumption DEF Read
    <3>3. ASSUME NEW k \in Past, k > x8'[r].age, x8[r].pc = "storing"
          PROVE  x8[r].seen >= x10'[k][x8[r].holder]
      <4>1. k \in 1 .. S /\ k - 1 > x8[r].age
        BY <3>2, <3>3 DEF Past
      <4>2. k - 1 \in Past
        BY <1>2, <3>2, <4>1 DEF Past
      <4>3. x8[r].seen >= x10[k - 1][x8[r].holder]
        BY <2>1, <3>3, <4>1, <4>2 DEF ReadSound
      <4>4. QED
        BY <1>3, <4>1, <4>3
    <3>4. QED
      BY <2>1, <3>2, <3>3 DEF ReadSound
  <2>4. QED
    BY <2>2, <2>3
<1>7. x8' \in [Readers -> Read]
  BY <1>1, <1>6
<1>8. ASSUME NEW h \in Holders PROVE x6'[h] \in Entry /\ EntrySound(x6'[h], h, x9, x10')
  <2>1. x6[h] \in Entry /\ EntrySound(x6[h], h, x9, x10)
    BY <1>2 DEF CacheInv, CacheTyped
  <2>2. CASE x6[h] = None \/ x6[h].left <= 1
    BY <1>1, <2>2 DEF TokenLedger!Aged, Entry, EntrySound
  <2>3. CASE ~ (x6[h] = None \/ x6[h].left <= 1)
    <3>1. x6'[h] = [x6[h] EXCEPT !.left = x6[h].left - 1]
      BY <1>1, <2>3 DEF TokenLedger!Aged
    <3>2. /\ x6'[h].seen = x6[h].seen /\ x6'[h].overtaken = x6[h].overtaken
          /\ x6'[h].left = x6[h].left - 1 /\ x6[h].left \in 2 .. BalanceTTL
          /\ x6'[h] \in Entry
      BY <2>1, <2>3, <3>1, TicksAssumption DEF Entry
    <3>3. ASSUME NEW k \in Past, k + x6'[h].left > S PROVE x6[h].seen >= x10'[k][h]
      <4>1. k \in 1 .. S /\ (k - 1) + x6[h].left > S
        BY <3>2, <3>3 DEF Past
      <4>2. k - 1 \in Past
        <5>1. x6[h].left <= S
          BY <3>2, TicksAssumption DEF TokenLedger!Staleness
        <5>2. k # 1
          BY <1>2, <3>2, <4>1, <5>1
        <5>3. QED
          BY <1>2, <4>1, <5>2 DEF Past
      <4>3. x6[h].seen >= x10[k - 1][h]
        BY <2>1, <2>3, <4>1, <4>2 DEF EntrySound
      <4>4. QED
        BY <1>3, <4>1, <4>3
    <3>4. QED
      BY <2>1, <2>3, <3>2, <3>3 DEF EntrySound
  <2>4. QED
    BY <2>2, <2>3
<1>9. x6' \in [Holders -> Entry]
  BY <1>1, <1>8
<1>10. QED
  BY <1>1, <1>5, <1>6, <1>7, <1>8, <1>9, CacheMoves

LEMMA LedgerStarts == TokenLedger!Init => LedgerInv
<1> SUFFICES ASSUME TokenLedger!Init PROVE LedgerInv
  OBVIOUS
<1>1. /\ x1 \in [Holders -> Line] /\ x2 = [h \in Holders |-> 0]
  <2>1. {TokenLedger!Shut, [open |-> TRUE, balance |-> 1, authorized |-> TRUE]} \subseteq Line
    BY DEF TokenLedger!Shut, Line
  <2>2. QED
    BY <2>1 DEF TokenLedger!Init
<1>2. x5 = TokenLedger!Supply /\ x5 \in Nat
  BY <1>1, SupplyIsNat DEF TokenLedger!Init, Line
<1>3. CacheInv
  <2>1. /\ x3 = [h \in Holders |-> 0] /\ x9 = x3
        /\ x10 = [k \in 0 .. TokenLedger!Staleness |-> x9]
        /\ x6 = [h \in Holders |-> None] /\ x8 = [r \in Readers |-> TokenLedger!NoRead]
    BY DEF TokenLedger!Init
  <2>2. CacheTyped
    BY <2>1, NoReadTyped DEF CacheTyped, Entry
  <2>3. \A h \in Holders : x9[h] <= x3[h] /\ \A k \in 0 .. TokenLedger!Staleness : x10[k][h] <= x3[h]
    BY <2>1
  <2>4. QED
    BY <2>1, <2>2, <2>3, NoReadTyped DEF CacheInv, EntrySound
<1>4. \A c \in Requests : Sound(x7[c]) /\ x7[c].pc = "idle" /\ ~ x7[c].refresh
  BY DEF TokenLedger!Init, TokenLedger!Idle, Sound
<1>6. TokenLedger!TypeOK
  BY <1>1, <1>2, <1>3 DEF TokenLedger!Init, TokenLedger!Idle, TokenLedger!TypeOK, Line,
     CacheInv, CacheTyped, Entry, Read
<1>5. QED
  BY <1>2, <1>3, <1>4, <1>6 DEF LedgerInv, SupplyFollows

LEMMA CacheSound == LedgerInv => TokenLedger!EvictionHolds /\ TokenLedger!StalenessBounded
<1> SUFFICES ASSUME LedgerInv, NEW h \in Holders, x6[h] # None
             PROVE  /\ x6[h].overtaken \/ x6[h].seen >= x9[h]
                    /\ x6[h].seen >= x10[TokenLedger!Staleness][h]
  BY DEF TokenLedger!EvictionHolds, TokenLedger!StalenessBounded
<1>1. EntrySound(x6[h], h, x9, x10) /\ x6[h] \in Entry
  BY DEF LedgerInv, CacheInv, CacheTyped
<1>2. x6[h].left \in 1 .. BalanceTTL
  BY <1>1 DEF Entry
<1>3. /\ TokenLedger!Staleness \in Past
      /\ TokenLedger!Staleness + x6[h].left > TokenLedger!Staleness
  BY <1>2, TicksAssumption DEF Past, TokenLedger!Staleness
<1>4. QED
  BY <1>1, <1>3 DEF EntrySound

LEMMA LedgerSound == LedgerInv => TokenLedger!RecordedSupplyExact
<1> SUFFICES ASSUME LedgerInv, x11 = "no", TokenLedger!Refreshing = {}
             PROVE  x5 = TokenLedger!Supply
  BY DEF TokenLedger!RecordedSupplyExact
<1>1. ASSUME NEW c \in Requests PROVE ~ x7[c].refresh
  <2>1. Sound(x7[c]) /\ c \notin TokenLedger!Refreshing
    BY DEF LedgerInv
  <2>2. QED
    BY <2>1 DEF Sound, TokenLedger!Refreshing
<1>2. \A c \in Requests : Sound(x7[c])
  BY DEF LedgerInv
<1>3. QED
  BY <1>1, <1>2 DEF LedgerInv, SupplyFollows, Sound

(* However reads, evictions and operations interleave, no balance from     *)
(* before an operation of the server's own answered with success is served *)
(* but one that was read before the eviction and stored after it, or whose *)
(* eviction Redis did not execute; these, and those from before a /submit, *)
(* which evicts nothing, for no longer than a read and the life of an      *)
(* entry; and calls one after the other that ask for the refresh leave the *)
(* recorded supply at what the ledger says.                                *)
THEOREM BalancesStayFresh == MCSpec => []BalancesFresh
<1> DEFINE Inv == part = "TokenLedger" => LedgerInv
<1>1. MCInit => Inv
  BY LedgerStarts DEF MCInit
<1>2. Inv /\ [MCNext]_<<part, vars, xs>> => Inv'
  <2> SUFFICES ASSUME Inv, [MCNext]_<<part, vars, xs>>, part' = "TokenLedger"
               PROVE  LedgerInv'
    OBVIOUS
  <2>1. part = "TokenLedger" /\ LedgerInv
    BY DEF MCNext
  <2>2. CASE TokenLedger!Next
    <3>1. ASSUME NEW c \in Requests,
                 \/ TokenLedger!IssueAsset(c) \/ TokenLedger!DistributeAsset(c)
                 \/ TokenLedger!SubmitBatchPayment(c) \/ TokenLedger!SubmitPayment(c)
                 \/ TokenLedger!BurnAsset(c) \/ TokenLedger!EstablishTrustline(c)
                 \/ TokenLedger!RevokeTrustline(c) \/ TokenLedger!SetTrustlineFlags(c)
                 \/ TokenLedger!CreateClaimable(c) \/ TokenLedger!Claim(c)
                 \/ TokenLedger!SubmitSigned(c)
          PROVE  LedgerInv'
      BY <2>1, <3>1, CallsStart, StartKeeps
    <3>2. ASSUME NEW c \in Requests,
                 \/ TokenLedger!CheckLine(c) \/ TokenLedger!Applied(c)
                 \/ TokenLedger!Evict(c) \/ TokenLedger!ReadSupply(c)
          PROVE  LedgerInv'
      BY <2>1, <3>2, CheckKeeps, AppliedKeeps, EvictKeeps, ReadSupplyKeeps
    <3>3. ASSUME NEW c \in Requests,
                 \/ TokenLedger!Refused(c) \/ TokenLedger!Unanswered(c)
                 \/ TokenLedger!ExtractionFails(c) \/ TokenLedger!RefreshFails(c)
                 \/ TokenLedger!RecordSupply(c)
          PROVE  LedgerInv'
      BY <2>1, <3>3, EndKeeps
    <3>4. ASSUME NEW op \in x4, TokenLedger!AppliedLate(op) PROVE LedgerInv'
      BY <2>1, <3>4, LateKeeps
    <3>5. ASSUME NEW r \in Readers,
                 \/ TokenLedger!ReadAnswered(r) \/ TokenLedger!CacheBalances(r)
                 \/ TokenLedger!ReadFails(r) \/ \E h \in Holders : TokenLedger!ReadMisses(r, h)
          PROVE  LedgerInv'
      BY <2>1, <3>5, ReadsKeep
    <3>7. CASE TokenLedger!Tick
      BY <2>1, <3>7, TickKeeps
    <3>6. QED
      BY <2>2, <3>1, <3>2, <3>3, <3>4, <3>5, <3>7 DEF TokenLedger!Next
  <2>3. CASE UNCHANGED xs
    <3>1. UNCHANGED <<x1, x2, x3, x4, x5, x6, x7, x8, x9, x10, x11>>
      BY <2>3 DEF xs
    <3>2. TokenLedger!Supply' = TokenLedger!Supply
      BY <3>1, SupplyKept
    <3>3. QED
      BY <2>1, <3>1, <3>2 DEF LedgerInv, TokenLedger!TypeOK, CacheInv, CacheTyped
  <2>4. QED
    BY <2>1, <2>2, <2>3 DEF MCNext
<1>3. Inv => BalancesFresh
  BY LedgerSound, CacheSound DEF BalancesFresh, LedgerInv
<1>4. QED
  BY <1>1, <1>2, <1>3, PTL DEF MCSpec

-----------------------------------------------------------------------------
(* Disbursements.  A fold over a sequence is the last of the values it     *)
(* goes through, each of which comes from the one before it.               *)
LEMMA CountingUp ==
  ASSUME NEW n \in Nat, NEW Good, 0 \in Good,
         \A k \in Nat : k < n /\ k \in Good => k + 1 \in Good
  PROVE  \A k \in 0 .. n : k \in Good
<1> DEFINE Bad == {k \in 0 .. n : k \notin Good}
<1> SUFFICES ASSUME Bad # {} PROVE FALSE
  OBVIOUS
<1>1. Bad \in SUBSET Nat
  OBVIOUS
<1>2. PICK k \in Bad : \A m \in Bad : k <= m
  <2> HIDE DEF Bad
  <2>1. QED
    BY <1>1, LeastNat
<1>3. k \in 0 .. n /\ k \notin Good /\ k # 0
  OBVIOUS
<1>4. k - 1 \in Nat /\ k - 1 < n /\ (k - 1) + 1 = k /\ ~ (k <= k - 1)
  BY <1>3
<1>5. k - 1 \in Good
  BY <1>2, <1>4
<1>6. QED
  BY <1>3, <1>4, <1>5

IsMax(m, s) == m \in s /\ \A i \in s : i <= m

LEMMA MaxIs ==
  ASSUME NEW n \in Nat, NEW s \in SUBSET (1 .. n), NEW m \in s, \A i \in s : i <= m
  PROVE  Disbursements!Max(s) = m
<1>1. \A i \in s : i \in Int
  OBVIOUS
<1>2. \A i \in s : (\A k \in s : i >= k) => i = m
  BY <1>1
<1>3. m \in s /\ \A k \in s : m >= k
  BY <1>1
<1>4. QED
  BY <1>2, <1>3 DEF Disbursements!Max

LEMMA MaxExists ==
  ASSUME NEW n \in Nat, NEW s \in SUBSET (1 .. n), s # {}
  PROVE  Disbursements!Max(s) \in s
<1> DEFINE Good == {k \in Nat : s \cap (1 .. k) = {} \/ \E m \in s : \A i \in s \cap (1 .. k) : i <= m}
<1>1. 0 \in Good
  OBVIOUS
<1>2. ASSUME NEW k \in Nat, k < n, k \in Good PROVE k + 1 \in Good
  <2>1. CASE k + 1 \in s
    <3>1. \A i \in s \cap (1 .. (k + 1)) : i <= k + 1
      OBVIOUS
    <3>2. QED
      BY <2>1, <3>1
  <2>2. CASE k + 1 \notin s
    <3>1. s \cap (1 .. (k + 1)) = s \cap (1 .. k)
      BY <2>2
    <3>2. QED
      BY <1>2, <3>1
  <2>3. QED
    BY <2>1, <2>2
<1> HIDE DEF Good
<1>3. n \in Good
  BY <1>1, <1>2, CountingUp
<1>4. s \cap (1 .. n) = s
  OBVIOUS
<1>5. PICK m \in s : \A i \in s : i <= m
  BY <1>3, <1>4 DEF Good
<1>6. QED
  BY <1>5, MaxIs

(* What the values depend on is a function of the place and the value      *)
(* before it.                                                              *)
IsFold(n, base, h, it) ==
  \A s \in SUBSET (1 .. n) :
    it[s] = IF s = {} THEN base
            ELSE h[<<Disbursements!Max(s), it[s \ {Disbursements!Max(s)}]>>]

LEMMA FoldExists ==
  ASSUME NEW n \in Nat, NEW V, NEW base \in V, NEW h \in [(1 .. n) \X V -> V]
  PROVE  \E it \in [SUBSET (1 .. n) -> V] : IsFold(n, base, h, it)
<1> DEFINE Upto(it, k) ==
             \A s \in SUBSET (1 .. k) :
               it[s] = IF s = {} THEN base
                       ELSE h[<<Disbursements!Max(s), it[s \ {Disbursements!Max(s)}]>>]
           Has(k) == \E it \in [SUBSET (1 .. k) -> V] : Upto(it, k)
           Good == {k \in Nat : Has(k)}
<1>1. 0 \in Good
  <2> DEFINE it == [s \in SUBSET (1 .. 0) |-> base]
  <2>1. \A s \in SUBSET (1 .. 0) : s = {}
    OBVIOUS
  <2>2. it \in [SUBSET (1 .. 0) -> V] /\ Upto(it, 0)
    BY <2>1
  <2>3. Has(0)
    BY <2>2
  <2>4. QED
    BY <2>3
<1>2. ASSUME NEW k \in Nat, k < n, k \in Good PROVE k + 1 \in Good
  <2>1. PICK old \in [SUBSET (1 .. k) -> V] : Upto(old, k)
    <3>1. Has(k)
      <4> HIDE DEF Has
      <4>1. QED
        BY <1>2
    <3>2. QED
      BY <3>1
  <2> DEFINE it == [s \in SUBSET (1 .. (k + 1)) |->
                      IF k + 1 \in s THEN h[<<k + 1, old[s \ {k + 1}]>>] ELSE old[s]]
  <2>2. ASSUME NEW s \in SUBSET (1 .. (k + 1))
        PROVE  /\ k + 1 \in s => s \ {k + 1} \in SUBSET (1 .. k)
               /\ k + 1 \notin s => s \in SUBSET (1 .. k)
    OBVIOUS
  <2>3. k + 1 \in 1 .. n
    BY <1>2
  <2>4. it \in [SUBSET (1 .. (k + 1)) -> V]
    BY <2>2, <2>3
  <2>5. ASSUME NEW s \in SUBSET (1 .. (k + 1))
        PROVE  it[s] = IF s = {} THEN base
                       ELSE h[<<Disbursements!Max(s), it[s \ {Disbursements!Max(s)}]>>]
    <3>1. CASE k + 1 \in s
      <4>1. Disbursements!Max(s) = k + 1
        <5>1. k + 1 \in Nat /\ \A i \in s : i <= k + 1
          OBVIOUS
        <5>2. QED
          BY <3>1, <5>1, MaxIs
      <4>2. it[s \ {k + 1}] = old[s \ {k + 1}]
        BY <2>2
      <4>3. QED
        BY <3>1, <4>1, <4>2
    <3>2. CASE k + 1 \notin s
      <4>1. s \in SUBSET (1 .. k) /\ it[s] = old[s]
        BY <2>2, <3>2
      <4>2. s # {} => s \ {Disbursements!Max(s)} \in SUBSET (1 .. (k + 1))
                      /\ k + 1 \notin s \ {Disbursements!Max(s)}
        BY <3>2
      <4>3. s # {} => it[s \ {Disbursements!Max(s)}] = old[s \ {Disbursements!Max(s)}]
        BY <4>2
      <4>4. old[s] = IF s = {} THEN base
                     ELSE h[<<Disbursements!Max(s), old[s \ {Disbursements!Max(s)}]>>]
        BY <2>1, <4>1
      <4>5. QED
        BY <4>1, <4>3, <4>4
    <3>3. QED
      BY <3>1, <3>2
  <2> HIDE DEF it
  <2>6. Has(k + 1)
    BY <2>4, <2>5
  <2> HIDE DEF Has
  <2>7. QED
    BY <2>6
<1> HIDE DEF Good
<1>3. n \in Good
  BY <1>1, <1>2, CountingUp
<1>4. Has(n)
  <2> HIDE DEF Has
  <2>1. QED
    BY <1>3 DEF Good
<1>5. QED
  BY <1>4 DEF IsFold

Assets == DOMAIN Funds
Purses == [Assets -> Int]

(* A function of subsets that is a fold goes through the segments of the   *)
(* sequence.                                                               *)
LEMMA Segments ==
  ASSUME NEW n \in Nat, NEW k \in 1 .. n
  PROVE  /\ 1 .. k \in SUBSET (1 .. n) /\ 1 .. k # {}
         /\ Disbursements!Max(1 .. k) = k /\ (1 .. k) \ {k} = 1 .. (k - 1)
<1>1. 1 .. k \in SUBSET (1 .. n) /\ k \in 1 .. k /\ \A i \in 1 .. k : i <= k
  OBVIOUS
<1>2. Disbursements!Max(1 .. k) = k
  BY <1>1, MaxIs
<1>3. QED
  BY <1>1, <1>2

LEMMA EntryIs ==
  ASSUME NEW e \in Entries
  PROVE  e.asset \in Assets /\ e.amount \in Nat
BY DisbursementsAssumption DEF Assets

LEMMA PurseAfter ==
  ASSUME NEW held \in Purses, NEW e \in Entries
  PROVE  /\ Disbursements!After(held, e) \in Purses
         /\ \A a \in Assets : Disbursements!After(held, e)[a] =
              IF a = e.asset THEN held[a] - e.amount ELSE held[a]
BY EntryIs DEF Disbursements!After, Purses

IsSpending(seq, base, it) ==
  it = [s \in SUBSET DOMAIN seq |->
          IF s = {} THEN base
          ELSE Disbursements!After(it[s \ {Disbursements!Max(s)}], seq[Disbursements!Max(s)])]

LEMMA SpendingExists ==
  ASSUME NEW seq \in Seq(Entries), NEW base \in Purses
  PROVE  \E it \in [SUBSET (1 .. Len(seq)) -> Purses] : IsSpending(seq, base, it)
<1> DEFINE n == Len(seq)
           h == [p \in (1 .. n) \X Purses |-> Disbursements!After(p[2], seq[p[1]])]
<1>1. n \in Nat /\ DOMAIN seq = 1 .. n /\ \A k \in 1 .. n : seq[k] \in Entries
  OBVIOUS
<1>2. h \in [(1 .. n) \X Purses -> Purses]
  BY <1>1, PurseAfter
<1>3. \A k \in 1 .. n, held \in Purses : h[<<k, held>>] = Disbursements!After(held, seq[k])
  OBVIOUS
<1> HIDE DEF h, n
<1>4. PICK it \in [SUBSET (1 .. n) -> Purses] : IsFold(n, base, h, it)
  BY <1>1, <1>2, FoldExists
<1>5. ASSUME NEW s \in SUBSET (1 .. n), s # {}
      PROVE  it[s] = Disbursements!After(it[s \ {Disbursements!Max(s)}], seq[Disbursements!Max(s)])
  <2>1. Disbursements!Max(s) \in 1 .. n /\ it[s \ {Disbursements!Max(s)}] \in Purses
    BY <1>1, <1>5, MaxExists
  <2>2. it[s] = h[<<Disbursements!Max(s), it[s \ {Disbursements!Max(s)}]>>]
    BY <1>4, <1>5 DEF IsFold
  <2>3. QED
    BY <1>3, <2>1, <2>2
<1>6. it = [s \in SUBSET (1 .. n) |->
              IF s = {} THEN base
              ELSE Disbursements!After(it[s \ {Disbursements!Max(s)}], seq[Disbursements!Max(s)])]
  BY <1>4, <1>5 DEF IsFold
<1>7. QED
  BY <1>1, <1>6 DEF IsSpending, n

LEMMA SpendingTrace ==
  ASSUME NEW seq \in Seq(Entries), NEW base \in Purses
  PROVE  \E t \in [0 .. Len(seq) -> Purses] :
           /\ t[0] = base /\ Disbursements!Left(base, seq) = t[Len(seq)]
           /\ \A k \in 1 .. Len(seq) : t[k] = Disbursements!After(t[k - 1], seq[k])
<1> DEFINE n == Len(seq)
           sum == CHOOSE it : IsSpending(seq, base, it)
           t == [k \in 0 .. n |-> sum[1 .. k]]
<1>1. n \in Nat /\ DOMAIN seq = 1 .. n /\ \A k \in 1 .. n : seq[k] \in Entries
  OBVIOUS
<1>2. Disbursements!Left(base, seq) = sum[1 .. n]
  BY <1>1 DEF Disbursements!Left, Disbursements!FoldLeft, Disbursements!MapThenFoldSet, IsSpending
<1>3. IsSpending(seq, base, sum)
  BY SpendingExists
<1> HIDE DEF sum, n
<1>4. sum = [s \in SUBSET (1 .. n) |->
          IF s = {} THEN base
          ELSE Disbursements!After(sum[s \ {Disbursements!Max(s)}], seq[Disbursements!Max(s)])]
  BY <1>1, <1>3 DEF IsSpending
<1>5. sum[1 .. 0] = base
  BY <1>4
<1>6. ASSUME NEW k \in 1 .. n PROVE sum[1 .. k] = Disbursements!After(sum[1 .. (k - 1)], seq[k])
  <2>1. /\ 1 .. k \in SUBSET (1 .. n) /\ 1 .. k # {}
        /\ Disbursements!Max(1 .. k) = k /\ (1 .. k) \ {k} = 1 .. (k - 1)
    BY <1>1, Segments
  <2>2. sum[1 .. k] = Disbursements!After(sum[(1 .. k) \ {Disbursements!Max(1 .. k)}],
                                          seq[Disbursements!Max(1 .. k)])
    BY <1>4, <2>1
  <2>3. QED
    BY <2>1, <2>2
<1> DEFINE Good == {k \in Nat : sum[1 .. k] \in Purses}
<1>7. ASSUME NEW k \in Nat, k < n, k \in Good PROVE k + 1 \in Good
  <2>1. k + 1 \in 1 .. n /\ (k + 1) - 1 = k
    BY <1>1, <1>7
  <2>2. sum[1 .. (k + 1)] = Disbursements!After(sum[1 .. k], seq[k + 1])
    BY <1>6, <2>1
  <2>3. QED
    BY <1>1, <1>7, <2>1, <2>2, PurseAfter
<1>8. 0 \in Good
  BY <1>5
<1> HIDE DEF Good
<1>9. \A k \in 0 .. n : k \in Good
  BY <1>1, <1>7, <1>8, CountingUp
<1>10. t \in [0 .. n -> Purses]
  BY <1>9 DEF Good
<1>11. /\ t[0] = base /\ t[n] = sum[1 .. n]
       /\ \A k \in 1 .. n : t[k] = Disbursements!After(t[k - 1], seq[k])
  <2>1. 0 \in 0 .. n /\ n \in 0 .. n /\ \A k \in 1 .. n : k \in 0 .. n /\ k - 1 \in 0 .. n
    BY <1>1
  <2>2. QED
    BY <1>5, <1>6, <2>1
<1> HIDE DEF t
<1>12. QED
  BY <1>2, <1>10, <1>11 DEF n

(* What the network goes through: a code for each payment, and what is     *)
(* left after it.                                                          *)
Codes == {"op_no_trust", "op_underfunded", "op_success"}
Runs == [codes : Seq(Codes), held : Purses]

LEMMA RunAfter ==
  ASSUME NEW run \in Runs, NEW e \in Entries
  PROVE  Disbursements!Applying(run, e) \in Runs
<1>1. /\ run.codes \in Seq(Codes) /\ run.held \in Purses
      /\ Disbursements!Outcome(e, run.held) \in Codes
  BY DEF Runs, Codes, Disbursements!Outcome
<1>2. Disbursements!After(run.held, e) \in Purses
  BY <1>1, PurseAfter
<1>3. Append(run.codes, Disbursements!Outcome(e, run.held)) \in Seq(Codes)
  BY <1>1
<1>4. QED
  BY <1>1, <1>2, <1>3 DEF Runs, Disbursements!Applying

IsRun(seq, base, it) ==
  it = [s \in SUBSET DOMAIN seq |->
          IF s = {} THEN base
          ELSE Disbursements!Applying(it[s \ {Disbursements!Max(s)}], seq[Disbursements!Max(s)])]

LEMMA RunExists ==
  ASSUME NEW seq \in Seq(Entries), NEW base \in Runs
  PROVE  \E it \in [SUBSET (1 .. Len(seq)) -> Runs] : IsRun(seq, base, it)
<1> DEFINE n == Len(seq)
           h == [p \in (1 .. n) \X Runs |-> Disbursements!Applying(p[2], seq[p[1]])]
<1>1. n \in Nat /\ DOMAIN seq = 1 .. n /\ \A k \in 1 .. n : seq[k] \in Entries
  OBVIOUS
<1>2. h \in [(1 .. n) \X Runs -> Runs]
  BY <1>1, RunAfter
<1>3. \A k \in 1 .. n, run \in Runs : h[<<k, run>>] = Disbursements!Applying(run, seq[k])
  OBVIOUS
<1> HIDE DEF h, n
<1>4. PICK it \in [SUBSET (1 .. n) -> Runs] : IsFold(n, base, h, it)
  BY <1>1, <1>2, FoldExists
<1>5. ASSUME NEW s \in SUBSET (1 .. n), s # {}
      PROVE  it[s] = Disbursements!Applying(it[s \ {Disbursements!Max(s)}], seq[Disbursements!Max(s)])
  <2>1. Disbursements!Max(s) \in 1 .. n /\ it[s \ {Disbursements!Max(s)}] \in Runs
    BY <1>1, <1>5, MaxExists
  <2>2. it[s] = h[<<Disbursements!Max(s), it[s \ {Disbursements!Max(s)}]>>]
    BY <1>4, <1>5 DEF IsFold
  <2>3. QED
    BY <1>3, <2>1, <2>2
<1>6. it = [s \in SUBSET (1 .. n) |->
              IF s = {} THEN base
              ELSE Disbursements!Applying(it[s \ {Disbursements!Max(s)}], seq[Disbursements!Max(s)])]
  BY <1>4, <1>5 DEF IsFold
<1>7. QED
  BY <1>1, <1>6 DEF IsRun, n

LEMMA RunTrace ==
  ASSUME NEW seq \in Seq(Entries), NEW held \in Purses
  PROVE  \E t \in [0 .. Len(seq) -> Runs] :
           /\ t[0] = [codes |-> <<>>, held |-> held]
           /\ Disbursements!Applied(seq, held) = t[Len(seq)]
           /\ \A k \in 1 .. Len(seq) : t[k] = Disbursements!Applying(t[k - 1], seq[k])
<1> DEFINE n == Len(seq)
           base == [codes |-> <<>>, held |-> held]
           sum == CHOOSE it : IsRun(seq, base, it)
           t == [k \in 0 .. n |-> sum[1 .. k]]
<1>1. n \in Nat /\ DOMAIN seq = 1 .. n /\ \A k \in 1 .. n : seq[k] \in Entries
  OBVIOUS
<1>2. Disbursements!Applied(seq, held) = sum[1 .. n]
  BY <1>1 DEF Disbursements!Applied, Disbursements!FoldLeft, Disbursements!MapThenFoldSet, IsRun
<1>b. base \in Runs
  <2>1. <<>> \in Seq(Codes)
    OBVIOUS
  <2>2. QED
    BY <2>1 DEF Runs
<1> HIDE DEF base
<1>3. IsRun(seq, base, sum)
  BY <1>b, RunExists
<1> HIDE DEF sum, n
<1>4. sum = [s \in SUBSET (1 .. n) |->
          IF s = {} THEN base
          ELSE Disbursements!Applying(sum[s \ {Disbursements!Max(s)}], seq[Disbursements!Max(s)])]
  BY <1>1, <1>3 DEF IsRun
<1>5. sum[1 .. 0] = base
  BY <1>4
<1>6. ASSUME NEW k \in 1 .. n PROVE sum[1 .. k] = Disbursements!Applying(sum[1 .. (k - 1)], seq[k])
  <2>1. /\ 1 .. k \in SUBSET (1 .. n) /\ 1 .. k # {}
        /\ Disbursements!Max(1 .. k) = k /\ (1 .. k) \ {k} = 1 .. (k - 1)
    BY <1>1, Segments
  <2>2. sum[1 .. k] = Disbursements!Applying(sum[(1 .. k) \ {Disbursements!Max(1 .. k)}],
                                             seq[Disbursements!Max(1 .. k)])
    BY <1>4, <2>1
  <2>3. QED
    BY <2>1, <2>2
<1> DEFINE Good == {k \in Nat : sum[1 .. k] \in Runs}
<1>7. ASSUME NEW k \in Nat, k < n, k \in Good PROVE k + 1 \in Good
  <2>1. k + 1 \in 1 .. n /\ (k + 1) - 1 = k
    BY <1>1, <1>7
  <2>2. sum[1 .. (k + 1)] = Disbursements!Applying(sum[1 .. k], seq[k + 1])
    BY <1>6, <2>1
  <2>3. QED
    BY <1>1, <1>7, <2>1, <2>2, RunAfter
<1>8. 0 \in Good
  BY <1>5, <1>b
<1> HIDE DEF Good
<1>9. \A k \in 0 .. n : k \in Good
  BY <1>1, <1>7, <1>8, CountingUp
<1>10. t \in [0 .. n -> Runs]
  BY <1>9 DEF Good
<1>11. /\ t[0] = base /\ t[n] = sum[1 .. n]
       /\ \A k \in 1 .. n : t[k] = Disbursements!Applying(t[k - 1], seq[k])
  <2>1. 0 \in 0 .. n /\ n \in 0 .. n /\ \A k \in 1 .. n : k \in 0 .. n /\ k - 1 \in 0 .. n
    BY <1>1
  <2>2. QED
    BY <1>5, <1>6, <2>1
<1> HIDE DEF t
<1>12. QED
  BY <1>2, <1>10, <1>11 DEF n, base

(* The codes are those of the payments on what those before them left.     *)
IsPayout(seq, held, t, codes) ==
  /\ t \in [0 .. Len(seq) -> Purses] /\ t[0] = held
  /\ codes \in Seq(Codes) /\ Len(codes) = Len(seq)
  /\ \A k \in 1 .. Len(seq) :
       /\ codes[k] = Disbursements!Outcome(seq[k], t[k - 1])
       /\ t[k] = IF codes[k] = "op_success" THEN Disbursements!After(t[k - 1], seq[k])
                 ELSE t[k - 1]

(* A sequence and one value more.                                          *)
LEMMA AppendedTo ==
  ASSUME NEW S, NEW s \in Seq(S), NEW e
  PROVE  /\ Len(Append(s, e)) = Len(s) + 1 /\ Append(s, e)[Len(s) + 1] = e
         /\ \A i \in 1 .. Len(s) : Append(s, e)[i] = s[i]
OBVIOUS

LEMMA Payout ==
  ASSUME NEW seq \in Seq(Entries), NEW held \in Purses
  PROVE  \E t : /\ IsPayout(seq, held, t, Disbursements!Applied(seq, held).codes)
                /\ Disbursements!Applied(seq, held).held = t[Len(seq)]
<1> DEFINE n == Len(seq)
<1>1. PICK u \in [0 .. n -> Runs] :
        /\ u[0] = [codes |-> <<>>, held |-> held]
        /\ Disbursements!Applied(seq, held) = u[n]
        /\ \A k \in 1 .. n : u[k] = Disbursements!Applying(u[k - 1], seq[k])
  BY RunTrace
<1> DEFINE t == [k \in 0 .. n |-> u[k].held]
           Said(k) == /\ Len(u[k].codes) = k
                      /\ \A i \in 1 .. k : u[k].codes[i] = Disbursements!Outcome(seq[i], u[i - 1].held)
           Good == {k \in Nat : Said(k)}
<1>2. n \in Nat /\ \A k \in 0 .. n : u[k].codes \in Seq(Codes) /\ u[k].held \in Purses
  <2>1. \A k \in 0 .. n : u[k] \in Runs
    OBVIOUS
  <2>2. n \in Nat
    OBVIOUS
  <2> HIDE DEF n
  <2>3. QED
    BY <2>1, <2>2 DEF Runs
<1> HIDE DEF n
<1>3. Said(0)
  BY <1>1
<1>4. ASSUME NEW k \in 1 .. n
      PROVE  /\ u[k].codes = Append(u[k - 1].codes, Disbursements!Outcome(seq[k], u[k - 1].held))
             /\ u[k].held = IF Disbursements!Outcome(seq[k], u[k - 1].held) = "op_success"
                              THEN Disbursements!After(u[k - 1].held, seq[k]) ELSE u[k - 1].held
  <2>1. u[k] = Disbursements!Applying(u[k - 1], seq[k])
    BY <1>1
  <2>2. QED
    BY <2>1 DEF Disbursements!Applying
<1>5. ASSUME NEW k \in Nat, k < n, Said(k) PROVE Said(k + 1)
  <2> DEFINE x == Disbursements!Outcome(seq[k + 1], u[k].held)
  <2>1. k \in 0 .. n /\ k + 1 \in 1 .. n /\ (k + 1) - 1 = k
    BY <1>2, <1>5
  <2>2. u[k + 1].codes = Append(u[k].codes, x) /\ u[k].codes \in Seq(Codes)
    <3>1. u[k].codes \in Seq(Codes)
      BY <1>2, <2>1
    <3>2. u[k + 1].codes = Append(u[(k + 1) - 1].codes,
                                  Disbursements!Outcome(seq[k + 1], u[(k + 1) - 1].held))
      BY <1>4, <2>1
    <3>3. u[(k + 1) - 1] = u[k]
      BY <2>1
    <3>4. u[k + 1].codes = Append(u[k].codes, x)
      BY <3>2, <3>3, Zenon DEF x
    <3>5. QED
      BY <3>1, <3>4
  <2> HIDE DEF x
  <2>3. Len(u[k].codes) = k
    BY <1>5
  <2>4. /\ Len(u[k + 1].codes) = k + 1 /\ u[k + 1].codes[k + 1] = x
        /\ \A i \in 1 .. k : u[k + 1].codes[i] = u[k].codes[i]
    <3>1. /\ Len(Append(u[k].codes, x)) = k + 1 /\ Append(u[k].codes, x)[k + 1] = x
          /\ \A i \in 1 .. k : Append(u[k].codes, x)[i] = u[k].codes[i]
      <4>1. u[k].codes \in Seq(Codes)
        BY <2>2
      <4> HIDE DEF x
      <4>2. /\ Len(Append(u[k].codes, x)) = Len(u[k].codes) + 1
            /\ Append(u[k].codes, x)[Len(u[k].codes) + 1] = x
            /\ \A i \in 1 .. Len(u[k].codes) : Append(u[k].codes, x)[i] = u[k].codes[i]
        BY <4>1, AppendedTo, ZenonT(30)
      <4>3. QED
        BY <4>2, <2>3, Zenon
    <3>2. QED
      BY <2>2, <3>1, Zenon
  <2>5. \A i \in 1 .. (k + 1) : i = k + 1 \/ i \in 1 .. k
    OBVIOUS
  <2>6. QED
    BY <1>5, <2>1, <2>4, <2>5 DEF x
<1> HIDE DEF Said
<1>6. \A k \in 0 .. n : k \in Good
  <2>1. 0 \in Good /\ \A k \in Nat : k < n /\ k \in Good => k + 1 \in Good
    BY <1>3, <1>5
  <2> HIDE DEF Good
  <2>2. QED
    BY <1>2, <2>1, CountingUp
<1>7. Said(n)
  BY <1>2, <1>6
<1>8. \A k \in 1 .. n : k \in 0 .. n /\ k - 1 \in 0 .. n
  BY <1>2
<1>9. IsPayout(seq, held, t, u[n].codes)
  <2>1. t \in [0 .. n -> Purses] /\ t[0] = held
    BY <1>1, <1>2
  <2>2. u[n].codes \in Seq(Codes) /\ Len(u[n].codes) = n
    BY <1>2, <1>7 DEF Said
  <2>3. \A k \in 1 .. n : /\ u[n].codes[k] = Disbursements!Outcome(seq[k], t[k - 1])
                          /\ t[k] = IF u[n].codes[k] = "op_success"
                                      THEN Disbursements!After(t[k - 1], seq[k]) ELSE t[k - 1]
    BY <1>4, <1>7, <1>8 DEF Said
  <2> HIDE DEF t
  <2>4. QED
    BY <2>1, <2>2, <2>3 DEF IsPayout, n
<1>10. u[n].held = t[n]
  BY <1>2
<1> HIDE DEF t
<1>11. QED
  BY <1>1, <1>9, <1>10 DEF n

(* The total of an asset.                                                  *)
Adding(sum, e, a) == IF e.asset = a THEN sum + e.amount ELSE sum

IsTotal(seq, a, it) ==
  it = [s \in SUBSET DOMAIN seq |->
          IF s = {} THEN 0
          ELSE Adding(it[s \ {Disbursements!Max(s)}], seq[Disbursements!Max(s)], a)]

LEMMA TotalExists ==
  ASSUME NEW seq \in Seq(Entries), NEW a
  PROVE  \E it \in [SUBSET (1 .. Len(seq)) -> Int] : IsTotal(seq, a, it)
<1> DEFINE n == Len(seq)
           h == [p \in (1 .. n) \X Int |-> Adding(p[2], seq[p[1]], a)]
<1>1. n \in Nat /\ DOMAIN seq = 1 .. n /\ \A k \in 1 .. n : seq[k].amount \in Nat
  BY EntryIs
<1>2. h \in [(1 .. n) \X Int -> Int]
  BY <1>1 DEF Adding
<1>3. \A k \in 1 .. n, sum \in Int : h[<<k, sum>>] = Adding(sum, seq[k], a)
  OBVIOUS
<1> HIDE DEF h, n
<1>4. PICK it \in [SUBSET (1 .. n) -> Int] : IsFold(n, 0, h, it)
  <2>1. 0 \in Int
    OBVIOUS
  <2>2. QED
    BY <1>1, <1>2, <2>1, FoldExists
<1>5. ASSUME NEW s \in SUBSET (1 .. n), s # {}
      PROVE  it[s] = Adding(it[s \ {Disbursements!Max(s)}], seq[Disbursements!Max(s)], a)
  <2>1. Disbursements!Max(s) \in 1 .. n /\ it[s \ {Disbursements!Max(s)}] \in Int
    BY <1>1, <1>5, MaxExists
  <2>2. it[s] = h[<<Disbursements!Max(s), it[s \ {Disbursements!Max(s)}]>>]
    BY <1>4, <1>5 DEF IsFold
  <2>3. QED
    BY <1>3, <2>1, <2>2
<1>6. it = [s \in SUBSET (1 .. n) |->
              IF s = {} THEN 0
              ELSE Adding(it[s \ {Disbursements!Max(s)}], seq[Disbursements!Max(s)], a)]
  BY <1>4, <1>5 DEF IsFold
<1>7. QED
  BY <1>1, <1>6 DEF IsTotal, n

LEMMA TotalTrace ==
  ASSUME NEW seq \in Seq(Entries), NEW a
  PROVE  \E t \in [0 .. Len(seq) -> Int] :
           /\ t[0] = 0 /\ Disbursements!Total(seq, a) = t[Len(seq)]
           /\ \A k \in 1 .. Len(seq) : t[k] = Adding(t[k - 1], seq[k], a)
<1> DEFINE n == Len(seq)
           sum == CHOOSE it : IsTotal(seq, a, it)
           t == [k \in 0 .. n |-> sum[1 .. k]]
<1>1. n \in Nat /\ DOMAIN seq = 1 .. n /\ \A k \in 1 .. n : seq[k].amount \in Nat
  BY EntryIs
<1>2. Disbursements!Total(seq, a) = sum[1 .. n]
  BY <1>1 DEF Disbursements!Total, Disbursements!FoldLeft, Disbursements!MapThenFoldSet, IsTotal, Adding
<1>3. IsTotal(seq, a, sum)
  BY TotalExists
<1> HIDE DEF sum, n
<1>4. sum = [s \in SUBSET (1 .. n) |->
          IF s = {} THEN 0
          ELSE Adding(sum[s \ {Disbursements!Max(s)}], seq[Disbursements!Max(s)], a)]
  BY <1>1, <1>3 DEF IsTotal
<1>5. sum[1 .. 0] = 0
  BY <1>4
<1>6. ASSUME NEW k \in 1 .. n PROVE sum[1 .. k] = Adding(sum[1 .. (k - 1)], seq[k], a)
  <2>1. /\ 1 .. k \in SUBSET (1 .. n) /\ 1 .. k # {}
        /\ Disbursements!Max(1 .. k) = k /\ (1 .. k) \ {k} = 1 .. (k - 1)
    BY <1>1, Segments
  <2>2. sum[1 .. k] = Adding(sum[(1 .. k) \ {Disbursements!Max(1 .. k)}],
                             seq[Disbursements!Max(1 .. k)], a)
    BY <1>4, <2>1
  <2>3. QED
    BY <2>1, <2>2
<1> DEFINE Good == {k \in Nat : sum[1 .. k] \in Int}
<1>7. ASSUME NEW k \in Nat, k < n, k \in Good PROVE k + 1 \in Good
  <2>1. k + 1 \in 1 .. n /\ (k + 1) - 1 = k
    BY <1>1, <1>7
  <2>2. sum[1 .. (k + 1)] = Adding(sum[1 .. k], seq[k + 1], a)
    BY <1>6, <2>1
  <2>3. QED
    BY <1>1, <1>7, <2>1, <2>2 DEF Adding
<1>8. 0 \in Good
  BY <1>5
<1> HIDE DEF Good
<1>9. \A k \in 0 .. n : k \in Good
  BY <1>1, <1>7, <1>8, CountingUp
<1>10. t \in [0 .. n -> Int]
  BY <1>9 DEF Good
<1>11. /\ t[0] = 0 /\ t[n] = sum[1 .. n]
       /\ \A k \in 1 .. n : t[k] = Adding(t[k - 1], seq[k], a)
  <2>1. 0 \in 0 .. n /\ n \in 0 .. n /\ \A k \in 1 .. n : k \in 0 .. n /\ k - 1 \in 0 .. n
    BY <1>1
  <2>2. QED
    BY <1>5, <1>6, <2>1
<1> HIDE DEF t
<1>12. QED
  BY <1>2, <1>10, <1>11 DEF n

(* The totals of a preview are what the batch takes from the sender.       *)
LEMMA TotalsAddUp ==
  ASSUME NEW seq \in Seq(Entries), NEW a \in Assets
  PROVE  /\ Disbursements!Total(seq, a) = - Disbursements!Left([b \in Assets |-> 0], seq)[a]
         /\ a \notin {seq[i].asset : i \in DOMAIN seq} =>
              Disbursements!Left([b \in Assets |-> 0], seq)[a] = 0
<1> DEFINE n == Len(seq)
           base == [b \in Assets |-> 0]
           Same(t, u, k) == u[k] = - t[k][a]
<1>1. base \in Purses /\ base[a] = 0
  BY DEF Purses
<1> HIDE DEF base
<1>2. PICK t \in [0 .. n -> Purses] :
        /\ t[0] = base /\ Disbursements!Left(base, seq) = t[n]
        /\ \A k \in 1 .. n : t[k] = Disbursements!After(t[k - 1], seq[k])
  BY <1>1, SpendingTrace
<1>3. PICK u \in [0 .. n -> Int] :
        /\ u[0] = 0 /\ Disbursements!Total(seq, a) = u[n]
        /\ \A k \in 1 .. n : u[k] = Adding(u[k - 1], seq[k], a)
  BY TotalTrace
<1>4. n \in Nat /\ DOMAIN seq = 1 .. n /\ \A k \in 1 .. n : seq[k] \in Entries
  OBVIOUS
<1> HIDE DEF n
<1>5. ASSUME NEW k \in 1 .. n
      PROVE  /\ t[k][a] = IF seq[k].asset = a THEN t[k - 1][a] - seq[k].amount ELSE t[k - 1][a]
             /\ u[k] = IF seq[k].asset = a THEN u[k - 1] + seq[k].amount ELSE u[k - 1]
             /\ seq[k].amount \in Int /\ t[k - 1][a] \in Int /\ u[k - 1] \in Int
  <2>1. k - 1 \in 0 .. n
    BY <1>4
  <2>2. t[k - 1] \in Purses /\ u[k - 1] \in Int
    BY <2>1
  <2>3. t[k - 1][a] \in Int /\ seq[k].amount \in Int
    BY <1>4, <2>2, EntryIs DEF Purses
  <2>4. t[k][a] = IF seq[k].asset = a THEN t[k - 1][a] - seq[k].amount ELSE t[k - 1][a]
    <3>1. t[k] = Disbursements!After(t[k - 1], seq[k]) /\ seq[k] \in Entries
      BY <1>2, <1>4
    <3>2. \A b \in Assets : Disbursements!After(t[k - 1], seq[k])[b] =
            IF b = seq[k].asset THEN t[k - 1][b] - seq[k].amount ELSE t[k - 1][b]
      BY <2>2, <3>1, PurseAfter
    <3>3. QED
      BY <3>1, <3>2
  <2>5. QED
    BY <1>3, <2>2, <2>3, <2>4 DEF Adding
<1> DEFINE Good == {k \in Nat : Same(t, u, k)}
<1>6. ASSUME NEW k \in Nat, k < n, k \in Good PROVE k + 1 \in Good
  <2>1. k + 1 \in 1 .. n /\ (k + 1) - 1 = k
    BY <1>4, <1>6
  <2>2. u[k] = - t[k][a]
    BY <1>6
  <2>3. QED
    <3>1. CASE seq[k + 1].asset = a
      <4>1. /\ t[k + 1][a] = t[k][a] - seq[k + 1].amount
            /\ u[k + 1] = u[k] + seq[k + 1].amount
            /\ seq[k + 1].amount \in Int /\ t[k][a] \in Int /\ u[k] \in Int
        BY <1>5, <2>1, <3>1
      <4>2. u[k + 1] = - t[k + 1][a]
        BY <2>2, <4>1
      <4>3. QED
        BY <4>2
    <3>2. CASE seq[k + 1].asset # a
      BY <1>5, <2>1, <2>2, <3>2
    <3>3. QED
      BY <3>1, <3>2
<1>7. 0 \in Good
  BY <1>1, <1>2, <1>3
<1> HIDE DEF Good
<1>8. \A k \in 0 .. n : k \in Good
  BY <1>4, <1>6, <1>7, CountingUp
<1>9. u[n] = - t[n][a]
  BY <1>4, <1>8 DEF Good
<1>10. ASSUME a \notin {seq[i].asset : i \in DOMAIN seq} PROVE t[n][a] = 0
  <2> DEFINE Zero == {k \in Nat : t[k][a] = 0}
  <2>1. 0 \in Zero
    BY <1>1, <1>2
  <2>2. ASSUME NEW k \in Nat, k < n, k \in Zero PROVE k + 1 \in Zero
    <3>1. k + 1 \in 1 .. n /\ (k + 1) - 1 = k
      BY <1>4, <2>2
    <3>2. seq[k + 1].asset # a
      BY <1>4, <1>10, <3>1
    <3>3. QED
      BY <1>5, <2>2, <3>1, <3>2
  <2> HIDE DEF Zero
  <2>3. \A k \in 0 .. n : k \in Zero
    BY <1>4, <2>1, <2>2, CountingUp
  <2>4. QED
    BY <1>4, <2>3 DEF Zero
<1>11. QED
  BY <1>2, <1>3, <1>9, <1>10 DEF base

(* A batch that is paid whole leaves what paying it after everything that  *)
(* was paid before leaves, and never less than nothing.                    *)
LEMMA WholeBatch ==
  ASSUME NEW before \in Seq(Entries), NEW batch \in Seq(Entries), NEW base \in Purses,
         NEW held \in Purses, held = Disbursements!Left(base, before),
         \A a \in Assets : held[a] >= 0,
         \A i \in DOMAIN batch : Disbursements!Applied(batch, held).codes[i] = "op_success"
  PROVE  LET left == Disbursements!Applied(batch, held).held
         IN  /\ left \in Purses /\ left = Disbursements!Left(base, before \o batch)
             /\ \A a \in Assets : left[a] >= 0
<1> DEFINE n == Len(before)
           m == Len(batch)
           all == before \o batch
           codes == Disbursements!Applied(batch, held).codes
<1>1. /\ n \in Nat /\ m \in Nat /\ all \in Seq(Entries) /\ Len(all) = n + m
      /\ DOMAIN batch = 1 .. m
      /\ \A k \in 1 .. n : all[k] = before[k] /\ before[k] \in Entries
      /\ \A k \in 1 .. m : all[n + k] = batch[k] /\ batch[k] \in Entries
  OBVIOUS
<1>2. PICK p \in [0 .. n -> Purses] :
        /\ p[0] = base /\ Disbursements!Left(base, before) = p[n]
        /\ \A k \in 1 .. n : p[k] = Disbursements!After(p[k - 1], before[k])
  BY SpendingTrace
<1>3. PICK q \in [0 .. Len(all) -> Purses] :
        /\ q[0] = base /\ Disbursements!Left(base, all) = q[Len(all)]
        /\ \A k \in 1 .. Len(all) : q[k] = Disbursements!After(q[k - 1], all[k])
  BY <1>1, SpendingTrace
<1>4. PICK t : /\ IsPayout(batch, held, t, codes)
               /\ Disbursements!Applied(batch, held).held = t[m]
  BY Payout
<1>5. /\ t \in [0 .. m -> Purses] /\ t[0] = held
      /\ \A k \in 1 .. m : /\ Disbursements!Outcome(batch[k], t[k - 1]) = "op_success"
                           /\ t[k] = Disbursements!After(t[k - 1], batch[k])
  BY <1>1, <1>4 DEF IsPayout
<1> HIDE DEF n, m, all, codes
<1>6. \A k \in 0 .. n : q[k] = p[k]
  <2> DEFINE Good == {k \in Nat : q[k] = p[k]}
  <2>1. 0 \in Good
    BY <1>2, <1>3
  <2>2. ASSUME NEW k \in Nat, k < n, k \in Good PROVE k + 1 \in Good
    <3>1. k + 1 \in 1 .. n /\ k + 1 \in 1 .. Len(all) /\ (k + 1) - 1 = k
      BY <1>1, <2>2
    <3>2. /\ p[k + 1] = Disbursements!After(p[k], before[k + 1])
          /\ q[k + 1] = Disbursements!After(q[k], all[k + 1])
      BY <1>2, <1>3, <3>1
    <3>3. QED
      BY <1>1, <2>2, <3>1, <3>2
  <2> HIDE DEF Good
  <2>3. \A k \in 0 .. n : k \in Good
    BY <1>1, <2>1, <2>2, CountingUp
  <2>4. QED
    BY <2>3 DEF Good
<1>7. \A k \in 0 .. m : q[n + k] = t[k]
  <2> DEFINE Good == {k \in Nat : q[n + k] = t[k]}
  <2>1. 0 \in Good
    <3>1. n + 0 = n /\ n \in 0 .. n
      BY <1>1
    <3>2. QED
      BY <1>2, <1>5, <1>6, <3>1 DEF n
  <2>2. ASSUME NEW k \in Nat, k < m, k \in Good PROVE k + 1 \in Good
    <3>1. /\ k + 1 \in 1 .. m /\ n + (k + 1) \in 1 .. Len(all) /\ (k + 1) - 1 = k
          /\ (n + (k + 1)) - 1 = n + k
      BY <1>1, <2>2
    <3>2. /\ t[k + 1] = Disbursements!After(t[k], batch[k + 1])
          /\ q[n + (k + 1)] = Disbursements!After(q[n + k], all[n + (k + 1)])
      BY <1>3, <1>5, <3>1
    <3>3. QED
      BY <1>1, <2>2, <3>1, <3>2
  <2> HIDE DEF Good
  <2>3. \A k \in 0 .. m : k \in Good
    BY <1>1, <2>1, <2>2, CountingUp
  <2>4. QED
    BY <2>3 DEF Good
<1>8. \A k \in 0 .. m : \A a \in Assets : t[k][a] >= 0
  <2> DEFINE Good == {k \in Nat : \A a \in Assets : t[k][a] >= 0}
  <2>1. 0 \in Good
    BY <1>5
  <2>2. ASSUME NEW k \in Nat, k < m, k \in Good PROVE k + 1 \in Good
    <3>1. k + 1 \in 1 .. m /\ k \in 0 .. m /\ (k + 1) - 1 = k
      BY <1>1, <2>2
    <3>2. /\ Disbursements!Outcome(batch[k + 1], t[k]) = "op_success"
          /\ t[k + 1] = Disbursements!After(t[k], batch[k + 1])
          /\ t[k] \in Purses /\ batch[k + 1] \in Entries
      BY <1>1, <1>5, <3>1
    <3>3. ~ (t[k][batch[k + 1].asset] < batch[k + 1].amount)
      BY <3>2 DEF Disbursements!Outcome
    <3>4. ASSUME NEW a \in Assets PROVE t[k + 1][a] >= 0
      <4>1. t[k][a] \in Int /\ t[k][a] >= 0 /\ batch[k + 1].amount \in Nat
        BY <2>2, <3>2, EntryIs DEF Purses
      <4>2. t[k + 1][a] = IF a = batch[k + 1].asset THEN t[k][a] - batch[k + 1].amount
                                                    ELSE t[k][a]
        <5>1. \A b \in Assets : Disbursements!After(t[k], batch[k + 1])[b] =
                IF b = batch[k + 1].asset THEN t[k][b] - batch[k + 1].amount ELSE t[k][b]
          BY <3>2, PurseAfter
        <5>2. QED
          BY <3>2, <5>1
      <4>3. CASE a = batch[k + 1].asset
        BY <3>3, <4>1, <4>2, <4>3
      <4>4. CASE a # batch[k + 1].asset
        BY <4>1, <4>2, <4>4
      <4>5. QED
        BY <4>3, <4>4
    <3>5. QED
      BY <3>4
  <2> HIDE DEF Good
  <2>3. \A k \in 0 .. m : k \in Good
    BY <1>1, <2>1, <2>2, CountingUp
  <2>4. QED
    BY <2>3 DEF Good
<1>9. m \in 0 .. m
  BY <1>1
<1>10. Disbursements!Applied(batch, held).held = Disbursements!Left(base, all)
  BY <1>1, <1>3, <1>4, <1>7, <1>9
<1>11. QED
  BY <1>4, <1>5, <1>8, <1>9, <1>10 DEF all

(* The codes of the first payments of a batch are the first of its codes.  *)
LEMMA PrefixCodes ==
  ASSUME NEW batch \in Seq(Entries), NEW held \in Purses, NEW j \in 0 .. Len(batch)
  PROVE  LET first == Disbursements!Applied(SubSeq(batch, 1, j), held).codes
             codes == Disbursements!Applied(batch, held).codes
         IN  /\ DOMAIN first = 1 .. j /\ DOMAIN codes = 1 .. Len(batch)
             /\ \A k \in 1 .. j : first[k] = codes[k]
<1> DEFINE n == Len(batch)
           part1 == SubSeq(batch, 1, j)
           first == Disbursements!Applied(part1, held).codes
           codes == Disbursements!Applied(batch, held).codes
<1>1. /\ n \in Nat /\ j \in Nat /\ j <= n /\ part1 \in Seq(Entries) /\ Len(part1) = j
      /\ \A k \in 1 .. j : part1[k] = batch[k]
  OBVIOUS
<1>2. PICK t : IsPayout(batch, held, t, codes)
  BY Payout
<1>3. PICK u : IsPayout(part1, held, u, first)
  BY <1>1, Payout
<1> HIDE DEF n, part1, first, codes
<1>4. /\ u[0] = held /\ first \in Seq(Codes) /\ Len(first) = j
      /\ \A k \in 1 .. j :
           /\ first[k] = Disbursements!Outcome(batch[k], u[k - 1])
           /\ u[k] = IF first[k] = "op_success" THEN Disbursements!After(u[k - 1], batch[k])
                     ELSE u[k - 1]
  BY <1>1, <1>3 DEF IsPayout
<1>5. /\ t[0] = held /\ codes \in Seq(Codes) /\ Len(codes) = n
      /\ \A k \in 1 .. n :
           /\ codes[k] = Disbursements!Outcome(batch[k], t[k - 1])
           /\ t[k] = IF codes[k] = "op_success" THEN Disbursements!After(t[k - 1], batch[k])
                     ELSE t[k - 1]
  BY <1>2 DEF IsPayout, n
<1> DEFINE Good == {k \in Nat : u[k] = t[k]}
<1>6. 0 \in Good
  BY <1>4, <1>5
<1>7. ASSUME NEW k \in Nat, k < j, k \in Good PROVE k + 1 \in Good
  <2>1. k + 1 \in 1 .. j /\ k + 1 \in 1 .. n /\ (k + 1) - 1 = k
    BY <1>1, <1>7
  <2>2. u[k] = t[k] /\ first[k + 1] = codes[k + 1]
    BY <1>4, <1>5, <1>7, <2>1
  <2>3. u[k + 1] = t[k + 1]
    BY <1>4, <1>5, <2>1, <2>2
  <2>4. QED
    BY <2>3
<1> HIDE DEF Good
<1>8. \A k \in 0 .. j : k \in Good
  BY <1>1, <1>6, <1>7, CountingUp
<1>9. ASSUME NEW k \in 1 .. j PROVE first[k] = codes[k]
  <2>1. k - 1 \in 0 .. j /\ k \in 1 .. n
    BY <1>1
  <2>2. u[k - 1] = t[k - 1]
    BY <1>8, <2>1 DEF Good
  <2>3. QED
    BY <1>4, <1>5, <2>1, <2>2
<1>10. QED
  BY <1>4, <1>5, <1>9, SMTT(20) DEF first, codes, part1, n

LEMMA BlamedIs ==
  ASSUME NEW codes \in Seq(Codes), \E i \in DOMAIN codes : codes[i] # "op_success"
  PROVE  /\ Disbursements!Blamed(codes) \in DOMAIN codes
         /\ codes[Disbursements!Blamed(codes)] # "op_success"
         /\ \A i \in DOMAIN codes : i < Disbursements!Blamed(codes) => codes[i] = "op_success"
<1> DEFINE B == {i \in DOMAIN codes : codes[i] # "op_success"}
<1>1. B \in SUBSET Nat /\ B # {}
  OBVIOUS
<1>2. PICK i \in B : \A k \in B : i <= k
  <2> HIDE DEF B
  <2>1. QED
    BY <1>1, LeastNat
<1>3. Disbursements!Blamed(codes) = CHOOSE x \in B : \A y \in B : x <= y
  BY DEF Disbursements!Blamed, Disbursements!Min
<1>4. Disbursements!Blamed(codes) \in B /\ \A y \in B : Disbursements!Blamed(codes) <= y
  <2> HIDE DEF B
  <2>1. QED
    BY <1>2, <1>3
<1>5. \A k \in DOMAIN codes : k \in Nat
  OBVIOUS
<1>6. QED
  BY <1>4, <1>5

(* The lines of some kinds.                                                *)
Keeping(kept, line, kinds) == IF line \in kinds THEN Append(kept, line) ELSE kept

IsKept(seq, kinds, it) ==
  it = [s \in SUBSET DOMAIN seq |->
          IF s = {} THEN <<>>
          ELSE Keeping(it[s \ {Disbursements!Max(s)}], seq[Disbursements!Max(s)], kinds)]

LEMMA KeptExists ==
  ASSUME NEW seq \in Seq(Disbursements!Lines), NEW kinds
  PROVE  \E it \in [SUBSET (1 .. Len(seq)) -> Seq(Disbursements!Lines)] : IsKept(seq, kinds, it)
<1> DEFINE n == Len(seq)
           V == Seq(Disbursements!Lines)
           h == [p \in (1 .. n) \X V |-> Keeping(p[2], seq[p[1]], kinds)]
<1>1. n \in Nat /\ DOMAIN seq = 1 .. n /\ \A k \in 1 .. n : seq[k] \in Disbursements!Lines
  OBVIOUS
<1>2. h \in [(1 .. n) \X V -> V]
  BY <1>1 DEF Keeping
<1>3. \A k \in 1 .. n, kept \in V : h[<<k, kept>>] = Keeping(kept, seq[k], kinds)
  OBVIOUS
<1>4. <<>> \in V
  OBVIOUS
<1> HIDE DEF h, n, V
<1>5. PICK it \in [SUBSET (1 .. n) -> V] : IsFold(n, <<>>, h, it)
  BY <1>1, <1>2, <1>4, FoldExists
<1>6. ASSUME NEW s \in SUBSET (1 .. n), s # {}
      PROVE  it[s] = Keeping(it[s \ {Disbursements!Max(s)}], seq[Disbursements!Max(s)], kinds)
  <2>1. Disbursements!Max(s) \in 1 .. n /\ it[s \ {Disbursements!Max(s)}] \in V
    BY <1>1, <1>6, MaxExists
  <2>2. it[s] = h[<<Disbursements!Max(s), it[s \ {Disbursements!Max(s)}]>>]
    BY <1>5, <1>6 DEF IsFold
  <2>3. QED
    BY <1>3, <2>1, <2>2
<1>7. it = [s \in SUBSET (1 .. n) |->
              IF s = {} THEN <<>>
              ELSE Keeping(it[s \ {Disbursements!Max(s)}], seq[Disbursements!Max(s)], kinds)]
  BY <1>5, <1>6 DEF IsFold
<1>8. QED
  BY <1>1, <1>7 DEF IsKept, n, V

LEMMA KeptTrace ==
  ASSUME NEW seq \in Seq(Disbursements!Lines), NEW kinds
  PROVE  \E t \in [0 .. Len(seq) -> Seq(Disbursements!Lines)] :
           /\ t[0] = <<>> /\ Disbursements!Only(seq, kinds) = t[Len(seq)]
           /\ \A k \in 1 .. Len(seq) : t[k] = Keeping(t[k - 1], seq[k], kinds)
<1> DEFINE n == Len(seq)
           V == Seq(Disbursements!Lines)
           sum == CHOOSE it : IsKept(seq, kinds, it)
           t == [k \in 0 .. n |-> sum[1 .. k]]
<1>1. n \in Nat /\ DOMAIN seq = 1 .. n /\ \A k \in 1 .. n : seq[k] \in Disbursements!Lines
  OBVIOUS
<1>2. Disbursements!Only(seq, kinds) = sum[1 .. n]
  BY <1>1 DEF Disbursements!Only, Disbursements!FoldLeft, Disbursements!MapThenFoldSet, IsKept, Keeping
<1>3. IsKept(seq, kinds, sum)
  BY KeptExists
<1>0. \A kept \in V, line \in Disbursements!Lines : Keeping(kept, line, kinds) \in V
  BY DEF Keeping
<1>13. <<>> \in V
  OBVIOUS
<1> HIDE DEF sum, n, V
<1>4. sum = [s \in SUBSET (1 .. n) |->
          IF s = {} THEN <<>>
          ELSE Keeping(sum[s \ {Disbursements!Max(s)}], seq[Disbursements!Max(s)], kinds)]
  BY <1>1, <1>3 DEF IsKept
<1>5. sum[1 .. 0] = <<>>
  BY <1>4
<1>6. ASSUME NEW k \in 1 .. n PROVE sum[1 .. k] = Keeping(sum[1 .. (k - 1)], seq[k], kinds)
  <2>1. /\ 1 .. k \in SUBSET (1 .. n) /\ 1 .. k # {}
        /\ Disbursements!Max(1 .. k) = k /\ (1 .. k) \ {k} = 1 .. (k - 1)
    BY <1>1, Segments
  <2>2. sum[1 .. k] = Keeping(sum[(1 .. k) \ {Disbursements!Max(1 .. k)}],
                              seq[Disbursements!Max(1 .. k)], kinds)
    BY <1>4, <2>1
  <2>3. QED
    BY <2>1, <2>2
<1> DEFINE Good == {k \in Nat : sum[1 .. k] \in V}
<1>7. ASSUME NEW k \in Nat, k < n, k \in Good PROVE k + 1 \in Good
  <2>1. k + 1 \in 1 .. n /\ (k + 1) - 1 = k
    BY <1>1, <1>7
  <2>2. sum[1 .. (k + 1)] = Keeping(sum[1 .. k], seq[k + 1], kinds)
    BY <1>6, <2>1
  <2>3. QED
    BY <1>0, <1>1, <1>7, <2>1, <2>2
<1>8. 0 \in Good
  BY <1>5, <1>13
<1> HIDE DEF Good
<1>9. \A k \in 0 .. n : k \in Good
  BY <1>1, <1>7, <1>8, CountingUp
<1>10. t \in [0 .. n -> V]
  BY <1>9 DEF Good
<1>11. /\ t[0] = <<>> /\ t[n] = sum[1 .. n]
       /\ \A k \in 1 .. n : t[k] = Keeping(t[k - 1], seq[k], kinds)
  <2>1. 0 \in 0 .. n /\ n \in 0 .. n /\ \A k \in 1 .. n : k \in 0 .. n /\ k - 1 \in 0 .. n
    BY <1>1
  <2>2. QED
    BY <1>5, <1>6, <2>1
<1> HIDE DEF t
<1>12. QED
  BY <1>2, <1>10, <1>11 DEF n, V

LEMMA OnlyIsLines ==
  ASSUME NEW csv \in Seq(Disbursements!Lines), NEW kinds
  PROVE  /\ Disbursements!Only(csv, kinds) \in Seq(Disbursements!Lines)
         /\ csv = <<>> => Disbursements!Only(csv, kinds) = <<>>
<1>1. PICK t \in [0 .. Len(csv) -> Seq(Disbursements!Lines)] :
        t[0] = <<>> /\ Disbursements!Only(csv, kinds) = t[Len(csv)]
  BY KeptTrace
<1>2. Len(csv) \in 0 .. Len(csv) /\ (csv = <<>> => Len(csv) = 0)
  OBVIOUS
<1>3. QED
  BY <1>1, <1>2

(* Two choices of kinds that agree on the lines of a text keep the same.   *)
LEMMA OnlyAgrees ==
  ASSUME NEW csv \in Seq(Disbursements!Lines), NEW kinds, NEW others,
         \A i \in DOMAIN csv : csv[i] \in kinds <=> csv[i] \in others
  PROVE  Disbursements!Only(csv, kinds) = Disbursements!Only(csv, others)
<1> DEFINE n == Len(csv)
<1>1. n \in Nat /\ DOMAIN csv = 1 .. n
  OBVIOUS
<1>2. PICK t : /\ t[0] = <<>> /\ Disbursements!Only(csv, kinds) = t[n]
               /\ \A k \in 1 .. n : t[k] = Keeping(t[k - 1], csv[k], kinds)
  BY KeptTrace
<1>3. PICK u : /\ u[0] = <<>> /\ Disbursements!Only(csv, others) = u[n]
               /\ \A k \in 1 .. n : u[k] = Keeping(u[k - 1], csv[k], others)
  BY KeptTrace
<1> HIDE DEF n
<1> DEFINE Good == {k \in Nat : t[k] = u[k]}
<1>4. 0 \in Good
  BY <1>2, <1>3
<1>5. ASSUME NEW k \in Nat, k < n, k \in Good PROVE k + 1 \in Good
  <2>1. k + 1 \in 1 .. n /\ (k + 1) - 1 = k
    BY <1>1, <1>5
  <2>2. t[k + 1] = Keeping(t[k], csv[k + 1], kinds) /\ u[k + 1] = Keeping(u[k], csv[k + 1], others)
    BY <1>2, <1>3, <2>1
  <2>3. csv[k + 1] \in kinds <=> csv[k + 1] \in others
    BY <1>1, <2>1
  <2>4. t[k + 1] = u[k + 1]
    BY <1>5, <2>2, <2>3 DEF Keeping
  <2>5. QED
    BY <2>4
<1> HIDE DEF Good
<1>6. n \in Good
  BY <1>1, <1>4, <1>5, CountingUp
<1>7. QED
  BY <1>2, <1>3, <1>6 DEF Good

Rows == [line : Disbursements!Lines, isValid : BOOLEAN]

LEMMA RowsOfText ==
  ASSUME NEW csv \in Seq(Disbursements!Lines)
  PROVE  /\ Disbursements!ParseCSVContent(csv) \in Seq(Rows)
         /\ csv = <<>> => Disbursements!ParseCSVContent(csv) = <<>>
<1> DEFINE lines == Disbursements!Only(csv, Disbursements!Lines \ {"blank"})
           taken  == IF lines # <<>> /\ Head(lines) = "header" THEN Tail(lines) ELSE lines
           out   == [i \in DOMAIN taken |->
                       Disbursements!Row(taken[i], taken[i] \in {"good", "falseKey", "looseAmount", "worded"})]
<1>1. lines \in Seq(Disbursements!Lines) /\ (csv = <<>> => lines = <<>>)
  BY OnlyIsLines
<1>2. Disbursements!ParseCSVContent(csv) = out
  BY DEF Disbursements!ParseCSVContent
<1> HIDE DEF lines
<1>3. taken \in Seq(Disbursements!Lines) /\ (csv = <<>> => taken = <<>>)
  BY <1>1
<1> HIDE DEF taken
<1>4. \A i \in 1 .. Len(taken) : taken[i] \in Disbursements!Lines
  BY <1>3
<1>5. DOMAIN out = 1 .. Len(taken) /\ Len(taken) \in Nat
  BY <1>3
<1>6. ASSUME NEW i \in 1 .. Len(taken) PROVE out[i] \in Rows
  BY <1>4, <1>5 DEF Rows, Disbursements!Row
<1>7. out \in [1 .. Len(taken) -> Rows]
  BY <1>5, <1>6
<1>8. out \in Seq(Rows)
  BY <1>5, <1>7
<1>9. csv = <<>> => Len(taken) = 0
  BY <1>3
<1>10. csv = <<>> => out = <<>>
  BY <1>5, <1>9
<1>11. QED
  BY <1>2, <1>8, <1>10

LEMMA BlameFits ==
  ASSUME NEW batch \in Seq(Entries), NEW held \in Purses,
         ~ \A i \in DOMAIN batch : Disbursements!Applied(batch, held).codes[i] = "op_success"
  PROVE  LET codes == Disbursements!Applied(batch, held).codes
             j == Disbursements!Blamed(codes)
             upTo(n) == Disbursements!Applied(SubSeq(batch, 1, n), held).codes
         IN  /\ \A i \in DOMAIN upTo(j - 1) : upTo(j - 1)[i] = "op_success"
             /\ ~ \A i \in DOMAIN upTo(j) : upTo(j)[i] = "op_success"
<1> DEFINE n == Len(batch)
           codes == Disbursements!Applied(batch, held).codes
           j == Disbursements!Blamed(codes)
           upTo(k) == Disbursements!Applied(SubSeq(batch, 1, k), held).codes
<1>1. n \in Nat /\ DOMAIN batch = 1 .. n
  OBVIOUS
<1>2. codes \in Seq(Codes) /\ DOMAIN codes = 1 .. n
  <2>1. PICK t : IsPayout(batch, held, t, codes)
    BY Payout
  <2>2. codes \in Seq(Codes) /\ Len(codes) = n
    BY <2>1 DEF IsPayout
  <2> HIDE DEF codes, n
  <2>3. QED
    BY <2>2
<1> HIDE DEF codes
<1>3. \E i \in DOMAIN codes : codes[i] # "op_success"
  BY <1>1, <1>2 DEF codes
<1>4. /\ j \in DOMAIN codes /\ codes[j] # "op_success"
      /\ \A i \in DOMAIN codes : i < j => codes[i] = "op_success"
  BY <1>2, <1>3, BlamedIs
<1> HIDE DEF j, n
<1>5. j \in 1 .. n /\ j \in 0 .. n /\ j - 1 \in 0 .. n /\ j \in 1 .. j
  BY <1>1, <1>2, <1>4
<1>6. \A k \in 0 .. n : DOMAIN upTo(k) = 1 .. k /\ \A i \in 1 .. k : upTo(k)[i] = codes[i]
  BY PrefixCodes DEF codes, n
<1> HIDE DEF upTo
<1>7. \A i \in DOMAIN upTo(j - 1) : upTo(j - 1)[i] = "op_success"
  <2>1. ASSUME NEW i \in 1 .. (j - 1) PROVE i \in 1 .. n /\ i < j
    BY <1>1, <1>5
  <2>2. QED
    BY <1>2, <1>4, <1>5, <1>6, <2>1
<1>8. ~ \A i \in DOMAIN upTo(j) : upTo(j)[i] = "op_success"
  BY <1>4, <1>5, <1>6
<1>9. QED
  BY <1>7, <1>8 DEF upTo, j, codes

(* What holds of the form, of the books and of the answer.                 *)
FormOK ==
  /\ x1 \in Seq(Disbursements!Lines) /\ x3 \in [FileReaders -> Texts \cup {None}]
  /\ Disbursements!SendsWhatIsShown

BooksOK ==
  /\ x5 \in Purses /\ x6 \in Seq(Entries)
  /\ x5 = Disbursements!Left(Funds, x6)
  /\ \A a \in Assets : x5[a] >= 0

AnswerOK ==
  /\ x10.status \in {0, 200, 400, 404, 502}
  /\ Disbursements!NoLineDropped /\ Disbursements!PreviewAddsUp
  /\ Disbursements!BlameIsRight

DisbInv == FormOK /\ BooksOK /\ AnswerOK

LEMMA DisbInvImplies ==
  ASSUME DisbInv
  PROVE  Disbursements!DisbursementsSound
<1>1. Disbursements!ParseCSVContent(x1) \in Seq(Rows)
  BY RowsOfText DEF DisbInv, FormOK
<1>2. Disbursements!TypeOK
  BY <1>1 DEF DisbInv, FormOK, AnswerOK, Disbursements!TypeOK,
       Disbursements!SendsWhatIsShown, Rows
<1>3. Disbursements!BooksBalance
  BY DEF DisbInv, BooksOK, Disbursements!BooksBalance, Assets
<1>4. QED
  BY <1>2, <1>3 DEF DisbInv, FormOK, AnswerOK, Disbursements!DisbursementsSound

LEMMA FundsAreAPurse == Funds \in Purses
BY DisbursementsAssumption DEF Purses, Assets

LEMMA DisbStarts ==
  ASSUME Disbursements!Init
  PROVE  DisbInv
<1>1. FormOK
  <2>1. <<>> \in Seq(Disbursements!Lines)
    OBVIOUS
  <2>2. Disbursements!ParseCSVContent(<<>>) = <<>>
    BY <2>1, RowsOfText
  <2>3. QED
    BY <2>1, <2>2 DEF FormOK, Disbursements!Init, Disbursements!NoFiles,
         Disbursements!SendsWhatIsShown
<1>2. BooksOK
  <2> DEFINE none == <<>>
  <2>1. none \in Seq(Entries) /\ Len(none) = 0
    OBVIOUS
  <2> HIDE DEF none
  <2>2. PICK t \in [0 .. Len(none) -> Purses] :
          /\ t[0] = Funds /\ Disbursements!Left(Funds, none) = t[Len(none)]
          /\ \A k \in 1 .. Len(none) : t[k] = Disbursements!After(t[k - 1], none[k])
    BY <2>1, SpendingTrace, FundsAreAPurse
  <2>3. Disbursements!Left(Funds, none) = Funds
    BY <2>1, <2>2
  <2>4. \A a \in Assets : Funds[a] \in Nat
    BY DisbursementsAssumption DEF Assets
  <2>5. \A a \in Assets : Funds[a] >= 0
    BY <2>4
  <2>6. QED
    BY <2>1, <2>3, <2>5, FundsAreAPurse DEF BooksOK, Disbursements!Init, none
<1>4. AnswerOK
  BY DEF AnswerOK, Disbursements!Init, Disbursements!NoAnswer, Disbursements!NoLineDropped,
       Disbursements!PreviewAddsUp, Disbursements!BlameIsRight
<1>5. QED
  BY <1>1, <1>2, <1>4 DEF DisbInv

LEMMA FormKeeps ==
  ASSUME DisbInv, Disbursements!FormNext
  PROVE  DisbInv'
<1>1. UNCHANGED <<x5, x6, x10>>
  BY DEF Disbursements!FormNext, Disbursements!serverVars
<1>2. BooksOK' /\ AnswerOK'
  BY <1>1 DEF DisbInv, BooksOK, AnswerOK,
       Disbursements!NoLineDropped, Disbursements!PreviewAddsUp, Disbursements!BlameIsRight
<1>3. Texts \subseteq Seq(Disbursements!Lines) /\ None \notin Texts
  BY DisbursementsAssumption
<1>4. FormOK
  BY DEF DisbInv
<1>5. FormOK'
  <2>1. CASE \E csv \in Texts : Disbursements!HandleTextChange(csv)
    BY <1>3, <1>4, <2>1 DEF FormOK, Disbursements!HandleTextChange, Disbursements!SendsWhatIsShown
  <2>2. ASSUME NEW f \in FileReaders, NEW csv \in Texts, Disbursements!HandleFileUpload(csv, f)
        PROVE  FormOK'
    BY <1>4, <2>2 DEF FormOK, Disbursements!HandleFileUpload, Disbursements!SendsWhatIsShown
  <2>3. ASSUME NEW f \in FileReaders, Disbursements!FileRead(f)
        PROVE  FormOK'
    <3>1. x3[f] \in Texts /\ x3' \in [FileReaders -> Texts \cup {None}]
      BY <1>4, <2>3 DEF FormOK, Disbursements!FileRead
    <3>2. QED
      BY <1>3, <1>4, <2>3, <3>1 DEF FormOK, Disbursements!FileRead, Disbursements!Loaded,
           Disbursements!SendsWhatIsShown
  <2>4. CASE Disbursements!HandleSubmit
    BY <1>4, <2>4 DEF FormOK, Disbursements!HandleSubmit, Disbursements!SendsWhatIsShown
  <2>5. QED
    BY <2>1, <2>2, <2>3, <2>4 DEF Disbursements!FormNext
<1>6. QED
  BY <1>2, <1>5 DEF DisbInv

LEMMA FormStays ==
  ASSUME DisbInv, UNCHANGED Disbursements!formVars
  PROVE  FormOK'
BY DEF DisbInv, FormOK, Disbursements!formVars, Disbursements!SendsWhatIsShown

LEMMA BooksStay ==
  ASSUME DisbInv, UNCHANGED <<x5, x6>>
  PROVE  BooksOK'
BY DEF DisbInv, BooksOK

LEMMA PostCsvKeeps ==
  ASSUME DisbInv, NEW csv \in Texts, NEW issuer, Disbursements!PostCsv(csv, issuer)
  PROVE  DisbInv'
<1> DEFINE parsed == Disbursements!ParseCsv(csv, issuer)
           errors == {i \in DOMAIN csv : /\ ~ Disbursements!Skipped(csv[i])
                                         /\ Disbursements!Refused(csv[i], issuer)}
           read == {line \in Disbursements!Lines : ~ Disbursements!Skipped(line)}
           fine == {line \in Disbursements!Lines : /\ ~ Disbursements!Skipped(line)
                                                   /\ ~ Disbursements!Refused(line, issuer)}
<1>1. csv \in Seq(Disbursements!Lines)
  BY DisbursementsAssumption
<1>2. parsed.status \in {200, 400} /\ (parsed.status = 200 => parsed.got = Disbursements!Only(csv, read))
  <2>1. CASE errors # {}
    BY <2>1 DEF Disbursements!ParseCsv
  <2>2. CASE errors = {}
    <3>1. \A i \in DOMAIN csv : csv[i] \in fine <=> csv[i] \in read
      BY <1>1, <2>2
    <3>2. Disbursements!Only(csv, fine) = Disbursements!Only(csv, read)
      <4> HIDE DEF fine, read
      <4>1. QED
        BY <1>1, <3>1, OnlyAgrees
    <3>3. parsed = IF Disbursements!Only(csv, fine) = <<>>
                     THEN [status |-> 400, entry |-> 0, got |-> <<>>]
                     ELSE [status |-> 200, entry |-> 0, got |-> Disbursements!Only(csv, fine)]
      BY <2>2 DEF Disbursements!ParseCsv
    <3> HIDE DEF parsed, fine, read
    <3>4. QED
      BY <3>2, <3>3
  <2>3. QED
    BY <2>1, <2>2
<1>3. x10' = [to |-> "/parse-csv", body |-> csv, status |-> parsed.status,
              entry |-> parsed.entry, got |-> parsed.got]
  BY DEF Disbursements!PostCsv, Disbursements!Answered
<1> HIDE DEF parsed
<1>4. AnswerOK'
  BY <1>2, <1>3 DEF AnswerOK, Disbursements!NoLineDropped, Disbursements!PreviewAddsUp,
       Disbursements!BlameIsRight
<1>5. UNCHANGED Disbursements!formVars /\ UNCHANGED <<x5, x6>>
  BY DEF Disbursements!PostCsv
<1>6. QED
  BY <1>4, <1>5, FormStays, BooksStay DEF DisbInv

LEMMA ValidBatches ==
  ASSUME NEW batch \in Disbursements!Batches, Disbursements!ValidBatch(batch)
  PROVE  batch \in Seq(Entries)
<1>1. PICK n \in 0 .. MaxBatch + 1 : batch \in [1 .. n -> Entries \cup {None}]
  BY DEF Disbursements!Batches
<1>2. n \in Nat
  BY <1>1, DisbursementsAssumption
<1>3. batch \in [1 .. n -> Entries]
  BY <1>1 DEF Disbursements!ValidBatch
<1>4. QED
  BY <1>2, <1>3

LEMMA PreviewKeeps ==
  ASSUME DisbInv, NEW batch \in Disbursements!Batches, Disbursements!Preview(batch)
  PROVE  DisbInv'
<1>1. UNCHANGED Disbursements!formVars /\ UNCHANGED <<x5, x6>>
  BY DEF Disbursements!Preview
<1>2. ASSUME NEW status \in {400, 404, 502},
             Disbursements!Answered("/preview", batch, status, 0, <<>>)
      PROVE  DisbInv'
  <2>1. AnswerOK'
    BY <1>2 DEF AnswerOK, Disbursements!Answered, Disbursements!NoLineDropped,
         Disbursements!PreviewAddsUp, Disbursements!BlameIsRight
  <2>2. QED
    BY <1>1, <2>1, FormStays, BooksStay DEF DisbInv
<1>3. ASSUME Disbursements!ValidBatch(batch), NEW totals \in Disbursements!Totals(batch),
             Disbursements!Answered("/preview", batch, 200, 0, <<totals>>)
      PROVE  DisbInv'
  <2>1. batch \in Seq(Entries)
    BY <1>3, ValidBatches
  <2>2. x10' = [to |-> "/preview", body |-> batch, status |-> 200, entry |-> 0,
                got |-> <<totals>>]
    BY <1>3 DEF Disbursements!Answered
  <2>3. ASSUME NEW a \in Assets
        PROVE  LET left == Disbursements!Left([b \in Assets |-> 0], batch)
               IN  IF a \in DOMAIN totals
                   THEN - left[a] <= ExactTotals => totals[a] = - left[a]
                   ELSE left[a] = 0
    <3> DEFINE left == Disbursements!Left([b \in Assets |-> 0], batch)
    <3>1. /\ Disbursements!Total(batch, a) = - left[a]
          /\ a \notin Disbursements!AssetsOf(batch) => left[a] = 0
      BY <2>1, TotalsAddUp DEF Disbursements!AssetsOf
    <3>2. /\ DOMAIN totals = Disbursements!AssetsOf(batch)
          /\ a \in Disbursements!AssetsOf(batch) =>
               totals[a] \in Disbursements!Formatted(Disbursements!Total(batch, a))
      BY <1>3 DEF Disbursements!Totals
    <3> HIDE DEF left
    <3>3. a \in Disbursements!AssetsOf(batch) /\ - left[a] <= ExactTotals =>
            totals[a] = - left[a]
      BY <3>1, <3>2 DEF Disbursements!Formatted
    <3>4. QED
      BY <3>1, <3>2, <3>3 DEF left
  <2>4. Disbursements!PreviewAddsUp'
    BY <2>2, <2>3 DEF Disbursements!PreviewAddsUp, Assets
  <2>5. AnswerOK'
    BY <2>2, <2>4 DEF AnswerOK, Disbursements!NoLineDropped, Disbursements!BlameIsRight
  <2>6. QED
    BY <1>1, <2>5, FormStays, BooksStay DEF DisbInv
<1>4. \/ Disbursements!Answered("/preview", batch, 400, 0, <<>>)
      \/ \E status \in {404, 502} : Disbursements!Answered("/preview", batch, status, 0, <<>>)
      \/ /\ Disbursements!ValidBatch(batch)
         /\ \E totals \in Disbursements!Totals(batch) :
              Disbursements!Answered("/preview", batch, 200, 0, <<totals>>)
  BY DEF Disbursements!Preview
<1>5. {404, 502} \subseteq {400, 404, 502} /\ 400 \in {400, 404, 502}
  OBVIOUS
<1>6. CASE Disbursements!Answered("/preview", batch, 400, 0, <<>>)
  BY <1>2, <1>5, <1>6
<1>7. CASE \E status \in {404, 502} : Disbursements!Answered("/preview", batch, status, 0, <<>>)
  BY <1>2, <1>5, <1>7
<1>8. CASE /\ Disbursements!ValidBatch(batch)
           /\ \E totals \in Disbursements!Totals(batch) :
                Disbursements!Answered("/preview", batch, 200, 0, <<totals>>)
  BY <1>3, <1>8
<1>9. QED
  BY <1>4, <1>6, <1>7, <1>8

LEMMA AnswerPlain ==
  ASSUME NEW body, NEW status \in {200, 400, 502},
         Disbursements!Answered("/disburse", body, status, 0, <<>>)
  PROVE  AnswerOK'
BY DEF AnswerOK, Disbursements!Answered, Disbursements!NoLineDropped,
     Disbursements!PreviewAddsUp, Disbursements!BlameIsRight

LEMMA PayKeeps ==
  ASSUME DisbInv, NEW batch \in Seq(Entries),
         \A i \in DOMAIN batch : Disbursements!Applied(batch, x5).codes[i] = "op_success",
         Disbursements!Pay(batch, Disbursements!Applied(batch, x5).held)
  PROVE  BooksOK'
<1> DEFINE left == Disbursements!Applied(batch, x5).held
<1>1. /\ x5 \in Purses /\ x6 \in Seq(Entries) /\ x5 = Disbursements!Left(Funds, x6)
      /\ \A a \in Assets : x5[a] >= 0
  BY DEF DisbInv, BooksOK
<1>2. /\ left \in Purses /\ left = Disbursements!Left(Funds, x6 \o batch)
      /\ \A a \in Assets : left[a] >= 0
  BY <1>1, FundsAreAPurse, WholeBatch
<1>3. x5' = left /\ x6' = x6 \o batch /\ x6 \o batch \in Seq(Entries)
  BY <1>1 DEF Disbursements!Pay
<1> HIDE DEF left
<1>4. QED
  BY <1>2, <1>3 DEF BooksOK

LEMMA DisburseKeeps ==
  ASSUME DisbInv, NEW batch \in Disbursements!Batches, Disbursements!Disburse(batch)
  PROVE  DisbInv'
<1> DEFINE result == Disbursements!Applied(batch, x5)
           allPaid == \A i \in DOMAIN batch : result.codes[i] = "op_success"
           succeed == Disbursements!ValidBatch(batch) /\ allPaid
<1>1. FormOK'
  BY FormStays DEF Disbursements!Disburse
<1>2. CASE /\ Disbursements!Answered("/disburse", batch, 400, 0, <<>>)
           /\ UNCHANGED <<x5, x6>>
  BY <1>1, <1>2, AnswerPlain, BooksStay DEF DisbInv
<1>3. ASSUME Disbursements!ValidBatch(batch), allPaid, Disbursements!Pay(batch, result.held)
      PROVE  BooksOK'
  BY <1>3, ValidBatches, PayKeeps
<1>4. CASE /\ succeed /\ Disbursements!Answered("/disburse", <<>>, 200, 0, <<>>)
           /\ Disbursements!Pay(batch, result.held)
  BY <1>1, <1>3, <1>4, AnswerPlain DEF DisbInv
<1>5. CASE /\ Disbursements!ValidBatch(batch) /\ ~ succeed
           /\ Disbursements!Answered("/disburse", batch, 400, Disbursements!Blamed(result.codes), <<>>)
           /\ UNCHANGED <<x5, x6>>
  <2>1. batch \in Seq(Entries) /\ x5 \in Purses /\ ~ allPaid
    BY <1>5, ValidBatches DEF DisbInv, BooksOK
  <2> DEFINE j == Disbursements!Blamed(result.codes)
             upTo(n) == Disbursements!Applied(SubSeq(batch, 1, n), x5).codes
  <2>2. /\ \A i \in DOMAIN upTo(j - 1) : upTo(j - 1)[i] = "op_success"
        /\ ~ \A i \in DOMAIN upTo(j) : upTo(j)[i] = "op_success"
    BY <2>1, BlameFits
  <2>3. x10' = [to |-> "/disburse", body |-> batch, status |-> 400, entry |-> j, got |-> <<>>]
    BY <1>5 DEF Disbursements!Answered
  <2> HIDE DEF j
  <2>4. Disbursements!BlameIsRight'
    BY <1>5, <2>2, <2>3 DEF Disbursements!BlameIsRight
  <2>5. AnswerOK'
    BY <2>3, <2>4 DEF AnswerOK, Disbursements!NoLineDropped, Disbursements!PreviewAddsUp
  <2>6. QED
    BY <1>1, <1>5, <2>5, BooksStay DEF DisbInv
<1>6. CASE /\ Disbursements!ValidBatch(batch)
           /\ Disbursements!Answered("/disburse", <<>>, 502, 0, <<>>)
           /\ (succeed /\ Disbursements!Pay(batch, result.held)) \/ UNCHANGED <<x5, x6>>
  <2>1. AnswerOK'
    BY <1>6, AnswerPlain
  <2>2. BooksOK'
    BY <1>3, <1>6, BooksStay
  <2>3. QED
    BY <1>1, <2>1, <2>2 DEF DisbInv
<1>7. QED
  BY <1>2, <1>4, <1>5, <1>6 DEF Disbursements!Disburse

(* The form sends what it shows, whatever files were being read; a CSV is  *)
(* read whole or refused; a preview adds up to what its batch takes, as    *)
(* long as a double can say so; a refusal names the payment it is about;   *)
(* and batches are paid whole and never overdraw the sender:               *)
(* BatchDisbursementForm.tsx, routes/batch.ts, batchPayments.ts.           *)
THEOREM DisbursementsHold == MCSpec => []DisbursementsSound
<1> DEFINE Inv == part = "Disbursements" => DisbInv
<1>1. MCInit => Inv
  BY DisbStarts DEF MCInit
<1>2. Inv /\ [MCNext]_<<part, vars, xs>> => Inv'
  <2> SUFFICES ASSUME Inv, [MCNext]_<<part, vars, xs>>, part' = "Disbursements"
               PROVE  DisbInv'
    OBVIOUS
  <2>1. part = "Disbursements" /\ DisbInv
    BY DEF MCNext
  <2>2. CASE Disbursements!FormNext
    BY <2>1, <2>2, FormKeeps
  <2>3. CASE Disbursements!ServerNext
    BY <2>1, <2>3, PostCsvKeeps, PreviewKeeps, DisburseKeeps DEF Disbursements!ServerNext
  <2>4. CASE UNCHANGED <<part, vars, xs>>
    <3>1. UNCHANGED <<x1, x2, x3, x4, x5, x6, x7, x8, x9, x10>>
      BY <2>4 DEF xs
    <3>2. UNCHANGED Disbursements!formVars
      BY <3>1 DEF Disbursements!formVars
    <3>3. AnswerOK'
      BY <2>1, <3>1 DEF DisbInv, AnswerOK, Disbursements!NoLineDropped,
           Disbursements!PreviewAddsUp, Disbursements!BlameIsRight
    <3>4. QED
      BY <2>1, <3>1, <3>2, <3>3, FormStays, BooksStay DEF DisbInv
  <2>5. QED
    BY <2>1, <2>2, <2>3, <2>4 DEF MCNext, Disbursements!Next
<1>3. Inv => DisbursementsSound
  BY DisbInvImplies DEF DisbursementsSound
<1>4. QED
  BY <1>1, <1>2, <1>3, PTL DEF MCSpec
-----------------------------------------------------------------------------
(* Envelopes.  The weight of a set of keys is that of one of them and of   *)
(* the others.                                                             *)
Weighing(w, S) == CHOOSE it : IsSum(S, it, w)
SetWeight(w, S) == Weighing(w, S)[S]

LEMMA WeighingIs ==
  ASSUME NEW w \in [Keys -> Nat], NEW S \in SUBSET Keys
  PROVE  IsSum(S, Weighing(w, S), w)
<1> DEFINE g == [k \in S |-> w[k]]
<1>1. IsFiniteSet(S) /\ g \in [S -> Nat]
  BY EnvelopesAssumption, FS_Subset
<1>2. PICK it : IsSum(S, it, g)
  BY <1>1, SumExists
<1>3. \A s \in SUBSET S : s # {} => g[Pick(s)] = w[Pick(s)]
  BY PickIn
<1> HIDE DEF g
<1>4. IsSum(S, it, w)
  BY <1>2, <1>3 DEF IsSum
<1>5. QED
  BY <1>4 DEF Weighing

LEMMA WeightOfPart ==
  ASSUME NEW w \in [Keys -> Nat], NEW S \in SUBSET Keys
  PROVE  SetWeight(w, S) = Weighing(w, Keys)[S]
<1> DEFINE one == Weighing(w, S)
           all == Weighing(w, Keys)
           Good == {s \in SUBSET S : one[s] = all[s]}
<1>1. IsSum(S, one, w) /\ IsSum(Keys, all, w) /\ IsFiniteSet(S)
  BY WeighingIs, EnvelopesAssumption, FS_Subset
<1> HIDE DEF one, all
<1>2. ASSUME NEW s \in SUBSET S PROVE one[s] = IF s = {} THEN 0 ELSE w[Pick(s)] + one[s \ {Pick(s)}]
  BY <1>1 DEF IsSum
<1>3. ASSUME NEW s \in SUBSET S PROVE all[s] = IF s = {} THEN 0 ELSE w[Pick(s)] + all[s \ {Pick(s)}]
  BY <1>1 DEF IsSum
<1>4. ASSUME NEW s \in SUBSET S, s # {} => s \ {Pick(s)} \in Good PROVE s \in Good
  BY <1>2, <1>3, <1>4
<1>5. Good = SUBSET S
  <2>1. Good \in SUBSET (SUBSET S)
    OBVIOUS
  <2> HIDE DEF Good
  <2>2. QED
    BY <1>1, <1>4, <2>1, PickInduction
<1>6. QED
  BY <1>5 DEF SetWeight, one, all

LEMMA KeysCounted ==
  ASSUME NEW S \in SUBSET Keys
  PROVE  /\ IsFiniteSet(S) /\ Cardinality(S) \in Nat /\ Cardinality(S) <= Cardinality(Keys)
         /\ Cardinality(Keys) \in Nat
         /\ \A k \in S : S \ {k} \in SUBSET Keys /\ Cardinality(S \ {k}) = Cardinality(S) - 1
         /\ Cardinality(S) = 0 <=> S = {}
BY EnvelopesAssumption, FS_Subset, FS_CardinalityType, FS_RemoveElement, FS_EmptySet

LEMMA WeightIsNat ==
  ASSUME NEW w \in [Keys -> Nat], NEW S \in SUBSET Keys
  PROVE  SetWeight(w, S) \in Nat
<1> DEFINE g == [k \in S |-> w[k]]
<1>1. IsFiniteSet(S) /\ g \in [S -> Nat] /\ IsSum(S, Weighing(w, S), w)
  BY EnvelopesAssumption, FS_Subset, WeighingIs
<1>2. \A s \in SUBSET S : s # {} => g[Pick(s)] = w[Pick(s)]
  BY PickIn
<1> HIDE DEF g
<1>3. IsSum(S, Weighing(w, S), g)
  BY <1>1, <1>2 DEF IsSum
<1>4. QED
  BY <1>1, <1>3, SumIsNat DEF SetWeight

(* Any key may be taken first.                                             *)
Splits(w, S) ==
  /\ SetWeight(w, S) \in Nat
  /\ \A k \in S : SetWeight(w, S) = w[k] + SetWeight(w, S \ {k})

LEMMA WeightSplits ==
  ASSUME NEW w \in [Keys -> Nat], NEW S \in SUBSET Keys
  PROVE  Splits(w, S)
<1> DEFINE n == Cardinality(Keys)
           Good == {c \in Nat : \A s \in SUBSET Keys : Cardinality(s) = c => Splits(w, s)}
<1>1. ASSUME NEW s \in SUBSET Keys, s # {}
      PROVE  SetWeight(w, s) = w[Pick(s)] + SetWeight(w, s \ {Pick(s)})
  <2>1. IsSum(Keys, Weighing(w, Keys), w)
    BY WeighingIs
  <2>2. Weighing(w, Keys)[s] = w[Pick(s)] + Weighing(w, Keys)[s \ {Pick(s)}]
    BY <1>1, <2>1 DEF IsSum
  <2>3. s \ {Pick(s)} \in SUBSET Keys
    OBVIOUS
  <2>4. QED
    BY <2>2, <2>3, WeightOfPart
<1>2. 0 \in Good
  <2>1. IsSum(Keys, Weighing(w, Keys), w)
    BY WeighingIs
  <2>2. Weighing(w, Keys)[{}] = 0
    BY <2>1 DEF IsSum
  <2>3. SetWeight(w, {}) = 0
    BY <2>2, WeightOfPart
  <2>4. Splits(w, {})
    BY <2>3 DEF Splits
  <2>5. \A s \in SUBSET Keys : Cardinality(s) = 0 => Splits(w, s)
    BY <2>4, KeysCounted
  <2>6. QED
    BY <2>5
<1>3. ASSUME NEW c \in Nat, c < n, c \in Good PROVE c + 1 \in Good
  <2>1. ASSUME NEW s \in SUBSET Keys, Cardinality(s) = c + 1 PROVE Splits(w, s)
    <3> DEFINE p == Pick(s)
    <3>1. /\ \A k \in s : s \ {k} \in SUBSET Keys /\ Splits(w, s \ {k})
          /\ s # {}
      <4>1. \A k \in s : s \ {k} \in SUBSET Keys /\ Cardinality(s \ {k}) = c
        BY <2>1, KeysCounted
      <4>2. QED
        BY <1>3, <2>1, <4>1, KeysCounted
    <3>2. p \in s
      BY <3>1, PickIn
    <3>3. SetWeight(w, s) = w[p] + SetWeight(w, s \ {p})
      BY <1>1, <3>1
    <3> HIDE DEF p
    <3>4. SetWeight(w, s) \in Nat
      BY <3>1, <3>2, <3>3 DEF Splits
    <3>5. ASSUME NEW k \in s, k # p PROVE SetWeight(w, s) = w[k] + SetWeight(w, s \ {k})
      <4>1. k \in s \ {p} /\ p \in s \ {k} /\ (s \ {p}) \ {k} = (s \ {k}) \ {p}
        BY <3>2, <3>5
      <4>2. SetWeight(w, s \ {p}) = w[k] + SetWeight(w, (s \ {p}) \ {k})
        BY <3>1, <3>2, <4>1 DEF Splits
      <4>3. SetWeight(w, s \ {k}) = w[p] + SetWeight(w, (s \ {p}) \ {k})
        BY <3>1, <4>1 DEF Splits
      <4>4. SetWeight(w, s \ {p}) \in Nat /\ SetWeight(w, s \ {k}) \in Nat
        BY <3>1, <3>2 DEF Splits
      <4>5. (s \ {p}) \ {k} \in SUBSET Keys /\ w[k] \in Nat /\ w[p] \in Nat
        BY <3>2
      <4> DEFINE rest == SetWeight(w, (s \ {p}) \ {k})
      <4>6. rest \in Nat
        BY <4>5, WeightIsNat
      <4> HIDE DEF rest
      <4>7. QED
        BY <3>3, <4>2, <4>3, <4>4, <4>5, <4>6 DEF rest
    <3>6. QED
      BY <3>3, <3>4, <3>5 DEF Splits
  <2>2. QED
    BY <2>1
<1> HIDE DEF Good, n
<1>4. n \in Nat /\ Cardinality(S) \in 0 .. n
  BY KeysCounted DEF n
<1>5. Cardinality(S) \in Good
  BY <1>2, <1>3, <1>4, CountingUp
<1>6. QED
  BY <1>5 DEF Good

(* Keys in the order of their weight.                                      *)
Ranked(list, S, w) ==
  /\ list \in [1 .. Cardinality(S) -> S]
  /\ \A i, j \in 1 .. Cardinality(S) : i # j => list[i] # list[j]
  /\ \A i, j \in 1 .. Cardinality(S) : i < j => w[list[i]] >= w[list[j]]

LEMMA RankedExists ==
  ASSUME NEW w \in [Keys -> Nat], NEW S \in SUBSET Keys
  PROVE  \E list : Ranked(list, S, w)
<1> DEFINE n == Cardinality(Keys)
           Good == {c \in Nat : \A s \in SUBSET Keys : Cardinality(s) = c =>
                                  \E list : Ranked(list, s, w)}
<1>1. 0 \in Good
  <2>1. ASSUME NEW s \in SUBSET Keys, Cardinality(s) = 0 PROVE Ranked([i \in 1 .. 0 |-> 0], s, w)
    <3>1. 1 .. Cardinality(s) = {}
      BY <2>1
    <3>2. QED
      BY <2>1, <3>1 DEF Ranked
  <2>2. QED
    BY <2>1
<1>2. ASSUME NEW c \in Nat, c < n, c \in Good PROVE c + 1 \in Good
  <2>1. ASSUME NEW s \in SUBSET Keys, Cardinality(s) = c + 1 PROVE \E list : Ranked(list, s, w)
    <3>1. PICK m \in s : \A k \in s : w[m] <= w[k]
      <4> DEFINE T == {w[k] : k \in s}
      <4>1. T \in SUBSET Nat /\ T # {}
        BY <2>1, KeysCounted
      <4> HIDE DEF T
      <4>2. PICK v \in T : \A u \in T : v <= u
        BY <4>1, LeastNat
      <4>3. QED
        BY <4>2 DEF T
    <3> DEFINE t == s \ {m}
    <3>2. t \in SUBSET Keys /\ Cardinality(t) = c
      BY <2>1, KeysCounted
    <3>3. PICK old : Ranked(old, t, w)
      BY <1>2, <3>2
    <3> DEFINE list == [i \in 1 .. (c + 1) |-> IF i = c + 1 THEN m ELSE old[i]]
    <3>4. /\ old \in [1 .. c -> t]
          /\ \A i, j \in 1 .. c : i # j => old[i] # old[j]
          /\ \A i, j \in 1 .. c : i < j => w[old[i]] >= w[old[j]]
      BY <3>2, <3>3 DEF Ranked
    <3>5. \A i \in 1 .. (c + 1) : i # c + 1 => i \in 1 .. c
      OBVIOUS
    <3>6. \A i \in 1 .. (c + 1) : list[i] = IF i = c + 1 THEN m ELSE old[i]
      OBVIOUS
    <3>7. list \in [1 .. (c + 1) -> s]
      BY <3>4, <3>5
    <3>8. \A i \in 1 .. c : old[i] \in s /\ old[i] # m /\ w[old[i]] >= w[m]
      <4>1. \A k \in s : w[k] \in Nat
        OBVIOUS
      <4>2. QED
        BY <3>1, <3>4, <4>1
    <3> HIDE DEF list, t
    <3>9. ASSUME NEW i \in 1 .. (c + 1), NEW j \in 1 .. (c + 1), i # j PROVE list[i] # list[j]
      BY <3>4, <3>5, <3>6, <3>8, <3>9
    <3>10. ASSUME NEW i \in 1 .. (c + 1), NEW j \in 1 .. (c + 1), i < j
           PROVE  w[list[i]] >= w[list[j]]
      <4>1. i \in 1 .. c /\ list[i] = old[i]
        BY <3>6, <3>10
      <4>2. CASE j = c + 1
        BY <3>6, <3>8, <4>1, <4>2
      <4>3. CASE j # c + 1
        BY <3>4, <3>5, <3>6, <3>10, <4>1, <4>3
      <4>4. QED
        BY <4>2, <4>3
    <3>11. Ranked(list, s, w)
      BY <2>1, <3>7, <3>9, <3>10 DEF Ranked
    <3>12. QED
      BY <3>11
  <2>2. QED
    BY <2>1
<1> HIDE DEF Good, n
<1>3. n \in Nat /\ Cardinality(S) \in 0 .. n
  BY KeysCounted DEF n
<1>4. Cardinality(S) \in Good
  BY <1>1, <1>2, <1>3, CountingUp
<1>5. QED
  BY <1>4 DEF Good

(* Every key of the set is in the list.                                    *)
LEMMA RankedHasAll ==
  ASSUME NEW w, NEW S \in SUBSET Keys, NEW list, Ranked(list, S, w), NEW k \in S
  PROVE  \E i \in 1 .. Cardinality(S) : list[i] = k
<1> SUFFICES ASSUME \A i \in 1 .. Cardinality(S) : list[i] # k PROVE FALSE
  OBVIOUS
<1> DEFINE n == Cardinality(S)
           T == S \ {k}
<1>1. n \in Nat /\ IsFiniteSet(T) /\ Cardinality(T) = n - 1
  BY KeysCounted
<1>2. list \in [1 .. n -> T]
  BY DEF Ranked
<1>3. IsFiniteSet(1 .. n) /\ Cardinality(1 .. n) = n
  <2>1. 1 \in Int /\ n \in Int
    BY <1>1
  <2>2. IsFiniteSet(1 .. n) /\ Cardinality(1 .. n) = IF 1 > n THEN 0 ELSE n - 1 + 1
    <3> HIDE DEF n
    <3>1. QED
      BY <2>1, FS_Interval
  <2> HIDE DEF n
  <2>3. QED
    BY <1>1, <2>2
<1> HIDE DEF T, n
<1>4. Cardinality(T) < Cardinality(1 .. n)
  BY <1>1, <1>3
<1>5. PICK i, j \in 1 .. n : i # j /\ list[i] = list[j]
  BY <1>1, <1>2, <1>3, <1>4, FS_PigeonHole
<1>6. QED
  BY <1>5 DEF Ranked, n

AccountType == [seq : Nat, weight : [Keys -> Nat], med : Nat, fees : BOOLEAN, holds : BOOLEAN]
Eligible == {k \in Keys : x2.weight[k] > 0}

LEMMA EligibleRanked ==
  ASSUME x2 \in AccountType
  PROVE  Ranked(Envelopes!EligibleSigners, Eligible, x2.weight)
<1> DEFINE n == Cardinality(Eligible)
           signers == Envelopes!EligibleSigners
<1>1. x2.weight \in [Keys -> Nat] /\ Eligible \in SUBSET Keys
  BY DEF AccountType, Eligible
<1>2. PICK list : Ranked(list, Eligible, x2.weight)
  BY <1>1, RankedExists
<1>3. Envelopes!Cardinality(Eligible) = n
  BY DEF Envelopes!Cardinality, Cardinality
<1>4. DOMAIN list = 1 .. n
  BY <1>2 DEF Ranked
<1> HIDE DEF n
<1>5. Envelopes!SetToSeqs(Eligible) =
        {f \in [1 .. n -> Eligible] : \A i, j \in 1 .. n : i # j => f[i] # f[j]}
  BY <1>3 DEF Envelopes!SetToSeqs
<1>6. list \in Envelopes!SetToSeqs(Eligible) /\ Envelopes!HeaviestFirst(list)
  BY <1>2, <1>4, <1>5 DEF Ranked, Envelopes!HeaviestFirst, n
<1>7. signers = CHOOSE s \in Envelopes!SetToSeqs(Eligible) : Envelopes!HeaviestFirst(s)
  BY DEF Envelopes!EligibleSigners, Eligible
<1>8. signers \in Envelopes!SetToSeqs(Eligible) /\ Envelopes!HeaviestFirst(signers)
  BY <1>6, <1>7
<1> HIDE DEF signers
<1>9. DOMAIN signers = 1 .. n
  BY <1>5, <1>8
<1>10. QED
  BY <1>5, <1>8, <1>9 DEF Ranked, Envelopes!HeaviestFirst, n, signers

(* The weight of all the signers, and how many it takes to reach what is   *)
(* required: what the two folds go through.                                *)
LEMMA SameMax == ASSUME NEW s PROVE Envelopes!Max(s) = Disbursements!Max(s)
BY DEF Envelopes!Max, Disbursements!Max

Tally == [weight : Nat, count : Nat]
Counting(sofar, v, required) ==
  IF sofar.weight >= required THEN sofar
  ELSE [weight |-> sofar.weight + v, count |-> sofar.count + 1]

IsAvailable(list, w, it) ==
  it = [s \in SUBSET DOMAIN list |->
          IF s = {} THEN 0
          ELSE it[s \ {Envelopes!Max(s)}] + w[list[Envelopes!Max(s)]]]

IsReach(list, w, required, it) ==
  it = [s \in SUBSET DOMAIN list |->
          IF s = {} THEN [weight |-> 0, count |-> 0]
          ELSE Counting(it[s \ {Envelopes!Max(s)}], w[list[Envelopes!Max(s)]], required)]

LEMMA AvailableExists ==
  ASSUME NEW n \in Nat, NEW list \in [1 .. n -> Keys], NEW w \in [Keys -> Nat]
  PROVE  \E it \in [SUBSET (1 .. n) -> Nat] : IsAvailable(list, w, it)
<1> DEFINE h == [p \in (1 .. n) \X Nat |-> p[2] + w[list[p[1]]]]
<1>1. h \in [(1 .. n) \X Nat -> Nat]
  OBVIOUS
<1>2. \A k \in 1 .. n, sum \in Nat : h[<<k, sum>>] = sum + w[list[k]]
  OBVIOUS
<1> HIDE DEF h
<1>3. PICK it \in [SUBSET (1 .. n) -> Nat] : IsFold(n, 0, h, it)
  <2>1. 0 \in Nat
    OBVIOUS
  <2>2. QED
    BY <1>1, <2>1, FoldExists
<1>4. ASSUME NEW s \in SUBSET (1 .. n), s # {}
      PROVE  it[s] = it[s \ {Envelopes!Max(s)}] + w[list[Envelopes!Max(s)]]
  <2>1. Disbursements!Max(s) \in 1 .. n /\ it[s \ {Disbursements!Max(s)}] \in Nat
    BY <1>4, MaxExists
  <2>2. it[s] = h[<<Disbursements!Max(s), it[s \ {Disbursements!Max(s)}]>>]
    BY <1>3, <1>4 DEF IsFold
  <2>3. QED
    BY <1>2, <2>1, <2>2, SameMax
<1>5. it = [s \in SUBSET (1 .. n) |->
              IF s = {} THEN 0
              ELSE it[s \ {Envelopes!Max(s)}] + w[list[Envelopes!Max(s)]]]
  BY <1>3, <1>4 DEF IsFold
<1>6. QED
  BY <1>5 DEF IsAvailable

LEMMA ReachExists ==
  ASSUME NEW n \in Nat, NEW list \in [1 .. n -> Keys], NEW w \in [Keys -> Nat],
         NEW required \in Nat
  PROVE  \E it \in [SUBSET (1 .. n) -> Tally] : IsReach(list, w, required, it)
<1> DEFINE h == [p \in (1 .. n) \X Tally |-> Counting(p[2], w[list[p[1]]], required)]
<1>1. \A k \in 1 .. n, sofar \in Tally : Counting(sofar, w[list[k]], required) \in Tally
  BY DEF Counting, Tally
<1>2. h \in [(1 .. n) \X Tally -> Tally]
  BY <1>1
<1>3. \A k \in 1 .. n, sofar \in Tally : h[<<k, sofar>>] = Counting(sofar, w[list[k]], required)
  OBVIOUS
<1> HIDE DEF h
<1>4. PICK it \in [SUBSET (1 .. n) -> Tally] : IsFold(n, [weight |-> 0, count |-> 0], h, it)
  <2>1. [weight |-> 0, count |-> 0] \in Tally
    BY DEF Tally
  <2>2. QED
    BY <1>2, <2>1, FoldExists
<1>5. ASSUME NEW s \in SUBSET (1 .. n), s # {}
      PROVE  it[s] = Counting(it[s \ {Envelopes!Max(s)}], w[list[Envelopes!Max(s)]], required)
  <2>1. Disbursements!Max(s) \in 1 .. n /\ it[s \ {Disbursements!Max(s)}] \in Tally
    BY <1>5, MaxExists
  <2>2. it[s] = h[<<Disbursements!Max(s), it[s \ {Disbursements!Max(s)}]>>]
    BY <1>4, <1>5 DEF IsFold
  <2>3. QED
    BY <1>3, <2>1, <2>2, SameMax
<1>6. it = [s \in SUBSET (1 .. n) |->
              IF s = {} THEN [weight |-> 0, count |-> 0]
              ELSE Counting(it[s \ {Envelopes!Max(s)}], w[list[Envelopes!Max(s)]], required)]
  BY <1>4, <1>5 DEF IsFold
<1>7. QED
  BY <1>6 DEF IsReach

(* The first keys of a list, and what they weigh.                          *)
Heads(list, k) == {list[i] : i \in 1 .. k}
HeadWeight(w, list, k) == SetWeight(w, Heads(list, k))

LEMMA HeadsWeigh ==
  ASSUME NEW w \in [Keys -> Nat], NEW S \in SUBSET Keys, NEW list, Ranked(list, S, w)
  PROVE  /\ HeadWeight(w, list, 0) = 0
         /\ \A k \in 0 .. Cardinality(S) :
              /\ Heads(list, k) \in SUBSET Keys /\ HeadWeight(w, list, k) \in Nat
              /\ Cardinality(Heads(list, k)) <= k
         /\ \A k \in 1 .. Cardinality(S) :
              HeadWeight(w, list, k) = HeadWeight(w, list, k - 1) + w[list[k]]
<1> DEFINE n == Cardinality(S)
<1>1. n \in Nat /\ list \in [1 .. n -> S] /\ \A i, j \in 1 .. n : i # j => list[i] # list[j]
  BY KeysCounted DEF Ranked
<1> HIDE DEF n
<1>2. ASSUME NEW k \in 0 .. n
      PROVE  /\ Heads(list, k) \in SUBSET Keys /\ HeadWeight(w, list, k) \in Nat
             /\ Cardinality(Heads(list, k)) <= k
  <2>1. \A i \in 1 .. k : list[i] \in Keys
    BY <1>1
  <2>2. Heads(list, k) \in SUBSET Keys
    BY <2>1 DEF Heads
  <2>3. 1 \in Int /\ k \in Int
    BY <1>1
  <2>4. IsFiniteSet(1 .. k) /\ Cardinality(1 .. k) = IF 1 > k THEN 0 ELSE k - 1 + 1
    BY <2>3, FS_Interval
  <2>5. Cardinality(1 .. k) = k
    BY <1>1, <2>4
  <2>6. Cardinality({list[i] : i \in 1 .. k}) <= Cardinality(1 .. k)
    <3> DEFINE f == [i \in 1 .. k |-> list[i]]
    <3>1. f \in Surjection(1 .. k, Heads(list, k))
      BY DEF Surjection, Heads
    <3>2. QED
      BY <2>4, <3>1, FS_Surjection DEF Heads
  <2>7. QED
    BY <2>2, <2>5, <2>6, WeightIsNat DEF Heads, HeadWeight
<1>3. ASSUME NEW k \in 1 .. n
      PROVE  HeadWeight(w, list, k) = HeadWeight(w, list, k - 1) + w[list[k]]
  <2>1. k - 1 \in 0 .. n /\ k \in 0 .. n /\ k \in 1 .. k
    BY <1>1
  <2>2. list[k] \in Heads(list, k)
    BY <2>1 DEF Heads
  <2>3. Heads(list, k) \ {list[k]} = Heads(list, k - 1)
    <3>1. \A i \in 1 .. k : i # k => i \in 1 .. (k - 1) /\ i \in 1 .. n
      BY <1>1
    <3>2. \A i \in 1 .. (k - 1) : i \in 1 .. k /\ i \in 1 .. n /\ i # k
      BY <1>1
    <3>3. QED
      BY <1>1, <3>1, <3>2 DEF Heads
  <2>4. Heads(list, k) \in SUBSET Keys /\ HeadWeight(w, list, k - 1) \in Nat
    BY <1>2, <2>1
  <2>5. SetWeight(w, Heads(list, k)) = w[list[k]] + SetWeight(w, Heads(list, k) \ {list[k]})
    BY <2>2, <2>4, WeightSplits DEF Splits
  <2>6. w[list[k]] \in Nat
    BY <2>2, <2>4
  <2>7. QED
    BY <2>3, <2>4, <2>5, <2>6 DEF HeadWeight
<1>4. HeadWeight(w, list, 0) = 0
  <2>1. Heads(list, 0) = {}
    BY DEF Heads
  <2>2. IsSum({}, Weighing(w, {}), w)
    BY WeighingIs
  <2>3. Weighing(w, {})[{}] = 0
    BY <2>2 DEF IsSum
  <2>4. QED
    BY <2>1, <2>3 DEF HeadWeight, SetWeight
<1>5. QED
  BY <1>2, <1>3, <1>4 DEF n

LEMMA AvailableIs ==
  ASSUME x2 \in AccountType
  PROVE  Envelopes!Available(Envelopes!EligibleSigners)
           = HeadWeight(x2.weight, Envelopes!EligibleSigners, Cardinality(Eligible))
<1> DEFINE n == Cardinality(Eligible)
           list == Envelopes!EligibleSigners
           w == x2.weight
           sum == CHOOSE it : IsAvailable(list, w, it)
<1>1. /\ w \in [Keys -> Nat] /\ Eligible \in SUBSET Keys /\ Ranked(list, Eligible, w)
      /\ n \in Nat
  BY EligibleRanked, KeysCounted DEF AccountType, Eligible
<1>2. list \in [1 .. n -> Keys] /\ DOMAIN list = 1 .. n
  BY <1>1 DEF Ranked
<1> HIDE DEF list, n
<1>3. Envelopes!Available(list) = sum[DOMAIN list]
  BY DEF Envelopes!Available, Envelopes!FoldLeft, Envelopes!MapThenFoldSet, IsAvailable
<1>4. IsAvailable(list, w, sum)
  BY <1>1, <1>2, AvailableExists
<1> HIDE DEF sum, w
<1>5. sum = [s \in SUBSET (1 .. n) |->
               IF s = {} THEN 0
               ELSE sum[s \ {Envelopes!Max(s)}] + w[list[Envelopes!Max(s)]]]
  BY <1>2, <1>4 DEF IsAvailable
<1> DEFINE Good == {k \in Nat : k <= n => sum[1 .. k] = HeadWeight(w, list, k)}
<1>6. 0 \in Good
  <2>1. sum[{}] = 0 /\ 1 .. 0 = {}
    BY <1>5
  <2>2. HeadWeight(w, list, 0) = 0
    BY <1>1, HeadsWeigh
  <2>3. QED
    BY <2>1, <2>2
<1>7. ASSUME NEW k \in Nat, k < n, k \in Good PROVE k + 1 \in Good
  <2>1. k + 1 \in 1 .. n /\ (k + 1) - 1 = k /\ k <= n
    BY <1>1, <1>7
  <2>2. /\ 1 .. (k + 1) \in SUBSET (1 .. n) /\ 1 .. (k + 1) # {}
        /\ Envelopes!Max(1 .. (k + 1)) = k + 1 /\ (1 .. (k + 1)) \ {k + 1} = 1 .. k
    BY <1>1, <2>1, Segments, SameMax
  <2>3. sum[1 .. (k + 1)] = sum[1 .. k] + w[list[k + 1]]
    <3>1. sum[1 .. (k + 1)] = sum[(1 .. (k + 1)) \ {Envelopes!Max(1 .. (k + 1))}]
                                + w[list[Envelopes!Max(1 .. (k + 1))]]
      BY <1>5, <2>2
    <3>2. QED
      BY <2>2, <3>1
  <2>4. HeadWeight(w, list, k + 1) = HeadWeight(w, list, k) + w[list[k + 1]]
    <3> DEFINE m == k + 1
    <3>1. m \in 1 .. Cardinality(Eligible) /\ m - 1 = k
      BY <2>1 DEF n
    <3> HIDE DEF m
    <3>2. HeadWeight(w, list, m) = HeadWeight(w, list, m - 1) + w[list[m]]
      BY <1>1, <3>1, HeadsWeigh
    <3>3. QED
      BY <3>1, <3>2 DEF m
  <2>5. QED
    BY <1>7, <2>1, <2>3, <2>4
<1> HIDE DEF Good
<1>8. \A k \in 0 .. n : k \in Good
  BY <1>1, <1>6, <1>7, CountingUp
<1>9. sum[1 .. n] = HeadWeight(w, list, n)
  <2>1. n \in 0 .. n /\ n <= n
    BY <1>1
  <2>2. QED
    BY <1>8, <2>1 DEF Good
<1>10. QED
  BY <1>2, <1>3, <1>9 DEF list, n, w

(* What is counted: the first keys, as long as those before did not reach. *)
Reached(sofar, w, list, required, k) ==
  /\ sofar.count \in 0 .. k
  /\ sofar.weight = HeadWeight(w, list, sofar.count)
  /\ sofar.count = k \/ sofar.weight >= required
  /\ sofar.count > 0 => HeadWeight(w, list, sofar.count - 1) < required

LEMMA ReachIs ==
  ASSUME x2 \in AccountType
  PROVE  Reached(Envelopes!ReachThreshold(Envelopes!EligibleSigners, x2.med), x2.weight,
                 Envelopes!EligibleSigners, x2.med, Cardinality(Eligible))
<1> DEFINE n == Cardinality(Eligible)
           list == Envelopes!EligibleSigners
           w == x2.weight
           required == x2.med
           sum == CHOOSE it : IsReach(list, w, required, it)
<1>1. /\ w \in [Keys -> Nat] /\ Eligible \in SUBSET Keys /\ Ranked(list, Eligible, w)
      /\ n \in Nat /\ required \in Nat
  BY EligibleRanked, KeysCounted DEF AccountType, Eligible
<1>2. list \in [1 .. n -> Keys] /\ DOMAIN list = 1 .. n
  BY <1>1 DEF Ranked
<1> HIDE DEF list, n, required
<1>3. Envelopes!ReachThreshold(list, required) = sum[DOMAIN list]
  BY DEF Envelopes!ReachThreshold, Envelopes!FoldLeft, Envelopes!MapThenFoldSet, IsReach, Counting
<1>4. IsReach(list, w, required, sum)
  BY <1>1, <1>2, ReachExists
<1> HIDE DEF sum, w
<1>5. sum = [s \in SUBSET (1 .. n) |->
               IF s = {} THEN [weight |-> 0, count |-> 0]
               ELSE Counting(sum[s \ {Envelopes!Max(s)}], w[list[Envelopes!Max(s)]], required)]
  BY <1>2, <1>4 DEF IsReach
<1> DEFINE Good == {k \in Nat : k <= n => Reached(sum[1 .. k], w, list, required, k)}
<1>6. 0 \in Good
  <2>1. sum[{}] = [weight |-> 0, count |-> 0] /\ 1 .. 0 = {}
    BY <1>5
  <2>2. HeadWeight(w, list, 0) = 0
    BY <1>1, HeadsWeigh
  <2>3. Reached([weight |-> 0, count |-> 0], w, list, required, 0)
    BY <2>2 DEF Reached
  <2>4. QED
    BY <2>1, <2>3
<1>7. ASSUME NEW k \in Nat, k < n, k \in Good PROVE k + 1 \in Good
  <2>1. k + 1 \in 1 .. n /\ (k + 1) - 1 = k /\ k <= n
    BY <1>1, <1>7
  <2>2. /\ 1 .. (k + 1) \in SUBSET (1 .. n) /\ 1 .. (k + 1) # {}
        /\ Envelopes!Max(1 .. (k + 1)) = k + 1 /\ (1 .. (k + 1)) \ {k + 1} = 1 .. k
    BY <1>1, <2>1, Segments, SameMax
  <2>3. sum[1 .. (k + 1)] = Counting(sum[1 .. k], w[list[k + 1]], required)
    <3>1. sum[1 .. (k + 1)] = Counting(sum[(1 .. (k + 1)) \ {Envelopes!Max(1 .. (k + 1))}],
                                       w[list[Envelopes!Max(1 .. (k + 1))]], required)
      BY <1>5, <2>2
    <3>2. QED
      BY <2>2, <3>1
  <2>4. HeadWeight(w, list, k + 1) = HeadWeight(w, list, k) + w[list[k + 1]]
    <3> DEFINE m == k + 1
    <3>1. m \in 1 .. Cardinality(Eligible) /\ m - 1 = k
      BY <2>1 DEF n
    <3> HIDE DEF m
    <3>2. HeadWeight(w, list, m) = HeadWeight(w, list, m - 1) + w[list[m]]
      BY <1>1, <3>1, HeadsWeigh
    <3>3. QED
      BY <3>1, <3>2 DEF m
  <2> DEFINE old == sum[1 .. k]
             new == sum[1 .. (k + 1)]
  <2>5. Reached(old, w, list, required, k)
    BY <1>7, <2>1
  <2>6. new = Counting(old, w[list[k + 1]], required)
    BY <2>3
  <2>7. HeadWeight(w, list, old.count) \in Nat
    <3>1. old.count \in 0 .. Cardinality(Eligible)
      BY <1>1, <2>1, <2>5 DEF Reached, n
    <3>2. QED
      BY <1>1, <3>1, HeadsWeigh
  <2> HIDE DEF old, new
  <2>8. Reached(new, w, list, required, k + 1)
    <3>1. CASE old.weight >= required
      <4>1. new = old
        BY <2>6, <3>1 DEF Counting
      <4>2. QED
        BY <2>5, <3>1, <4>1 DEF Reached
    <3>2. CASE ~ (old.weight >= required)
      <4>1. new = [weight |-> old.weight + w[list[k + 1]], count |-> old.count + 1]
        BY <2>6, <3>2 DEF Counting
      <4>2. old.count = k /\ old.weight = HeadWeight(w, list, k)
        BY <2>5, <3>2 DEF Reached
      <4>3. new.count = k + 1 /\ new.weight = HeadWeight(w, list, k + 1)
        BY <2>4, <4>1, <4>2
      <4>4. HeadWeight(w, list, k) < required /\ new.count - 1 = k
        BY <1>1, <2>1, <2>7, <3>2, <4>2, <4>3
      <4>5. QED
        BY <4>3, <4>4 DEF Reached
    <3>3. QED
      BY <3>1, <3>2
  <2>9. QED
    BY <2>8 DEF new
<1> HIDE DEF Good
<1>8. \A k \in 0 .. n : k \in Good
  BY <1>1, <1>6, <1>7, CountingUp
<1>9. Reached(sum[1 .. n], w, list, required, n)
  <2>1. n \in 0 .. n /\ n <= n
    BY <1>1
  <2>2. QED
    BY <1>8, <2>1 DEF Good
<1>10. QED
  BY <1>2, <1>3, <1>9 DEF list, n, w, required

(* Fewer keys than the first m weigh no more than those.                   *)
LEMMA HeadsAreHeaviest ==
  ASSUME x2 \in AccountType
  PROVE  \A m \in 0 .. Cardinality(Eligible), T \in SUBSET Keys :
           Cardinality(T) <= m =>
             SetWeight(x2.weight, T) <= HeadWeight(x2.weight, Envelopes!EligibleSigners, m)
<1> DEFINE n == Cardinality(Eligible)
           list == Envelopes!EligibleSigners
           w == x2.weight
           Fits(m, T) == SetWeight(w, T) <= HeadWeight(w, list, m)
           Good == {m \in Nat : m <= n => \A T \in SUBSET Keys : Cardinality(T) <= m => Fits(m, T)}
<1>1. /\ w \in [Keys -> Nat] /\ Eligible \in SUBSET Keys /\ Ranked(list, Eligible, w)
      /\ n \in Nat
  BY EligibleRanked, KeysCounted DEF AccountType, Eligible
<1>2. Eligible = {k \in Keys : w[k] > 0}
  BY DEF Eligible
<1>3. /\ HeadWeight(w, list, 0) = 0
      /\ \A k \in 0 .. n : /\ Heads(list, k) \in SUBSET Keys /\ HeadWeight(w, list, k) \in Nat
                           /\ Cardinality(Heads(list, k)) <= k
      /\ \A k \in 1 .. n : HeadWeight(w, list, k) = HeadWeight(w, list, k - 1) + w[list[k]]
  BY <1>1, HeadsWeigh
<1>4. /\ \A k \in Eligible : \E i \in 1 .. n : list[i] = k
      /\ list \in [1 .. n -> Eligible]
      /\ \A i, j \in 1 .. n : i < j => w[list[i]] >= w[list[j]]
  <2>1. ASSUME NEW k \in Eligible PROVE \E i \in 1 .. n : list[i] = k
    <3> HIDE DEF list, w
    <3>1. QED
      BY <1>1, RankedHasAll
  <2> HIDE DEF list, w
  <2>2. QED
    BY <1>1, <2>1 DEF Ranked
<1> HIDE DEF list, n, w
<1>5. 0 \in Good
  <2>1. ASSUME NEW T \in SUBSET Keys, Cardinality(T) <= 0 PROVE Fits(0, T)
    <3>1. T = {}
      BY <2>1, KeysCounted
    <3>2. Heads(list, 0) = {}
      BY DEF Heads
    <3>3. SetWeight(w, T) = 0
      BY <1>3, <3>1, <3>2 DEF HeadWeight
    <3>4. QED
      BY <1>3, <3>3
  <2>2. QED
    BY <2>1
<1>6. ASSUME NEW m \in Nat, m < n, m \in Good PROVE m + 1 \in Good
  <2>1. m + 1 \in 1 .. n /\ (m + 1) - 1 = m /\ m \in 0 .. n /\ m + 1 \in 0 .. n /\ m <= n
    BY <1>1, <1>6
  <2>2. /\ HeadWeight(w, list, m + 1) = HeadWeight(w, list, m) + w[list[m + 1]]
        /\ HeadWeight(w, list, m) \in Nat /\ list[m + 1] \in Eligible /\ w[list[m + 1]] \in Nat
    <3>1. list[m + 1] \in Eligible /\ list[m + 1] \in Keys
      BY <1>1, <1>4, <2>1
    <3>2. HeadWeight(w, list, m + 1) = HeadWeight(w, list, m) + w[list[m + 1]]
      <4> DEFINE p == m + 1
      <4>1. p \in 1 .. n /\ p - 1 = m
        BY <2>1
      <4> HIDE DEF p
      <4>2. HeadWeight(w, list, p) = HeadWeight(w, list, p - 1) + w[list[p]]
        BY <1>3, <4>1
      <4>3. QED
        BY <4>1, <4>2 DEF p
    <3>3. QED
      BY <1>1, <1>3, <2>1, <3>1, <3>2
  <2>3. \A T \in SUBSET Keys : Cardinality(T) <= m => Fits(m, T)
    BY <1>6, <2>1
  <2> HIDE DEF Fits, Good
  <2>4. ASSUME NEW T \in SUBSET Keys, Cardinality(T) <= m + 1 PROVE Fits(m + 1, T)
    <3>1. CASE Cardinality(T) <= m
      <4>1. SetWeight(w, T) <= HeadWeight(w, list, m) /\ SetWeight(w, T) \in Nat
        BY <1>1, <2>3, <3>1, WeightIsNat DEF Fits
      <4>2. QED
        BY <2>2, <4>1 DEF Fits
    <3>2. CASE ~ (Cardinality(T) <= m)
      <4>1. Cardinality(T) = m + 1
        <5>1. Cardinality(T) \in Nat
          BY KeysCounted
        <5>2. QED
          BY <2>4, <3>2, <5>1
      <4>2. PICK k \in T : k \notin Heads(list, m)
        <5>1. ~ (T \subseteq Heads(list, m))
          <6>1. SUFFICES ASSUME T \subseteq Heads(list, m) PROVE FALSE
            OBVIOUS
          <6>2. IsFiniteSet(Heads(list, m)) /\ Cardinality(Heads(list, m)) \in Nat
            BY <1>3, <2>1, KeysCounted
          <6>3. Cardinality(T) <= Cardinality(Heads(list, m))
            BY <6>1, <6>2, FS_Subset
          <6>4. Cardinality(Heads(list, m)) <= m
            BY <1>3, <2>1
          <6>5. QED
            BY <4>1, <6>2, <6>3, <6>4
        <5>2. QED
          BY <5>1
      <4> DEFINE rest == T \ {k}
      <4>3. rest \in SUBSET Keys /\ Cardinality(rest) = m
        BY <4>1, KeysCounted
      <4>4. /\ SetWeight(w, T) = w[k] + SetWeight(w, rest)
            /\ SetWeight(w, rest) \in Nat /\ w[k] \in Nat
        BY <1>1, <4>3, WeightSplits, WeightIsNat DEF Splits
      <4> HIDE DEF rest
      <4>5. SetWeight(w, rest) <= HeadWeight(w, list, m)
        BY <2>3, <4>3 DEF Fits
      <4>6. w[k] <= w[list[m + 1]]
        <5>1. CASE k \in Eligible
          <6>1. PICK i \in 1 .. n : list[i] = k
            BY <1>4, <5>1
          <6>2. i >= m + 1
            <7>1. ~ (i \in 1 .. m)
              BY <4>2, <6>1 DEF Heads
            <7>2. QED
              BY <7>1
          <6>3. CASE i = m + 1
            BY <2>2, <6>1, <6>3
          <6>4. CASE i > m + 1
            <7>1. w[list[m + 1]] >= w[list[i]]
              BY <1>4, <2>1, <6>4
            <7>2. QED
              BY <2>2, <4>4, <6>1, <7>1
          <6>5. QED
            BY <6>2, <6>3, <6>4
        <5>2. CASE k \notin Eligible
          <6>1. ~ (w[k] > 0)
            BY <1>2, <5>2
          <6>2. QED
            BY <2>2, <4>4, <6>1
        <5>3. QED
          BY <5>1, <5>2
      <4>7. QED
        BY <2>2, <4>4, <4>5, <4>6 DEF Fits
    <3>3. QED
      BY <3>1, <3>2
  <2>5. QED
    BY <2>4 DEF Good
<1> HIDE DEF Good
<1>7. \A m \in 0 .. n : m \in Good
  BY <1>1, <1>5, <1>6, CountingUp
<1>8. ASSUME NEW m \in 0 .. n, NEW T \in SUBSET Keys, Cardinality(T) <= m PROVE Fits(m, T)
  <2>1. m \in Good /\ m <= n
    BY <1>7
  <2>2. QED
    BY <1>8, <2>1 DEF Good
<1>9. QED
  BY <1>8 DEF n, list, w

(* The first keys of a list weigh what is required, and fewer do not.      *)
LeastFor(signers, w, required, count) ==
  LET weightOf(S) == Envelopes!MapThenSumSet(LAMBDA k : w[k], S)
      reaching == {S \in SUBSET Keys : weightOf(S) >= required}
      heaviest == {signers[i] : i \in 1 .. count}
  IN  /\ heaviest \in reaching
      /\ \A S \in reaching : Envelopes!Cardinality(S) >= count

LEMMA MinimumIsLeast ==
  ASSUME x2 \in AccountType, Envelopes!Available(Envelopes!EligibleSigners) >= x2.med
  PROVE  LeastFor(Envelopes!EligibleSigners, x2.weight, x2.med,
                  Envelopes!ReachThreshold(Envelopes!EligibleSigners, x2.med).count)
<1> DEFINE n == Cardinality(Eligible)
           list == Envelopes!EligibleSigners
           w == x2.weight
           required == x2.med
           got == Envelopes!ReachThreshold(list, required)
           weightOf(S) == Envelopes!MapThenSumSet(LAMBDA k : w[k], S)
<1>1. /\ w \in [Keys -> Nat] /\ Eligible \in SUBSET Keys /\ Ranked(list, Eligible, w)
      /\ n \in Nat /\ required \in Nat
  BY EligibleRanked, KeysCounted DEF AccountType, Eligible
<1>2. HeadWeight(w, list, n) >= required
  BY AvailableIs
<1>3. Reached(got, w, list, required, n)
  BY ReachIs
<1>4. \A m \in 0 .. n, T \in SUBSET Keys :
        Cardinality(T) <= m => SetWeight(w, T) <= HeadWeight(w, list, m)
  BY HeadsAreHeaviest
<1>5. ASSUME NEW S \in SUBSET Keys PROVE weightOf(S) = SetWeight(w, S)
  BY DEF Envelopes!MapThenSumSet, Envelopes!MapThenFoldSet, SetWeight, Weighing, IsSum, Pick
<1> HIDE DEF list, n, w, required, got, weightOf
<1>6. \A k \in 0 .. n : Heads(list, k) \in SUBSET Keys /\ HeadWeight(w, list, k) \in Nat
  BY <1>1, HeadsWeigh DEF n
<1> DEFINE c == got.count
<1>7. /\ c \in 0 .. n
      /\ c = n \/ HeadWeight(w, list, c) >= required
      /\ c > 0 => HeadWeight(w, list, c - 1) < required
  BY <1>3 DEF Reached
<1> HIDE DEF c
<1>8. HeadWeight(w, list, c) >= required
  BY <1>2, <1>7
<1>9. /\ Heads(list, c) \in SUBSET Keys
      /\ weightOf(Heads(list, c)) >= required
  BY <1>5, <1>6, <1>7, <1>8 DEF HeadWeight
<1>10. ASSUME NEW S \in SUBSET Keys, weightOf(S) >= required PROVE Cardinality(S) >= c
  <2>1. SetWeight(w, S) >= required /\ SetWeight(w, S) \in Nat /\ Cardinality(S) \in Nat
    BY <1>1, <1>5, <1>10, WeightIsNat, KeysCounted
  <2>2. CASE c = 0
    BY <2>1, <2>2
  <2>3. CASE c # 0
    <3>1. c - 1 \in 0 .. n /\ c > 0
      BY <1>1, <1>7, <2>3
    <3>2. HeadWeight(w, list, c - 1) < required /\ HeadWeight(w, list, c - 1) \in Nat
      BY <1>6, <1>7, <3>1
    <3>3. ~ (Cardinality(S) <= c - 1)
      <4>1. Cardinality(S) <= c - 1 => SetWeight(w, S) <= HeadWeight(w, list, c - 1)
        BY <1>4, <3>1
      <4>2. QED
        BY <1>1, <2>1, <3>2, <4>1
    <3>4. QED
      BY <1>1, <1>7, <2>1, <3>3
  <2>4. QED
    BY <2>2, <2>3
<1>11. \A S : Envelopes!Cardinality(S) = Cardinality(S)
  BY DEF Envelopes!Cardinality, Cardinality
<1>12. /\ {list[i] : i \in 1 .. c} \in {S \in SUBSET Keys : weightOf(S) >= required}
       /\ \A S \in {T \in SUBSET Keys : weightOf(T) >= required} : Envelopes!Cardinality(S) >= c
  BY <1>9, <1>10, <1>11 DEF Heads
<1>13. QED
  BY <1>12 DEF LeastFor, list, w, required, got, weightOf, c

(* An envelope the server built is for the window that was asked for,      *)
(* alive, with an operation; it is applied within that window.             *)
Cut(bound) == Envelopes!ToUnixSeconds(bound)

LEMMA SecondsCut ==
  ASSUME NEW bound \in Int
  PROVE  Cut(bound) \in Int /\ 2 * Cut(bound) <= bound /\ bound <= 2 * Cut(bound) + 1
BY DEF Cut, Envelopes!ToUnixSeconds

MeetsAsk(env, ask) ==
  /\ env.min = IF ask.min = None THEN 0 ELSE Cut(ask.min)
  /\ env.max = IF ask.max = None THEN ask.at + DefaultTimeout ELSE Cut(ask.max)
  /\ env.max = 0 \/ (env.min < env.max /\ ask.at < env.max)

EnvelopeOK ==
  x3 # None =>
    /\ x3.max = 0 \/ x3.min = 0 \/ x3.min < x3.max
    /\ x4 # None => MeetsAsk(x3, x4) /\ x4.at \in 1 .. x1 /\ x3.operations # <<>>

AppliedOK == x7 # None => x7.at >= x3.min /\ (x3.max = 0 \/ x7.at <= x3.max)

TermsOK ==
  x5 # None => LeastFor(x5.signers, x5.weight, x5.requiredWeight, x5.minimumSignatures)

EnvInv ==
  /\ Envelopes!TypeOK /\ x2 \in AccountType
  /\ EnvelopeOK /\ AppliedOK /\ TermsOK
  /\ Envelopes!SignedOnce /\ Envelopes!AnswersTell

LEMMA TermsSuffice == TermsOK => Envelopes!MinimumSuffices
BY DEF TermsOK, LeastFor, Envelopes!MinimumSuffices

LEMMA NoneApart ==
  /\ None \notin Int
  /\ \A r \in Envelopes!EnvelopeType \cup Envelopes!AskedType \cup Envelopes!AppliedType : r # None
BY EnvelopesAssumption

(* Each operation is shown rightly, one type at a time.                    *)
LEMMA OperationShown ==
  ASSUME NEW op \in Envelopes!BuiltHere \cup Envelopes!BuiltElsewhere
  PROVE  Envelopes!ShownRightly(Envelopes!DescribeOperation(op), op)
<1> USE DEF Envelopes!Operation, Envelopes!PathPaymentTypes, Envelopes!DescribeOperation,
            Envelopes!ShownRightly, Envelopes!AmountAsset
<1>1. CASE op = Envelopes!Payment
  BY <1>1 DEF Envelopes!Payment
<1>2. CASE op = Envelopes!Creation
  BY <1>2 DEF Envelopes!Creation
<1>3. CASE op = Envelopes!Untrust
  BY <1>3 DEF Envelopes!Untrust
<1>4. CASE op = Envelopes!Erasure
  BY <1>4 DEF Envelopes!Erasure
<1>5. CASE op \in Envelopes!BuiltElsewhere
  <2>1. CASE op = Envelopes!Operation("pathPaymentStrictSend", "member", "XLM", "TOK", 3)
    BY <2>1
  <2>2. CASE op = Envelopes!Operation("pathPaymentStrictReceive", "member", "XLM", "TOK", 3)
    BY <2>2
  <2>3. CASE op = Envelopes!Merge
    BY <2>3 DEF Envelopes!Merge
  <2>4. CASE op = Envelopes!Operation("setOptions", None, None, None, None)
    BY <2>4
  <2>5. CASE op = Envelopes!Operation("bumpSequence", None, None, None, 9)
    BY <2>5
  <2>6. CASE op = Envelopes!Operation("clawback", None, "TOK", "TOK", 5)
    BY <2>6
  <2>7. QED
    BY <1>5, <2>1, <2>2, <2>3, <2>4, <2>5, <2>6 DEF Envelopes!BuiltElsewhere
<1>6. QED
  BY <1>1, <1>2, <1>3, <1>4, <1>5 DEF Envelopes!BuiltHere

LEMMA EnvInvTells ==
  ASSUME EnvInv
  PROVE  /\ Envelopes!WindowKept /\ Envelopes!ChecksAgree /\ Envelopes!MinimumSuffices
         /\ Envelopes!ShownIsSigned
<1> SUFFICES ASSUME x3 # None
             PROVE  /\ Envelopes!WindowKept /\ Envelopes!ChecksAgree
                    /\ Envelopes!ShownIsSigned
  BY TermsSuffice DEF EnvInv, Envelopes!WindowKept, Envelopes!ChecksAgree,
       Envelopes!ShownIsSigned, Envelopes!TypeOK
<1>1. /\ x3 \in Envelopes!EnvelopeType /\ x4 \in Envelopes!AskedType \cup {None}
      /\ x7 \in Envelopes!AppliedType \cup {None} /\ x1 \in Nat /\ x1 >= 1
      /\ AppliedOK /\ (x3.max = 0 \/ x3.min = 0 \/ x3.min < x3.max)
  BY EnvelopesAssumption DEF EnvInv, EnvelopeOK, Envelopes!TypeOK
<1>2. /\ x3.min \in Nat /\ x3.max \in Nat /\ x3.memo \in {"none", "text", "hash"}
      /\ x3.operations \in Seq(Envelopes!BuiltHere \cup Envelopes!BuiltElsewhere)
      /\ x7 # None => x7.at \in Nat
  BY <1>1, EnvelopesAssumption DEF Envelopes!EnvelopeType, Envelopes!AppliedType
<1>3. DefaultTimeout \in Nat /\ DefaultTimeout >= 1 /\ None \notin Int
  BY EnvelopesAssumption
<1>4. Envelopes!WindowKept
  <2> SUFFICES ASSUME x4 # None
               PROVE  /\ x1 = x4.at => Envelopes!ValidEnvelope(x3) /\ (x3.max = 0 \/ x3.max > x1)
                      /\ x3.max = 0 <=> x4.max \in {0, 1}
                      /\ x7 # None =>
                           /\ x4.min # None => 2 * x7.at + 1 >= x4.min
                           /\ x4.max = None => x7.at <= x4.at + DefaultTimeout
                           /\ x4.max \notin {None, 0, 1} => 2 * x7.at <= x4.max
    BY DEF Envelopes!WindowKept
  <2>1. /\ MeetsAsk(x3, x4) /\ x4.at \in 1 .. x1 /\ x3.operations # <<>>
        /\ x4.min \in Int \cup {None} /\ x4.max \in Int \cup {None} /\ x4.at \in Nat
    BY <1>1 DEF EnvInv, EnvelopeOK, Envelopes!AskedType
  <2>2. x4.min # None => x3.min = Cut(x4.min) /\ 2 * x3.min <= x4.min /\ x4.min <= 2 * x3.min + 1
    BY <2>1, SecondsCut DEF MeetsAsk
  <2>3. x4.max # None => x3.max = Cut(x4.max) /\ 2 * x3.max <= x4.max /\ x4.max <= 2 * x3.max + 1
    BY <2>1, SecondsCut DEF MeetsAsk
  <2>4. x4.max = None => x3.max = x4.at + DefaultTimeout
    BY <2>1 DEF MeetsAsk
  <2>5. x3.max = 0 <=> x4.max \in {0, 1}
    <3>1. CASE x4.max = None
      BY <1>2, <1>3, <2>1, <2>4, <3>1
    <3>2. CASE x4.max # None
      BY <1>2, <2>1, <2>3, <3>2
    <3>3. QED
      BY <3>1, <3>2
  <2>6. x1 = x4.at => Envelopes!ValidEnvelope(x3) /\ (x3.max = 0 \/ x3.max > x1)
    BY <1>1, <1>2, <2>1 DEF MeetsAsk, Envelopes!ValidEnvelope
  <2>7. ASSUME x7 # None PROVE x4.min # None => 2 * x7.at + 1 >= x4.min
    BY <1>1, <1>2, <2>1, <2>2, <2>7 DEF AppliedOK
  <2>8. ASSUME x7 # None PROVE x4.max = None => x7.at <= x4.at + DefaultTimeout
    BY <1>1, <1>2, <1>3, <2>1, <2>4, <2>8 DEF AppliedOK
  <2>9. ASSUME x7 # None PROVE x4.max \notin {None, 0, 1} => 2 * x7.at <= x4.max
    BY <1>1, <1>2, <2>1, <2>3, <2>5, <2>9 DEF AppliedOK
  <2>10. QED
    BY <2>5, <2>6, <2>7, <2>8, <2>9
<1>5. Envelopes!ChecksAgree
  <2>1. CASE x3.operations = <<>>
    BY <2>1 DEF Envelopes!ChecksAgree, Envelopes!CheckTransaction, Envelopes!ValidateXdr,
         Envelopes!ValidEnvelope
  <2>2. CASE x3.operations # <<>>
    <3>1. Envelopes!CheckTransaction(x3) \notin {"tx_missing_operation", "tx_too_late"}
            <=> (x1 < x3.min \/ ~ Envelopes!TooLate(x3))
      BY <2>2 DEF Envelopes!CheckTransaction
    <3>2. Envelopes!ValidateXdr(x3) <=> (x3.max > 0 => x3.max >= x1)
      BY <2>2 DEF Envelopes!ValidateXdr, Envelopes!ValidEnvelope
    <3>3. QED
      BY <1>1, <1>2, <3>1, <3>2 DEF Envelopes!ChecksAgree, Envelopes!TooLate
  <2>3. QED
    BY <2>1, <2>2
<1>6. Envelopes!ShownIsSigned
  <2> DEFINE shown == Envelopes!Deserialize(x3).details
  <2>1. /\ shown.operations =
             [i \in DOMAIN x3.operations |-> Envelopes!DescribeOperation(x3.operations[i])]
        /\ shown.memo = Envelopes!DecodeMemo(x3.memo)
        /\ shown.maxTime = Envelopes!ShownBound(x3.max)
    BY DEF Envelopes!Deserialize, Envelopes!DescribeTransaction
  <2> HIDE DEF shown
  <2>2. shown.memo = x3.memo
    BY <1>2, <2>1 DEF Envelopes!DecodeMemo
  <2>3. shown.maxTime = None <=> x3.max = 0
    BY <1>2, <1>3, <2>1 DEF Envelopes!ShownBound
  <2>4. /\ DOMAIN shown.operations = DOMAIN x3.operations
        /\ \A i \in DOMAIN x3.operations :
             /\ shown.operations[i] = Envelopes!DescribeOperation(x3.operations[i])
             /\ x3.operations[i] \in Envelopes!BuiltHere \cup Envelopes!BuiltElsewhere
    BY <1>2, <2>1
  <2>5. \A i \in DOMAIN x3.operations :
          Envelopes!ShownRightly(shown.operations[i], x3.operations[i])
    BY <2>4, OperationShown
  <2>6. QED
    BY <2>2, <2>3, <2>4, <2>5 DEF Envelopes!ShownIsSigned, shown
<1>7. QED
  BY <1>4, <1>5, <1>6

LEMMA EnvStarts == Envelopes!Init => EnvInv
<1> SUFFICES ASSUME Envelopes!Init PROVE EnvInv
  OBVIOUS
<1>1. x1 = 1 /\ x2 \in AccountType /\ x3 = None /\ x4 = None /\ x5 = None /\ x6 = FALSE
      /\ x7 = None /\ x8 = None
  BY EnvelopesAssumption DEF Envelopes!Init, AccountType
<1>2. x1 \in 1 .. LastTick
  BY <1>1, EnvelopesAssumption
<1>3. Envelopes!TypeOK
  BY <1>1, <1>2 DEF Envelopes!TypeOK
<1>4. QED
  BY <1>1, <1>3 DEF EnvInv, EnvelopeOK, AppliedOK, TermsOK, Envelopes!SignedOnce,
       Envelopes!AnswersTell

Statuses == {200, 400, 402, 403, 404, 409, 422, 500, 502}

(* What is not the submission of an envelope is no answer about one.       *)
LEMMA OtherAnswer ==
  ASSUME NEW to, NEW status \in Statuses, NEW code, to # "submit",
         Envelopes!Answered(to, status, code)
  PROVE  /\ Envelopes!AnswersTell' /\ (x8' # None => x8'.status \in Statuses)
BY DEF Envelopes!Answered, Envelopes!AnswersTell

LEMMA NoAnswerGiven ==
  ASSUME x8' = None
  PROVE  /\ Envelopes!AnswersTell' /\ (x8' # None => x8'.status \in Statuses)
BY DEF Envelopes!AnswersTell

(* Only the answer changes.                                                *)
LEMMA AnswerOnly ==
  ASSUME EnvInv, UNCHANGED <<x1, x3, x4, x5, x6, x7>>, x2' \in AccountType,
         Envelopes!AnswersTell', x8' # None => x8'.status \in Statuses
  PROVE  EnvInv'
BY DEF EnvInv, EnvelopeOK, AppliedOK, TermsOK, Envelopes!TypeOK, Envelopes!SignedOnce, Statuses

LEMMA RefuseKeeps ==
  ASSUME EnvInv, NEW to, NEW status \in Statuses, to # "submit", Envelopes!Refuse(to, status)
  PROVE  EnvInv'
<1>1. UNCHANGED <<x1, x2, x3, x4, x5, x6, x7>> /\ Envelopes!Answered(to, status, None)
  BY DEF Envelopes!Refuse
<1>2. QED
  BY <1>1, OtherAnswer, AnswerOnly DEF EnvInv

LEMMA Mapped ==
  /\ \A error : Envelopes!MapHorizonError(error).status \in {402, 404, 422, 502}
  /\ \A error \in {Envelopes!NotFound, Envelopes!Unavailable} :
       Envelopes!ToStellarError(error).status \in {404, 502}
<1>1. \A error : Envelopes!MapHorizonError(error).status \in {402, 404, 422, 502}
  BY DEF Envelopes!MapHorizonError
<1>2. \A error \in {Envelopes!NotFound, Envelopes!Unavailable} :
        Envelopes!ToStellarError(error).status \in {404, 502}
  BY DEF Envelopes!ToStellarError, Envelopes!MapStatus, Envelopes!NotFound,
       Envelopes!Unavailable, Envelopes!Verdict
<1>3. QED
  BY <1>1, <1>2

(* A new envelope, built for a window that was asked for.                  *)
LEMMA BuiltKeeps ==
  ASSUME EnvInv, x3 = None, NEW operation \in Envelopes!BuiltHere, NEW memo,
         NEW min \in 0 .. MaxUnix, NEW max \in 0 .. MaxUnix,
         NEW signatures \in {<<>>, <<Distributor>>},
         NEW ask, ask.min \in Int \cup {None}, ask.max \in Int \cup {None},
         min = IF ask.min = None THEN 0 ELSE Cut(ask.min),
         max = IF ask.max = None THEN x1 + DefaultTimeout ELSE Cut(ask.max),
         max = 0 \/ (min < max /\ x1 < max),
         Envelopes!Built(operation, memo, min, max, signatures, ask),
         Envelopes!AnswersTell', x8' # None => x8'.status \in Statuses,
         UNCHANGED <<x1, x2, x6, x7>>, TermsOK'
  PROVE  EnvInv'
<1> DEFINE env == Envelopes!Envelope(x2.seq + 1, <<operation>>, Envelopes!BuildMemo(memo), min, max,
                                     signatures)
           request == [min |-> ask.min, max |-> ask.max, at |-> x1]
<1>1. x3' = env /\ x4' = request /\ x1' = x1 /\ x2' = x2 /\ x6' = x6 /\ x7' = x7
  BY DEF Envelopes!Built
<1>2. x1 \in 1 .. LastTick /\ x7 = None /\ x6 = FALSE
  BY DEF EnvInv, Envelopes!TypeOK
<1>3. signatures \in Seq(Keys) /\ \A i, j \in DOMAIN signatures : i = j
  <2>1. Distributor \in Keys
    BY EnvelopesAssumption
  <2>2. CASE signatures = <<>>
    BY <2>2
  <2>3. CASE signatures = <<Distributor>>
    <3>1. <<Distributor>> \in Seq(Keys) /\ DOMAIN <<Distributor>> = 1 .. 1
      BY <2>1
    <3>2. QED
      BY <2>3, <3>1
  <2>4. QED
    BY <2>2, <2>3
<1>4. env \in Envelopes!EnvelopeType
  <2>1. x2.seq + 1 \in Nat \ {0}
    BY DEF EnvInv, AccountType
  <2>2. <<operation>> \in Seq(Envelopes!BuiltHere \cup Envelopes!BuiltElsewhere)
    OBVIOUS
  <2>3. Envelopes!BuildMemo(memo) \in {"none", "text", "hash"}
    BY DEF Envelopes!BuildMemo
  <2>4. QED
    BY <1>3, <2>1, <2>2, <2>3 DEF Envelopes!EnvelopeType, Envelopes!Envelope
<1>5. request \in Envelopes!AskedType
  BY <1>2, EnvelopesAssumption DEF Envelopes!AskedType
<1>6. env # None /\ request # None
  BY <1>4, <1>5, NoneApart
<1>7. Envelopes!TypeOK'
  BY <1>1, <1>2, <1>4, <1>5, <1>6 DEF Envelopes!TypeOK, EnvInv, Statuses
<1>8. EnvelopeOK'
  <2>1. /\ env.min = min /\ env.max = max /\ env.operations = <<operation>>
        /\ request.min = ask.min /\ request.max = ask.max /\ request.at = x1
    BY DEF Envelopes!Envelope
  <2> HIDE DEF env, request
  <2>2. MeetsAsk(env, request)
    BY <2>1 DEF MeetsAsk
  <2>3. request.at \in 1 .. x1
    BY <1>2, <2>1
  <2>4. max = 0 \/ min = 0 \/ min < max
    OBVIOUS
  <2>5. QED
    BY <1>1, <2>1, <2>2, <2>3, <2>4 DEF EnvelopeOK
<1>9. Envelopes!SignedOnce'
  BY <1>1, <1>3 DEF Envelopes!SignedOnce, Envelopes!OnceIn, Envelopes!Envelope
<1>10. AppliedOK'
  BY <1>1, <1>2 DEF AppliedOK
<1>11. QED
  BY <1>1, <1>7, <1>8, <1>9, <1>10 DEF EnvInv

LEMMA BuildUnsignedKeeps ==
  ASSUME EnvInv, NEW memo \in Envelopes!Memos, Envelopes!BuildUnsigned(memo)
  PROVE  EnvInv'
<1>1. CASE Envelopes!Refuse("unsigned", 400)
  BY <1>1, RefuseKeeps DEF Statuses
<1>2. CASE \E error \in {Envelopes!NotFound, Envelopes!Unavailable} :
             Envelopes!Refuse("unsigned", Envelopes!MapHorizonError(error).status)
  BY <1>2, RefuseKeeps, Mapped DEF Statuses
<1>3. CASE /\ Envelopes!Built(Envelopes!Payment, memo, Envelopes!OpeningTime(Envelopes!Unbounded),
                              Envelopes!ClosingTime(Envelopes!Unbounded), <<>>, Envelopes!Unbounded)
           /\ Envelopes!Answered("unsigned", 200, None)
           /\ UNCHANGED <<x1, x2, x5, x6, x7>>
  <2> DEFINE ask == Envelopes!Unbounded
             min == Envelopes!OpeningTime(ask)
             max == Envelopes!ClosingTime(ask)
  <2>1. x3 = None /\ Envelopes!Payment \in Envelopes!BuiltHere
    BY DEF Envelopes!BuildUnsigned, Envelopes!BuiltHere
  <2>2. ask.min = None /\ ask.max = None /\ min = 0 /\ max = x1 + DefaultTimeout
    BY DEF Envelopes!Unbounded, Envelopes!OpeningTime, Envelopes!ClosingTime
  <2>3. x1 \in 1 .. LastTick
    BY DEF EnvInv, Envelopes!TypeOK
  <2>4. /\ min \in 0 .. MaxUnix /\ max \in 0 .. MaxUnix /\ min < max /\ x1 < max
    BY <2>2, <2>3, EnvelopesAssumption
  <2>5. Envelopes!AnswersTell' /\ (x8' # None => x8'.status \in Statuses)
    <3>1. 200 \in Statuses
      BY DEF Statuses
    <3>2. QED
      BY <1>3, <3>1, OtherAnswer
  <2>6. TermsOK'
    BY <1>3 DEF TermsOK, EnvInv
  <2>7. Envelopes!Built(Envelopes!Payment, memo, min, max, <<>>, ask)
    BY <1>3
  <2>8. UNCHANGED <<x1, x2, x6, x7>>
    BY <1>3
  <2> HIDE DEF ask, min, max
  <2>9. QED
    BY <2>1, <2>2, <2>4, <2>5, <2>6, <2>7, <2>8, BuiltKeeps
<1>4. QED
  BY <1>1, <1>2, <1>3 DEF Envelopes!BuildUnsigned

LEMMA BuildSignedKeeps ==
  ASSUME EnvInv, NEW operation \in Envelopes!BuiltHere, NEW memo, NEW ask,
         ask.min \in Int \cup {None, NotATime}, ask.max \in Int \cup {None, NotATime},
         Envelopes!BuildSigned(operation, memo, ask)
  PROVE  EnvInv'
<1>1. CASE \E error \in {Envelopes!NotFound, Envelopes!Unavailable} :
             Envelopes!Refuse("signed", Envelopes!MapHorizonError(error).status)
  BY <1>1, RefuseKeeps, Mapped DEF Statuses
<1>2. CASE Envelopes!Refuse("signed", 502)
  BY <1>2, RefuseKeeps DEF Statuses
<1>3. CASE /\ Envelopes!Resolves(ask)
           /\ Envelopes!Built(operation, memo, Envelopes!OpeningTime(ask), Envelopes!ClosingTime(ask),
                              <<Distributor>>, ask)
           /\ Envelopes!Answered("signed", 200, None)
           /\ UNCHANGED <<x1, x2, x5, x6, x7>>
  <2> DEFINE min == Envelopes!OpeningTime(ask)
             max == Envelopes!ClosingTime(ask)
  <2>1. x3 = None
    BY DEF Envelopes!BuildSigned
  <2>2. /\ min = IF ask.min = None THEN 0 ELSE Cut(ask.min)
        /\ max = IF ask.max = None THEN x1 + DefaultTimeout ELSE Cut(ask.max)
        /\ ask.min \in Int \cup {None} /\ ask.max \in Int \cup {None}
    BY <1>3 DEF Envelopes!OpeningTime, Envelopes!ClosingTime, Envelopes!Resolves,
         Envelopes!Readable, Cut
  <2>3. x1 \in 1 .. LastTick
    BY DEF EnvInv, Envelopes!TypeOK
  <2>4. /\ min \in 0 .. MaxUnix /\ max \in 0 .. MaxUnix
        /\ max = 0 \/ ((min # 0 => max > min) /\ max > x1)
    BY <1>3 DEF Envelopes!Resolves, Envelopes!InRange
  <2>5. Envelopes!AnswersTell' /\ (x8' # None => x8'.status \in Statuses)
    <3>1. 200 \in Statuses
      BY DEF Statuses
    <3>2. QED
      BY <1>3, <3>1, OtherAnswer
  <2>6. TermsOK'
    BY <1>3 DEF TermsOK, EnvInv
  <2>7. Envelopes!Built(operation, memo, min, max, <<Distributor>>, ask)
    BY <1>3
  <2>8. UNCHANGED <<x1, x2, x6, x7>>
    BY <1>3
  <2> HIDE DEF min, max
  <2>9. max = 0 \/ (min < max /\ x1 < max)
    BY <2>3, <2>4
  <2>10. QED
    BY <2>1, <2>2, <2>4, <2>5, <2>6, <2>7, <2>8, <2>9, BuiltKeeps
<1>4. QED
  BY <1>1, <1>2, <1>3 DEF Envelopes!BuildSigned

LEMMA BuildMultiSigKeeps ==
  ASSUME EnvInv, NEW wellFormed \in BOOLEAN, NEW timeout \in {0, 1, DefaultTimeout},
         Envelopes!BuildMultiSigPayment(wellFormed, timeout)
  PROVE  EnvInv'
<1>1. CASE \E status \in Statuses : Envelopes!Refuse("multisig", status)
  BY <1>1, RefuseKeeps
<1> DEFINE signers == Envelopes!EligibleSigners
           ask == [min |-> None, max |-> 2 * (x1 + timeout)]
<1>2. CASE /\ Envelopes!Accepted(wellFormed, timeout)
           /\ Envelopes!Available(signers) >= x2.med
           /\ x5' = [requiredWeight |-> x2.med, signers |-> signers, weight |-> x2.weight,
                     availableWeight |-> Envelopes!Available(signers),
                     minimumSignatures |-> Envelopes!ReachThreshold(signers, x2.med).count]
           /\ Envelopes!Built(Envelopes!Payment, "absent", 0, x1 + timeout, <<>>, ask)
           /\ Envelopes!Answered("multisig", 200, None)
           /\ UNCHANGED <<x1, x2, x6, x7>>
  <2> DEFINE max == x1 + timeout
  <2>1. x3 = None /\ Envelopes!Payment \in Envelopes!BuiltHere
    BY DEF Envelopes!BuildMultiSigPayment, Envelopes!BuiltHere
  <2>2. x1 \in 1 .. LastTick
    BY DEF EnvInv, Envelopes!TypeOK
  <2>3. timeout \in Nat /\ timeout > 0 /\ timeout <= DefaultTimeout
    BY <1>2, EnvelopesAssumption DEF Envelopes!Accepted
  <2>4. /\ max \in 0 .. MaxUnix /\ 0 \in 0 .. MaxUnix /\ 0 < max /\ x1 < max /\ 2 * max # None
        /\ 2 * max \in Int
    BY <2>2, <2>3, EnvelopesAssumption
  <2>5. ask.min = None /\ ask.max = 2 * max /\ max = Cut(2 * max)
    <3> DEFINE twice == 2 * max
               half == Cut(twice)
    <3>1. half \in Int /\ 2 * half <= twice /\ twice <= 2 * half + 1
      BY <2>4, SecondsCut
    <3>2. max \in Int /\ twice = 2 * max
      BY <2>2, <2>3
    <3> HIDE DEF half, max, twice
    <3>3. max = half
      BY <3>1, <3>2
    <3>4. QED
      BY <3>3 DEF half, max, twice
  <2>6. Envelopes!AnswersTell' /\ (x8' # None => x8'.status \in Statuses)
    <3>1. 200 \in Statuses
      BY DEF Statuses
    <3>2. QED
      BY <1>2, <3>1, OtherAnswer
  <2>7. TermsOK'
    <3>1. LeastFor(signers, x2.weight, x2.med,
                   Envelopes!ReachThreshold(signers, x2.med).count)
      BY <1>2, MinimumIsLeast DEF EnvInv
    <3>2. /\ x5'.signers = signers /\ x5'.weight = x2.weight /\ x5'.requiredWeight = x2.med
          /\ x5'.minimumSignatures = Envelopes!ReachThreshold(signers, x2.med).count
      BY <1>2
    <3> HIDE DEF signers
    <3>3. QED
      BY <3>1, <3>2 DEF TermsOK
  <2>8. /\ Envelopes!Built(Envelopes!Payment, "absent", 0, max, <<>>, ask)
        /\ UNCHANGED <<x1, x2, x6, x7>>
    BY <1>2
  <2> HIDE DEF ask, max
  <2>9. QED
    BY <2>1, <2>5, <2>4, <2>6, <2>7, <2>8, BuiltKeeps
<1>3. QED
  BY <1>1, <1>2, Mapped DEF Envelopes!BuildMultiSigPayment, Statuses

(* Signing and wrapping change the signatures and the wrapper.             *)
LEMMA WrappingKeeps ==
  ASSUME EnvInv, x3 # None, NEW signatures \in Seq(Keys), NEW outer \in Seq(Keys),
         NEW bumped \in BOOLEAN,
         x3' = [x3 EXCEPT !.signatures = signatures, !.bumped = bumped, !.outer = outer],
         Envelopes!OnceIn(signatures), Envelopes!OnceIn(outer),
         Envelopes!AnswersTell', x8' # None => x8'.status \in Statuses,
         UNCHANGED <<x1, x2, x4, x5, x6, x7>>
  PROVE  EnvInv'
<1>1. x3 \in Envelopes!EnvelopeType
  BY DEF EnvInv, Envelopes!TypeOK
<1>2. /\ x3' \in Envelopes!EnvelopeType /\ x3'.min = x3.min /\ x3'.max = x3.max
      /\ x3'.operations = x3.operations /\ x3'.signatures = signatures /\ x3'.outer = outer
  BY <1>1 DEF Envelopes!EnvelopeType
<1>3. x3' # None
  BY <1>2, NoneApart
<1>4. Envelopes!TypeOK'
  BY <1>2, <1>3 DEF EnvInv, Envelopes!TypeOK, Statuses
<1>5. EnvelopeOK' /\ AppliedOK' /\ TermsOK'
  BY <1>2 DEF EnvInv, EnvelopeOK, MeetsAsk, AppliedOK, TermsOK
<1>6. Envelopes!SignedOnce'
  BY <1>2 DEF Envelopes!SignedOnce, Envelopes!OnceIn
<1>7. QED
  BY <1>4, <1>5, <1>6 DEF EnvInv

LEMMA OnceMore ==
  ASSUME NEW old \in Seq(Keys), NEW key \in Keys, Envelopes!OnceIn(old),
         key = Distributor => \A i \in DOMAIN old : old[i] # Distributor
  PROVE  Append(old, key) \in Seq(Keys) /\ Envelopes!OnceIn(Append(old, key))
<1> DEFINE new == Append(old, key)
<1>1. /\ new \in Seq(Keys) /\ DOMAIN new = 1 .. (Len(old) + 1) /\ DOMAIN old = 1 .. Len(old)
      /\ Len(old) \in Nat
      /\ \A i \in DOMAIN new : new[i] = IF i = Len(old) + 1 THEN key ELSE old[i]
  OBVIOUS
<1> HIDE DEF new
<1>2. \A i \in DOMAIN new : i = Len(old) + 1 \/ i \in DOMAIN old
  BY <1>1
<1>3. Envelopes!OnceIn(new)
  BY <1>1, <1>2 DEF Envelopes!OnceIn
<1>4. QED
  BY <1>1, <1>3 DEF new

LEMMA SignatureAdded ==
  ASSUME EnvInv, x3 # None, NEW key \in Keys, Envelopes!Sign(key),
         key = Distributor => ~ Envelopes!HasSignature(key),
         Envelopes!AnswersTell', x8' # None => x8'.status \in Statuses,
         UNCHANGED <<x1, x2, x4, x5, x6, x7>>
  PROVE  EnvInv'
<1> DEFINE inner == x3.signatures
           outer == x3.outer
<1>1. /\ x3 \in Envelopes!EnvelopeType /\ inner \in Seq(Keys) /\ outer \in Seq(Keys)
      /\ x3.bumped \in BOOLEAN /\ Envelopes!OnceIn(inner) /\ Envelopes!OnceIn(outer)
  BY DEF EnvInv, Envelopes!TypeOK, Envelopes!EnvelopeType, Envelopes!SignedOnce
<1>2. CASE x3.bumped
  <2>1. x3' = [x3 EXCEPT !.signatures = inner, !.bumped = x3.bumped, !.outer = Append(outer, key)]
    BY <1>1, <1>2 DEF Envelopes!Sign, Envelopes!EnvelopeType
  <2>2. key = Distributor => \A i \in DOMAIN outer : outer[i] # Distributor
    BY <1>2 DEF Envelopes!HasSignature, Envelopes!Signatures
  <2> HIDE DEF inner, outer
  <2>3. Append(outer, key) \in Seq(Keys) /\ Envelopes!OnceIn(Append(outer, key))
    BY <1>1, <2>2, OnceMore
  <2>4. QED
    BY <1>1, <2>1, <2>3, WrappingKeeps
<1>3. CASE ~ x3.bumped
  <2>1. x3' = [x3 EXCEPT !.signatures = Append(inner, key), !.bumped = x3.bumped, !.outer = outer]
    BY <1>1, <1>3 DEF Envelopes!Sign, Envelopes!EnvelopeType
  <2>2. key = Distributor => \A i \in DOMAIN inner : inner[i] # Distributor
    BY <1>3 DEF Envelopes!HasSignature, Envelopes!Signatures
  <2> HIDE DEF inner, outer
  <2>3. Append(inner, key) \in Seq(Keys) /\ Envelopes!OnceIn(Append(inner, key))
    BY <1>1, <2>2, OnceMore
  <2>4. QED
    BY <1>1, <2>1, <2>3, WrappingKeeps
<1>4. QED
  BY <1>2, <1>3

LEMMA ServerSignKeeps ==
  ASSUME EnvInv, NEW key \in Keys, NEW allowed \in {{}, {Distributor}},
         Envelopes!ServerSign(key, allowed)
  PROVE  EnvInv'
<1>1. x3 # None /\ UNCHANGED <<x1, x2, x4, x5, x6, x7>>
  BY DEF Envelopes!ServerSign
<1>2. PICK status \in {200, 403, 500} : Envelopes!Answered("sign", status, None)
  BY DEF Envelopes!ServerSign
<1>3. Envelopes!AnswersTell' /\ (x8' # None => x8'.status \in Statuses)
  <2>1. status \in Statuses
    BY DEF Statuses
  <2>2. QED
    BY <1>2, <2>1, OtherAnswer
<1>4. CASE UNCHANGED x3
  BY <1>1, <1>3, <1>4, AnswerOnly DEF EnvInv
<1>5. CASE ~ Envelopes!HasSignature(key) /\ Envelopes!Sign(key)
  BY <1>1, <1>3, <1>5, SignatureAdded
<1>6. QED
  BY <1>4, <1>5 DEF Envelopes!ServerSign

LEMMA WalletSignKeeps ==
  ASSUME EnvInv, NEW key \in Keys, Envelopes!WalletSign(key)
  PROVE  EnvInv'
<1>1. /\ x3 # None /\ key # Distributor /\ Envelopes!Sign(key) /\ x8' = None
      /\ UNCHANGED <<x1, x2, x4, x5, x6, x7>>
  BY DEF Envelopes!WalletSign
<1>2. QED
  BY <1>1, NoAnswerGiven, SignatureAdded

LEMMA FeeBumpKeeps ==
  ASSUME EnvInv, NEW sponsor \in Keys, Envelopes!FeeBump(sponsor)
  PROVE  EnvInv'
<1>1. /\ x3 # None /\ x3' = [x3 EXCEPT !.bumped = TRUE, !.outer = <<sponsor>>] /\ x8' = None
      /\ UNCHANGED <<x1, x2, x4, x5, x6, x7>>
  BY DEF Envelopes!FeeBump
<1>2. x3 \in Envelopes!EnvelopeType /\ x3.signatures \in Seq(Keys)
  BY <1>1 DEF EnvInv, Envelopes!TypeOK, Envelopes!EnvelopeType
<1>3. x3' = [x3 EXCEPT !.signatures = x3.signatures, !.bumped = TRUE, !.outer = <<sponsor>>]
  BY <1>1, <1>2 DEF Envelopes!EnvelopeType
<1>4. Envelopes!OnceIn(x3.signatures)
  BY <1>1 DEF EnvInv, Envelopes!SignedOnce
<1>5. <<sponsor>> \in Seq(Keys) /\ Envelopes!OnceIn(<<sponsor>>)
  <2>1. <<sponsor>> \in Seq(Keys) /\ DOMAIN <<sponsor>> = 1 .. 1
    OBVIOUS
  <2>2. QED
    BY <2>1 DEF Envelopes!OnceIn
<1>6. QED
  BY <1>1, <1>2, <1>3, <1>4, <1>5, NoAnswerGiven, WrappingKeeps

(* An envelope built elsewhere asked for nothing and bears no signature.   *)
LEMMA FoundKeeps ==
  ASSUME EnvInv, NEW operations \in Seq(Envelopes!BuiltHere \cup Envelopes!BuiltElsewhere),
         NEW max \in 0 .. MaxUnix, Envelopes!Found(operations, max)
  PROVE  EnvInv'
<1> DEFINE env == Envelopes!Envelope(x2.seq + 1, operations, "none", 0, max, <<>>)
<1>1. x3 = None /\ x3' = env /\ x8' = None /\ UNCHANGED <<x1, x2, x4, x5, x6, x7>>
  BY DEF Envelopes!Found
<1>2. x4 = None /\ x7 = None /\ x6 = FALSE
  BY <1>1 DEF EnvInv, Envelopes!TypeOK
<1>3. /\ env.min = 0 /\ env.signatures = <<>> /\ env.outer = <<>>
      /\ env \in Envelopes!EnvelopeType
  <2>1. x2.seq + 1 \in Nat \ {0} /\ 0 \in 0 .. MaxUnix
    BY EnvelopesAssumption DEF EnvInv, AccountType
  <2>2. QED
    BY <2>1 DEF Envelopes!Envelope, Envelopes!EnvelopeType
<1> HIDE DEF env
<1>4. Envelopes!TypeOK'
  <2>1. env # None
    BY <1>3, NoneApart
  <2>2. QED
    BY <1>1, <1>2, <1>3, <2>1 DEF EnvInv, Envelopes!TypeOK
<1>5. EnvelopeOK' /\ AppliedOK' /\ TermsOK'
  BY <1>1, <1>2, <1>3 DEF EnvInv, EnvelopeOK, AppliedOK, TermsOK
<1>6. Envelopes!SignedOnce'
  BY <1>1, <1>3 DEF Envelopes!SignedOnce, Envelopes!OnceIn
<1>7. QED
  BY <1>1, <1>4, <1>5, <1>6, NoAnswerGiven DEF EnvInv

(* The network applies an envelope within its window.                      *)
LEMMA ApplyKeeps ==
  ASSUME EnvInv, x3 # None, x7 = None,
         Envelopes!CheckTransaction(x3) \in {"tx_success", "tx_insufficient_balance"},
         Envelopes!Apply, UNCHANGED <<x1, x3, x4, x5, x6>>,
         Envelopes!AnswersTell', x8' # None => x8'.status \in Statuses
  PROVE  EnvInv'
<1>1. /\ x2' = [x2 EXCEPT !.seq = @ + 1] /\ x7' = [at |-> x1, effect |-> x2.holds]
  BY DEF Envelopes!Apply
<1>2. x2 \in AccountType /\ x1 \in 1 .. LastTick /\ x3 \in Envelopes!EnvelopeType
  BY DEF EnvInv, Envelopes!TypeOK
<1>3. x2' \in AccountType
  BY <1>1, <1>2 DEF AccountType
<1>4. x7' \in Envelopes!AppliedType /\ x7'.at = x1
  BY <1>1, <1>2, EnvelopesAssumption DEF Envelopes!AppliedType, AccountType
<1>5. x1 \in Int /\ x3.min \in Int /\ x3.max \in Int
  BY <1>2, EnvelopesAssumption DEF Envelopes!EnvelopeType
<1>6. ~ (x1 < x3.min) /\ ~ Envelopes!TooLate(x3)
  BY DEF Envelopes!CheckTransaction
<1>7. AppliedOK'
  BY <1>4, <1>5, <1>6 DEF AppliedOK, Envelopes!TooLate
<1>8. Envelopes!TypeOK'
  BY <1>4 DEF EnvInv, Envelopes!TypeOK, Statuses
<1>9. EnvelopeOK' /\ TermsOK' /\ Envelopes!SignedOnce'
  BY DEF EnvInv, EnvelopeOK, TermsOK, Envelopes!SignedOnce
<1>10. QED
  BY <1>3, <1>7, <1>8, <1>9 DEF EnvInv

LEMMA SubmitKeeps ==
  ASSUME EnvInv, NEW wrapped \in BOOLEAN, Envelopes!Submit(wrapped)
  PROVE  EnvInv'
<1>1. x3 # None /\ UNCHANGED <<x1, x3, x4, x5>>
  BY DEF Envelopes!Submit
<1>2. CASE Envelopes!Answered("submit", 502, None) /\ UNCHANGED <<x2, x6, x7>>
  <2>1. Envelopes!AnswersTell' /\ (x8' # None => x8'.status \in Statuses)
    BY <1>2 DEF Envelopes!Answered, Envelopes!AnswersTell, Statuses
  <2>2. QED
    BY <1>1, <1>2, <2>1, AnswerOnly DEF EnvInv
<1>3. CASE /\ x7 # None
           /\ IF x7.effect THEN Envelopes!Answered("submit", 200, None)
              ELSE Envelopes!Answered("submit", 422, "op_underfunded")
           /\ UNCHANGED <<x2, x6, x7>>
  <2>1. Envelopes!AnswersTell' /\ (x8' # None => x8'.status \in Statuses)
    BY <1>3 DEF Envelopes!Answered, Envelopes!AnswersTell, Statuses
  <2>2. QED
    BY <1>1, <1>3, <2>1, AnswerOnly DEF EnvInv
<1> DEFINE outcome == Envelopes!CheckTransaction(x3)
           mapped == Envelopes!Verdicts(outcome)
<1>4. CASE /\ x7 = None /\ Envelopes!Answered("submit", mapped.status, mapped.code)
           /\ IF outcome = "tx_success" THEN Envelopes!Apply ELSE UNCHANGED <<x2, x7>>
           /\ UNCHANGED x6
  <2>1. mapped.status \in {200, 402, 404, 422, 502}
    <3>1. [status |-> 200, code |-> None].status = 200
      OBVIOUS
    <3>2. QED
      BY <3>1, Mapped DEF Envelopes!Verdicts
  <2>2. CASE outcome = "tx_success"
    <3>1. Envelopes!Apply
      BY <1>4, <2>2
    <3>2. x7'.effect = x2.holds /\ x7' # None /\ x2.holds \in BOOLEAN
      <4>1. x2 \in AccountType /\ x1 \in Nat /\ x7' = [at |-> x1, effect |-> x2.holds]
        BY <3>1, EnvelopesAssumption DEF EnvInv, Envelopes!TypeOK, Envelopes!Apply
      <4>2. x7' \in Envelopes!AppliedType /\ x2.holds \in BOOLEAN
        BY <4>1 DEF Envelopes!AppliedType, AccountType
      <4>3. QED
        BY <4>1, <4>2, NoneApart
    <3>3. mapped.status = 200 <=> x2.holds
      <4>1. CASE x2.holds
        BY <2>2, <4>1 DEF Envelopes!Verdicts
      <4>2. CASE ~ x2.holds
        <5>1. mapped = Envelopes!MapHorizonError(Envelopes!Verdict(400, "tx_failed", <<"op_underfunded">>))
          BY <2>2, <4>2 DEF Envelopes!Verdicts
        <5>2. QED
          BY <4>2, <5>1, Mapped
      <4>3. QED
        BY <4>1, <4>2
    <3> HIDE DEF mapped
    <3>4. Envelopes!AnswersTell' /\ (x8' # None => x8'.status \in Statuses)
      BY <1>4, <2>1, <3>2, <3>3 DEF Envelopes!Answered, Envelopes!AnswersTell, Statuses
    <3>5. QED
      BY <1>1, <1>4, <2>2, <3>1, <3>4, ApplyKeeps
  <2>3. CASE outcome # "tx_success"
    <3>1. mapped.status # 200
      <4>1. mapped = Envelopes!MapHorizonError(Envelopes!Verdict(400, outcome, <<>>))
        BY <2>3 DEF Envelopes!Verdicts
      <4>2. QED
        BY <4>1, Mapped
    <3> HIDE DEF mapped
    <3>2. Envelopes!AnswersTell' /\ (x8' # None => x8'.status \in Statuses)
      BY <1>4, <2>1, <2>3, <3>1 DEF Envelopes!Answered, Envelopes!AnswersTell, Statuses
    <3>3. QED
      BY <1>1, <1>4, <2>3, <3>2, AnswerOnly DEF EnvInv
  <2>4. QED
    BY <2>2, <2>3
<1>5. CASE /\ x7 = None
           /\ Envelopes!Answered("submit", Envelopes!MapHorizonError(Envelopes!Unavailable).status, None)
           /\ x6' \in {x6, TRUE} /\ UNCHANGED <<x2, x7>>
  <2>1. Envelopes!MapHorizonError(Envelopes!Unavailable).status \in {402, 404, 422, 502}
    BY Mapped
  <2>2. Envelopes!AnswersTell' /\ (x8' # None => x8'.status \in Statuses)
    BY <1>5, <2>1 DEF Envelopes!Answered, Envelopes!AnswersTell, Statuses
  <2>3. x6' \in BOOLEAN
    <3>1. x6 \in BOOLEAN
      BY DEF EnvInv, Envelopes!TypeOK
    <3>2. x6' = x6 \/ x6' = TRUE
      BY <1>5, Zenon
    <3>3. CASE x6' = x6
      BY <3>1, <3>3
    <3>4. CASE x6' = TRUE
      BY <3>4, Zenon
    <3>5. QED
      BY <3>2, <3>3, <3>4
  <2>4. QED
    BY <1>1, <1>5, <2>2, <2>3 DEF EnvInv, EnvelopeOK, AppliedOK, TermsOK, Envelopes!TypeOK,
         Envelopes!SignedOnce, Statuses
<1>6. QED
  BY <1>2, <1>3, <1>4, <1>5 DEF Envelopes!Submit

LEMMA OthersKeep ==
  ASSUME EnvInv,
         \/ Envelopes!SubmitFeeBump \/ Envelopes!Lookup \/ Envelopes!AppliedLate
         \/ Envelopes!ChangeAccount \/ Envelopes!Tick
  PROVE  EnvInv'
<1>1. CASE Envelopes!SubmitFeeBump
  <2>1. PICK status \in {200, 422} : Envelopes!Answered("sponsored", status, None)
    BY <1>1 DEF Envelopes!SubmitFeeBump
  <2>2. status \in Statuses
    BY DEF Statuses
  <2>3. Envelopes!AnswersTell' /\ (x8' # None => x8'.status \in Statuses)
    BY <2>1, <2>2, OtherAnswer
  <2>4. QED
    BY <1>1, <2>3, ApplyKeeps DEF Envelopes!SubmitFeeBump
<1>2. CASE Envelopes!Lookup
  <2>1. PICK status \in {200, 402, 404, 422, 502} : Envelopes!Answered("lookup", status, None)
    BY <1>2, Mapped DEF Envelopes!Lookup
  <2>2. status \in Statuses
    BY DEF Statuses
  <2>3. Envelopes!AnswersTell' /\ (x8' # None => x8'.status \in Statuses)
    BY <2>1, <2>2, OtherAnswer
  <2>4. QED
    BY <1>2, <2>3, AnswerOnly DEF Envelopes!Lookup, EnvInv
<1>3. CASE Envelopes!AppliedLate
  <2>1. x3 # None /\ x7 = None /\ x8' = None
    BY <1>3 DEF Envelopes!AppliedLate, EnvInv, Envelopes!TypeOK
  <2>2. QED
    BY <1>3, <2>1, NoAnswerGiven, ApplyKeeps DEF Envelopes!AppliedLate
<1>4. CASE Envelopes!ChangeAccount
  <2>1. x2' \in AccountType
    <3>1. x2 \in AccountType /\ x2' \in Accounts \cup {[x2 EXCEPT !.seq = @ + 1]}
      BY <1>4 DEF EnvInv, Envelopes!ChangeAccount
    <3>2. [x2 EXCEPT !.seq = @ + 1] \in AccountType
      BY <3>1 DEF AccountType
    <3>3. QED
      BY <3>1, <3>2, EnvelopesAssumption DEF AccountType
  <2>2. QED
    BY <1>4, <2>1, NoAnswerGiven, AnswerOnly DEF Envelopes!ChangeAccount
<1>5. CASE Envelopes!Tick
  <2>1. x1' = x1 + 1 /\ x1 < LastTick /\ x8' = None /\ UNCHANGED <<x2, x3, x4, x5, x6, x7>>
    BY <1>5 DEF Envelopes!Tick
  <2>2. x1 \in 1 .. LastTick
    BY DEF EnvInv, Envelopes!TypeOK
  <2>3. x1' \in 1 .. LastTick /\ 1 .. x1 \subseteq 1 .. x1'
    BY <2>1, <2>2, EnvelopesAssumption
  <2>4. Envelopes!TypeOK'
    BY <2>1, <2>3 DEF EnvInv, Envelopes!TypeOK
  <2>5. EnvelopeOK' /\ AppliedOK' /\ TermsOK' /\ Envelopes!SignedOnce'
    BY <2>1, <2>3 DEF EnvInv, EnvelopeOK, AppliedOK, TermsOK, Envelopes!SignedOnce
  <2>6. QED
    BY <2>1, <2>4, <2>5, NoAnswerGiven DEF EnvInv
<1>6. QED
  BY <1>1, <1>2, <1>3, <1>4, <1>5

(* An envelope lives as long as was asked and is applied within that time, *)
(* is shown as what the network reads and judged as the network judges it, *)
(* carries the server's signature once, asks for no more signers than are  *)
(* needed, and the answers about it tell its fate: transactions.ts,        *)
(* timeBounds.ts, signing.ts, xdrValidation.ts, xdrDetails.ts.             *)
THEOREM EnvelopesHold == MCSpec => []EnvelopesSound
<1> DEFINE Inv == part = "Envelopes" => EnvInv
<1>1. MCInit => Inv
  BY EnvStarts DEF MCInit
<1>2. Inv /\ [MCNext]_<<part, vars, xs>> => Inv'
  <2> SUFFICES ASSUME Inv, [MCNext]_<<part, vars, xs>>, part' = "Envelopes"
               PROVE  EnvInv'
    OBVIOUS
  <2>1. part = "Envelopes" /\ EnvInv
    BY DEF MCNext
  <2>2. CASE Envelopes!Next
    <3>1. ASSUME NEW memo \in Envelopes!Memos, Envelopes!BuildUnsigned(memo) PROVE EnvInv'
      BY <2>1, <3>1, BuildUnsignedKeeps
    <3>2. ASSUME NEW memo \in {"absent", "tooLong"}, NEW ask \in Asks,
                 Envelopes!BuildSigned(Envelopes!Payment, memo, ask)
          PROVE  EnvInv'
      <4>1. /\ ask.min \in Int \cup {None, NotATime} /\ ask.max \in Int \cup {None, NotATime}
            /\ Envelopes!Payment \in Envelopes!BuiltHere
        BY EnvelopesAssumption DEF Envelopes!BuiltHere
      <4>2. QED
        BY <2>1, <3>2, <4>1, BuildSignedKeeps
    <3>3. ASSUME NEW operation \in {Envelopes!Creation, Envelopes!Untrust, Envelopes!Erasure},
                 Envelopes!BuildSigned(operation, "absent", Envelopes!Unbounded)
          PROVE  EnvInv'
      <4> DEFINE ask == Envelopes!Unbounded
      <4>1. /\ ask.min \in Int \cup {None, NotATime} /\ ask.max \in Int \cup {None, NotATime}
            /\ operation \in Envelopes!BuiltHere
        BY DEF Envelopes!BuiltHere, Envelopes!Unbounded
      <4> HIDE DEF ask
      <4>2. QED
        BY <2>1, <3>3, <4>1, BuildSignedKeeps DEF ask
    <3>4. ASSUME NEW wellFormed \in BOOLEAN, NEW timeout \in {0, 1, DefaultTimeout},
                 Envelopes!BuildMultiSigPayment(wellFormed, timeout)
          PROVE  EnvInv'
      BY <2>1, <3>4, BuildMultiSigKeeps
    <3>5. ASSUME NEW key \in Keys, NEW allowed \in {{}, {Distributor}},
                 Envelopes!ServerSign(key, allowed)
          PROVE  EnvInv'
      BY <2>1, <3>5, ServerSignKeeps
    <3>6. ASSUME NEW key \in Keys, Envelopes!WalletSign(key) PROVE EnvInv'
      BY <2>1, <3>6, WalletSignKeeps
    <3>7. ASSUME NEW wrapped \in BOOLEAN, Envelopes!Submit(wrapped) PROVE EnvInv'
      BY <2>1, <3>7, SubmitKeeps
    <3>8. ASSUME NEW sponsor \in Keys, Envelopes!FeeBump(sponsor) PROVE EnvInv'
      BY <2>1, <3>8, FeeBumpKeeps
    <3>9. ASSUME NEW operations \in {<<>>, <<Envelopes!Payment, Envelopes!Merge>>}
                                     \cup {<<op>> : op \in Envelopes!BuiltElsewhere},
                 NEW max \in 0 .. MaxUnix, Envelopes!Found(operations, max)
          PROVE  EnvInv'
      <4> DEFINE known == Envelopes!BuiltHere \cup Envelopes!BuiltElsewhere
      <4>1. Envelopes!Payment \in known /\ Envelopes!Merge \in known
        BY DEF Envelopes!BuiltHere, Envelopes!BuiltElsewhere
      <4>2. Envelopes!BuiltElsewhere \subseteq known
        OBVIOUS
      <4> HIDE DEF known
      <4>3. operations \in Seq(known)
        <5>1. CASE operations = <<>>
          <6>1. <<>> \in Seq(known)
            OBVIOUS
          <6>2. QED
            BY <5>1, <6>1
        <5>2. CASE operations = <<Envelopes!Payment, Envelopes!Merge>>
          <6>1. \A a, b \in known : <<a, b>> \in Seq(known)
            OBVIOUS
          <6>2. QED
            BY <4>1, <5>2, <6>1
        <5>3. CASE operations \in {<<op>> : op \in Envelopes!BuiltElsewhere}
          <6>1. PICK op \in Envelopes!BuiltElsewhere : operations = <<op>>
            BY <5>3
          <6>2. QED
            BY <4>2, <6>1
        <5>4. QED
          BY <5>1, <5>2, <5>3
      <4>4. QED
        BY <2>1, <3>9, <4>3, FoundKeeps DEF known
    <3>10. QED
      BY <2>1, <2>2, <3>1, <3>2, <3>3, <3>4, <3>5, <3>6, <3>7, <3>8, <3>9, OthersKeep
      DEF Envelopes!Next
  <2>3. CASE UNCHANGED <<part, vars, xs>>
    <3>1. UNCHANGED <<x1, x2, x3, x4, x5, x6, x7, x8>>
      BY <2>3 DEF xs
    <3>2. QED
      BY <2>1, <3>1 DEF EnvInv, EnvelopeOK, AppliedOK, TermsOK, Envelopes!TypeOK,
           Envelopes!SignedOnce, Envelopes!AnswersTell
  <2>4. QED
    BY <2>1, <2>2, <2>3 DEF MCNext
<1>3. Inv => EnvelopesSound
  BY EnvInvTells DEF EnvelopesSound, EnvInv
<1>4. QED
  BY <1>1, <1>2, <1>3, PTL DEF MCSpec
=============================================================================
