----------------------------- MODULE Proposals -----------------------------
(***************************************************************************)
(* The proposals of one community, its members' votes and delegations      *)
(* (backend/src/api/routes/proposals.ts, with the tables of migrations 017 *)
(* to 026).                                                                *)
(*                                                                         *)
(* A vote and a delegation are transactions that lock the proposal's row   *)
(* first and then query one table after another; membership is changed by  *)
(* other routes without that lock.  What a transaction writes is seen when *)
(* it commits, so the write and the commit are one action.  Titles,        *)
(* reasons, quorum, metadata and the notifications a trigger inserts for   *)
(* the members are left out; no code moves a proposal from the status      *)
(* 'active' it is created with.                                            *)
(***************************************************************************)
EXTENDS Naturals

CONSTANTS Ids,       \* proposal ids
          Addresses, \* Stellar addresses
          Choices,   \* the choices cast
          Requests,  \* bound: requests served at a time
          MaxTime,   \* bound: the clock
          None       \* no row, no request

ASSUME ChoicesAssumption == Choices \subseteq {"for", "against", "abstain"}
ASSUME NoneAssumption == None \notin Addresses \cup Ids \cup Choices
ASSUME TimeAssumption == MaxTime \in Nat

VARIABLES
  now,         \* the clock of the server and of the database
  members,     \* the active members of the community
  proposals,   \* voting_ends_at of each proposal
  votes,       \* the choice of each address on each proposal
  delegations, \* the delegatee of each address on each proposal
  requests     \* what each request is doing

vars == <<now, members, proposals, votes, delegations, requests>>
rows == <<proposals, votes, delegations>>

Time    == 0 .. MaxTime
Request == [op : {"create", "vote", "delegate"},
            stage : {"lock", "member", "votes", "chain", "write"},
            id : Ids, caller : Addresses, arg : Choices \cup Addresses \cup {None}]

Init ==
  /\ now = 0
  /\ members \in SUBSET Addresses
  /\ proposals = [p \in Ids |-> None]
  /\ votes = [p \in Ids |-> [a \in Addresses |-> None]]
  /\ delegations = [p \in Ids |-> [a \in Addresses |-> None]]
  /\ requests = [r \in Requests |-> None]

-----------------------------------------------------------------------------
(* Requests and their queries.                                             *)

At(op, stage, p, caller, arg) ==
  [op |-> op, stage |-> stage, id |-> p, caller |-> caller, arg |-> arg]

Begin(r, request) ==
  /\ requests[r] = None
  /\ requests' = [requests EXCEPT ![r] = request]
  /\ UNCHANGED <<now, members, rows>>

(* isActiveMember, in a query before the insertion's.                      *)
BeginCreate(r) ==
  \E p \in Ids, caller \in members : Begin(r, At("create", "write", p, caller, None))

BeginVote(r) ==
  \E p \in Ids, caller \in Addresses, choice \in Choices :
    Begin(r, At("vote", "lock", p, caller, choice))

(* Nobody delegates to itself.                                             *)
BeginDelegate(r) ==
  \E p \in Ids, caller, delegatee \in Addresses :
    caller # delegatee /\ Begin(r, At("delegate", "lock", p, caller, delegatee))

Is(r, stage) == requests[r] # None /\ requests[r].stage = stage

Answered(r) == requests' = [requests EXCEPT ![r] = None]

(* The next query, or the refusal that rolls the transaction back.         *)
Query(r, stage, passes, next) ==
  /\ Is(r, stage)
  /\ IF passes THEN requests' = [requests EXCEPT ![r] = At(@.op, next, @.id, @.caller, @.arg)]
               ELSE Answered(r)
  /\ UNCHANGED <<now, members, rows>>

(* Faulty: the row is read without FOR UPDATE.                             *)
LockFreeAlways(p, r) == TRUE

(* No other transaction holds the row of p.                                *)
LockFree(p, r) ==
  \A s \in Requests \ {r} :
    \/ requests[s] = None
    \/ requests[s] # None /\ \/ requests[s].id # p
                             \/ requests[s].op = "create"
                             \/ requests[s].stage = "lock"

(* SELECT .. FOR UPDATE, and the test of the voting window.                *)
LockProposal(r) ==
  /\ Is(r, "lock") /\ LockFree(requests[r].id, r)
  /\ LET p == requests[r].id IN
       Query(r, "lock", proposals[p] # None /\ proposals[p] >= now, "member")

CheckMember(r) ==
  LET q == requests[r] IN
    Is(r, "member")
    /\ IF q.op = "vote" THEN Query(r, "member", q.caller \in members, "write")
       ELSE Query(r, "member", q.caller \in members /\ q.arg \in members, "votes")

(* Faulty: only the delegator's own vote is looked up.                     *)
CheckOwnVote(r) ==
  LET q == requests[r] IN
    Is(r, "votes") /\ Query(r, "votes", votes[q.id][q.caller] = None, "chain")

(* Neither account has voted.                                              *)
CheckVotes(r) ==
  LET q == requests[r] IN
    Is(r, "votes")
    /\ Query(r, "votes", votes[q.id][q.caller] = None /\ votes[q.id][q.arg] = None, "chain")

(* Nobody delegates to the caller, and the delegatee delegates to nobody.  *)
CheckChain(r) ==
  LET q == requests[r] IN
    Is(r, "chain")
    /\ Query(r, "chain", /\ \A a \in Addresses : delegations[q.id][a] # q.caller
                         /\ delegations[q.id][q.arg] = None, "write")

-----------------------------------------------------------------------------
(* Writes.                                                                 *)

(* The window must not be over at the insertion.                           *)
CreateProposal(r) ==
  LET p == requests[r].id IN
    /\ Is(r, "write") /\ requests[r].op = "create" /\ proposals[p] = None
    /\ \E ends \in now + 1 .. MaxTime : proposals' = [proposals EXCEPT ![p] = ends]
    /\ Answered(r)
    /\ UNCHANGED <<now, members, votes, delegations>>

(* Refused by votes_unique_per_voter if the caller has voted.              *)
InsertVote(r) ==
  LET q == requests[r] IN
    /\ Is(r, "write") /\ q.op = "vote"
    /\ votes' = IF votes[q.id][q.caller] # None THEN votes
                ELSE [votes EXCEPT ![q.id][q.caller] = q.arg]
    /\ Answered(r)
    /\ UNCHANGED <<now, members, proposals, delegations>>

(* Inserted, or the caller's delegatee replaced.                           *)
SaveDelegation(r) ==
  LET q == requests[r] IN
    /\ Is(r, "write") /\ q.op = "delegate"
    /\ delegations' = [delegations EXCEPT ![q.id][q.caller] = q.arg]
    /\ Answered(r)
    /\ UNCHANGED <<now, members, proposals, votes>>

(* A query fails: the transaction is rolled back.                          *)
Fail(r) ==
  /\ requests[r] # None
  /\ Answered(r)
  /\ UNCHANGED <<now, members, rows>>

-----------------------------------------------------------------------------
(* The other routes change the membership, and time passes.                *)

ChangeMembers ==
  /\ members' \in SUBSET Addresses
  /\ UNCHANGED <<now, rows, requests>>

Tick ==
  /\ now < MaxTime
  /\ now' = now + 1
  /\ UNCHANGED <<members, rows, requests>>

Serve(r) ==
  \/ BeginCreate(r) \/ BeginVote(r) \/ BeginDelegate(r)
  \/ LockProposal(r) \/ CheckMember(r) \/ CheckVotes(r) \/ CheckChain(r)
  \/ CreateProposal(r) \/ InsertVote(r) \/ SaveDelegation(r) \/ Fail(r)

Next == (\E r \in Requests : Serve(r)) \/ ChangeMembers \/ Tick

Spec == Init /\ [][Next]_vars

-----------------------------------------------------------------------------
(* Properties.                                                             *)

TypeOK ==
  /\ now \in Time
  /\ members \in SUBSET Addresses
  /\ proposals \in [Ids -> Time \cup {None}]
  /\ votes \in [Ids -> [Addresses -> Choices \cup {None}]]
  /\ delegations \in [Ids -> [Addresses -> Addresses \cup {None}]]
  /\ requests \in [Requests -> Request \cup {None}]

(* Delegation stays one hop: whoever is delegated to delegates to nobody,  *)
(* whichever delegations of one proposal are requested at the same time    *)
(* (saveDelegation: the query for chains and the later insertion).         *)
OneHop ==
  \A p \in Ids, a, b \in Addresses :
    delegations[p][a] = b => delegations[p][b] = None

(* No delegation is stored once either account has voted, although votes   *)
(* are looked up two queries before it is, and no vote is changed after it *)
(* was cast (saveDelegation against POST /:id/votes).                      *)
DelegationsPrecedeVotes ==
  [][\A p \in Ids, a, b \in Addresses :
       /\ delegations[p][a] # b /\ delegations'[p][a] = b =>
            votes[p][a] = None /\ votes[p][b] = None
       /\ votes[p][a] # None => votes'[p][a] = votes[p][a]]_vars
=============================================================================
