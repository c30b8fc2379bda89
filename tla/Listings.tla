------------------------------ MODULE Listings ------------------------------
(***************************************************************************)
(* The list endpoints of the API (api/routes/*.ts, api/utils/http.ts) and  *)
(* a client that walks through the pages of one of them                    *)
(* (hooks/usePagination.ts): a paged list is a COUNT and a SELECT with     *)
(* LIMIT and OFFSET, two statements between which other requests write.    *)
(***************************************************************************)
EXTENDS Integers, FiniteSets, SequencesExt

CONSTANTS
  Ids,
  Communities, Addresses, States,   \* what rows belong to and may be in
  Shapes,      \* the rows clients create, but for the times
  Limits,      \* the page sizes asked for, which may be out of range
  DefaultLimit, MaxLimit,
  First,       \* tables to begin with: functions from Ids to rows or None
  FirstTime, MaxTime,   \* each write takes a moment
  None

VARIABLES
  now,
  table,     \* the rows of the table that is listed
  open,      \* the communities that are not deleted
  walk       \* of the client

vars == <<now, table, open, walk>>

Names == {"communities", "search", "members", "transactions", "tokens", "loans",
          "loan events", "requests", "reputation", "history", "account loans",
          "community loans", "proposals", "loan", "address", "community"}

Rows == {table[i] : i \in Ids} \ {None}

(* What a client asks for; None where a filter is left out.                *)
Query == [name : Names, community : Communities, address : Addresses,
          state : States \cup {None}, by : {"made", "changed"}, newest : BOOLEAN,
          limit : Limits]

-----------------------------------------------------------------------------
(* The lists: which rows, in which order, in pages or not.                 *)
Listing(rows, by, newest, paged) ==
  [rows |-> rows, by |-> by, newest |-> newest, paged |-> paged]

Asked(filter, value) == filter \in {None, value}
Live == {r \in Rows : r.live}
Of(q) == {r \in Rows : r.community = q.community}
InState(rows, q) == {r \in rows : Asked(q.state, r.state)}

(* parseSort: a column that is not allowed is the default one, an order    *)
(* that is not "asc" is descending.                                        *)
Sorted(rows, q) == Listing(rows, q.by, q.newest, TRUE)

ListCommunities(q) == Sorted(InState(Live, q), q)
SearchCommunities(q) == Sorted({r \in Live : r.state = q.state}, q)
ListMembers(q) == Listing(InState(Of(q) \cap Live, q), "made", FALSE, TRUE)
ListTransactions(q) == Listing(InState(Of(q), q), "made", TRUE, TRUE)
ListTokens(q) == Sorted(Rows, q)
ListLoans(q) == Sorted(InState({r \in Of(q) : q.address \in {r.actor, r.other}}, q), q)
ListLoanEvents(q) == Listing(Of(q), "made", FALSE, TRUE)
ListRequests(q) == Listing(InState(Of(q), q), "made", TRUE, TRUE)
ListReputation(q) == Sorted(Of(q), q)
BalanceHistory(q) == Listing({r \in Rows : r.actor = q.address}, "made", TRUE, TRUE)
AccountLoans(q) == Listing({r \in Rows : q.address \in {r.actor, r.other}}, "made", TRUE, TRUE)
CommunityLoans(q) == Listing(Of(q), "made", TRUE, TRUE)
ListProposals(q) == Listing(InState(Of(q), q), "made", TRUE, FALSE)
LoanDetail(q) == Listing(Of(q), "made", FALSE, FALSE)
AddressReputation(q) == Listing({r \in Rows : r.actor = q.address}, "changed", TRUE, FALSE)
CommunityDetail(q) == Listing(Of(q), "made", TRUE, FALSE)

List(q) ==
  CASE q.name = "communities" -> ListCommunities(q)
    [] q.name = "search" -> SearchCommunities(q)
    [] q.name = "members" -> ListMembers(q)
    [] q.name = "transactions" -> ListTransactions(q)
    [] q.name = "tokens" -> ListTokens(q)
    [] q.name = "loans" -> ListLoans(q)
    [] q.name = "loan events" -> ListLoanEvents(q)
    [] q.name = "requests" -> ListRequests(q)
    [] q.name = "reputation" -> ListReputation(q)
    [] q.name = "history" -> BalanceHistory(q)
    [] q.name = "account loans" -> AccountLoans(q)
    [] q.name = "community loans" -> CommunityLoans(q)
    [] q.name = "proposals" -> ListProposals(q)
    [] q.name = "loan" -> LoanDetail(q)
    [] q.name = "address" -> AddressReputation(q)
    [] q.name = "community" -> CommunityDetail(q)

(* The lists that answer 404 for a community that does not exist.          *)
Guarded(q) == q.name \in {"transactions", "requests", "community"}

(* parsePagination.                                                        *)
Limit(q) ==
  IF q.limit <= 0 THEN DefaultLimit ELSE IF q.limit > MaxLimit THEN MaxLimit ELSE q.limit
Offset(q, page) == (page - 1) * Limit(q)

(* Faulty: a last page that is not full is not counted. *)
WholePages(count, limit) == count \div limit
(* pageMeta.                                                               *)
Pages(count, limit) == (count + limit - 1) \div limit

-----------------------------------------------------------------------------
Walk == [stage : {"idle", "counting", "selecting", "shown", "missing", "finished"},
         query : Query, page : Nat \ {0}, count : Nat, pages : Nat,
         start : SUBSET Ids, seen : SUBSET Ids, disturbed : BOOLEAN]

Stored == [id : Ids, made : Nat, changed : Nat, live : BOOLEAN,
           community : {s.community : s \in Shapes}, actor : {s.actor : s \in Shapes},
           other : {s.other : s \in Shapes}, state : States \cup {s.state : s \in Shapes}]

TypeOK ==
  /\ now \in FirstTime .. MaxTime
  /\ table \in [Ids -> Stored \cup {None}]
  /\ \A i \in Ids : table[i] # None => table[i].id = i /\ table[i].made <= now
  /\ open \in SUBSET Communities
  /\ walk \in Walk

Row(i, shape, made) ==
  [id |-> i, made |-> made, changed |-> made, live |-> TRUE, community |-> shape.community,
   actor |-> shape.actor, other |-> shape.other, state |-> shape.state]

Sortable == {"communities", "search", "tokens", "loans", "reputation"}
Filtered == {"communities", "search", "members", "transactions", "loans", "requests", "proposals"}

(* The parameters a list does not take are left out.                       *)
Takes(q) ==
  /\ q.name \in Sortable \/ (q.by = "made" /\ q.newest)
  /\ q.name \in Filtered \/ q.state = None
  /\ q.name = "search" => q.state # None

Init ==
  /\ now = FirstTime
  /\ table \in First
  /\ open = Communities
  /\ \E q \in {p \in Query : Takes(p)} :
       walk = [stage |-> "idle", query |-> q, page |-> 1, count |-> 0, pages |-> 0,
               start |-> {}, seen |-> {}, disturbed |-> FALSE]

Numbers(rows) == {r.id : r \in rows}
Listed == List(walk.query)

(* One row comes ahead of another; rows of one time come in any order.     *)
Ahead(listing, r, t) ==
  IF listing.newest THEN r[listing.by] > t[listing.by] ELSE r[listing.by] < t[listing.by]
Tied(listing) ==
  \E r, t \in listing.rows : r # t /\ r[listing.by] = t[listing.by]
Orders(listing) ==
  {s \in SetToSeqs(listing.rows) :
     \A i, j \in DOMAIN s : i < j => ~Ahead(listing, s[j], s[i])}

-----------------------------------------------------------------------------
(* The client.                                                             *)

Request ==
  /\ walk.stage = "idle"
  /\ walk' = [walk EXCEPT
       !.stage = IF Guarded(walk.query) /\ walk.query.community \notin open THEN "missing"
                 ELSE IF Listed.paged THEN "counting" ELSE "selecting",
       !.start = IF walk.page = 1 THEN Numbers(Listed.rows) ELSE @,
       !.disturbed = @ \/ Tied(Listed)]
  /\ UNCHANGED <<now, table, open>>

CountRows ==
  /\ walk.stage = "counting"
  /\ walk' = [walk EXCEPT !.stage = "selecting", !.count = Cardinality(Listed.rows)]
  /\ UNCHANGED <<now, table, open>>

Window(q, page, length) ==
  {i \in 1 .. length : Offset(q, page) < i /\ i <= Offset(q, page) + Limit(q)}

SelectRows ==
  /\ walk.stage = "selecting"
  /\ \E order \in Orders(Listed) :
       LET shown == IF Listed.paged THEN Window(walk.query, walk.page, Len(order))
                                    ELSE DOMAIN order
       IN walk' = [walk EXCEPT !.stage = "shown", !.seen = @ \cup {order[i].id : i \in shown},
            !.pages = IF Listed.paged THEN Pages(walk.count, Limit(walk.query)) ELSE 1]
  /\ UNCHANGED <<now, table, open>>

(* A statement fails and the request with it; the client asks again.       *)
RequestFails ==
  /\ walk.stage \in {"counting", "selecting"}
  /\ walk' = [walk EXCEPT !.stage = "idle"]
  /\ UNCHANGED <<now, table, open>>

(* usePagination: next is disabled on the last page the answer told of.    *)
NextPage ==
  /\ walk.stage = "shown"
  /\ walk' = IF walk.page < walk.pages
               THEN [walk EXCEPT !.page = @ + 1, !.stage = "idle"]
               ELSE [walk EXCEPT !.stage = "finished"]
  /\ UNCHANGED <<now, table, open>>

-----------------------------------------------------------------------------
(* The other requests. A walk is disturbed once a listed row leaves the    *)
(* list or moves in it, two rows share their place, or a row comes in      *)
(* ahead of others between the COUNT and the SELECT.                       *)
Disturbs(before, after) ==
  \/ \E r \in before.rows :
       \A t \in after.rows : t.id = r.id => t[before.by] # r[before.by]
  \/ Tied(after)
  \/ /\ walk.stage = "selecting"
     /\ \E t \in after.rows, r \in before.rows :
          t.id \notin Numbers(before.rows) /\ Ahead(before, t, r)

Write(i, row) ==
  /\ table' = [table EXCEPT ![i] = row]
  /\ \E q \in {walk.query} :
       walk' = [walk EXCEPT !.disturbed =
         @ \/ (walk.stage # "finished" /\ Disturbs(List(q), List(q)'))]
  /\ UNCHANGED open

Tick == now < MaxTime /\ now' = now + 1

Insert(i, shape) ==
  /\ table[i] = None /\ \A j \in Ids : j < i => table[j] # None
  /\ walk.stage # "finished" /\ Tick
  /\ Write(i, Row(i, shape, now'))

Update(i, state) ==
  /\ table[i] # None /\ walk.stage # "finished"
  /\ Tick
  /\ Write(i, [table[i] EXCEPT !.state = state, !.changed = now'])

Delete(i) ==
  /\ table[i] # None /\ table[i].live /\ walk.stage # "finished"
  /\ Tick
  /\ Write(i, [table[i] EXCEPT !.live = FALSE])

DeleteCommunity ==
  /\ Guarded(walk.query) /\ walk.stage = "idle"
  /\ \E c \in open : open' = open \ {c}
  /\ UNCHANGED <<now, table, walk>>

Next ==
  \/ Request \/ CountRows \/ SelectRows \/ RequestFails \/ NextPage
  \/ \E i \in Ids :
       \/ \E shape \in Shapes : Insert(i, shape)
       \/ \E state \in States : Update(i, state)
       \/ Delete(i)
  \/ DeleteCommunity

Spec == Init /\ [][Next]_vars

-----------------------------------------------------------------------------
(* A client that goes from page to page to the last one has seen every row *)
(* that was listed when it began, whatever is added on the way, unless the *)
(* walk was disturbed (http.ts: pageMeta, parsePagination and the          *)
(* COUNT, SELECT pairs of the routes).                                     *)
WalkComplete ==
  walk.stage = "finished" /\ ~walk.disturbed => walk.start \subseteq walk.seen
=============================================================================
