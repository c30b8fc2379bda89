----------------------------- MODULE MemberList -----------------------------
(***************************************************************************)
(* The paged list of a community's members (frontend MemberList.tsx): its  *)
(* page, what it has fetched, and the effects React runs after a render.   *)
(*                                                                         *)
(* A query stands for a community, a page size and a role; the page of a   *)
(* query that was fetched stands for its rows.  An event makes the list    *)
(* stale, Render then computes the page and runs the effects whose inputs  *)
(* changed, and renders again as long as they change the state.  A fetch   *)
(* is answered by Answer or Failure at any later time.                     *)
(***************************************************************************)
EXTENDS Integers, FiniteSets

CONSTANTS Queries, None,
          Pages,       \* how many pages each query has
          MaxRetries   \* bound on the uses of "Try again"

VARIABLES props,   \* what the parent passes
          state,   \* the list's own state
          ran,     \* what the fetching effect last ran for
          previous, \* previousQuery
          fetches, \* the requests in flight
          stale,   \* a render is due
          asked    \* history: the page last asked for

vars == <<props, state, ran, previous, fetches, stale, asked>>

(* Props: `local` when the rows are passed in, `given` when totalPages is, *)
(* and the page when the parent controls it.                               *)
Props == [local: BOOLEAN, given: BOOLEAN, page: Nat \union {None}, query: Queries]
Controlled == props.page # None

Init ==
  /\ \E l, g \in BOOLEAN, q \in Queries : \E p \in {None} \union 1..Pages[q] :
       /\ props = [local |-> l, given |-> g, page |-> p, query |-> q]
       /\ previous = q
       /\ asked = IF p = None THEN 1 ELSE p
  /\ state = [own |-> 1, pages |-> 0, rows |-> None, loading |-> ~props.local,
              failed |-> FALSE, retries |-> 0]
  /\ ran = None /\ fetches = {} /\ stale = TRUE

-----------------------------------------------------------------------------
Least(a, b)   == IF a < b THEN a ELSE b
Greatest(a, b) == IF a < b THEN b ELSE a

(* The total the list knows: the prop, the length of the rows passed in,   *)
(* or the pages of the last answer, which state.pages = 0 lacks.           *)
TotalPages ==
  Greatest(1, IF props.given \/ props.local THEN Pages[props.query] ELSE state.pages)

QueryChanged == previous # props.query

ActivePage ==
  Least(IF Controlled THEN props.page ELSE IF QueryChanged THEN 1 ELSE state.own,
        TotalPages)

(* The page the second effect leaves: within the total, and the first for  *)
(* a new query.                                                            *)
OwnAfter ==
  IF Controlled THEN state.own
  ELSE IF state.own > TotalPages THEN TotalPages
  ELSE IF QueryChanged THEN 1 ELSE state.own

Inputs == [page |-> ActivePage, query |-> props.query, retries |-> state.retries]

(* The fetching effect: the previous run is cancelled, what it knew of the *)
(* total is forgotten, and a new request is sent.                          *)
Fetching == [state EXCEPT !.own = OwnAfter, !.loading = TRUE, !.failed = FALSE, !.pages = 0]

(* Faulty: an effect that runs again does not cancel the earlier request.  *)
LeaveRunning == fetches
CancelAll == {[f EXCEPT !.cancelled = TRUE] : f \in fetches}

Render ==
  /\ stale
  /\ previous' = props.query
  /\ IF props.local \/ ran = Inputs
     THEN /\ state' = [state EXCEPT !.own = OwnAfter]
          /\ UNCHANGED <<ran, fetches>>
     ELSE /\ state' = Fetching
          /\ ran' = Inputs
          /\ fetches' = CancelAll \union
               {[page |-> ActivePage, query |-> props.query, cancelled |-> FALSE]}
  /\ stale' = (state' # state)
  /\ UNCHANGED <<props, asked>>

-----------------------------------------------------------------------------
(* Events.                                                                 *)

(* The rows, and with them the pagination, are on the screen. *)
Shown == ~stale /\ ~state.loading /\ ~state.failed

Clamped(target) == Least(Greatest(1, target), TotalPages)

(* A click on a page number, on Prev or on Next; a parent that controls    *)
(* the page follows onPageChange.                                          *)
ChangePage(target) ==
  /\ Shown
  /\ asked' = Clamped(target)
  /\ IF Controlled
     THEN props' = [props EXCEPT !.page = Clamped(target)] /\ UNCHANGED state
     ELSE state' = [state EXCEPT !.own = Clamped(target)] /\ UNCHANGED props
  /\ stale' = TRUE
  /\ UNCHANGED <<ran, previous, fetches>>

(* The parent shows another community or role; if it controls the page it  *)
(* starts over.                                                            *)
ChangeQuery(q) ==
  /\ ~QueryChanged /\ q # props.query
  /\ props' = [props EXCEPT !.query = q, !.page = IF Controlled THEN 1 ELSE None]
  /\ asked' = 1
  /\ stale' = TRUE
  /\ UNCHANGED <<state, ran, previous, fetches>>

TryAgain ==
  /\ ~stale /\ state.failed /\ state.retries < MaxRetries
  /\ state' = [state EXCEPT !.retries = @ + 1]
  /\ stale' = TRUE
  /\ UNCHANGED <<props, ran, previous, fetches, asked>>

Answer(f) ==
  /\ fetches' = fetches \ {f}
  /\ IF f.cancelled
     THEN UNCHANGED <<state, stale>>
     ELSE /\ state' = [state EXCEPT !.rows = [page |-> f.page, query |-> f.query],
                         !.pages = Pages[f.query], !.failed = FALSE, !.loading = FALSE]
          /\ stale' = TRUE
  /\ UNCHANGED <<props, ran, previous, asked>>

Failure(f) ==
  /\ fetches' = fetches \ {f}
  /\ IF f.cancelled
     THEN UNCHANGED <<state, stale>>
     ELSE /\ state' = [state EXCEPT !.failed = TRUE, !.loading = FALSE]
          /\ stale' = TRUE
  /\ UNCHANGED <<props, ran, previous, asked>>

Next ==
  \/ Render
  \/ \E target \in 0..TotalPages + 1 : ChangePage(target)
  \/ \E q \in Queries : ChangeQuery(q)
  \/ TryAgain
  \/ \E f \in fetches : Answer(f) \/ Failure(f)

Spec == Init /\ [][Next]_vars

-----------------------------------------------------------------------------
TypeOK ==
  /\ props \in Props
  /\ state.own \in Nat \ {0} /\ state.pages \in Nat /\ state.retries \in 0..MaxRetries
  /\ state.loading \in BOOLEAN /\ state.failed \in BOOLEAN
  /\ previous \in Queries /\ stale \in BOOLEAN /\ asked \in Nat \ {0}
  /\ \A f \in fetches : f.page \in Nat \ {0} /\ f.query \in Queries /\ f.cancelled \in BOOLEAN

(* Whatever order the answers come in, the rows on the screen are those of *)
(* the page and the query on the screen (MemberList.tsx: `cancelled`).     *)
RowsOfThisPage ==
  Shown /\ ~props.local => state.rows = [page |-> ActivePage, query |-> props.query]

(* Where the total is known without an answer, the list comes to rest on   *)
(* the page that was asked for, which exists. Only for a new query it may  *)
(* not be the first page: of the two effects that set the page the second  *)
(* wins, and a list that was further on stays on the new last page.        *)
PageKept ==
  Shown /\ (props.given \/ props.local) =>
    /\ asked <= Pages[props.query]
    /\ ActivePage # asked =>
         ~Controlled /\ asked = 1 /\ ActivePage = Pages[props.query]

(* "Self-fetching: pass communityId (and no members) to let the component  *)
(* fetch pages directly from the API": the same in that mode.              *)
AskedPageShown == Shown /\ ~props.given /\ ~props.local => ActivePage = asked
=============================================================================
