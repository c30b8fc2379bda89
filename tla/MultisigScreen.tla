--------------------------- MODULE MultisigScreen ---------------------------
(***************************************************************************)
(* The page of a multi-signature request (frontend/src/components/         *)
(* multisig/MultiSigProposalDetail.tsx, hooks/useMultiSig.ts) in front of  *)
(* the routes of Multisig: a member presses on what the page shows, which  *)
(* is the row as it was last fetched, while other members change it.       *)
(*                                                                         *)
(* The server sends no signers with a request, so the page cannot tell     *)
(* that its member has approved already (userHasSigned is never true).     *)
(***************************************************************************)
EXTENDS Integers, Sequences

CONSTANTS Request,      \* the request on the page
          Mine,         \* slots for the calls of the page
          Theirs,       \* slots for those of other members
          TxHashes,     \* the hashes typed
          None,         \* absent
          Thresholds,   \* what the request may require
          MaxApprovals, \* bound: approvals of the request
          MaxPresses    \* bound: buttons pressed

VARIABLES
  rows, calls, approvals, rejected, \* the server: see Multisig
  view,    \* data: the row last fetched, and the presses it tells of
  fetch,   \* what the fetch under way will answer
  forms,   \* showRejectForm, showExecuteForm
  press,   \* the handler in progress: its number, its call and its stage
  ends,    \* history: how every press ended
  stored,  \* history: the presses whose UPDATE succeeded while they waited
  reached  \* history: the request has been approved

serverVars == <<rows, calls, approvals, rejected>>
screenVars == <<view, fetch, forms, press, ends>>
vars == <<serverVars, screenVars, stored, reached>>

Server == INSTANCE Multisig WITH Requests <- {Request}, Calls <- Mine \cup Theirs

Snapshot == [row |-> rows[Request], stored |-> stored]
NoPress  == [no |-> 0, op |-> None, call |-> None, stage |-> "none"]

Init ==
  /\ Server!Init
  /\ view = None /\ fetch = None /\ forms = {}
  /\ press = NoPress /\ ends = <<>> /\ stored = {} /\ reached = FALSE

Reaches == reached' = (reached \/ rows'[Request].status = "approved")

-----------------------------------------------------------------------------
(* The page: useSWR, which fetches every 15 s and one fetch at a time.     *)

Fetch ==
  /\ fetch = None /\ press.stage # "refetching"
  /\ fetch' = Snapshot
  /\ UNCHANGED <<serverVars, view, forms, press, ends, stored, reached>>

(* A failed fetch leaves the rows that were shown.                         *)
Fetched ==
  /\ fetch # None /\ press.stage # "refetching"
  /\ fetch' = None /\ view' \in {fetch, view}
  /\ UNCHANGED <<serverVars, forms, press, ends, stored, reached>>

(* The toolbar shows while no form is open, with the buttons of the status *)
(* on the page.                                                            *)
Offered(op, status) ==
  IF op = "execute" THEN status = "approved" ELSE status = "pending"

(* MultiSigProposalList: the card of a pending request.                    *)
ListOffers(op, row) ==
  /\ row.status = "pending"
  /\ op = "execute" => row.current >= row.required
  /\ op = "approve" => row.current < row.required

ShowForm(op) ==
  /\ forms = {} /\ view # None /\ Offered(op, view.row.status)
  /\ press.stage = "none"
  /\ forms' = {op}
  /\ UNCHANGED <<serverVars, view, fetch, press, ends, stored, reached>>

(* Cancel stays enabled while the handler runs.                            *)
Cancel ==
  /\ forms # {}
  /\ forms' = {}
  /\ UNCHANGED <<serverVars, view, fetch, press, ends, stored, reached>>

(* handleApprove from the toolbar; handleRejectSubmit, handleExecuteSubmit *)
(* from a form, whatever the status has become under it.                   *)
Press(op) ==
  /\ press.stage = "none"
  /\ Len(ends) < MaxPresses
  /\ IF op = "approve"
     THEN forms = {} /\ view # None /\ Offered(op, view.row.status)
     ELSE op \in forms
  /\ \E call \in Mine :
       /\ calls[call] = Server!Idle
       /\ press' = [no |-> Len(ends) + 1, op |-> op, call |-> call, stage |-> "sent"]
  /\ ends' = Append(ends, "open")
  /\ UNCHANGED <<serverVars, view, fetch, forms, stored, reached>>

(* setLoading(false), with an error or without.                            *)
End(how) ==
  /\ press' = NoPress
  /\ ends' = [ends EXCEPT ![press.no] = how]

(* requestRaw gives up, or the answer cannot be read.                      *)
GiveUp ==
  /\ press.stage \in {"sent", "serving", "answered"}
  /\ End("lost")
  /\ UNCHANGED <<serverVars, view, fetch, forms, stored, reached>>

(* Faulty: mutate joins the fetch that is under way.                       *)
JoinFetch == IF fetch # None THEN fetch ELSE Snapshot

(* mutate: the fetch under way is discarded and another one starts.        *)
Refetch == Snapshot

Answered ==
  /\ press.stage = "answered"
  /\ fetch' = Refetch
  /\ press' = [press EXCEPT !.stage = "refetching"]
  /\ UNCHANGED <<serverVars, view, forms, ends, stored, reached>>

(* The form is closed once the rows are there, or could not be fetched.    *)
Finish ==
  /\ press.stage = "refetching"
  /\ \/ fetch # None /\ view' = fetch /\ fetch' = None /\ End("done")
     \/ fetch # None /\ UNCHANGED view /\ fetch' = None /\ End("unseen")
  /\ forms' = forms \ {press.op}
  /\ UNCHANGED <<serverVars, stored, reached>>

-----------------------------------------------------------------------------
(* The routes.                                                             *)

(* The SELECT of the page's call: 400 if the status no longer admits it.   *)
Begin ==
  /\ press.stage = "sent"
  /\ \/ /\ \E hash \in IF press.op = "execute" THEN TxHashes ELSE {None} :
             Server!ReadRow(press.call, press.op, Request, hash)
        /\ press' = [press EXCEPT !.stage = "serving"]
        /\ UNCHANGED ends
     \/ /\ ~ Server!Admits(press.op, rows[Request].status)
        /\ End("refused")
        /\ UNCHANGED serverVars
  /\ UNCHANGED <<view, fetch, forms, stored, reached>>

(* The UPDATE of a call, whether the page still waits for it or not.       *)
Update(call) == Server!Approve(call) \/ Server!Reject(call) \/ Server!Execute(call)

UpdateMine(call) ==
  /\ Update(call) /\ Reaches
  /\ IF press.call = call
     THEN stored' = stored \cup {press.no} /\ press' = [press EXCEPT !.stage = "answered"]
     ELSE UNCHANGED <<stored, press>>
  /\ UNCHANGED <<view, fetch, forms, ends>>

(* Another member, whose page offers what it offers here.                  *)
Other(call) ==
  /\ \/ \E op \in {"approve", "reject"} : Server!ReadRow(call, op, Request, None)
     \/ reached /\ \E hash \in TxHashes : Server!ReadRow(call, "execute", Request, hash)
     \/ Update(call)
  /\ Reaches
  /\ UNCHANGED <<screenVars, stored>>

Create ==
  /\ \E n \in Thresholds : Server!CreateRequest(Request, n)
  /\ UNCHANGED <<screenVars, stored, reached>>

(* A refused UPDATE ends the process and every call it was serving.        *)
Crash ==
  /\ \E call \in Mine \cup Theirs : Server!Refused(call)
  /\ IF press.stage = "serving" THEN End("lost") ELSE UNCHANGED <<press, ends>>
  /\ UNCHANGED <<view, fetch, forms, stored, reached>>

Next ==
  \/ Fetch \/ Fetched \/ Cancel \/ GiveUp \/ Answered \/ Finish \/ Begin \/ Create \/ Crash
  \/ \E op \in {"reject", "execute"} : ShowForm(op)
  \/ \E op \in {"approve", "reject", "execute"} : Press(op)
  \/ \E call \in Mine : UpdateMine(call)
  \/ \E call \in Theirs : Other(call)

Spec == Init /\ [][Next]_vars

-----------------------------------------------------------------------------
(* The shape of the state.                                                 *)
TypeOK ==
  /\ forms \subseteq {"reject", "execute"}
  /\ press.stage \in {"none", "sent", "serving", "answered", "refetching"}
  /\ stored \subseteq DOMAIN ends

(* MultiSigProposalDetail.tsx: the two forms never show together, whatever *)
(* the status becomes while one is open.                                   *)
OneForm == \A f, g \in forms : f = g

(* useMultiSig.ts: when the form of a press has closed, the page shows the *)
(* request as that press left it or later, never as an older fetch saw it. *)
SeenWhenDone ==
  \A n \in DOMAIN ends : ends[n] = "done" => n \in view.stored

(* multisig.ts accepts an execution of a pending request; behind the page  *)
(* only one that had reached its threshold is executed, even where an      *)
(* overlapping approval has put it back to pending since.                  *)
ExecutedWasApproved == rows[Request].status = "executed" => reached

(* MultiSigProposalList.tsx: a request it lists as pending still needs a   *)
(* signature and offers it; Execute it offers for none, as an approved     *)
(* request is in no tab.                                                   *)
ListOffersSigning ==
  view # None =>
    /\ view.row.status = "pending" => ListOffers("approve", view.row)
    /\ ~ ListOffers("execute", view.row)

ScreenSound ==
  /\ TypeOK /\ OneForm /\ SeenWhenDone
  /\ ExecutedWasApproved /\ ListOffersSigning
=============================================================================
