---------------------------- MODULE MembersScreen ----------------------------
(***************************************************************************)
(* The page on which an administrator adds and removes members             *)
(* (MembersPage.tsx, useCommunityMembers.ts) with its confirmation dialog  *)
(* (ConfirmDialog.tsx, Modal.tsx), while other administrators do the same. *)
(* A member's name stands for the member's row and its Remove button.      *)
(***************************************************************************)
EXTENDS Naturals, FiniteSets

CONSTANTS
  People,
  MaxChanges,      \* how often others change the members
  None, Invalid    \* no text, and one that is no Stellar key

VARIABLES
  members,   \* of the community, on the server
  changes,   \* of others so far
  roster,    \* the rows shown: members, or None while they load
  fetches,   \* the requests for them under way, by what caused them
  latest,    \* the one whose answer counts
  form,      \* typed, what is being added, and what is reported
  removal,   \* what is pending, being deleted, and reported
  focus,     \* the element that has the focus
  dialog,    \* Modal: previousFocusRef, the timer of its effect, and (history)
             \* whether the row it is about stayed on the page
  gone       \* history: removed from here and not added since

vars == <<members, changes, roster, fetches, latest, form, removal, focus, dialog, gone>>

Causes == {"poll", "add", "remove"}
Unsent == [stage |-> "none", rows |-> {}]
Inside == {"cancel", "confirm", "close", "dialog"}
Elements == People \cup Inside \cup {"input", "body"}

Form == [typed : People \cup {None, Invalid}, adding : People \cup {None},
         stage : {"none", "posting", "refreshing"}, note : {"none", "field", "error", "success"}]
Removal == [pending : People \cup {None}, deleting : People \cup {None},
            stage : {"none", "deleting", "refreshing"}, failed : BOOLEAN]

TypeOK ==
  /\ members \subseteq People /\ gone \subseteq People
  /\ roster = None \/ roster \subseteq People
  /\ \A c \in Causes : fetches[c].stage \in {"none", "sent", "answered"}
                         /\ fetches[c].rows \subseteq People
  /\ latest \in Causes /\ form \in Form /\ removal \in Removal
  /\ focus \in Elements /\ dialog.before \in Elements \cup {None} /\ dialog.timer \in BOOLEAN /\ dialog.kept \in BOOLEAN

Init ==
  /\ members \in SUBSET People /\ changes = 0
  /\ roster = None
  /\ fetches = [c \in Causes |-> IF c = "poll" THEN [Unsent EXCEPT !.stage = "sent"] ELSE Unsent]
  /\ latest = "poll"
  /\ form = [typed |-> None, adding |-> None, stage |-> "none", note |-> "none"]
  /\ removal = [pending |-> None, deleting |-> None, stage |-> "none", failed |-> FALSE]
  /\ focus = "body"
  /\ dialog = [before |-> None, timer |-> FALSE, kept |-> TRUE]
  /\ gone = {}

IsOpen == removal.pending # None
Removing == removal.stage # "none"
Shows(rows) == IF rows = None THEN {} ELSE rows

-----------------------------------------------------------------------------
(* Modal.tsx. The page passes a new onCancel whenever it renders, so the   *)
(* effect runs again with every render of an open dialog: its cleanup      *)
(* restores the focus, and it takes it back a moment later.                *)

(* An element takes the focus if it is there and not disabled.             *)
Focusable(e, rows, removing) ==
  \/ e \in {"input", "body"}
  \/ e \in Shows(rows) /\ ~removing

(* What has the focus once the page is rendered anew: a row that went      *)
(* leaves it to the body, as does a button that is disabled, in time.      *)
Settled(rows, removing, open) ==
  {IF focus \in People \ Shows(rows) \/ (focus \in Inside /\ ~open) THEN "body" ELSE focus}
    \cup IF removing /\ focus \in People \cup {"cancel", "confirm"} THEN {"body"} ELSE {}

Restored(rows, removing, open) ==
  IF Focusable(dialog.before, rows, removing) THEN {dialog.before}
                                              ELSE Settled(rows, removing, open)

(* A ref to a row that left the page refers to nothing on it.              *)
Attached(e, rows) == IF e \in People \ Shows(rows) THEN None ELSE e

(* The page renders with these rows, removal and dialog.                   *)
Render(rows, removing, open) ==
  IF ~IsOpen /\ ~open
  THEN focus' \in Settled(rows, removing, open) /\ UNCHANGED dialog
  ELSE LET back == IF IsOpen THEN Restored(rows, removing, open)
                             ELSE Settled(rows, removing, open)
       IN \E e \in back :
            /\ focus' = e
            /\ dialog' = [before |-> IF open THEN Attached(e, rows) ELSE None, timer |-> open,
                          kept |-> open => dialog.kept /\ removal.pending \in Shows(rows)]

(* The timer: focus goes to Cancel, the safe button, or with the buttons   *)
(* disabled to the dialog itself.                                          *)
FocusDialog ==
  /\ dialog.timer
  /\ focus' = IF Removing THEN "dialog" ELSE "cancel"
  /\ dialog' = [dialog EXCEPT !.timer = FALSE]
  /\ UNCHANGED <<members, changes, roster, fetches, latest, form, removal, gone>>

(* Tab and Shift+Tab stay in the dialog.                                   *)
Tab ==
  /\ IF IsOpen
     THEN focus' \in IF Removing THEN {"close"} ELSE {"cancel", "confirm", "close"}
     ELSE focus' \in {"input"} \cup IF Removing THEN {} ELSE Shows(roster)
  /\ UNCHANGED <<members, changes, roster, fetches, latest, form, removal, dialog, gone>>

-----------------------------------------------------------------------------
(* useSWR: of several requests only the latest counts, and a mutation      *)
(* clears the rows and starts one of its own.                              *)
Sent(cause) == [fetches EXCEPT ![cause] = [Unsent EXCEPT !.stage = "sent"]]

Poll ==
  /\ fetches["poll"].stage = "none"
  /\ fetches' = Sent("poll") /\ latest' = "poll"
  /\ UNCHANGED <<members, changes, roster, form, removal, focus, dialog, gone>>

ServerAnswers(c) ==
  /\ fetches[c].stage = "sent"
  /\ fetches' = [fetches EXCEPT ![c] = [stage |-> "answered", rows |-> members]]
  /\ UNCHANGED <<members, changes, roster, latest, form, removal, focus, dialog, gone>>

(* Who waits for the request goes on, and the page renders anyway.         *)
Finish(c) ==
  /\ fetches' = [fetches EXCEPT ![c] = Unsent]
  /\ form' = IF c = "add"
               THEN [form EXCEPT !.typed = None, !.adding = None, !.stage = "none", !.note = "success"]
               ELSE form
  /\ removal' = IF c = "remove"
                  THEN [removal EXCEPT !.pending = None, !.deleting = None, !.stage = "none"]
                  ELSE removal
  /\ UNCHANGED <<members, changes, latest, gone>>

Renders(rows) == Render(rows, removal'.stage # "none", removal'.pending # None)

Receive(c) ==
  /\ fetches[c].stage = "answered"
  /\ roster' = IF c = latest THEN fetches[c].rows ELSE roster
  /\ Finish(c) /\ Renders(roster')

FetchFails(c) ==
  /\ fetches[c].stage # "none"
  /\ Finish(c) /\ Renders(roster)
  /\ UNCHANGED roster

RevalidateMembers(cause) ==
  /\ roster' = None
  /\ fetches' = Sent(cause) /\ latest' = cause

-----------------------------------------------------------------------------
(* Adding.                                                                 *)

Type(text) ==
  /\ ~IsOpen /\ text # form.typed
  /\ form' = [form EXCEPT !.typed = text, !.note = IF @ \in {"field", "success"} THEN "none" ELSE @]
  /\ focus' = "input"
  /\ UNCHANGED <<members, changes, roster, fetches, latest, removal, dialog, gone>>

HandleAdd ==
  /\ ~IsOpen /\ form.stage = "none"
  /\ form' = IF form.typed \in People
               THEN [form EXCEPT !.adding = form.typed, !.stage = "posting", !.note = "none"]
               ELSE [form EXCEPT !.note = "field"]
  /\ UNCHANGED <<members, changes, roster, fetches, latest, removal, focus, dialog, gone>>

MemberAdded ==
  /\ form.stage = "posting"
  /\ members' = members \cup {form.adding}
  /\ gone' = gone \ {form.adding}
  /\ form' = [form EXCEPT !.stage = "refreshing"]
  /\ RevalidateMembers("add") /\ Render(roster', Removing, IsOpen)
  /\ UNCHANGED <<changes, removal>>

AddFails ==
  /\ form.stage = "posting"
  /\ form' = [form EXCEPT !.adding = None, !.stage = "none", !.note = "error"]
  /\ Render(roster, Removing, IsOpen)
  /\ UNCHANGED <<members, changes, roster, fetches, latest, removal, gone>>

-----------------------------------------------------------------------------
(* Removing.                                                               *)

AskToRemove(m) ==
  /\ ~IsOpen /\ ~Removing /\ m \in Shows(roster)
  /\ removal' = [removal EXCEPT !.pending = m]
  /\ focus' = m
  /\ dialog' = [before |-> m, timer |-> TRUE, kept |-> TRUE]
  /\ UNCHANGED <<members, changes, roster, fetches, latest, form, gone>>

(* Escape, the backdrop, the close button, and Cancel unless disabled: the *)
(* dialog closes, though a removal may be under way.                       *)
Cancel ==
  /\ IsOpen
  /\ removal' = [removal EXCEPT !.pending = None]
  /\ Render(roster, Removing, FALSE)
  /\ UNCHANGED <<members, changes, roster, fetches, latest, form, gone>>

HandleConfirm ==
  /\ IsOpen /\ ~Removing
  /\ removal' = [removal EXCEPT !.deleting = removal.pending, !.stage = "deleting", !.failed = FALSE]
  /\ \E f \in {"confirm", focus} : focus' \in {f, "body"}
  /\ dialog' = [dialog EXCEPT !.before = focus', !.timer = TRUE]
  /\ UNCHANGED <<members, changes, roster, fetches, latest, form, gone>>

MemberRemoved ==
  /\ removal.stage = "deleting"
  /\ members' = members \ {removal.deleting}
  /\ gone' = gone \cup {removal.deleting}
  /\ removal' = [removal EXCEPT !.stage = "refreshing"]
  /\ RevalidateMembers("remove") /\ Render(roster', TRUE, IsOpen)
  /\ UNCHANGED <<changes, form>>

RemoveFails ==
  /\ removal.stage = "deleting"
  /\ removal' = [pending |-> None, deleting |-> None, stage |-> "none", failed |-> TRUE]
  /\ Render(roster, FALSE, FALSE)
  /\ UNCHANGED <<members, changes, roster, fetches, latest, form, gone>>

-----------------------------------------------------------------------------
OthersChange ==
  /\ changes < MaxChanges
  /\ \E m \in People :
       /\ members' = IF m \in members THEN members \ {m} ELSE members \cup {m}
       /\ gone' = gone \ {m}
  /\ changes' = changes + 1
  /\ UNCHANGED <<roster, fetches, latest, form, removal, focus, dialog>>

Next ==
  \/ FocusDialog \/ Tab \/ Poll
  \/ \E c \in Causes : ServerAnswers(c) \/ Receive(c) \/ FetchFails(c)
  \/ \E text \in People \cup {Invalid} : Type(text)
  \/ HandleAdd \/ MemberAdded \/ AddFails
  \/ \E m \in People : AskToRemove(m)
  \/ Cancel \/ HandleConfirm \/ MemberRemoved \/ RemoveFails
  \/ OthersChange

Spec == Init /\ [][Next]_vars

-----------------------------------------------------------------------------
(* Whatever polls are under way when a removal goes through, the page does *)
(* not show the member again (useRemoveMember: DELETE, then revalidate).   *)
RemovedStaysGone == gone \cap Shows(roster) = {}

(* However often the page renders while the dialog is open, cancelling it  *)
(* before anything was removed puts the focus back on the button that      *)
(* opened it, if that row has been on the page all the time (Modal.tsx:    *)
(* previousFocusRef).                                                      *)
FocusReturns ==
  IsOpen /\ dialog.kept /\ ~Removing /\ removal'.pending = None =>
    focus' = removal.pending
=============================================================================
