--------------------------- MODULE MCSubmissions ---------------------------
(* Instances of Submissions, with two queued calls, one path that loads the *)
(* account itself and one transaction of another party, and of Lifecycle,  *)
(* checked one beside the other: the components share nothing.             *)
EXTENDS Submissions, TLC

VARIABLES
  part, \* the component this behaviour is of
  x1, x2, x3, x4, x5 \* its state

xs == <<x1, x2, x3, x4, x5>>

Lifecycle == INSTANCE Lifecycle WITH
  Requests <- {1, 2, 3}, stage <- x1, exitCode <- x2, timer <- x3,
  pool <- x4, requests <- x5

(* One component moves; the others wait in their initial state.            *)
MCInit ==
  /\ Init
  /\ \/ /\ part = "Submissions"
        /\ x1 = None /\ x2 = None /\ x3 = None /\ x4 = None /\ x5 = None
     \/ /\ part = "Lifecycle" /\ Lifecycle!Init

MCNext ==
  \/ part = "Submissions" /\ Next /\ UNCHANGED <<part, xs>>
  \/ part = "Lifecycle" /\ Lifecycle!Next /\ UNCHANGED <<part, vars>>

MCSpec == MCInit /\ [][MCNext]_<<part, vars, xs>>

(* Every call goes on until it is answered, and the timer fires unless it  *)
(* is cleared.                                                             *)
MCFairSpec ==
  /\ MCSpec
  /\ \A c \in Calls : WF_vars(Step(c))
  /\ WF_xs(part = "Lifecycle" /\ Lifecycle!ForceExit /\ UNCHANGED <<part, vars>>)

-----------------------------------------------------------------------------
(* Lifecycle: a process that is told to stop does stop, a client that      *)
(* waits is cut off only by the backstop or a crash, and a query only by   *)
(* an exit that reports failure.                                           *)
StopsAtLast ==
  /\ [](part = "Lifecycle" => Lifecycle!TypeOK /\ Lifecycle!CutOnlyByTimeout)
  /\ Lifecycle!StopsAtLast
=============================================================================
