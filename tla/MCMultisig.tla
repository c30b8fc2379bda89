----------------------------- MODULE MCMultisig -----------------------------
(* Instances of Multisig, MultisigScreen, SignIn and MembersScreen, checked *)
(* one beside the other: the components share nothing but the model values, *)
(* whose symmetry serves them all.                                         *)
EXTENDS Multisig, Sequences, TLC

CONSTANTS MaxFailures, SessionTTL, RefreshTTL, LastWindow,
          MaxChallenges, MaxMints, MaxRestarts,  \* of SignIn
          MaxChanges,                            \* of MembersScreen
          PageRequest, PageCalls, OtherCalls, PageHashes, PageThresholds,
          PageApprovals, MaxPresses              \* of MultisigScreen

Symmetry == Permutations(Requests) \cup Permutations(TxHashes)

VARIABLES
  part, \* the component this behaviour is of
  x1, x2, x3, x4, x5, x6, x7, x8, x9, x10, x11, x12 \* its state

xs == <<x1, x2, x3, x4, x5, x6, x7, x8, x9, x10, x11, x12>>

SignIn == INSTANCE SignIn WITH
  Addresses <- Requests, Tabs <- TxHashes, MaxTime <- LastWindow,
  now <- x1, restarts <- x2, nonces <- x3, pending <- x4, mints <- x5,
  live <- x6, failures <- x7, jar <- x8, wallet <- x9, tabs <- x10,
  attempts <- x11, torn <- x12

ASSUME SignInAssumption ==
  /\ MaxFailures \in Nat \ {0} /\ SessionTTL \in Nat /\ RefreshTTL \in Nat
  /\ LastWindow \in Nat /\ MaxChallenges \in Nat /\ MaxMints \in Nat
  /\ MaxRestarts \in Nat
  /\ None \notin TxHashes

MembersScreen == INSTANCE MembersScreen WITH
  People <- Requests, Invalid <- "invalid", members <- x1, changes <- x2,
  roster <- x3, fetches <- x4, latest <- x5, form <- x6,
  removal <- x7, focus <- x8, dialog <- x9, gone <- x10

(* One request, a member who presses and others who act meanwhile.         *)
MultisigScreen == INSTANCE MultisigScreen WITH
  Request <- PageRequest, Mine <- PageCalls, Theirs <- OtherCalls,
  TxHashes <- PageHashes, Thresholds <- PageThresholds,
  MaxApprovals <- PageApprovals, rows <- x1, calls <- x2, approvals <- x3,
  rejected <- x4, view <- x5, fetch <- x6, forms <- x7, press <- x8, ends <- x9,
  stored <- x10, reached <- x11

ASSUME ScreenAssumption ==
  /\ None \notin PageCalls \cup Operations /\ None # PageRequest
  /\ PageThresholds \subseteq Nat \ {0}

(* One component moves; the others wait in their initial state.            *)
MCInit ==
  /\ Init
  /\ \/ /\ part = "Multisig"
        /\ x1 = None /\ x2 = None /\ x3 = None /\ x4 = None /\ x5 = None
        /\ x6 = None /\ x7 = None /\ x8 = None /\ x9 = None /\ x10 = None
        /\ x11 = None /\ x12 = None
     \/ /\ part = "SignIn" /\ SignIn!Init
     \/ /\ part = "MultisigScreen" /\ MultisigScreen!Init
        /\ x12 = None
     \/ /\ part = "MembersScreen" /\ MembersScreen!Init
        /\ x11 = None /\ x12 = None

MCNext ==
  \/ part = "Multisig" /\ Next /\ UNCHANGED <<part, xs>>
  \/ part = "SignIn" /\ SignIn!Next /\ UNCHANGED <<part, vars>>
  \/ part = "MultisigScreen" /\ MultisigScreen!Next /\ UNCHANGED <<part, vars, x12>>
  \/ part = "MembersScreen" /\ MembersScreen!Next /\ UNCHANGED <<part, vars, x11, x12>>

MCSpec == MCInit /\ [][MCNext]_<<part, vars, xs>>

-----------------------------------------------------------------------------
(* SignIn: two tabs with one account or one tab with two accounts, where   *)
(* the clock moves or, under one tab, the server restarts; or, to go one   *)
(* sign-in or refresh further, one tab with one account and neither; nor   *)
(* does time pass after a torn answer (x12).  x1 is the clock, x2 counts   *)
(* restarts, x5 are the tokens minted, x10 the tabs, x11 their sign-ins    *)
(* under way.                                                              *)
Untouched(t, a) == x10[t].publicKey # a /\ x11[t][a] = SignIn!Idle
OneAccount == \E a \in Requests : \A t \in TxHashes : Untouched(t, a)
OneTab     == \E t \in TxHashes : \A a \in Requests : Untouched(t, a)
SignInScenario ==
  IF Len(x5) < 3 THEN /\ x1 + x2 <= (IF x12 = {} THEN 1 ELSE 0)
                      /\ OneTab \/ (OneAccount /\ x2 = 0)
  ELSE x1 + x2 = 0 /\ OneAccount /\ OneTab

(* MembersScreen: others change the members (x2), or the form (x6) is      *)
(* used; an invalid text is typed while the rows load, and no longer.      *)
MembersScenario ==
  /\ x2 > 0 => x6.typed = None /\ x6.note = "none"
  /\ x6.typed = "invalid" => x3 = None

Scenario == CASE part = "SignIn"        -> SignInScenario
              [] part = "MembersScreen" -> MembersScenario
              [] OTHER                  -> TRUE

(* What holds of each component beside the host.                           *)

(* SignIn: a signature and a refresh token are used once, a tab's own      *)
(* sign-ins leave it with the CSRF token of the cookie unless an answer    *)
(* was torn, and the challenge a tab is signing stays the one the server   *)
(* expects unless it expires or another tab asks.                          *)
TokensSound ==
  /\ [](part = "SignIn" => SignIn!TypeOK /\ SignIn!SingleUse /\ SignIn!OwnCsrfCurrent)
  /\ [][part = "SignIn" => SignIn!ChallengeStands]_<<part, vars, xs>>

(* MembersScreen: a member removed from the page is not shown again, and   *)
(* cancelling the dialog puts the focus back on the button that opened it. *)
(* MultisigScreen: a form that closes leaves the page with what was done,  *)
(* and behind the page nothing is executed that was never approved.        *)
ScreensSound ==
  /\ [](part = "MultisigScreen" => MultisigScreen!ScreenSound)
  /\ [](part = "MembersScreen" => MembersScreen!TypeOK /\ MembersScreen!RemovedStaysGone)
  /\ [][part = "MembersScreen" => MembersScreen!FocusReturns]_<<part, vars, xs>>
=============================================================================
