------------------------- MODULE MCGovernanceVoting -------------------------
(* Instances of GovernanceVoting, Compliance and Listings, checked one     *)
(* beside the other: the components share nothing.                         *)
EXTENDS GovernanceVoting, TLC

CONSTANTS
  Payers,                \* Compliance: accounts that hold the token
  Transfers, Initiations, \* Compliance: bounds on the calls served
  Amounts, DailyLimit,   \* Compliance
  MaxDay, MaxCrashes,    \* Compliance: bounds
  Ids, Communities, Addresses, States, Shapes, \* Listings: rows and what they hold
  Limits, DefaultLimit, MaxLimit,              \* Listings: page sizes
  First, FirstTime, LastWrite                  \* Listings: tables, moments of writes

(* GovernanceVoting.                                                       *)

Conf(period, bps, supply) ==
  [voting_period |-> period, quorum_bps |-> bps, total_supply |-> supply]

(* A legal configuration, and the three initialize must refuse.            *)
UsualConfigs == {Conf(1, 6667, 3), Conf(0, 5000, 3), Conf(1, 10001, 3),
                 Conf(1, 5000, 0)}

(* Balances and supplies at the edge of the integer range: three ballots   *)
(* of 8000 exceed 20001, and so does a supply of 3 at 10000 basis points;  *)
(* at 6667 it just fits.                                                   *)
EdgeConfigs == {Conf(1, 10000, 2), Conf(1, 10000, 3), Conf(1, 6667, 3)}

MCConfigs == UsualConfigs \cup EdgeConfigs

OneEach    == [a \in Accounts |-> 1]
LargeEach  == [a \in Accounts |-> 8000]
MCBalances == {OneEach, LargeEach}

(* Tokens move only where they are few.                                    *)
Usual == config \in UsualConfigs \cup {NoConfig} /\ \A a \in Accounts : balance[a] <= 3
Edge  == config \in EdgeConfigs \cup {NoConfig} /\ balance = LargeEach

AnyPermutation == Permutations(Accounts)

(* Listings: a table that begins with one row or three, made at one        *)
(* instant or one after the other, of a community; rows of another follow. *)

Shape(c, a) == [community |-> c, actor |-> a, other |-> "b", state |-> "x"]
FirstRow(i, tie) == Shape("c", "a") @@
  [id |-> i, made |-> IF tie THEN 0 ELSE i, changed |-> IF tie THEN 0 ELSE i, live |-> TRUE]
FirstTables ==
  {[i \in 1 .. 4 |-> IF i > n THEN NoOne ELSE FirstRow(i, tie)] :
     n \in {1, 3}, tie \in BOOLEAN}
TwoShapes == {Shape("c", "a"), Shape("d", "b")}

VARIABLES
  part, \* the component this behaviour is of
  x1, x2, x3, x4, x5, x6, x7, x8 \* its state

xs == <<x1, x2, x3, x4, x5, x6, x7, x8>>

Compliance == INSTANCE Compliance WITH
  Accounts <- Payers, Limit <- DailyLimit, None <- NoOne,
  today <- x1, kyc <- x2, initiations <- x3, transfers <- x4, rows <- x5,
  applied <- x6, unanswered <- x7, crashes <- x8

Listings == INSTANCE Listings WITH
  MaxTime <- LastWrite, None <- NoOne, now <- x1, table <- x2, open <- x3, walk <- x4

(* One component moves; the others wait in their initial state.            *)
MCInit ==
  /\ Init
  /\ \/ /\ part = "GovernanceVoting"
        /\ x1 = NoOne /\ x2 = NoOne /\ x3 = NoOne /\ x4 = NoOne
        /\ x5 = NoOne /\ x6 = NoOne /\ x7 = NoOne /\ x8 = NoOne
     \/ /\ part = "Compliance" /\ Compliance!Init /\ balance = OneEach
     \/ /\ part = "Listings" /\ Listings!Init /\ balance = OneEach
        /\ x5 = NoOne /\ x6 = NoOne /\ x7 = NoOne /\ x8 = NoOne

MCNext ==
  \/ part = "GovernanceVoting" /\ Next /\ UNCHANGED <<part, xs>>
  \/ part = "Compliance" /\ Compliance!Next /\ UNCHANGED <<part, vars>>
  \/ part = "Listings" /\ Listings!Next /\ UNCHANGED <<part, vars, x5, x6, x7, x8>>

MCSpec == MCInit /\ [][MCNext]_<<part, vars, xs>>

(* What marks an absent value is no value, and amounts and days are        *)
(* numbers.                                                                *)
ASSUME ComplianceAssumption ==
  /\ IsFiniteSet(Transfers)
  /\ Amounts \subseteq Nat /\ DailyLimit \in Nat
  /\ MaxDay \in Nat /\ MaxCrashes \in Nat
  /\ NoOne \notin Compliance!KycRecord
  /\ NoOne \notin [account : Payers, stage : {"insert", "restart"}]
  /\ NoOne \notin Compliance!Transfer
  /\ NoOne \notin {"reserved", "submitted", "failed"}

(* Pages hold at least a row, moments are numbers, and a table begins with *)
(* rows that are stored under their ids.                                   *)
ASSUME ListingsAssumption ==
  /\ IsFiniteSet(Ids) /\ Limits \subseteq Int
  /\ DefaultLimit \in Nat \ {0} /\ MaxLimit \in Nat \ {0}
  /\ FirstTime \in Nat /\ LastWrite \in Nat /\ FirstTime <= LastWrite
  /\ NoOne \notin Listings!Stored
  /\ First \subseteq [Ids -> Listings!Stored \cup {NoOne}]
  /\ \A t \in First, i \in Ids : t[i] # NoOne => t[i].id = i /\ t[i].made <= FirstTime

-----------------------------------------------------------------------------
(* Rows are written only while a client is walking.                  *)
Scenario ==
  CASE part = "GovernanceVoting" -> Usual \/ Edge
    [] part = "Listings"  -> x4.stage = "idle" /\ x4.page = 1 => x1 = FirstTime
    [] OTHER -> TRUE

(* What holds of each component beside the host.                           *)

(* Compliance: the day's allowance is kept, and the rows of the transfers  *)
(* say what became of them.                                                *)
AllowanceKept ==
  part = "Compliance" =>
    Compliance!TypeOK /\ Compliance!WithinAllowance /\ Compliance!RowsTellTheTruth

(* Compliance: KYC records are consistent, and no initiation disturbs one  *)
(* that is pending or decided.                                             *)
KycSound ==
  /\ [](part = "Compliance" => Compliance!RecordsConsistent)
  /\ [][part = "Compliance" => Compliance!VerdictsStand]_<<part, vars, xs>>

(* Compliance: "Unverified accounts may transfer at most 100 tokens per    *)
(* UTC day." (services/compliance.ts).                                     *)
DailyLimitHolds == part = "Compliance" => Compliance!DailyLimitHolds

(* Listings: a client that walks through the pages has seen every row that *)
(* was listed when it began, unless the walk was disturbed.                *)
WalkComplete ==
  part = "Listings" => Listings!TypeOK /\ Listings!WalkComplete
=============================================================================
