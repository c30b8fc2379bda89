------------------------- MODULE GovernanceBallot -------------------------
(***************************************************************************)
(* What token-weighted governance promises, without delegations, storage   *)
(* keys, clocks or pauses: a ballot is opened, voting power is added to    *)
(* one of its two sides, each account's power at most once, the ballot is  *)
(* closed once and for all by comparing the sides, and a passed ballot is  *)
(* enacted at most once and only with a quorum.                            *)
(***************************************************************************)
EXTENDS Integers

CONSTANTS Accounts,     \* the holders of voting power
          ProposalIds   \* the ballots that may be opened

VARIABLES status,        \* of each ballot, "None" before it is opened
          forWeight,     \* the weight added in favour
          againstWeight, \* the weight added against
          spent,         \* the accounts whose power a ballot has consumed
          quorum         \* the participation enactment needs; -1 until set

ballotVars == <<status, forWeight, againstWeight, spent, quorum>>

Init ==
  /\ status = [p \in ProposalIds |-> "None"]
  /\ forWeight = [p \in ProposalIds |-> 0]
  /\ againstWeight = [p \in ProposalIds |-> 0]
  /\ spent = [p \in ProposalIds |-> {}]
  /\ quorum = -1

Configure ==
  /\ quorum = -1
  /\ quorum' \in Nat
  /\ UNCHANGED <<status, forWeight, againstWeight, spent>>

Open(p) ==
  /\ quorum # -1
  /\ status[p] = "None"
  /\ status' = [status EXCEPT ![p] = "Active"]
  /\ UNCHANGED <<forWeight, againstWeight, spent, quorum>>

(* A group of accounts none of which has been counted on this ballot adds  *)
(* some weight, their combined power, to one side.                         *)
Gains(side, p) ==
  /\ side'[p] > side[p]
  /\ side' = [side EXCEPT ![p] = side'[p]]

Count(p, group) ==
  /\ status[p] = "Active"
  /\ group # {}
  /\ group \cap spent[p] = {}
  /\ spent' = [spent EXCEPT ![p] = @ \cup group]
  /\ \/ Gains(forWeight, p) /\ UNCHANGED againstWeight
     \/ Gains(againstWeight, p) /\ UNCHANGED forWeight
  /\ UNCHANGED <<status, quorum>>

Close(p) ==
  /\ status[p] = "Active"
  /\ status' = [status EXCEPT ![p] =
                  IF forWeight[p] > againstWeight[p] THEN "Passed"
                                                     ELSE "Rejected"]
  /\ UNCHANGED <<forWeight, againstWeight, spent, quorum>>

Enact(p) ==
  /\ status[p] = "Passed"
  /\ forWeight[p] + againstWeight[p] >= quorum
  /\ status' = [status EXCEPT ![p] = "Executed"]
  /\ UNCHANGED <<forWeight, againstWeight, spent, quorum>>

Next ==
  \/ Configure
  \/ \E p \in ProposalIds :
       \/ Open(p)
       \/ \E group \in SUBSET Accounts : Count(p, group)
       \/ Close(p)
       \/ Enact(p)

Spec == Init /\ [][Next]_ballotVars
=============================================================================
