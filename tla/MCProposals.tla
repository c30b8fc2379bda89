---------------------------- MODULE MCProposals ----------------------------
(* Instances of Proposals, TokenLedger, Disbursements and Envelopes,       *)
(* checked one beside the other: the components share nothing but the      *)
(* model values, whose symmetry serves them all.                           *)
EXTENDS Proposals, Integers, FiniteSets, Sequences, TLC

CONSTANTS
  Holders, Readers, \* TokenLedger: accounts, readers of balances
  MaxSupply,        \* TokenLedger: bound on what is issued
  BalanceTTL, ReadDelay, \* TokenLedger: ticks an entry lives, a read takes
  Texts,            \* Disbursements: CSV texts
  Entries, Funds, Trusted, MaxBatch, \* Disbursements: payments, balances, trustlines
  ExactTotals, Rounding, FileReaders, \* Disbursements: doubles, files read at once
  Keys, Distributor, Accounts,      \* Envelopes: signers, the account as it is found
  Asks, NotATime, DefaultTimeout, MaxUnix, \* Envelopes: time bounds
  MaxSignatures, LastTick           \* Envelopes: bounds

(* TokenLedger sums what the holders have, and counts ticks.               *)
ASSUME HoldersAssumption == IsFiniteSet(Holders)
ASSUME TicksAssumption == BalanceTTL \in Nat \ {0} /\ ReadDelay \in Nat

Symmetry == Permutations(Addresses) \cup Permutations(Requests) \cup Permutations(Holders)

(* Disbursements: three assets, two of one code; two accounts are paid, one *)
(* of which has no trustline. Two payments make a full batch.              *)
Lumens == [code |-> "XLM", issuer |-> None]
Dollar == [code |-> "USD", issuer |-> "i"]
Fake   == [code |-> "USD", issuer |-> "j"]

Csvs == {<<>>, <<"header", "good", "badKey">>, <<"blank", "header", "good", "worded">>,
         <<"good", "header">>, <<"comment", "falseKey", "looseAmount">>,
         <<"wordy", "badAmount">>}
Payments == {[to |-> "d", asset |-> Lumens, amount |-> 2],
             [to |-> "d", asset |-> Dollar, amount |-> 1],
             [to |-> "e", asset |-> Fake, amount |-> 1]}
Purse     == Lumens :> 3 @@ Dollar :> 2 @@ Fake :> 1
DollarToD == {<<"d", Dollar>>}

(* Envelopes: the distributor's key and two members', in accounts with a   *)
(* threshold of none, one or more keys, with too little weight, without    *)
(* the means for the payment and without those for the fee.                *)
ThreeKeys == {"d", "m", "n"}
AccountWith(d, m, n, med, fees, holds) ==
  [seq |-> 0, weight |-> [d |-> d, m |-> m, n |-> n], med |-> med,
   fees |-> fees, holds |-> holds]
FourAccounts ==
  {AccountWith(1, 1, 1, 0, FALSE, TRUE), AccountWith(2, 1, 0, 2, TRUE, TRUE),
   AccountWith(1, 2, 2, 4, TRUE, FALSE), AccountWith(1, 1, 0, 3, TRUE, TRUE)}
(* In half seconds: half a second after the epoch, a bound within a second,*)
(* two bounds in one second, one before and one beyond what there is.      *)
Windows ==
  {[min |-> None, max |-> 0], [min |-> None, max |-> 1], [min |-> None, max |-> 7],
   [min |-> 3, max |-> None], [min |-> 4, max |-> 7], [min |-> 4, max |-> 5],
   [min |-> -1, max |-> None], [min |-> None, max |-> 12],
   [min |-> NotATime, max |-> None], [min |-> None, max |-> NotATime]}

VARIABLES
  part, \* the component this behaviour is of
  x1, x2, x3, x4, x5, x6, x7, x8, x9, x10, x11 \* its state

xs == <<x1, x2, x3, x4, x5, x6, x7, x8, x9, x10, x11>>

TokenLedger == INSTANCE TokenLedger WITH
  Calls <- Requests, lines <- x1, locked <- x2, changes <- x3, adrift <- x4, recorded <- x5,
  cached <- x6, calls <- x7, reads <- x8, answered <- x9, told <- x10,
  spoiled <- x11

Disbursements == INSTANCE Disbursements WITH
  Malformed <- None, text <- x1, items <- x2, reading <- x3, sent <- x4, funds <- x5,
  paid <- x6, answer <- x10

(* Amounts and what the sender holds are numbers, of the assets it holds;  *)
(* what marks an absent value is no payment.                               *)
ASSUME DisbursementsAssumption ==
  /\ Texts \subseteq Seq(Disbursements!Lines)
  /\ Funds \in [DOMAIN Funds -> Nat]
  /\ \A e \in Entries : e.asset \in DOMAIN Funds /\ e.amount \in Nat
  /\ None \notin Entries /\ MaxBatch \in Nat
  /\ None \notin Texts /\ ExactTotals \in Nat /\ Rounding \in Nat

Envelopes == INSTANCE Envelopes WITH
  now <- x1, account <- x2, envelope <- x3, asked <- x4, terms <- x5,
  held <- x6, applied <- x7, answer <- x8

(* An account has finitely many signers, with weights; a timeout is some   *)
(* time, and ends before the last second there is; what marks an absent    *)
(* value is none of the others.                                            *)
ASSUME EnvelopesAssumption ==
  /\ IsFiniteSet(Keys) /\ Distributor \in Keys
  /\ Accounts \subseteq [seq : Nat, weight : [Keys -> Nat], med : Nat,
                         fees : BOOLEAN, holds : BOOLEAN]
  /\ Asks \subseteq [min : Int \cup {None, NotATime}, max : Int \cup {None, NotATime}]
  /\ DefaultTimeout \in Nat \ {0} /\ LastTick \in Nat \ {0} /\ MaxUnix \in Nat
  /\ LastTick + DefaultTimeout <= MaxUnix
  /\ None \notin Int
  /\ None \notin Envelopes!EnvelopeType \cup Envelopes!AskedType \cup Envelopes!AppliedType

(* The form and the server are explored one at a time, and nothing is      *)
(* explored behind an answer to a request that changed nothing.            *)
OneSideAtATime ==
  part = "Disbursements" =>
    /\ x10.body = <<>>
    /\ \/ Disbursements!formVars = <<<<>>, <<>>, Disbursements!NoFiles, None>>
       \/ x6 = <<>> /\ x10 = Disbursements!NoAnswer

(* Envelopes: likewise, where the network holds nothing and applied nothing.*)
(* What an envelope says does not change what becomes of it: signing and   *)
(* submission are explored for payments without a memo, built in the first *)
(* second, and for a bound of half a second, not for its like of none; of  *)
(* a fee bump, whose fate is that of the envelope in it, signing is.       *)
PlainPayments ==
  part = "Envelopes" =>
    /\ x8 # None => x6 \/ x7 # None \/ (x8.status = 200 /\ x8.to # "lookup")
    /\ x3 # None => x3.memo = "none" /\ x3.operations = <<Envelopes!Payment>>
    /\ x4 # None => x4.at = 1 /\ x4.max # 0
    /\ x3 # None /\ x3.bumped => x1 = 1 /\ x2.seq = 0 /\ ~ x6 /\ x7 = None

(* TokenLedger: time goes on after an answer (x10) where the other call (x7)*)
(* has not begun.                                                          *)
OneCallInTime ==
  part = "TokenLedger" /\ (\A c \in Requests : x7[c].pc # "idle") =>
    \A k \in DOMAIN x10 : x10[k] = x10[0]

(* One component moves; the others wait in their initial state.            *)
MCInit ==
  /\ Init
  /\ \/ /\ part = "Proposals"
        /\ x1 = None /\ x2 = None /\ x3 = None /\ x4 = None /\ x5 = None
        /\ x6 = None /\ x7 = None /\ x8 = None /\ x9 = None /\ x10 = None
        /\ x11 = None
     \/ /\ part = "TokenLedger" /\ TokenLedger!Init /\ members = {}
     \/ /\ part = "Disbursements" /\ Disbursements!Init /\ members = {}
        /\ x7 = None /\ x8 = None /\ x9 = None /\ x11 = None
     \/ /\ part = "Envelopes" /\ Envelopes!Init /\ members = {}
        /\ x9 = None /\ x10 = None /\ x11 = None

MCNext ==
  \/ part = "Proposals" /\ Next /\ UNCHANGED <<part, xs>>
  \/ part = "TokenLedger" /\ TokenLedger!Next /\ UNCHANGED <<part, vars>>
  \/ part = "Disbursements" /\ Disbursements!Next /\ UNCHANGED <<part, vars, x7, x8, x9, x11>>
  \/ part = "Envelopes" /\ Envelopes!Next /\ UNCHANGED <<part, vars, x9, x10, x11>>

MCSpec == MCInit /\ [][MCNext]_<<part, vars, xs>>

-----------------------------------------------------------------------------
(* What holds of each component beside Proposals.                          *)

(* TokenLedger: after an operation of the server answered with success no  *)
(* balance from before is served, but for a race or a missed eviction, and *)
(* after any route's, none for longer than a read and an entry's life; the *)
(* recorded supply is the ledger's.                                        *)
BalancesFresh ==
  part = "TokenLedger" =>
    /\ TokenLedger!TypeOK /\ TokenLedger!EvictionHolds
    /\ TokenLedger!StalenessBounded /\ TokenLedger!RecordedSupplyExact

(* Disbursements: what is submitted is every row of the text shown; a CSV  *)
(* is read whole or refused; a preview adds up to what the batch costs, as *)
(* long as a double holds it; a refusal names the payment it is about;     *)
(* batches are paid whole.                                                 *)
DisbursementsSound == part = "Disbursements" => Disbursements!DisbursementsSound

(* Envelopes: what is built lives as long as was asked, is shown as what   *)
(* it is, is signed once by the server, and its answers tell its fate.     *)
EnvelopesSound ==
  part = "Envelopes" =>
    /\ Envelopes!TypeOK /\ Envelopes!WindowKept /\ Envelopes!ChecksAgree
    /\ Envelopes!MinimumSuffices /\ Envelopes!SignedOnce
    /\ Envelopes!ShownIsSigned /\ Envelopes!AnswersTell
=============================================================================
