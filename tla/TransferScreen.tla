--------------------------- MODULE TransferScreen ---------------------------
(***************************************************************************)
(* Sending tokens from the browser: the form (frontend/src/components/     *)
(* tokens/TransferTokenForm.tsx, ui/AmountInput.tsx, lib/schemas.ts), the  *)
(* three calls behind it (hooks/useTransferToken.ts, lib/api.ts), the      *)
(* wallet, and the two routes it calls (backend/src/api/routes/            *)
(* transactions.ts, POST /unsigned; tokens.ts, POST /transfer) with the    *)
(* network behind them.                                                    *)
(*                                                                         *)
(* A transaction is the record of its payment, the attempt it was built in *)
(* (its time bounds tell two attempts apart) and its signer.               *)
(***************************************************************************)
EXTENDS Integers, Sequences, FiniteSets

LOCAL INSTANCE SequencesExt

CONSTANTS Recipients, \* what is typed as a recipient
          Assets,     \* the assets offered, native or not
          Native,     \* XLM, which has no issuer
          Typed,      \* what is typed as an amount
          Funds,      \* what the sender holds of every asset
          MaxSends,   \* bound: attempts
          MaxSeq,     \* bound: the sender's sequence number
          None        \* absent

VARIABLES
  form,    \* recipient, selectedKey, amount
  flow,    \* the stage of the attempt in progress, its number, its transaction
  shown,   \* txHash, submitError and the fields with an error
  wallet,  \* the account Freighter would sign with
  seq,     \* the sender's sequence number
  applied, \* the transactions the network applied
  posted,  \* those sent to POST /transfer and not settled
  reply,   \* the server's answer the browser has not read
  asked    \* history: the request of every attempt and how it ended

vars == <<form, flow, shown, wallet, seq, applied, posted, reply, asked>>

Me    == "me"
Idle  == [stage |-> None, no |-> 0, tx |-> None]
Blank == [hash |-> None, error |-> FALSE, fields |-> {}]

Init ==
  /\ form = [to |-> "", asset |-> None, amount |-> ""]
  /\ flow = Idle /\ shown = Blank
  /\ wallet = Me
  /\ seq = 0 /\ applied = <<>> /\ posted = {} /\ reply = None
  /\ asked = <<>>

-----------------------------------------------------------------------------
(* The form.                                                               *)

(* sanitizeAmountInput keeps digits and one separator: a sign and an       *)
(* exponent go, and what is left may be another number.                    *)
Sanitized(raw) == CASE raw = "-2" -> "2" [] raw = "1e3" -> "13" [] OTHER -> raw

(* A key of the right shape may have a wrong checksum; an amount may lead  *)
(* with a zero. The server refuses both.                                   *)
ShapedKey(key)       == key \in {"d", "falseKey"}
PlainAmount(amount)  == amount \in {"1", "2", "13"}
AmountShaped(amount) == PlainAmount(amount) \/ amount = "01"
Value(amount) == CASE amount = "2" -> 2 [] amount = "13" -> 13 [] OTHER -> 1

FieldErrors(f) ==
  {field \in {"to", "asset", "amount"} :
     \/ field = "to" /\ ~ ShapedKey(f.to)
     \/ field = "asset" /\ f.asset = None
     \/ field = "amount" /\ ~ AmountShaped(f.amount)}

(* The change event of the amount's field, whose value handleChange puts   *)
(* right before the form reads it.                                         *)
TypeAmount(raw) == form' = [form EXCEPT !.amount = Sanitized(raw)]

(* The fields stay open while a transfer is under way.                     *)
Type ==
  /\ \/ \E to \in Recipients : form' = [form EXCEPT !.to = to]
     \/ \E asset \in Assets : form' = [form EXCEPT !.asset = asset]
     \/ \E raw \in Typed : TypeAmount(raw)
  /\ UNCHANGED <<flow, shown, wallet, seq, applied, posted, reply, asked>>

(* A button that is loading is disabled.                                   *)
Enabled == flow.stage = None

(* What the form holds when Send is pressed is checked, then sent off.     *)
HandleSubmit ==
  /\ Enabled
  /\ Len(asked) < MaxSends
  /\ LET fields == FieldErrors(form)
     IN  /\ shown' = [Blank EXCEPT !.fields = fields]
         /\ IF fields # {} THEN UNCHANGED <<flow, asked>>
            ELSE /\ asked' = Append(asked, [req |-> form, end |-> "open"])
                 /\ flow' = [stage |-> "building", no |-> Len(asked) + 1, tx |-> None]
  /\ UNCHANGED <<form, wallet, seq, applied, posted, reply>>

(* An attempt ends with an error.                                          *)
Failed(end) ==
  /\ flow' = Idle
  /\ shown' = [shown EXCEPT !.error = TRUE]
  /\ asked' = [asked EXCEPT ![flow.no].end = IF @ = "lost" THEN @ ELSE end]

-----------------------------------------------------------------------------
(* submit: build, sign, send.                                              *)

(* Faulty: what the form holds when the envelope is built.                 *)
HeldNow(no) == form

(* The input of the attempt, read before the first call.                   *)
Requested(no) == asked[no].req

(* unsignedPaymentSchema, on a body whose assetIssuer is '' for XLM.       *)
Refused(req) ==
  \/ req.to = "falseKey" \/ ~ PlainAmount(req.amount) \/ req.asset = Native

BuildUnsigned ==
  /\ flow.stage = "building"
  /\ LET req == Requested(flow.no)
     IN  IF FieldErrors(req) # {} \/ Refused(req) THEN Failed("failed")
         ELSE \/ Failed("failed") \* no answer, no account, Horizon out of service
              \/ /\ flow' = [flow EXCEPT !.stage = "signing",
                               !.tx = [to |-> req.to, asset |-> req.asset,
                                       amount |-> req.amount, seq |-> seq + 1,
                                       no |-> flow.no, signer |-> None]]
                 /\ UNCHANGED <<shown, asked>>
  /\ UNCHANGED <<form, wallet, seq, applied, posted, reply>>

(* Freighter signs with the account it is on, or the user declines.        *)
Sign ==
  /\ flow.stage = "signing"
  /\ \/ /\ Failed("failed")
        /\ UNCHANGED <<posted, reply>>
     \/ LET signed == [flow.tx EXCEPT !.signer = wallet]
        IN  /\ flow' = [flow EXCEPT !.stage = "submitting", !.tx = signed]
            /\ posted' = posted \cup {signed} /\ reply' = None
            /\ UNCHANGED <<shown, asked>>
  /\ UNCHANGED <<form, wallet, seq, applied>>

SwitchAccount ==
  /\ wallet' = IF wallet = Me THEN "other" ELSE Me
  /\ UNCHANGED <<form, flow, shown, seq, applied, posted, reply, asked>>

(* requestRaw: the answer is read, or 15 s have passed without one. A body *)
(* that is no JSON is an error, whatever its status.                       *)
Receive ==
  /\ flow.stage = "submitting"
  /\ \/ /\ reply = "accepted"
        /\ flow' = [flow EXCEPT !.stage = "refreshing"]
        /\ UNCHANGED <<shown, asked>>
     \/ reply = "refused" /\ Failed("failed")
     \/ Failed("lost") \* TIMEOUT, NETWORK, MALFORMED_RESPONSE, 5xx
  /\ reply' = None
  /\ UNCHANGED <<form, wallet, seq, applied, posted>>

(* The balances have been fetched again, or have not: the hash is shown    *)
(* and the form cleared, of what was typed meanwhile too.                  *)
Finish ==
  /\ flow.stage = "refreshing"
  /\ flow' = Idle
  /\ shown' = [shown EXCEPT !.hash = flow.tx]
  /\ form' = [form EXCEPT !.to = "", !.amount = ""]
  /\ asked' = [asked EXCEPT ![flow.no].end = IF @ = "lost" THEN @ ELSE "told"]
  /\ UNCHANGED <<wallet, seq, applied, posted, reply>>

-----------------------------------------------------------------------------
(* POST /transfer and the network.                                         *)

Spent(asset) ==
  FoldLeft(LAMBDA sum, tx : IF tx.asset = asset THEN sum + Value(tx.amount) ELSE sum,
           0, applied)

Applicable(tx) ==
  /\ tx.seq = seq + 1 /\ tx.signer = Me
  /\ Spent(tx.asset) + Value(tx.amount) <= Funds

Apply(tx) == seq' = tx.seq /\ applied' = Append(applied, tx)

(* The browser reads the answer only if it still waits for it.             *)
Reply(tx, code) ==
  reply' = IF flow.stage = "submitting" /\ flow.tx = tx /\ reply = None THEN code
           ELSE reply

(* Refused for the day's limit or by the network, or applied.              *)
Transfer(tx) ==
  /\ posted' = posted \ {tx}
  /\ \/ Applicable(tx) /\ Apply(tx) /\ Reply(tx, "accepted")
     \/ Reply(tx, "refused") /\ UNCHANGED <<seq, applied>>
  /\ UNCHANGED <<form, flow, shown, wallet, asked>>

(* Horizon does not answer in time, and sent again the transaction may be  *)
(* refused for its own sequence number. It is applied, or still may be, or *)
(* never arrived.                                                          *)
Unanswered(tx) ==
  /\ asked' = [asked EXCEPT ![tx.no].end = "lost"]
  /\ \/ /\ posted' = posted \ {tx}
        /\ \/ Applicable(tx) /\ Apply(tx)
           \/ UNCHANGED <<seq, applied>>
        /\ \E code \in {"refused", "unknown"} : Reply(tx, code)
     \/ Reply(tx, "unknown") /\ UNCHANGED <<posted, seq, applied>>
  /\ UNCHANGED <<form, flow, shown, wallet>>

(* Another transaction of the sender's.                                    *)
Elsewhere ==
  /\ seq < MaxSeq
  /\ seq' = seq + 1
  /\ UNCHANGED <<form, flow, shown, wallet, applied, posted, reply, asked>>

Next ==
  \/ Type \/ HandleSubmit \/ BuildUnsigned \/ Sign \/ SwitchAccount \/ Receive \/ Finish
  \/ \E tx \in posted : Transfer(tx) \/ Unanswered(tx)
  \/ Elsewhere

Spec == Init /\ [][Next]_vars

-----------------------------------------------------------------------------
(* The shape of the state.                                                 *)
TypeOK ==
  /\ flow.stage \in {None, "building", "signing", "submitting", "refreshing"}
  /\ flow.no \in 0 .. Len(asked)
  /\ reply \in {None, "accepted", "refused", "unknown"}
  /\ shown.fields \subseteq {"to", "asset", "amount"}

(* TransferTokenForm.tsx: what the network applied is, payment by payment, *)
(* what the form held when Send was pressed, and the sender's own wallet   *)
(* signed it, whatever was typed or switched while the calls ran.          *)
AppliedAsAsked ==
  \A i \in DOMAIN applied :
    LET tx == applied[i]
    IN  /\ [to |-> tx.to, asset |-> tx.asset, amount |-> tx.amount] = asked[tx.no].req
        /\ tx.signer = Me

(* An attempt is one payment at most: the request that timed out is not    *)
(* repeated, and the transaction that is sent again keeps its sequence     *)
(* number.                                                                 *)
PaidOnce == \A i, j \in DOMAIN applied : applied[i].no = applied[j].no => i = j

(* A hash is shown for a payment that was made, and an error, unless an    *)
(* answer was lost on the way, for one that was not and will not be: only  *)
(* after a lost answer does trying again pay twice.                        *)
EndsAreTrue ==
  \A n \in DOMAIN asked :
    LET made == \E i \in DOMAIN applied : applied[i].no = n
    IN  (asked[n].end = "told" => made) /\ (asked[n].end = "failed" => ~ made)

(* The hash on the screen is that of the last attempt, and neither it nor  *)
(* an error of an earlier one stays while the next is under way.           *)
HashOfLast ==
  /\ shown.hash # None =>
       /\ shown.hash.no = Len(asked) /\ ~ shown.error
       /\ \E i \in DOMAIN applied : applied[i] = shown.hash
  /\ flow.stage # None => shown = Blank

TransferSound == TypeOK /\ AppliedAsAsked /\ PaidOnce /\ EndsAreTrue /\ HashOfLast
=============================================================================
