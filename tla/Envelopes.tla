----------------------------- MODULE Envelopes -----------------------------
(***************************************************************************)
(* One payment envelope, from the request to build it to the answer about  *)
(* its submission (backend/src/contracts/transactions.ts, timeBounds.ts,   *)
(* memo.ts, validation.ts, signing.ts, feeBump.ts, xdrValidation.ts,       *)
(* xdrDetails.ts, errors.ts; api/routes/transactions.ts, api/utils/        *)
(* horizonError.ts, api/schemas/transaction.ts).                           *)
(*                                                                         *)
(* The envelope travels: the server builds it, wallets sign it and change  *)
(* nothing else, anyone posts it, and the account it is drawn on changes   *)
(* meanwhile; or other software built it.  A key, a memo or an operation   *)
(* is a value of a small set; time is counted in seconds, the bounds       *)
(* callers name in half seconds; an answer is the status and the result    *)
(* code it names.  Retries are Submissions' business: here a submission is *)
(* one exchange with Horizon, whose answer may be lost.                    *)
(***************************************************************************)
EXTENDS Integers, Sequences, FiniteSets, SequencesExt

CONSTANTS Keys,           \* keys that sign for the account, the distributor among them
          Distributor,    \* STELLAR_DISTRIBUTOR_PUBLIC_KEY
          Accounts,       \* the states the account is found in: weights, threshold, funds
          Asks,           \* the time bounds callers name, in half seconds: [min, max]
  NotATime,       \* a bound that names no time: an invalid Date, an empty text
          DefaultTimeout, \* DEFAULT_TIMEOUT_SECONDS
          MaxSignatures,  \* bound: wallets sign no envelope that has as many
          LastTick,       \* bound: the clock stops here
          MaxUnix,        \* MAX_UNIX_SECONDS
          None            \* absent

VARIABLES
  now,      \* the clock, in Unix seconds
  account,  \* the source account on the network
  envelope, \* the envelope in hand, None before it is built
  asked,    \* history: the time bounds its request carried and when, None of one
            \* built elsewhere
  terms,    \* what buildMultiSigPayment returned with it
  held,     \* a submission of it got no answer: the network may still apply it
  applied,  \* when the network applied it, and whether it had its effect
  answer    \* the answer just given, None after any other step

vars == <<now, account, envelope, asked, terms, held, applied, answer>>

(* What the network reads in an operation: what the sender gives, what     *)
(* arrives and where, and the amount.                                      *)
Operation(type, destination, sent, asset, amount) ==
  [type |-> type, destination |-> destination, sent |-> sent, asset |-> asset, amount |-> amount]

Payment  == Operation("payment", "member", "TOK", "TOK", 5)
Creation == Operation("createAccount", "member", "XLM", "XLM", 5)
Untrust  == Operation("changeTrust", None, "TOK", "TOK", 0)
Erasure  == Operation("manageData", None, None, None, None)
BuiltHere == {Payment, Creation, Untrust, Erasure}

Merge    == Operation("accountMerge", "member", None, None, None)
PathPaymentTypes == {"pathPaymentStrictSend", "pathPaymentStrictReceive"}
BuiltElsewhere ==
  {Operation(type, "member", "XLM", "TOK", 3) : type \in PathPaymentTypes}
  \cup {Merge, Operation("setOptions", None, None, None, None),
        Operation("bumpSequence", None, None, None, 9),
        Operation("clawback", None, "TOK", "TOK", 5)}

(* The asset an amount is of: a strict receive names what arrives.         *)
AmountAsset(op) == IF op.type = "pathPaymentStrictSend" THEN op.sent ELSE op.asset

Memos == {"empty", "text", "tooLong", "hash", "badHash", "unknown"}
Unbounded == [min |-> None, max |-> None]

Envelope(seq, operations, memo, min, max, signatures) ==
  [seq |-> seq, operations |-> operations, memo |-> memo, min |-> min,
   max |-> max, signatures |-> signatures, bumped |-> FALSE, outer |-> <<>>]

Answered(to, status, code) == answer' = [to |-> to, status |-> status, code |-> code]

Init ==
  /\ now = 1
  /\ account \in Accounts
  /\ envelope = None /\ asked = None /\ terms = None
  /\ held = FALSE /\ applied = None
  /\ answer = None

-----------------------------------------------------------------------------
(* Memos and time bounds.                                                  *)

(* buildMemo: an absent, empty or "none" memo is no memo; a text of more   *)
(* than 28 bytes, a hash that is not 32 bytes of hex and an unknown type   *)
(* throw.                                                                  *)
MemoRefused(memo) == memo \in {"tooLong", "badHash", "unknown"}
BuildMemo(memo)   == IF memo \in {"text", "hash"} THEN memo ELSE "none"

(* assertInRange *)
InRange(seconds) == seconds \in 0 .. MaxUnix

(* toUnixSeconds: a number or a Date is cut to whole seconds before it is  *)
(* looked at, so that half a second becomes 0; what is no time throws.     *)
ToUnixSeconds(bound) == bound \div 2
Readable(bound)      == bound # NotATime

(* Faulty: without a maxTime the envelope never expires.                   *)
NeverCloses(ask) == IF ask.max = None THEN 0 ELSE ToUnixSeconds(ask.max)

OpeningTime(ask) == IF ask.min = None THEN 0 ELSE ToUnixSeconds(ask.min)
ClosingTime(ask) == IF ask.max = None THEN now + DefaultTimeout ELSE ToUnixSeconds(ask.max)

(* resolveTimeBounds *)
Resolves(ask) ==
  /\ Readable(ask.min) /\ Readable(ask.max)
  /\ InRange(OpeningTime(ask)) /\ InRange(ClosingTime(ask))
  /\ \/ ClosingTime(ask) = 0
     \/ /\ OpeningTime(ask) # 0 => ClosingTime(ask) > OpeningTime(ask)
        /\ ClosingTime(ask) > now

-----------------------------------------------------------------------------
(* Errors and the answers they become.                                     *)

TransactionCodes == {"tx_failed", "tx_bad_seq", "tx_bad_auth", "tx_bad_auth_extra",
  "tx_insufficient_balance", "tx_too_early", "tx_too_late", "tx_missing_operation",
  "tx_fee_bump_inner_failed"}

(* The codes horizonError.ts words, of those a payment can meet.           *)
OperationCodes == {"op_underfunded", "op_no_trust", "op_line_full", "op_no_destination",
  "op_bad_auth", "op_malformed"}

(* Horizon's verdict: its HTTP status and extras.result_codes.             *)
Verdict(status, transaction, operations) ==
  [status |-> status, transaction |-> transaction, operations |-> operations]

NotFound    == Verdict(404, None, <<>>)
Unavailable == Verdict(503, None, <<>>)

(* mapHorizonError on what the SDK threw: only the first operation's code  *)
(* is looked at, and a code it has no words for falls to the next case.    *)
MapHorizonError(error) ==
  IF error.operations # <<>> /\ Head(error.operations) \in OperationCodes
    THEN [status |-> 422, code |-> Head(error.operations)]
  ELSE IF error.transaction = "tx_insufficient_balance"
    THEN [status |-> 402, code |-> error.transaction]
  ELSE IF error.transaction \in TransactionCodes
    THEN [status |-> 422, code |-> error.transaction]
  ELSE [status |-> IF error.status = 404 THEN 404 ELSE 502, code |-> None]

(* mapStatus *)
MapStatus(status) == IF status \in {400, 404, 429} THEN status ELSE 502

(* describeResultCodes: the first operation that failed, else the          *)
(* transaction's code.                                                     *)
DescribeResultCodes(error) ==
  LET failed == SelectSeq(error.operations, LAMBDA code : code # "op_success")
  IN  IF failed # <<>> THEN Head(failed) ELSE error.transaction

(* toStellarError; a route that lets it through answers with its status.   *)
ToStellarError(error) ==
  [status |-> MapStatus(error.status),
   code |-> IF error.status \in {404, 429} THEN None ELSE DescribeResultCodes(error)]

-----------------------------------------------------------------------------
(* Building.                                                               *)

(* A request is refused before the account is loaded.                      *)
Refuse(to, status) ==
  /\ Answered(to, status, None)
  /\ UNCHANGED <<now, account, envelope, asked, terms, held, applied>>

Built(operation, memo, min, max, signatures, ask) ==
  /\ envelope' = Envelope(account.seq + 1, <<operation>>, BuildMemo(memo), min, max, signatures)
  /\ asked' = [min |-> ask.min, max |-> ask.max, at |-> now]

(* unsignedPaymentSchema: POST /unsigned refuses a memo buildMemo would    *)
(* throw at, so the memo is not what fails behind it.                      *)
SchemaRefuses(memo) == MemoRefused(memo)

(* POST /unsigned: buildUnsignedPayment with the default time bounds.      *)
BuildUnsigned(memo) ==
  /\ envelope = None
  /\ \/ SchemaRefuses(memo) /\ Refuse("unsigned", 400)
     \/ /\ ~ SchemaRefuses(memo)
        /\ \E error \in {NotFound, Unavailable} :
             Refuse("unsigned", MapHorizonError(error).status)
     \/ /\ ~ SchemaRefuses(memo)
        /\ Built(Payment, memo, OpeningTime(Unbounded), ClosingTime(Unbounded), <<>>, Unbounded)
        /\ Answered("unsigned", 200, None)
        /\ UNCHANGED <<now, account, terms, held, applied>>

(* submitPayment and createAccount, up to the submission: the caller names *)
(* the bounds, the distributor's key signs.  The account is loaded first,  *)
(* and what throws after it is an Error without a Horizon response.        *)
BuildSigned(operation, memo, ask) ==
  /\ envelope = None
  /\ \/ \E error \in {NotFound, Unavailable} :
          Refuse("signed", MapHorizonError(error).status)
     \/ (MemoRefused(memo) \/ ~ Resolves(ask)) /\ Refuse("signed", 502)
     \/ /\ ~ MemoRefused(memo) /\ Resolves(ask)
        /\ Built(operation, memo, OpeningTime(ask), ClosingTime(ask), <<Distributor>>, ask)
        /\ Answered("signed", 200, None)
        /\ UNCHANGED <<now, account, terms, held, applied>>

HeaviestFirst(signers) ==
  \A i, j \in DOMAIN signers : i < j => account.weight[signers[i]] >= account.weight[signers[j]]

(* The account's signers that carry weight, heaviest first.                *)
EligibleSigners ==
  CHOOSE signers \in SetToSeqs({k \in Keys : account.weight[k] > 0}) : HeaviestFirst(signers)

(* The heaviest signers are taken until their weight reaches the           *)
(* threshold: for a threshold of 0, none.                                  *)
ReachThreshold(signers, required) ==
  FoldLeft(LAMBDA sofar, k :
             IF sofar.weight >= required THEN sofar
             ELSE [weight |-> sofar.weight + account.weight[k], count |-> sofar.count + 1],
           [weight |-> 0, count |-> 0], signers)

Available(signers) == FoldLeft(LAMBDA total, k : total + account.weight[k], 0, signers)

(* A malformed key, code or amount is refused like a timeout of nothing.   *)
Accepted(wellFormed, timeout) == wellFormed /\ timeout > 0

(* buildMultiSigPayment *)
BuildMultiSigPayment(wellFormed, timeout) ==
  /\ envelope = None
  /\ \/ ~ Accepted(wellFormed, timeout) /\ Refuse("multisig", 400)
     \/ /\ Accepted(wellFormed, timeout)
        /\ \E error \in {NotFound, Unavailable} :
             Refuse("multisig", ToStellarError(error).status)
     \/ /\ Accepted(wellFormed, timeout) /\ Available(EligibleSigners) < account.med
        /\ Refuse("multisig", 409)
     \/ /\ Accepted(wellFormed, timeout) /\ Available(EligibleSigners) >= account.med
        /\ terms' = [requiredWeight |-> account.med, signers |-> EligibleSigners,
                     weight |-> account.weight,
                     availableWeight |-> Available(EligibleSigners),
                     minimumSignatures |-> ReachThreshold(EligibleSigners, account.med).count]
        /\ Built(Payment, "absent", 0, now + timeout, <<>>,
                 [min |-> None, max |-> 2 * (now + timeout)])
        /\ Answered("multisig", 200, None)
        /\ UNCHANGED <<now, account, held, applied>>

(* An envelope other software built is posted or asked about: any          *)
(* operations, or none, until any second, or for ever.                     *)
Found(operations, max) ==
  /\ envelope = None
  /\ envelope' = Envelope(account.seq + 1, operations, "none", 0, max, <<>>)
  /\ answer' = None
  /\ UNCHANGED <<now, account, asked, terms, held, applied>>

-----------------------------------------------------------------------------
(* Signing and wrapping.                                                   *)

(* Of a fee bump it is the outer envelope that is checked and signed.      *)
Signatures == IF envelope.bumped THEN envelope.outer ELSE envelope.signatures

HasSignature(key) == \E i \in DOMAIN Signatures : Signatures[i] = key

Sign(key) ==
  envelope' = IF envelope.bumped THEN [envelope EXCEPT !.outer = Append(@, key)]
              ELSE [envelope EXCEPT !.signatures = Append(@, key)]

(* assertAllowed *)
MaySign(key, allowed) == allowed # {} /\ key \in allowed

(* signTransactionWithSecret with the secret of key: nothing is signed     *)
(* when no key is allowed, nor for another key, nor twice.                 *)
ServerSign(key, allowed) ==
  /\ envelope # None
  /\ \/ allowed = {} /\ Answered("sign", 500, None) /\ UNCHANGED envelope
     \/ /\ allowed # {} /\ ~ MaySign(key, allowed)
        /\ Answered("sign", 403, None) /\ UNCHANGED envelope
     \/ /\ MaySign(key, allowed)
        /\ IF HasSignature(key) THEN UNCHANGED envelope ELSE Sign(key)
        /\ Answered("sign", 200, None)
  /\ UNCHANGED <<now, account, asked, terms, held, applied>>

(* A member's wallet signs; it holds no distributor key.                   *)
WalletSign(key) ==
  /\ envelope # None /\ key # Distributor
  /\ Len(Signatures) < MaxSignatures
  /\ Sign(key) /\ answer' = None
  /\ UNCHANGED <<now, account, asked, terms, held, applied>>

(* buildFeeBumpTransaction, which the sponsor signs: `new Transaction`     *)
(* takes no fee-bump envelope, so one is not wrapped again; nor, by any    *)
(* sponsor's choice, one that was applied.                                 *)
FeeBump(sponsor) ==
  /\ envelope # None /\ ~ envelope.bumped /\ applied = None
  /\ envelope' = [envelope EXCEPT !.bumped = TRUE, !.outer = <<sponsor>>] /\ answer' = None
  /\ UNCHANGED <<now, account, asked, terms, held, applied>>

-----------------------------------------------------------------------------
(* Reading an envelope back.                                               *)

(* validateEnvelope; a fee bump is judged by its inner transaction.        *)
ValidEnvelope(env) ==
  /\ env.operations # <<>>
  /\ env.max > 0 => env.max >= now

(* validateXdr: text that does not decode to an envelope is not valid.     *)
ValidateXdr(env) == env # None /\ ValidEnvelope(env)

(* describeOperation: the fields shown for each type, and what its summary *)
(* says; a limit and a starting balance stand under amount here.  What is  *)
(* not named below is shown by its type alone.                             *)
DescribeOperation(op) ==
  LET valued == {"payment", "createAccount", "changeTrust"} \cup PathPaymentTypes
      asset  == IF op.type = "createAccount" THEN "XLM"
                ELSE IF op.type \in valued THEN op.asset ELSE None
  IN  [type |-> op.type,
       destination |-> IF op.type \in valued \cup {"accountMerge"} THEN op.destination ELSE None,
       asset |-> asset,
       amount |-> IF op.type \in valued THEN op.amount ELSE None,
       summaryAmount |-> IF op.type \in valued \cup {"bumpSequence"} THEN op.amount ELSE None,
       summaryAsset |-> IF op.type \in PathPaymentTypes THEN op.sent ELSE asset]

(* decodeMemo *)
DecodeMemo(memo) == IF memo \in {"text", "hash"} THEN memo ELSE "none"

(* toIso: an unset bound is shown as none.                                 *)
ShownBound(seconds) == IF seconds > 0 THEN seconds ELSE None

(* describeTransaction *)
DescribeTransaction(env) ==
  [sequence |-> env.seq, memo |-> DecodeMemo(env.memo),
   minTime |-> ShownBound(env.min), maxTime |-> ShownBound(env.max),
   operations |-> [i \in DOMAIN env.operations |-> DescribeOperation(env.operations[i])],
   signatureCount |-> Len(env.signatures)]

(* deserializeXdr: of a fee bump the inner transaction is described.       *)
Deserialize(env) ==
  [envelopeType |-> IF env.bumped THEN "feeBumpTransaction" ELSE "transaction",
   details |-> DescribeTransaction(env)]

-----------------------------------------------------------------------------
(* The network's verdict, and the submission.                              *)

(* Signatures count in order until the threshold is reached, at least one; *)
(* one left over, or made twice, is one too many.                          *)
Weight(keys) == FoldLeft(LAMBDA total, k : total + account.weight[k], 0, keys)

Suffices(keys) ==
  \E i \in DOMAIN keys :
    /\ account.weight[keys[i]] > 0
    /\ Weight(SubSeq(keys, 1, i)) >= account.med

Superfluous(keys) ==
  \/ \E i, j \in DOMAIN keys : i # j /\ keys[i] = keys[j]
  \/ \E i \in DOMAIN keys : account.weight[keys[i]] = 0
  \/ Len(keys) > 1 /\ Suffices(Front(keys))

TooLate(env) == env.max # 0 /\ now > env.max

CheckTransaction(env) ==
  IF env.operations = <<>> THEN "tx_missing_operation"
  ELSE IF now < env.min THEN "tx_too_early"
  ELSE IF TooLate(env) THEN "tx_too_late"
  ELSE IF env.seq # account.seq + 1 THEN "tx_bad_seq"
  ELSE IF ~ Suffices(env.signatures) THEN "tx_bad_auth"
  ELSE IF ~ account.fees THEN "tx_insufficient_balance"
  ELSE IF Superfluous(env.signatures) THEN "tx_bad_auth_extra"
  ELSE "tx_success"

(* The envelope takes its sequence number whether or not its operation has *)
(* its effect; the account may by then not hold what it pays.              *)
Apply ==
  /\ account' = [account EXCEPT !.seq = @ + 1]
  /\ applied' = [at |-> now, effect |-> account.holds]

Verdicts(outcome) ==
  IF outcome = "tx_success"
    THEN IF account.holds THEN [status |-> 200, code |-> None]
         ELSE MapHorizonError(Verdict(400, "tx_failed", <<"op_underfunded">>))
    ELSE MapHorizonError(Verdict(400, outcome, <<>>))

(* POST /submit and submitSignedXdr.  `new Transaction` throws at a fee    *)
(* bump, which never reaches the network; an applied envelope is found     *)
(* again with its result; and the answer may be lost on the way, or the    *)
(* attempts be over before there is one.                                   *)
Submit(wrapped) ==
  /\ envelope # None /\ (wrapped => envelope.bumped)
  /\ \/ /\ wrapped /\ Answered("submit", 502, None)
        /\ UNCHANGED <<account, held, applied>>
     \/ /\ ~ wrapped /\ applied # None
        /\ IF applied.effect THEN Answered("submit", 200, None)
           ELSE Answered("submit", 422, "op_underfunded")
        /\ UNCHANGED <<account, held, applied>>
     \/ /\ ~ wrapped /\ applied = None
        /\ LET outcome == CheckTransaction(envelope)
               mapped  == Verdicts(outcome)
           IN  /\ Answered("submit", mapped.status, mapped.code)
               /\ IF outcome = "tx_success" THEN Apply ELSE UNCHANGED <<account, applied>>
        /\ UNCHANGED held
     \/ /\ ~ wrapped /\ applied = None
        /\ Answered("submit", MapHorizonError(Unavailable).status, None)
        /\ held' \in {held, TRUE} /\ UNCHANGED <<account, applied>>
  /\ UNCHANGED <<now, envelope, asked, terms>>

(* submitFeeBumpTransaction wraps, signs and submits in one call: the      *)
(* sponsor pays the fee of the envelope in hand, which is no fee bump.     *)
SubmitFeeBump ==
  /\ envelope # None /\ ~ envelope.bumped /\ applied = None
  /\ CheckTransaction(envelope) \in {"tx_success", "tx_insufficient_balance"}
  /\ Apply
  /\ Answered("sponsored", IF account.holds THEN 200 ELSE 422, None)
  /\ UNCHANGED <<now, envelope, asked, terms, held>>

(* GET /:hash                                                              *)
Lookup ==
  /\ envelope # None
  /\ Answered("lookup", IF applied # None THEN 200 ELSE MapHorizonError(NotFound).status, None)
  /\ UNCHANGED <<now, account, envelope, asked, terms, held, applied>>

(* The network applies what it was sent after its sender stopped waiting.  *)
AppliedLate ==
  /\ held /\ applied = None /\ CheckTransaction(envelope) = "tx_success"
  /\ Apply /\ answer' = None
  /\ UNCHANGED <<now, envelope, asked, terms, held>>

(* A transaction of the account's own takes the next sequence number, or   *)
(* its signers, threshold or funds change by those of others.              *)
(* Bound: while an envelope is out, and not after its own transaction.     *)
ChangeAccount ==
  /\ account.seq = 0 /\ envelope # None /\ applied = None
  /\ account' \in Accounts \cup {[account EXCEPT !.seq = @ + 1]}
  /\ answer' = None
  /\ UNCHANGED <<now, envelope, asked, terms, held, applied>>

Tick ==
  /\ now < LastTick /\ now' = now + 1 /\ answer' = None
  /\ UNCHANGED <<account, envelope, asked, terms, held, applied>>

Next ==
  \/ \E memo \in Memos : BuildUnsigned(memo)
  \/ \E memo \in {"absent", "tooLong"}, ask \in Asks : BuildSigned(Payment, memo, ask)
  \/ \E operation \in {Creation, Untrust, Erasure} : BuildSigned(operation, "absent", Unbounded)
  \/ \E wellFormed \in BOOLEAN, timeout \in {0, 1, DefaultTimeout} :
       BuildMultiSigPayment(wellFormed, timeout)
  \/ \E operations \in {<<>>, <<Payment, Merge>>} \cup {<<op>> : op \in BuiltElsewhere},
        max \in 0 .. MaxUnix : Found(operations, max)
  \/ \E key \in Keys, allowed \in {{}, {Distributor}} : ServerSign(key, allowed)
  \/ \E key \in Keys : WalletSign(key)
  \/ \E sponsor \in Keys : FeeBump(sponsor)
  \/ SubmitFeeBump \/ Lookup \/ AppliedLate
  \/ \E wrapped \in BOOLEAN : Submit(wrapped)
  \/ ChangeAccount \/ Tick

Spec == Init /\ [][Next]_vars

-----------------------------------------------------------------------------
(* The shape of the state.                                                 *)
EnvelopeType ==
  [seq : Nat \ {0}, operations : Seq(BuiltHere \cup BuiltElsewhere),
   memo : {"none", "text", "hash"}, min : 0 .. MaxUnix, max : 0 .. MaxUnix,
   signatures : Seq(Keys), bumped : BOOLEAN, outer : Seq(Keys)]
AskedType   == [min : Int \cup {None}, max : Int \cup {None}, at : Nat]
AppliedType == [at : Nat, effect : BOOLEAN]

TypeOK ==
  /\ now \in 1 .. LastTick
  /\ envelope \in EnvelopeType \cup {None} /\ asked \in AskedType \cup {None}
  /\ applied \in AppliedType \cup {None}
  /\ held \in BOOLEAN
  /\ asked # None \/ held \/ applied # None => envelope # None
  /\ answer # None => answer.status \in {200, 400, 402, 403, 404, 409, 422, 500, 502}

(* timeBounds.ts: an envelope the server builds is alive when it is handed *)
(* out and applied only within the window that was asked for: not before   *)
(* the second its minimum falls in, not after its maximum, by default not  *)
(* after the timeout; it never expires only if less than one second after  *)
(* the epoch was asked for.                                                *)
WindowKept ==
  asked # None =>
    /\ now = asked.at => ValidEnvelope(envelope) /\ (envelope.max = 0 \/ envelope.max > now)
    /\ envelope.max = 0 <=> asked.max \in {0, 1}
    /\ applied # None =>
         /\ asked.min # None => 2 * applied.at + 1 >= asked.min
         /\ asked.max = None => applied.at <= asked.at + DefaultTimeout
         /\ asked.max \notin {None, 0, 1} => 2 * applied.at <= asked.max

(* xdrValidation.ts: what validateXdr refuses is what the network would    *)
(* refuse at that second for its bounds or its emptiness, no more, no less.*)
ChecksAgree ==
  envelope # None =>
    (ValidateXdr(envelope)
       <=> CheckTransaction(envelope) \notin {"tx_missing_operation", "tx_too_late"})

(* transactions.ts: minimumSignatures is the size of the smallest set of   *)
(* signers that reaches the threshold, and the heaviest ones are such a set.*)
MinimumSuffices ==
  terms # None =>
    LET weightOf(S) == MapThenSumSet(LAMBDA k : terms.weight[k], S)
        reaching == {S \in SUBSET Keys : weightOf(S) >= terms.requiredWeight}
        heaviest == {terms.signers[i] : i \in 1 .. terms.minimumSignatures}
    IN  /\ heaviest \in reaching
        /\ \A S \in reaching : Cardinality(S) >= terms.minimumSignatures

(* signing.ts: however often the server is asked to sign, its signature is *)
(* on the envelope once, and once on a fee bump around it.                 *)
OnceIn(signatures) ==
  \A i, j \in DOMAIN signatures :
    signatures[i] = Distributor /\ signatures[j] = Distributor => i = j

SignedOnce == envelope # None => OnceIn(envelope.signatures) /\ OnceIn(envelope.outer)

(* xdrDetails.ts: the operations an envelope is shown with are those the   *)
(* network reads in it, to the same destinations, for the same amounts of  *)
(* the same assets; of a path payment, whose amount stands by both assets, *)
(* either the field or the summary names the asset the amount is of.       *)
ShownRightly(shown, op) ==
  /\ shown.type = op.type /\ shown.destination = op.destination
  /\ shown.amount # None =>
       /\ shown.amount = op.amount /\ shown.summaryAmount = op.amount
       /\ shown.asset = op.asset
       /\ AmountAsset(op) \in {shown.asset, shown.summaryAsset}
       /\ op.type \notin PathPaymentTypes => shown.summaryAsset = AmountAsset(op)

(* xdrDetails.ts: what is shown of an envelope, wrapped or not, is what    *)
(* the network reads in it, and one that never expires is shown as such.   *)
ShownIsSigned ==
  envelope # None =>
    LET shown == Deserialize(envelope).details
    IN  /\ DOMAIN shown.operations = DOMAIN envelope.operations
        /\ \A i \in DOMAIN envelope.operations :
             ShownRightly(shown.operations[i], envelope.operations[i])
        /\ shown.memo = envelope.memo
        /\ shown.maxTime = None <=> envelope.max = 0

(* A submission answered 200 had its effect, and one answered 4xx did not, *)
(* unless the network was left holding the envelope by a lost answer.      *)
AnswersTell ==
  answer # None /\ answer.to = "submit" =>
    /\ answer.status = 200 => applied # None /\ applied.effect
    /\ answer.status \in {402, 404, 422} /\ ~ held =>
         applied = None \/ ~ applied.effect
=============================================================================
