--------------------------- MODULE Disbursements ---------------------------
(***************************************************************************)
(* Batch disbursements: the form that drafts one (frontend/src/components/ *)
(* multisig/BatchDisbursementForm.tsx) and the routes that read, preview   *)
(* and pay one (backend/src/api/routes/batch.ts, api/schemas/batch.ts,     *)
(* contracts/batchPayments.ts).                                            *)
(*                                                                         *)
(* A line of a CSV text is one of a few kinds, named for what is wrong     *)
(* with it: "falseKey" has the form of a key and a wrong checksum,         *)
(* "looseAmount" is a number to JavaScript and no decimal of Stellar's     *)
(* (1e3), "worded" and "wordy" have a third column, which the form reads   *)
(* as a memo and the server as an asset code.  What a batch evicts from    *)
(* the balance cache is in module TokenLedger.                             *)
(***************************************************************************)
EXTENDS Integers, Sequences, FiniteSets, SequencesExt

CONSTANTS Texts,    \* the CSV texts typed, chosen as a file and posted
          Entries,  \* the payments of a posted batch: [to, asset, amount]
          Malformed,\* a payment the schema refuses
          Funds,    \* what the sender holds of each asset at first
          Trusted,  \* the pairs <<account, asset>> with a trustline
          MaxBatch, \* MAX_BATCH_PAYMENTS
          ExactTotals, \* totals a double holds to the last digit
          Rounding, \* how far off a double may be beyond
          FileReaders, \* bound on the files being read at once
          None      \* absent

VARIABLES
  text,    \* the CSV text of the form (rawCSV)
  items,   \* the rows parsed from it
  reading, \* the file each FileReader is at
  sent,    \* the rows last handed to onSubmit, and the text then shown
  funds,   \* what the sender holds
  paid,    \* history: every payment the network applied
  answer   \* the answer to the last request; body, the request where refused or read only

formVars   == <<text, items, reading, sent>>
serverVars == <<funds, paid, answer>>
vars       == <<formVars, serverVars>>

Lines == {"blank", "comment", "header", "good", "badKey", "falseKey",
          "badAmount", "looseAmount", "worded", "wordy"}

NoFiles  == [f \in FileReaders |-> None]
NoAnswer == [to |-> None, body |-> <<>>, status |-> 0, entry |-> 0, got |-> <<>>]

Answered(to, body, status, entry, got) ==
  answer' = [to |-> to, body |-> body, status |-> status, entry |-> entry, got |-> got]

Init ==
  /\ text = <<>> /\ items = <<>> /\ reading = NoFiles /\ sent = None
  /\ funds = Funds /\ paid = <<>>
  /\ answer = NoAnswer

-----------------------------------------------------------------------------
(* The form.                                                               *)

Row(line, isValid) == [line |-> line, isValid |-> isValid]

(* The lines of some kinds, in their order.                                *)
Only(csv, kinds) ==
  FoldLeft(LAMBDA kept, line : IF line \in kinds THEN Append(kept, line) ELSE kept, <<>>, csv)

(* parseCSVContent: blank lines go, a header goes if it is then the first; *)
(* every other line is a row, valid or not.                                *)
ParseCSVContent(csv) ==
  LET lines == Only(csv, Lines \ {"blank"})
      rows  == IF lines # <<>> /\ Head(lines) = "header" THEN Tail(lines) ELSE lines
  IN  [i \in DOMAIN rows |->
         Row(rows[i], rows[i] \in {"good", "falseKey", "looseAmount", "worded"})]

(* handleTextChange *)
HandleTextChange(csv) ==
  /\ text' = csv /\ items' = ParseCSVContent(csv)
  /\ UNCHANGED <<reading, sent>>

(* handleFileUpload starts a FileReader, whether or not another is at work *)
(* on a file chosen before ...                                             *)
HandleFileUpload(csv, f) ==
  /\ reading[f] = None
  /\ reading' = [reading EXCEPT ![f] = csv]
  /\ UNCHANGED <<text, items, sent>>

(* Faulty: a file that was read replaces the rows and not the text.        *)
RowsLoaded(csv) ==
  /\ items' = IF csv = <<>> THEN items ELSE ParseCSVContent(csv)
  /\ UNCHANGED text

(* ... and replaces what was typed meanwhile, unless the file is empty.    *)
Loaded(csv) ==
  IF csv = <<>> THEN UNCHANGED <<text, items>>
  ELSE text' = csv /\ items' = ParseCSVContent(csv)

FileRead(f) ==
  /\ reading[f] # None
  /\ Loaded(reading[f]) /\ reading' = [reading EXCEPT ![f] = None]
  /\ UNCHANGED sent

(* handleSubmit, with a title: an invalid row keeps the form.              *)
HandleSubmit ==
  /\ items # <<>> /\ \A i \in DOMAIN items : items[i].isValid
  /\ sent' = [rows |-> items, shown |-> text]
  /\ UNCHANGED <<text, items, reading>>

FormNext ==
  /\ \/ \E csv \in Texts : HandleTextChange(csv)
     \/ \E f \in FileReaders : FileRead(f) \/ \E csv \in Texts : HandleFileUpload(csv, f)
     \/ HandleSubmit
  /\ UNCHANGED serverVars

-----------------------------------------------------------------------------
(* POST /parse-csv.                                                        *)

Skipped(line) == line \in {"blank", "comment", "header"}

(* What a line becomes with XLM for default asset: an asset code in the    *)
(* third column needs the default issuer.                                  *)
Refused(line, issuer) ==
  \/ line \in {"badKey", "falseKey", "badAmount", "looseAmount"}
  \/ line \in {"worded", "wordy"} /\ issuer = None

(* All the entries, or the lines in error; entry is the first of those.    *)
ParseCsv(csv, issuer) ==
  LET errors  == {i \in DOMAIN csv : ~ Skipped(csv[i]) /\ Refused(csv[i], issuer)}
      entries == Only(csv, {line \in Lines : ~ Skipped(line) /\ ~ Refused(line, issuer)})
  IN  IF errors # {} THEN [status |-> 400, entry |-> Min(errors), got |-> <<>>]
      ELSE IF entries = <<>> THEN [status |-> 400, entry |-> 0, got |-> <<>>]
      ELSE [status |-> 200, entry |-> 0, got |-> entries]

PostCsv(csv, issuer) ==
  LET parsed == ParseCsv(csv, issuer)
  IN  /\ Answered("/parse-csv", csv, parsed.status, parsed.entry, parsed.got)
      /\ UNCHANGED <<formVars, funds, paid>>

-----------------------------------------------------------------------------
(* POST /preview and POST /disburse.                                       *)

(* The schema, and assertValidBatch behind it, which repeats it.           *)
ValidBatch(batch) ==
  /\ Len(batch) \in 1 .. MaxBatch
  /\ \A i \in DOMAIN batch : batch[i] # Malformed

(* totalAmounts: one total for each code and issuer, added up in doubles   *)
(* and formatted with seven decimals.                                      *)
Total(batch, asset) ==
  FoldLeft(LAMBDA sum, p : IF p.asset = asset THEN sum + p.amount ELSE sum, 0, batch)
AssetsOf(batch) == {batch[i].asset : i \in DOMAIN batch}

Formatted(total) ==
  IF total <= ExactTotals THEN {total} ELSE (total - Rounding) .. (total + Rounding)

(* What may be shown. *)
Totals(batch) ==
  LET near(asset) == Formatted(Total(batch, asset))
  IN  {t \in [AssetsOf(batch) -> UNION {near(asset) : asset \in AssetsOf(batch)}] :
         \A asset \in AssetsOf(batch) : t[asset] \in near(asset)}

Preview(batch) ==
  /\ \/ ~ ValidBatch(batch) /\ Answered("/preview", batch, 400, 0, <<>>)
     \/ /\ ValidBatch(batch)
        /\ \E status \in {404, 502} : Answered("/preview", batch, status, 0, <<>>)
     \/ /\ ValidBatch(batch)
        /\ \E totals \in Totals(batch) : Answered("/preview", batch, 200, 0, <<totals>>)
  /\ UNCHANGED <<formVars, funds, paid>>

(* The network goes through the payments in order, each on what those      *)
(* before it left; one that fails leaves everything as it was.             *)
After(held, p) == [held EXCEPT ![p.asset] = @ - p.amount]

Outcome(p, held) ==
  IF p.asset.issuer # None /\ <<p.to, p.asset>> \notin Trusted THEN "op_no_trust"
  ELSE IF held[p.asset] < p.amount THEN "op_underfunded"
  ELSE "op_success"

Applying(sofar, p) ==
  LET code == Outcome(p, sofar.held)
  IN  [codes |-> Append(sofar.codes, code),
       held |-> IF code = "op_success" THEN After(sofar.held, p) ELSE sofar.held]

Applied(batch, held) == FoldLeft(Applying, [codes |-> <<>>, held |-> held], batch)

(* attributeFailure: the first code that is not a success names the entry. *)
Blamed(codes) == Min({i \in DOMAIN codes : codes[i] # "op_success"})

Pay(batch, held) == funds' = held /\ paid' = paid \o batch

(* submitBatchPayment behind POST /disburse: refused before anything is    *)
(* sent; applied; refused by the network; or not answered, applied or not. *)
Disburse(batch) ==
  /\ LET result  == Applied(batch, funds)
         succeed == ValidBatch(batch) /\ \A i \in DOMAIN batch : result.codes[i] = "op_success"
     IN  \/ /\ ~ ValidBatch(batch)
            /\ Answered("/disburse", batch, 400, 0, <<>>)
            /\ UNCHANGED <<funds, paid>>
         \/ /\ succeed
            /\ Answered("/disburse", <<>>, 200, 0, <<>>)
            /\ Pay(batch, result.held)
         \/ /\ ValidBatch(batch) /\ ~ succeed
            /\ Answered("/disburse", batch, 400, Blamed(result.codes), <<>>)
            /\ UNCHANGED <<funds, paid>>
         \/ /\ ValidBatch(batch) /\ Answered("/disburse", <<>>, 502, 0, <<>>)
            /\ (succeed /\ Pay(batch, result.held)) \/ UNCHANGED <<funds, paid>>
  /\ UNCHANGED formVars

Batches == UNION {[1 .. n -> Entries \cup {Malformed}] : n \in 0 .. MaxBatch + 1}

ServerNext ==
  \/ \E csv \in Texts, issuer \in {None, "i"} : PostCsv(csv, issuer)
  \/ \E batch \in Batches : Preview(batch) \/ Disburse(batch)

Next == FormNext \/ ServerNext

Spec == Init /\ [][Next]_vars

-----------------------------------------------------------------------------
(* The shape of the state.                                                 *)
TypeOK ==
  /\ items \in Seq([line : Lines, isValid : BOOLEAN])
  /\ reading \in [FileReaders -> Texts \cup {None}]
  /\ answer.status \in {0, 200, 400, 404, 502}

(* BatchDisbursementForm.tsx: the rows are those of the text on the screen *)
(* whichever of typing and the slow files came last, and what is submitted *)
(* is every row of the text that was shown.                                *)
SendsWhatIsShown ==
  /\ items = ParseCSVContent(text)
  /\ sent # None => sent.rows = ParseCSVContent(sent.shown)

(* routes/batch.ts: a CSV is read as a whole or refused, naming the first  *)
(* line that is wrong.                                                     *)
NoLineDropped ==
  answer.to = "/parse-csv" /\ answer.status = 200 =>
    answer.got = Only(answer.body, {line \in Lines : ~ Skipped(line)})

(* What a sender is left with.                                              *)
Left(held, batch) == FoldLeft(After, held, batch)

(* routes/batch.ts: the totals of a preview are, asset by asset, what      *)
(* paying the batch takes from the sender, as long as a double can say so. *)
PreviewAddsUp ==
  answer.to = "/preview" /\ answer.status = 200 =>
    LET batch == answer.body
        spent == Left([asset \in DOMAIN Funds |-> 0], batch)
    IN  \A asset \in DOMAIN Funds :
          IF asset \in DOMAIN answer.got[1]
          THEN - spent[asset] <= ExactTotals => answer.got[1][asset] = - spent[asset]
          ELSE spent[asset] = 0

(* batchPayments.ts: a refusal names the entry it is about: with those     *)
(* before it alone the batch is paid, with it too it is not.               *)
BlameIsRight ==
  answer.to = "/disburse" /\ answer.entry > 0 =>
    LET upTo(n) == Applied(SubSeq(answer.body, 1, n), funds).codes
        allPaid(codes) == \A i \in DOMAIN codes : codes[i] = "op_success"
    IN  allPaid(upTo(answer.entry - 1)) /\ ~ allPaid(upTo(answer.entry))

(* Whatever was paid was paid as whole batches: the sender has what it had *)
(* less the payments, and never less than nothing.                         *)
BooksBalance ==
  \A asset \in DOMAIN Funds :
    /\ funds[asset] >= 0
    /\ funds[asset] = Left(Funds, paid)[asset]

DisbursementsSound ==
  /\ TypeOK /\ SendsWhatIsShown /\ NoLineDropped /\ PreviewAddsUp
  /\ BlameIsRight /\ BooksBalance
=============================================================================
