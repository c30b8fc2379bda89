----------------------------- MODULE PaymentFeed -----------------------------
(***************************************************************************)
(* The live list of payments: the hook behind TransactionFeed              *)
(* (frontend/src/hooks/useTransactions.ts), the server-sent events it      *)
(* reads (api/routes/stream.ts) and Horizon's stream behind them           *)
(* (StellarService.streamPayments), always from the cursor 'now' as the    *)
(* component asks. A payment is its place in the network's history; the    *)
(* connection of an EventSource may break and be made again.               *)
(***************************************************************************)
EXTENDS Naturals, Sequences

CONSTANTS
  Accounts,
  Conns,         \* connections, each used once
  MaxItems,      \* payments the list keeps
  MaxPayments,
  None

VARIABLES
  ledger,        \* the account each payment touches
  hook,          \* what the component shows
  source,        \* the connection its EventSource reads, or None
  conns          \* requests to the server and what is on its way back

vars == <<ledger, hook, source, conns>>

Statuses == {"idle", "connecting", "live", "reconnecting", "closed"}
Frame == [event : {"ready", "payment", "error"}, at : 0 .. MaxPayments]
Feed(event, at) == [event |-> event, at |-> at]

TypeOK ==
  /\ ledger \in Seq(Accounts) /\ Len(ledger) <= MaxPayments
  /\ hook.publicKey \in Accounts \cup {None}
  /\ hook.status \in Statuses /\ hook.error \in BOOLEAN
  /\ hook.transactions \in Seq(1 .. MaxPayments)
  /\ source \in Conns \cup {None}
  /\ \A k \in Conns :
       /\ conns[k].stage \in {"unused", "requested", "open", "closed"}
       /\ conns[k].account \in Accounts \cup {None}
       /\ conns[k].sent \in 0 .. MaxPayments
       /\ conns[k].pipe \in Seq(Frame)

Unused == [stage |-> "unused", account |-> None, sent |-> 0, pipe |-> <<>>]
Closed == [Unused EXCEPT !.stage = "closed"]

Init ==
  /\ ledger = <<>>
  /\ hook = [publicKey |-> None, status |-> "idle", error |-> FALSE, transactions |-> <<>>]
  /\ source = None
  /\ conns = [k \in Conns |-> Unused]

Open(k, account) ==
  /\ conns[k].stage = "unused"
  /\ source' = k
  /\ conns' = [conns EXCEPT ![k].stage = "requested", ![k].account = account]

(* The effect runs again for another account: the previous source is       *)
(* closed and its listeners removed; the list is kept.                     *)
Follow(account, k) ==
  /\ account # hook.publicKey
  /\ Open(k, account)
  /\ hook' = [hook EXCEPT !.publicKey = account, !.status = "connecting", !.error = FALSE]
  /\ UNCHANGED ledger

(* No account: the feed is idle.                                           *)
Leave ==
  /\ hook.publicKey # None
  /\ hook' = [hook EXCEPT !.publicKey = None, !.status = "idle", !.error = FALSE]
  /\ source' = None
  /\ UNCHANGED <<ledger, conns>>

Clear ==
  /\ hook.transactions # <<>>
  /\ hook' = [hook EXCEPT !.transactions = <<>>]
  /\ UNCHANGED <<ledger, source, conns>>

(* The server answers with a ready frame and subscribes to what follows.   *)
StreamPaymentsHandler(k) ==
  /\ conns[k].stage = "requested"
  /\ conns' = [conns EXCEPT ![k].stage = "open", ![k].sent = Len(ledger),
                            ![k].pipe = <<Feed("ready", 0)>>]
  /\ UNCHANGED <<ledger, hook, source>>

Pay(account) ==
  /\ Len(ledger) < MaxPayments
  /\ ledger' = Append(ledger, account)
  /\ UNCHANGED <<hook, source, conns>>

(* The next payment of the account comes in from Horizon and goes out.     *)
OnMessage(k) ==
  /\ conns[k].stage = "open"
  /\ \E n \in conns[k].sent + 1 .. Len(ledger) :
       /\ ledger[n] = conns[k].account
       /\ \A m \in conns[k].sent + 1 .. n - 1 : ledger[m] # conns[k].account
       /\ conns' = [conns EXCEPT ![k].sent = n, ![k].pipe = Append(@, Feed("payment", n))]
  /\ UNCHANGED <<ledger, hook, source>>

(* Horizon's stream reports an error and goes on by itself.                *)
OnError(k) ==
  /\ conns[k].stage = "open"
  /\ \A i \in DOMAIN conns[k].pipe : conns[k].pipe[i].event # "error"
  /\ conns' = [conns EXCEPT ![k].pipe = Append(@, Feed("error", 0))]
  /\ UNCHANGED <<ledger, hook, source>>

Prepended(list, n) ==
  IF \E i \in DOMAIN list : list[i] = n
    THEN list
    ELSE SubSeq(<<n>> \o list, 1, IF Len(list) < MaxItems THEN Len(list) + 1 ELSE MaxItems)

(* What the listeners make of a frame.                                     *)
OnFrame(frame) ==
  hook' = CASE frame.event = "ready"   -> [hook EXCEPT !.status = "live", !.error = FALSE]
            [] frame.event = "payment" ->
                 [hook EXCEPT !.transactions = Prepended(@, frame.at)]
            [] frame.event = "error"   ->
                 [hook EXCEPT !.status = "reconnecting", !.error = TRUE]

(* Faulty: a source that was replaced is still listened to. *)
HeardAny(k) == hook.publicKey # None

(* Only the current source has listeners.                                  *)
Heard(k) == source = k

Receive(k) ==
  /\ conns[k].pipe # <<>>
  /\ conns' = [conns EXCEPT ![k].pipe = Tail(@)]
  /\ IF Heard(k) THEN OnFrame(Head(conns[k].pipe)) ELSE UNCHANGED hook
  /\ UNCHANGED <<ledger, source>>

(* The connection breaks: what was on its way is lost and the EventSource  *)
(* asks again, with the same address and so from the new 'now'.            *)
Reconnect(k, next) ==
  /\ source = k
  /\ conns[k].stage \in {"requested", "open"}
  /\ conns[next].stage = "unused"
  /\ source' = next
  /\ conns' = [conns EXCEPT ![k] = Closed,
                            ![next].stage = "requested",
                            ![next].account = conns[k].account]
  /\ hook' = [hook EXCEPT !.status = "reconnecting"]
  /\ UNCHANGED ledger

(* The server notices that a client has gone and cancels its subscription. *)
OnClose(k) ==
  /\ source # k
  /\ conns[k].stage \in {"requested", "open"}
  /\ conns' = [conns EXCEPT ![k] = Closed]
  /\ UNCHANGED <<ledger, hook, source>>

Next ==
  \/ \E account \in Accounts : Pay(account)
  \/ \E account \in Accounts, k \in Conns : Follow(account, k)
  \/ Leave \/ Clear
  \/ \E k \in Conns :
       \/ StreamPaymentsHandler(k) \/ OnMessage(k) \/ OnError(k)
       \/ Receive(k) \/ OnClose(k)
       \/ \E next \in Conns : Reconnect(k, next)

Spec == Init /\ [][Next]_vars

-----------------------------------------------------------------------------
(* Through broken connections, changes of account and frames that arrive   *)
(* late, the list runs strictly from newer to older: no payment is shown   *)
(* twice or slips in below a newer one (useTransactions' cleanup).         *)
NewestFirst ==
  LET list == hook.transactions
  IN \A i, j \in DOMAIN list : i < j => list[i] > list[j]
=============================================================================
