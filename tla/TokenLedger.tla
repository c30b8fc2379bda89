---------------------------- MODULE TokenLedger ----------------------------
(***************************************************************************)
(* The operations on a community's token (backend contracts/assets.ts,     *)
(* trustlines.ts, claimableBalance.ts, transactions.ts, batchPayments.ts   *)
(* and the build and submit routes of api/routes/tokens.ts): what each     *)
(* asks of the network, what it evicts from the balance cache once it is   *)
(* answered, and how tokens.total_supply follows.                          *)
(*                                                                         *)
(* There is one asset, whose issuer holds no trustline, and every payment  *)
(* moves one unit.  The ledger is external: CanApply and Moved say when it *)
(* accepts an operation and what that does.  Sequence numbers and retries  *)
(* are in module Submissions: here a submission is applied, refused, or    *)
(* left without an answer.  A cached balance is known by the number of     *)
(* changes its account had seen when it was read.  Time passes in ticks.   *)
(***************************************************************************)
EXTENDS Integers, FiniteSets, FiniteSetsExt, Functions

CONSTANTS Holders,    \* accounts other than the issuer
          Calls,      \* calls of the operations, each made once
          Readers,    \* calls of GET /balances/:publicKey
          None,
          MaxSupply,  \* bound on what is issued
          BalanceTTL, \* ticks an entry lives (BALANCE_CACHE_TTL_SECONDS)
          ReadDelay   \* bound, in ticks, on a read: Horizon's answer and Redis's

VARIABLES lines,     \* ledger: the trustlines
          locked,    \* ledger: claimable balances, by claimant
          changes,   \* ledger: how often each holder's account changed
          adrift,    \* operations submitted without an answer
          recorded,  \* tokens.total_supply
          cached,    \* Redis: the balances cached for each holder
          calls, reads,
          answered,  \* history: the changes each account had seen when the server
                     \* last answered an operation of its own on it with success
          told,      \* history: likewise for every route, now and each tick before
          spoiled    \* history: may the recorded supply be off

ledger == <<lines, locked, changes>>
vars == <<ledger, adrift, recorded, cached, calls, reads, answered, told, spoiled>>

(* Operations: the issuer or a holder pays every account of a set          *)
(* (issueAsset, distributeAsset, an airdrop; a payment, a batch), a holder *)
(* burns or locks a unit, a claimant claims one, lines are opened, deleted,*)
(* frozen and authorized.                                                  *)
Operations ==
  [kind: {"pay"}, from: {None}, to: (SUBSET Holders) \ {{}}]
    \union [kind: {"send"}, from: Holders, to: (SUBSET Holders) \ {{}}]
    \union [kind: {"lock"}, from: Holders, to: {{h} : h \in Holders}]
    \union [kind: {"burn", "claim", "trust", "revoke", "freeze", "authorize"},
            from: Holders, to: {{}}]

Idle == [pc |-> "idle", op |-> None, via |-> None, refresh |-> FALSE, supply |-> 0]
Reading(pc, h) == [pc |-> pc, holder |-> h, seen |-> 0, overtaken |-> FALSE, age |-> 0]
NoRead == Reading("idle", None)

(* How long ago, at most, what is served from the cache was true.          *)
Staleness == ReadDelay + BalanceTTL
Shut == [open |-> FALSE, balance |-> 0, authorized |-> FALSE]

(* getTotalSupply: what Horizon says is issued. *)
Supply == SumFunction([h \in Holders |-> lines[h].balance + locked[h]])

Init ==
  /\ lines \in [Holders -> {Shut, [open |-> TRUE, balance |-> 1, authorized |-> TRUE]}]
  /\ locked = [h \in Holders |-> 0] /\ changes = locked /\ answered = locked
  /\ adrift = {} /\ recorded = Supply
  /\ cached = [h \in Holders |-> None]
  /\ calls = [c \in Calls |-> Idle]
  /\ reads = [r \in Readers |-> NoRead]
  /\ told = [k \in 0..Staleness |-> answered] /\ spoiled = "no"

-----------------------------------------------------------------------------
(* The ledger.                                                             *)

Usable(h) == lines[h].open /\ lines[h].authorized

CanApply(op) ==
  CASE op.kind = "pay"  -> (\A h \in op.to : Usable(h)) /\ Supply + Cardinality(op.to) <= MaxSupply
    [] op.kind = "send" -> /\ Usable(op.from) /\ \A h \in op.to : Usable(h)
                           /\ lines[op.from].balance > 0
                           /\ lines[op.from].balance >= Cardinality(op.to \ {op.from})
    [] op.kind \in {"burn", "lock"} -> Usable(op.from) /\ lines[op.from].balance > 0
    [] op.kind = "claim" -> Usable(op.from) /\ locked[op.from] > 0
    [] op.kind = "trust" -> TRUE
    [] op.kind = "revoke" -> lines[op.from].open /\ lines[op.from].balance = 0
    [] op.kind \in {"freeze", "authorize"} -> lines[op.from].open

(* The holders whose account an operation changes. *)
Touched(op) ==
  (IF op.kind = "lock" THEN {} ELSE op.to) \union ({op.from} \ {None})

Paid(op) ==
  IF op.kind = "send" THEN Cardinality(op.to)
  ELSE IF op.kind \in {"burn", "lock"} THEN 1 ELSE 0

Gain(op, h) ==
  (IF \/ op.kind \in {"pay", "send"} /\ h \in op.to
      \/ op.kind = "claim" /\ h = op.from THEN 1 ELSE 0)
    - (IF h = op.from THEN Paid(op) ELSE 0)

LineAfter(op, h) ==
  CASE h # op.from \/ op.kind \in {"pay", "send", "burn", "lock", "claim"} ->
         [lines[h] EXCEPT !.balance = @ + Gain(op, h)]
    [] h = op.from /\ op.kind = "trust" ->
         IF lines[h].open THEN lines[h] ELSE [Shut EXCEPT !.open = TRUE, !.authorized = TRUE]
    [] h = op.from /\ op.kind = "revoke" -> Shut
    [] h = op.from /\ op.kind \in {"freeze", "authorize"} ->
         [lines[h] EXCEPT !.authorized = (op.kind = "authorize")]

Moved(op) ==
  /\ lines' = [h \in Holders |-> LineAfter(op, h)]
  /\ locked' = [h \in Holders |->
       locked[h] + (IF op.kind = "lock" /\ h \in op.to THEN 1 ELSE 0)
                 - (IF op.kind = "claim" /\ h = op.from THEN 1 ELSE 0)]
  /\ changes' = [h \in Holders |-> changes[h] + (IF h \in Touched(op) THEN 1 ELSE 0)]

(* A submission whose answer was lost is applied after all. *)
AppliedLate(op) ==
  /\ op \in adrift /\ CanApply(op)
  /\ Moved(op)
  /\ adrift' = adrift \ {op}
  /\ spoiled' = "yes"
  /\ UNCHANGED <<recorded, cached, calls, reads, answered, told>>

-----------------------------------------------------------------------------
(* The calls.                                                              *)

Refreshing == {c \in Calls : calls[c].pc # "idle" /\ calls[c].refresh
                               /\ calls[c].pc \notin {"ok", "failed"}}
End(c, pc) == calls' = [calls EXCEPT ![c] = [Idle EXCEPT !.pc = pc]]

(* The caller is told that the operation is done.                          *)
Tell(op) ==
  told' = [told EXCEPT ![0] = [h \in Holders |-> IF h \in Touched(op) THEN changes[h] ELSE @[h]]]

Begin(c, op, via, refresh) ==
  /\ calls[c].pc = "idle"
  /\ refresh => via = "client"
  /\ calls' = [calls EXCEPT ![c] = [Idle EXCEPT
       !.pc = IF op.kind = "revoke" /\ via = "server" THEN "checking" ELSE "submitting",
       !.op = op, !.via = via, !.refresh = refresh]]
  /\ spoiled' = IF refresh /\ Refreshing # {} THEN "yes" ELSE spoiled
  /\ UNCHANGED <<ledger, adrift, recorded, cached, reads, answered, told>>

(* The server's own calls, one unit at a time; a batch pays every account. *)
Op(kind, from, to) == [kind |-> kind, from |-> from, to |-> to]
Serve(c, op) == Begin(c, op, "server", FALSE)

IssueAsset(c)         == \E h \in Holders : Serve(c, Op("pay", None, {h}))
DistributeAsset(c)    == \E h \in Holders : Serve(c, Op("pay", None, {h}))
SubmitBatchPayment(c) ==
  \E hs \in (SUBSET Holders) \ {{}} :
     Serve(c, Op("pay", None, hs)) \/ \E h \in Holders : Serve(c, Op("send", h, hs))
SubmitPayment(c)      == \E h, g \in Holders : Serve(c, Op("send", h, {g}))
BurnAsset(c)          == \E h \in Holders : Serve(c, Op("burn", h, {}))
EstablishTrustline(c) == \E h \in Holders : Serve(c, Op("trust", h, {}))
RevokeTrustline(c)    == \E h \in Holders : Serve(c, Op("revoke", h, {}))
SetTrustlineFlags(c)  ==
  \E h \in Holders, kind \in {"authorize", "freeze"} : Serve(c, Op(kind, h, {}))
CreateClaimable(c)    == \E h, g \in Holders : Serve(c, Op("lock", h, {g}))
Claim(c)              == \E h \in Holders : Serve(c, Op("claim", h, {}))

(* What the backend builds for a wallet to sign.  An airdrop pays those who *)
(* are members at that time.                                                *)
BuildIssue     == {Op("pay", None, {h}) : h \in Holders}
BuildTrustline == {Op("trust", h, {}) : h \in Holders}
BuildBurn      == {Op("burn", h, {}) : h \in Holders}
BuildPayment   == UNION {{Op("send", h, {g}) : g \in Holders} : h \in Holders}
BuildAirdrop   == {Op("pay", None, hs) : hs \in (SUBSET Holders) \ {{}}}

(* POST /submit of one of them, signed, with or without refreshSupply.     *)
SubmitSigned(c) ==
  \E op \in BuildIssue \union BuildTrustline \union BuildBurn \union BuildPayment \union BuildAirdrop,
     refresh \in BOOLEAN : Begin(c, op, "client", refresh)

(* revokeTrustline reads the account first: 404 without a line, 409 with a *)
(* balance on it.                                                          *)
CheckLine(c) ==
  /\ calls[c].pc = "checking"
  /\ LET line == lines[calls[c].op.from] IN
       IF ~line.open \/ line.balance > 0
       THEN End(c, "failed")
       ELSE calls' = [calls EXCEPT ![c].pc = "submitting"]
  /\ UNCHANGED <<ledger, adrift, recorded, cached, reads, answered, told, spoiled>>

Applied(c) ==
  /\ calls[c].pc = "submitting" /\ CanApply(calls[c].op)
  /\ Moved(calls[c].op)
  /\ calls' = [calls EXCEPT ![c].pc = "applied"]
  /\ spoiled' = IF calls[c].refresh THEN spoiled ELSE "yes"
  /\ UNCHANGED <<adrift, recorded, cached, reads, answered, told>>

(* Refused, for what the operation meets or for any other reason. *)
Refused(c) ==
  /\ calls[c].pc = "submitting"
  /\ End(c, "failed")
  /\ UNCHANGED <<ledger, adrift, recorded, cached, reads, answered, told, spoiled>>

(* No answer: the operation may be applied later. *)
Unanswered(c) ==
  /\ calls[c].pc = "submitting"
  /\ End(c, "failed")
  /\ adrift' = adrift \union {calls[c].op}
  /\ UNCHANGED <<ledger, recorded, cached, reads, answered, told, spoiled>>

(* invalidateBalanceCache of the accounts an operation names, one DEL each,*)
(* which Redis may not execute; then the call is answered.  An entry that  *)
(* stays, and balances that were read and are still to be stored, are      *)
(* overtaken.                                                              *)
(* Faulty: the receiving accounts are not evicted. *)
SourceOnly(op) == IF op.from = None THEN {} ELSE {op.from}
Evicted(op) == Touched(op)

Evict(c) ==
  /\ calls[c].pc = "applied" /\ calls[c].via = "server"
  /\ LET op == calls[c].op IN
       /\ \E lost \in SUBSET Evicted(op) :
            cached' = [h \in Holders |->
              IF h \notin Evicted(op) \/ cached[h] = None THEN cached[h]
              ELSE IF h \in lost THEN [cached[h] EXCEPT !.overtaken = TRUE] ELSE None]
       /\ reads' = [r \in Readers |->
            IF reads[r].pc = "storing" /\ reads[r].holder \in Evicted(op)
            THEN [reads[r] EXCEPT !.overtaken = TRUE] ELSE reads[r]]
       /\ answered' = [h \in Holders |-> IF h \in Touched(op) THEN changes[h] ELSE answered[h]]
       /\ Tell(op)
  /\ End(c, "ok")
  /\ UNCHANGED <<ledger, adrift, recorded, spoiled>>

(* The id of a created balance is not in the result: an error answer, and  *)
(* nothing is evicted.                                                     *)
ExtractionFails(c) ==
  /\ calls[c].pc = "applied" /\ calls[c].op.kind = "lock"
  /\ End(c, "failed")
  /\ UNCHANGED <<ledger, adrift, recorded, cached, reads, answered, told, spoiled>>

(* /submit evicts nothing; it reads the supply back when it is asked to.   *)
ReadSupply(c) ==
  /\ calls[c].pc = "applied" /\ calls[c].via = "client"
  /\ IF calls[c].refresh
     THEN /\ calls' = [calls EXCEPT ![c] = [@ EXCEPT !.pc = "read", !.supply = Supply]]
          /\ UNCHANGED told
     ELSE End(c, "ok") /\ Tell(calls[c].op)
  /\ UNCHANGED <<ledger, adrift, recorded, cached, reads, answered, spoiled>>

(* The UPDATE of tokens. *)
RecordSupply(c) ==
  /\ calls[c].pc = "read"
  /\ recorded' = calls[c].supply
  /\ End(c, "ok") /\ Tell(calls[c].op)
  /\ UNCHANGED <<ledger, adrift, cached, reads, answered, spoiled>>

(* Horizon or the database fails after the submission: an error answer. *)
RefreshFails(c) ==
  /\ calls[c].pc \in {"applied", "read"} /\ calls[c].refresh
  /\ End(c, "failed")
  /\ spoiled' = "yes"
  /\ UNCHANGED <<ledger, adrift, recorded, cached, reads, answered, told>>

-----------------------------------------------------------------------------
(* GET /balances/:publicKey: a miss asks Horizon and caches its answer.    *)

ReadMisses(r, h) ==
  /\ reads[r].pc = "idle" /\ cached[h] = None
  /\ reads' = [reads EXCEPT ![r] = Reading("asking", h)]
  /\ UNCHANGED <<ledger, adrift, recorded, cached, calls, answered, told, spoiled>>

ReadAnswered(r) ==
  /\ reads[r].pc = "asking"
  /\ reads' = [reads EXCEPT ![r] = [@ EXCEPT !.pc = "storing", !.seen = changes[reads[r].holder]]]
  /\ UNCHANGED <<ledger, adrift, recorded, cached, calls, answered, told, spoiled>>

(* cacheBalances.                                                          *)
CacheBalances(r) ==
  /\ reads[r].pc = "storing"
  /\ cached' = [cached EXCEPT ![reads[r].holder] =
       [seen |-> reads[r].seen, overtaken |-> reads[r].overtaken, left |-> BalanceTTL]]
  /\ reads' = [reads EXCEPT ![r] = NoRead]
  /\ UNCHANGED <<ledger, adrift, recorded, calls, answered, told, spoiled>>

(* Horizon, or Redis, fails: nothing is cached.                            *)
ReadFails(r) ==
  /\ reads[r].pc # "idle"
  /\ reads' = [reads EXCEPT ![r] = NoRead]
  /\ UNCHANGED <<ledger, adrift, recorded, cached, calls, answered, told, spoiled>>

(* A tick: entries whose time is over are gone.                            *)
Aged(entry) ==
  IF entry = None \/ entry.left <= 1 THEN None ELSE [entry EXCEPT !.left = @ - 1]

Tick ==
  /\ \A r \in Readers : reads[r].pc # "idle" => reads[r].age < ReadDelay
  /\ reads' = [r \in Readers |->
       IF reads[r].pc = "idle" THEN reads[r] ELSE [reads[r] EXCEPT !.age = @ + 1]]
  /\ cached' = [h \in Holders |-> Aged(cached[h])]
  /\ told' = [k \in 0..Staleness |-> IF k = 0 THEN told[0] ELSE told[k - 1]]
  /\ UNCHANGED <<ledger, adrift, recorded, calls, answered, spoiled>>

Next ==
  \/ \E c \in Calls :
       \/ IssueAsset(c) \/ DistributeAsset(c) \/ SubmitBatchPayment(c) \/ SubmitPayment(c)
       \/ BurnAsset(c) \/ EstablishTrustline(c) \/ RevokeTrustline(c) \/ SetTrustlineFlags(c)
       \/ CreateClaimable(c) \/ Claim(c)
       \/ SubmitSigned(c) \/ CheckLine(c)
       \/ Applied(c) \/ Refused(c) \/ Unanswered(c)
       \/ Evict(c) \/ ExtractionFails(c) \/ ReadSupply(c) \/ RecordSupply(c) \/ RefreshFails(c)
  \/ \E op \in adrift : AppliedLate(op)
  \/ \E r \in Readers : ReadAnswered(r) \/ CacheBalances(r) \/ ReadFails(r) \/ \E h \in Holders : ReadMisses(r, h)
  \/ Tick

Spec == Init /\ [][Next]_vars

-----------------------------------------------------------------------------
TypeOK ==
  /\ lines \in [Holders -> [open: BOOLEAN, balance: Nat, authorized: BOOLEAN]]
  /\ locked \in [Holders -> Nat] /\ recorded \in Nat
  /\ changes \in [Holders -> Nat] /\ answered \in [Holders -> Nat]
  /\ adrift \subseteq Operations /\ told \in [0..Staleness -> [Holders -> Nat]]
  /\ cached \in [Holders -> {None} \union [seen: Nat, overtaken: BOOLEAN, left: 1..BalanceTTL]]
  /\ calls \in [Calls -> [pc: {"idle", "checking", "submitting", "applied", "read", "ok", "failed"},
                          op: {None} \union Operations, via: {None, "server", "client"},
                          refresh: BOOLEAN, supply: Nat]]
  /\ reads \in [Readers -> [pc: {"idle", "asking", "storing"}, holder: {None} \union Holders,
                            seen: Nat, overtaken: BOOLEAN, age: 0..ReadDelay]]

(* After the server has answered an operation of its own with success, no  *)
(* account it changed shows a balance from before - but for balances that  *)
(* had been read when it was evicted and were stored afterwards, or an     *)
(* eviction Redis did not execute (assets.ts, trustlines.ts,               *)
(* claimableBalance.ts, transactions.ts, batchPayments.ts:                 *)
(* invalidateBalanceCache).  /submit evicts nothing and is no such         *)
(* operation.                                                              *)
EvictionHolds ==
  \A h \in Holders :
    cached[h] # None => cached[h].overtaken \/ cached[h].seen >= answered[h]

(* Whatever the route, the race or the missed eviction, a balance from     *)
(* before an operation answered with success is gone when a read and the   *)
(* life of an entry have passed since (cache/balances.ts: the TTL is set   *)
(* with every entry, and no entry is made of another).                     *)
StalenessBounded ==
  \A h \in Holders : cached[h] # None => cached[h].seen >= told[Staleness][h]

(* "The server reads the new figure back from Horizon rather than deriving *)
(* it from anything the caller sent" (tokens.ts): as long as every change  *)
(* is a submission that asks for the refresh, made one after the other,    *)
(* each leaves the recorded supply at what the ledger says.                *)
RecordedSupplyExact == spoiled = "no" /\ Refreshing = {} => recorded = Supply
=============================================================================
