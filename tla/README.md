# Formal models of CoopLumen

CoopLumen lets a community issue a Stellar token and run its savings, loans,
treasury and votes on it. This directory holds TLA+ models of the parts of the
program whose correctness depends on the order in which several actors act,
TLC configurations that check them on small instances, and proofs, checked by
TLAPS, of the properties that matter most for instances of any size.

Every definition is a translation of source code; `PROJECT.json` names the
lines of each. All paths below are relative to the repository.

## 1. The system

Three programs share the work.

* **The governance contract** (`contracts/governance/src/lib.rs`, Soroban/Rust)
  keeps proposals, ballots and delegations, an admin seat with scoped roles, a
  scoped pause, and pending upgrades. It reads balances from the community's
  token contract and time from the ledger. A call is a transaction: it runs
  alone, and an `Err` leaves no trace.
* **The backend** (`backend/src`, Express over PostgreSQL, Redis and Horizon)
  serves the REST API. It is one Node process per instance (two during a
  blue/green switch): handlers interleave at every `await`, and only what the
  database serialises is serial between instances.
* **The frontend** (`frontend/src`, Next.js) renders the API and has the user's
  wallet sign transactions, which the backend submits.

| Component | State it keeps | Operations | Hard behaviour | What makes it correct | Module |
|---|---|---|---|---|---|
| Contract: voting | `Proposal`, `Vote`, `VoteUsed`, `Delegation`, `Delegators`, `ProposalCount` | initialize, create, delegate, undelegate, cast, finalise, execute | delegations and tokens move between two ballots; window boundary; overflow | power counted once per proposal; tally = ballots; majority and quorum before execution | `GovernanceVoting`, proved |
| Contract: control | `Config.admin`, `GovernanceRole`, `PendingAdminTransfer`, histories, `PauseScope` | grant, revoke, propose/accept/cancel/sweep transfer, recover, pause, unpause | handover, expiry and recovery race; role managers act in between | custody chain, no escalation, old key powerless, pause = history | `GovernanceAdmin`, proved |
| Contract: upgrades | `PendingUpgrades`, `PendingUpgradeHashes`, `UpgradeApprovals` | propose, approve, sweep | ids and hashes are used again; anyone sweeps; roles change | count = approvers of this proposal; live upgrades kept | `GovernanceUpgrades`, proved; finding 1 |
| Contract: the whole | all of the above | all of the above | parts share roles, pause and clock | each part keeps its own specification | `GovernanceContract`, proved |
| Multisig requests | `multisig_requests` | create, approve, reject, execute | read, await, write by id; constraint refusals | status and count agree; nothing lost; executed stays executed | `Multisig`, proved; finding 2 |
| Multisig pages | row last fetched, two forms, poll | fetch, approve, reject, execute | the row on the screen is stale | a form that closes means what it says | `MultisigScreen` over `Multisig`, proved |
| Loans, reputation | `loans`, `loan_events`, `reputation_scores` | create, disburse, repay, default, cancel | re-check under a row lock; float tolerance; shared score row | each call atomic; log accounts for the row; counters = numbers of loans; every request answered | `LoanLedger`, proved |
| Sequence numbers, Horizon | cached `Account`, per-account queue | withAccount, retry on `tx_bad_seq`, retry on 5xx | lost answers, drift, bypassing paths, crash | applied once; answers true; every call answered | `Submissions`, proved |
| Off-chain proposals | `proposals`, `votes`, `proposal_delegations` | create, vote, delegate | each check precedes its insertion by several queries; membership changes without the lock | one hop; delegations precede votes | `Proposals`, proved |
| Transfers, compliance | `compliance_transfers` | reserve, mark submitted, mark failed | lost answer from Horizon, crash between two steps, midnight | allowance kept; rows tell the truth | `Compliance`, proved; finding 3 |
| KYC | `kyc_records` | initiate, provider callback | late, repeated and reordered callbacks | a verdict stands | `Compliance`, proved |
| Token operations, balance cache | ledger (external), `tokens.total_supply`, cached balances | issue, distribute, pay, burn, trustlines and flags, claimable balances | a read fills the cache around an eviction; `/submit` evicts nothing; lost answers | nothing from before what was evicted, but for reads then under way; staleness bounded on every route; supply recorded | `TokenLedger`, proved |
| Transaction envelopes | the envelope, the account it is drawn on | build, describe, validate, sign, fee bump, submit | time bounds are cut to seconds and meet defaults; envelopes come from elsewhere; the account changes meanwhile; verdicts are mapped | windows are kept; what is shown is what is signed; answers tell the fate | `Envelopes`, proved |
| Batch disbursements | form text and rows; sender's funds | parse, preview, disburse | files read while text is edited; totals in doubles; one entry of a batch refused | paid whole; blame is right; nothing dropped | `Disbursements`, proved |
| Transfer form | typed values, flow, wallet | type, build, sign, send | timeout against a late answer; wallet switches accounts | applied as asked and signed, once | `TransferScreen`, proved |
| Sign-in, sessions | challenges, refresh tokens, failures, cookies (memory), each tab's tokens | challenge, verify, refresh, logout | tabs share a cookie jar and a wallet; restarts | challenges and refresh tokens used once | `SignIn`, proved |
| Communities, members | `communities`, `members` | create, change, delete, avatar, add, change, remove member | guard's SELECT before the write; unique index | unique live names; deleted is closed | `Communities`, proved |
| Migrations | `schema_migrations` | up, rollback, look | several runners and images, crashes | applied in order; recorded is in effect | `Migrations`, proved |
| Prices | Redis, memory tiers | fill, read | tiers fill each other; sources and Redis fail | bounded age | `Prices`, proved |
| Listings | every paginated query | COUNT, SELECT, walk | rows written between the two and between pages | an undisturbed walk misses nothing | `Listings`, proved |
| Rate limits | counters in Redis | count, delay, refuse | limiters that share a key; windows; outages | refused only after a warning | `RateLimit` |
| Payment stream | the hook's list, connections | subscribe, reconnect, leave | late frames, reconnection from `now` | newest first, nothing twice | `PaymentFeed`, proved |
| Process life cycle | stage, pool, timer | start, drain, stop | a stream that never ends, second signal | it stops; who waits is cut off only by the backstop or a crash | `Lifecycle` |
| Member list, members page | page, rows, dialog, focus | fetch, page, add, remove | answers out of order; poll against removal | rows of this page; removed stays gone | `MemberList`, `MembersScreen`, both proved; finding 4 |
| DEX, account data, remaining pages, build and CI | - | - | - | - | not modelled (section 7) |

The parts interact by calls (routes call services and the Stellar layer), by
shared rows (compliance and KYC, loans and reputation), by the source account's
sequence number on the network, by cached values in Redis, by a browser's
cookies, and, inside the contract, by shared storage entries. There are no
message queues; Horizon's and the backend's event streams are the only pushes. The contract and the backend do not call each other: the
backend's proposals (`backend/src/api/routes/proposals.ts`) are a separate,
off-chain vote.

## 2. Modules

| Module | What it is | Based on |
|---|---|---|
| `GovernanceBallot` | abstract: what token-weighted voting promises | - |
| `GovernanceVoting` | voting part of the contract, refines `GovernanceBallot` | `lib.rs` 388-854 |
| `GovernanceAdmin` | admin seat, roles, pauses | `lib.rs` 1017-1367, 1756-1961 |
| `GovernanceUpgrades` | pending upgrades | `lib.rs` 1369-1596 |
| `GovernanceContract` | composition: `INSTANCE`s of the three parts over shared storage | the `impl` |
| `Multisig` | the four writing handlers and the table's constraints | `multisig.ts`, migration 018 |
| `LoanTerms` | the rules of a loan: rows, what each handler makes of them, events, score | `loans.ts`, migrations 006, 009, 015, 017 |
| `LoanBook` | abstract: a book of atomic calls over these rules | - |
| `LoanLedger` | the handlers' statements, row locks, commits and failures; refines `LoanBook` | `loans.ts` 205-642, `db/index.ts` 41-59 |
| `Submissions` | the per-account queue, the cached sequence number, retries | `sequenceCache.ts`, `stellar.ts` and their callers |
| `Proposals` | off-chain proposals, votes, delegations | `proposals.ts`, migrations 017-026 |
| `TokenLedger` | token operations, balance cache, recorded supply | `assets.ts`, `trustlines.ts`, `claimableBalance.ts`, `tokens.ts`, `cache/balances.ts` |
| `Envelopes` | the life of one transaction envelope | `transactions.ts`, `timeBounds.ts`, `signing.ts`, `xdrDetails.ts`, `errors.ts`, `horizonError.ts`, ... |
| `Compliance` | transfers under the daily limit, KYC | `compliance.ts`, `kyc.ts`, `webhooks.ts`, `tokens.ts` |
| `SignIn` | challenges, sessions and a browser's tabs | `auth.ts`, `useWallet.ts`, `useAuth.tsx`, `api.ts` |
| `Communities` | communities and members behind the role guard | `communities.ts`, `middleware/auth.ts`, migration 027 |
| `Migrations` | the runner | `db/migrate.ts` |
| `Prices` | two cache tiers over failing sources | `prices.ts` (three files), `cache/redis.ts` |
| `Listings` | paginated queries and a client that walks them | `api/routes/*.ts`, `utils/http.ts`, `usePagination.ts` |
| `RateLimit` | chains of limiters over shared counters | `rateLimit.ts`, `routes/index.ts` |
| `Lifecycle` | start, drain, stop | `index.ts`, `db/index.ts` |
| `PaymentFeed` | stream, reconnection, list | `stream.ts`, `useTransactions.ts` |
| `MemberList`, `MembersScreen` | the list component; the members page | `MemberList.tsx`; `MembersPage.tsx`, `useCommunityMembers.ts`, `Modal.tsx` |
| `MultisigScreen` | the page of a request, composed with `Multisig` | `MultiSigProposalDetail.tsx`, `useMultiSig.ts` |
| `TransferScreen` | transfer form, client, two routes | `TransferTokenForm.tsx`, `useTransferToken.ts`, `lib/api.ts`, ... |
| `Disbursements` | batch form and batch routes | `BatchDisbursementForm.tsx`, `batch.ts`, `batchPayments.ts` |
| `...Proofs` | the theorems about the module of that name, and about components that its MC module checks beside it | - |
| `MC...` | constants, instances and scenarios for TLC | - |

An operator whose comment starts with "Faulty:" is never used by a
specification. It is a small, plausible error of the definition that follows
it: substituting it makes one of the properties fail, which shows that the
property really constrains that piece of code.

### GovernanceVoting

A contract call is one action; its guard is the conjunction of the call's early
returns. The variables are the storage keys: `config` (`Config`), `proposals`,
`votes`, `voteUsed` (the set of pairs for which the flag is stored),
`delegation`, and `delegators`. The code appends to a `Delegators` list, scans
it for one address and iterates over it, so the model keeps how often the list
holds each account. A bag, not a set: that no account is held twice is
something to prove (`DelegationSound`), and `remove_delegator` drops one
occurrence only. `paused` is `PauseScope("Global")`. `balance` and `now` are
the token contract and the ledger; any transfer and any passage of time may
come between two calls. `counted` is a history variable, which no action
reads: how often an account's power was added to a tally.

Titles, actions and events are left out, except that `execute_proposal` marks
the proposal `Executed` whatever its actions are, as the code does.

`GovernanceBallot` says the same without delegations, storage keys, clocks or
pauses: a group of uncounted accounts adds weight to a side, ballots close once
by comparing the sides, and a passed ballot is enacted once and only with a
quorum. `ImplementsBallot` maps `spent` to the accounts the history variable
saw counted, and not to `voteUsed`: were the contract to count an account twice
while marking it once, the mapping would show it.

### GovernanceAdmin

`pending` is the one `PendingAdminTransfer`, `history` and `pauseHistory` the
two append-only histories, which the code numbers densely from a counter.
`TakeSeat` is what an accepted transfer and a recovery share: the seat moves
and `inherit_admin_roles` moves the roles. `attempts`, `recoveries` and
`blessed` are history variables; `blessed` holds the role assignments that go
back to a grant by an admin or to the seat itself.

### GovernanceUpgrades

`upgrades`, `hashIndex` and `approvers` are the three storage keys. The account
lists are guarded by a scan before each append, so they are sets. Who holds the
Upgrade role is open here (`ChangeUpgraders`) and closed by the composition.

### GovernanceContract

`initialize` sets up voting and the seat in one transaction. `paused` is
instantiated with the switch of the scope `Global`, and the upgraders with the
holders of the Upgrade role. An action of the contract is a call of one part
that leaves the state of the others alone.

### Multisig

`approve`, `reject` and `execute` each SELECT the row, check its status, await,
and UPDATE the row by id without a condition. `calls` holds what each call in
flight has read; `ReadRow` is the SELECT with the status check, `Approve`,
`Reject` and `Execute` are the UPDATEs. `LegalRow` is the table's CHECK and
UNIQUE constraints. The router is mounted on Express 4 and its async handlers
have neither `try` nor `catch`: when a constraint refuses an UPDATE the
rejection is unhandled and Node ends the process, with every call it was
serving (`Refused`). Rows survive, calls do not.

### LoanTerms, LoanBook, LoanLedger

A loan's handler looks at the row, opens a transaction, looks again with
`SELECT ... FOR UPDATE`, writes, may count on the borrower's reputation row,
and commits. `LoanLedger` has one action per point at which another request can
come in between: `Begin` (first look, and the wait for a connection),
`UpdateLoan` (the row's lock, the second look, the statements on the loan's own
rows), `Rate` (`bumpReputation`, which waits for the borrower's row), `Commit`,
and `Fail` at any of them. `BeginCreate` is POST /, whose row nobody else can
see yet. `CancelLoan` is DELETE, one UPDATE with its condition. What a
transaction has written stays in its request (`row`, `rating`) until `Apply`,
since nobody else reads it; `loanLock` and `reputationLock` say which rows it
holds. `Commit(r, "error")` is a commit whose acknowledgement is lost: it is
answered with an error and stands all the same.

Amounts count parts of a stroop, because interest can put the total due between
two stroops. The handlers' tolerance of 1e-7 is one whole stroop, and two doubles
exactly that far apart compare either way; the four `May...` operators are the
two comparisons of `/:id/repay` with that tie left open. Two consequences are in
the model and not in a property, because no text of the repository clearly denies
them: a loan may be closed with up to a stroop outstanding, and a repayment of
one stroop too much passes the handler and is refused by the table
(`check_failed`, status 500) instead of being answered with 400.

`LoanBook` is the promise: what a call does, it does at once to the loan as it
then is. `ImplementsBook` maps the committed tables to the book's.

Left out: `due_at`, which no handler reads (a late repayment counts as on time,
as in the code); who may call (every other account is answered 403 before
anything else happens); deletion of a community, which takes its loans along.

The queries of loans and their pages are in `Listings`.

### Submissions

`calls` holds where each call stands, `tail` the promise the next call of the
account will wait for, `cache` the sequence number of the cached `Account`. A
JavaScript continuation runs to its next `await`, so one burst is one action:
the queue passes on, the account is loaded, the transaction is built (which
advances the cached number whatever becomes of it), and the answer is handled.
Sequence numbers are positions of `ledger`. A submission may be applied,
refused, refused without using its number, or left without an answer, in which
case `AppliedLate` may still apply it; `withRetry` resubmits the same envelope,
`withSequenceRetry` drops the cache and rebuilds. `Direct` calls load the account
themselves, `AppliedForAnother` is another party's transaction, `Crash` ends the
process. `AppliedOnce` says that only a lost answer makes a call apply twice,
`AnswersAreTrue` what a caller may conclude, `CacheTracksLedger` that without
such an accident no submission meets `tx_bad_seq`.

### Proposals

A vote and a delegation are transactions whose first statement locks the
proposal's row (`LockProposal`); each query is an action, and the last includes
the commit. Creation, and the changes of membership by other routes, take no such
lock. `OneHop` and
`DelegationsPrecedeVotes` rest on that lock: each check is made several queries
before the insertion it protects.

### TokenLedger, Envelopes

`TokenLedger` takes each operation as one exchange with Horizon and follows what
comes after it: which accounts are evicted from the balance cache, what
`tokens.total_supply` becomes. A read of balances asks Horizon in one step and
stores in another. An entry is `overtaken` when its balance had been read before
an eviction and was stored after it, or when Redis did not execute the eviction;
only such entries may be from before an operation the server made itself
(`EvictionHolds`). `/submit` evicts nothing, so what it leaves cached is stale as
well. `StalenessBounded` has no exceptions: `told` remembers, tick by tick, which
changes had been answered with success on any route, and nothing cached is from
before those of `ReadDelay + BalanceTTL` ticks ago.

`Envelopes` takes one envelope from its building
to the answer about its submission, through the functions of `contracts/` that
look at it; memos, keys and weights are values of small sets. Time is counted in
seconds and what a caller asks for in half seconds, which `ToUnixSeconds` cuts
as `toUnixSeconds` does; `NotATime` is what it throws at. `Found` is an envelope
that other software built, with any of the operations `describeOperation` tells
apart; `Operation` says what the network reads in one, `DescribeOperation` what
is shown of it. `Signatures` are those of the outer envelope where there is a fee
bump, as in `signing.ts`.
Four account states are checked: without a threshold, with one or two keys
needed, with too little weight, without means for the payment or the fee. Of the
functions it covers, `validateXdr`, `deserializeXdr`,
`signTransactionWithSecret`, `buildMultiSigPayment` and those of `feeBump.ts`
and `timeBounds.ts` are exported and tested and not all reached by a route; they
are modelled as anybody may call them.

### Compliance

A transfer takes the advisory lock, sums what counts today, inserts its
reservation, submits, and marks its row; every statement and every answer is an
action, and `Crash` may come between any two. The day is that of the reserving
transaction. `RowsTellTheTruth` allows exactly one untruth, that of a lost
answer, which finding 3 is about. KYC initiation (a locked SELECT, then INSERT
or restart) races `KycWebhook`, which upserts any verdict at any time, so that
callbacks are late, repeated and out of order without further actions.

### SignIn

The server's maps and the browser are one module, because the hazards lie
between them: tabs that share cookies and the selected wallet account, an attempt
in flight that callers of one address share (`pendingSignIns`), a challenge that
the next one replaces. What a sign-in mints is a number, so that `family` (the
challenge it goes back to) and `from` (the refresh token it replaced) say who is
whose successor. An answer comes in two halves: the browser stores the cookies at
the headers (`CookiesStored`), the tab its tokens when the body is read
(`Answered`, `api.ts:417`, `useWallet.ts:94`); in between the body can be lost or
another sign-in of the tab be answered, and `torn` keeps the mints to which that
happened. `Restart` empties the server's maps, as the code keeps them in memory.

### Communities, Migrations, Prices, Listings, RateLimit, PaymentFeed, Lifecycle

`Communities` has one action per query, from the role guard's SELECT to the
statement that writes; the unique index on live names is the last word.
`Migrations` has runners of different images, the advisory lock as a session
(a dying process drops it), and a transaction per file. `Prices` keeps a price as
the moment at which it was quoted. `Listings` states each paginated query as
filter, order and two statements, and a client that walks its pages; a walk is
`disturbed` when a listed row leaves the list or moves in it, two rows share
their place, or a row comes in ahead of others between the COUNT and the SELECT. `RateLimit` passes a request through the limiters of its route in
their order, one round trip to the shared counters each; a request is `late`
when the window in which a slow-down counted it ends before the limit behind it is reached. `PaymentFeed` follows a
payment from the ledger through Horizon's stream, the handler and the browser's
`EventSource`. `Lifecycle` has `stage`, the pool and the backstop, and connections
apart from their handlers: `server.close` waits for the former, so a handler whose
client hung up is still running when the pool and the process end; a rejection
nobody handles ends the process at any time (`Crash`).

### MemberList, MembersScreen, MultisigScreen, TransferScreen, Disbursements

React is modelled by what it promises: an event marks the component stale,
`Render` computes what is shown and runs the effects whose inputs changed, a
cleanup sets the `cancelled` of the closure it belongs to, and SWR takes the
answer of the latest fetch only. `MultisigScreen` instantiates `Multisig` as its
server (`Server == INSTANCE Multisig`): the page's calls and those of other
members are that module's own actions, so the page is checked against the routes
as they are. `TransferScreen` and `Disbursements` include the routes behind the
form, since what is to be compared is what was typed and what was paid. The batch
form starts a `FileReader` for each file that is chosen, whether or not another
is at work. `Totals` are sums in doubles: exact up to `ExactTotals`, off by up to
`Rounding` beyond. What a batch evicts from the balance cache is in `TokenLedger`,
where the payment, the evictions and the reads between them are steps.

## 3. Runs

Many components share nothing with each other. An MC module therefore holds
several of them, one beside the other: the variable `part` says which component
a behaviour is of, that component moves, the others stay in their initial state,
and the variables `x1`, `x2`, ... carry the state of the one that moves. The
reachable states are the union, not the product, of the parts'. A property
of the run names the part it is about. Real composition, where parts do
share state, is in `GovernanceContract` and `MultisigScreen`.

| Run | Asks | Bounds |
|---|---|---|
| `governance_voting` | voting and delegation against the abstract ballot, at usual values and at the edges of the integers | 3 accounts, 1 proposal, times 0..2; supplies of 3 tokens, or 8000 each with `I128Max` 20001 |
| - `Compliance` | allowance, KYC | 1 account, 2 transfers of 1 or 2, limit 2, 2 days, 1 crash, 1 initiation |
| - `Listings` | walks over a changing table | 4 rows, pages of 1 and 2, limits in and out of range |
| `governance_admin` | seat, roles, pauses | 3 accounts, 3 roles, 2 history records, times 0..2; 2 scopes, 2 pause records |
| `governance_upgrades` | pending upgrades | 2 accounts, 2 ids, 2 hashes, 3 proposals, times 0..3 |
| - `Communities` | names and deletion | 2 communities, 2 addresses, 2 names, 2 requests |
| - `RateLimit` | refusals | 2 requests at a time, window 2, times 0..4, 1 outage; limits of 2 behind slow-downs of 1, the ratio `rateLimit.ts:171-177` has |
| - `Migrations` | schema against its books | 2 runners, 3 files, 3 images |
| - `PaymentFeed` | order of the list | 2 accounts, 2 connections, 3 payments, a list of 2 |
| - `Prices` | age of what is served | 2 servers, 2 requests, 2 sources, TTL 1, delay 1, times 0..5 |
| `governance_contract` | each part in the whole, pause, approvals | 2 accounts, 1 proposal, 1 upgrade id, 1 record of each history |
| - `MemberList` | rows shown and page kept | queries of 2 and of 3 pages, 1 retry |
| - `TransferScreen` | what is applied and shown | 2 attempts, 2 recipients, 2 assets, 3 amounts |
| `multisig` | interleaved handlers | 2 requests, 3 calls in flight, thresholds 1 and 2, 2 approvals |
| - `SignIn` | single use, challenges, CSRF | 2 tabs, 2 addresses, 3 mints, 2 challenges, 1 failure, 1 tick or restart |
| - `MembersScreen` | removal, dialog, focus | 2 people, 1 change by others |
| - `MultisigScreen` | what a page says of its calls | 1 request of threshold 2, 3 presses, 1 call of others at a time, 3 approvals |
| `loan_ledger` | interleaved handlers, failures, refinement, liveness | 2 loans of one borrower, 2 requests, stroops of 2 parts, totals of 2 and 2.5 stroops, repayments of 1 and 3 |
| `submissions` | queue, retries, liveness | 2 queued calls, 1 direct, 2 attempts, 1 fault, 1 crash |
| - `Lifecycle` | the end of a process | 3 connections |
| `proposals` | votes against delegations | 1 proposal, 3 addresses, 2 requests, times 0..1 |
| - `TokenLedger` | cache and supply | 2 holders, 2 operations, 1 reader, supply 2, TTL 1, delay 1 |
| - `Disbursements` | form, parser, preview, payment | 6 texts of up to 4 lines, 2 files at once, 3 assets, batches of up to 2, totals exact to 3 and off by 1 beyond |
| - `Envelopes` | the life of an envelope | 3 keys, 4 account states, 10 requests for time bounds, 8 lists of operations built elsewhere, 2 signatures of wallets, seconds 1..3 |
| `governance_upgrades_index`, `multisig_lost_approval`, `compliance_daily`, `memberlist_page` | violations, see section 4 | as the run of their module |

Properties, by run:

* `governance_voting`: `DelegationSound` (one hop, every delegator indexed once),
  `PowerSpentOnce`, `TalliesSound` (tallies are the ballots and fit the integers),
  `ImplementsBallot`, `AllowanceKept`, `KycSound`, `WalkComplete`.
* `governance_admin`: `CustodySound`, `NoEscalation`, `PauseMatchesHistory`,
  `OldKeyKeepsNothing`.
* `governance_upgrades`: `UpgradeRecordsSound`, `LiveUpgradesKept`,
  `DeletedIsClosed`, `RefusedAfterWarning`, `SchemaAsRecorded`, `NewestFirst`,
  `AgeBounded`.
* `governance_contract`: `ImplementsParts`, `PauseStopsVoting`,
  `ApprovalsTraceToAdmin`, `PageShown`, `TransferSound`.
* `multisig`: `CountsSound`, `ExecutedIsFinal`, `TokensSound`, `ScreensSound`.
* `loan_ledger`: `LoansSound`, `ReputationCountsLoans`, `ImplementsBook`,
  `EveryRequestAnswered`.
* `submissions`: `Settlement`, `CacheTracksLedger`, `EveryCallAnswered`,
  `StopsAtLast`.
* `proposals`: `OneHop`, `DelegationsPrecedeVotes`, `BalancesFresh`,
  `DisbursementsSound`, `EnvelopesSound`.

### Why the bounds are enough

Three accounts are the smallest number that can form a chain of delegations, or
have one account delegated to by two. A voting period of 1 and times 0..2
contain a ballot in the window, one at its last instant, and the first instant
after it; the configurations include the three that `initialize` must refuse.
`I128Max` is 20001 so that three ballots of 8000 exceed it, and a supply of 3 at
10000 basis points as well, while at 6667 it just fits. For the seat three
accounts are an admin, a nominee and a third that a recovery installs; two
records suffice to compare neighbours. Two upgrade ids and two hashes allow two
upgrades to one build and one id used for two builds; `ttl` 0..2 lets one expire
before the other. Three calls in flight are two that race and one that arrives
between their writes; two requests are needed for the hash's uniqueness. Two
requests on two loans of one borrower can meet on a loan's row, on the
borrower's, and cross; repayments of 1 and 3 stroops are, by turns, partial,
exact, at the tolerance, refused by the handler and refused by the table. Two
queued calls and a direct one give the queue a waiter and an intruder, and two
attempts a retry that can fail. Two transfers of a limit of 2 can together exceed
it or just fill it, over two days. A page that is pressed three times presses
after a success, after a refusal and after a timeout. Three files are a first, one
before and one after; three images are an old one, a complete one and one that
was edited. What does not depend on a bound is proved (section 5).

State constraints name what is explored apart:

* `PausesOrHandovers`: pauses and handovers share only the roles.
* `Scenario` of `governance_voting`: tokens move where they are few; rows of a
  listing are written only while a client walks.
* `Scenario` of `governance_contract`: the voting part and the upgrade part,
  which share the roles and the pause, one after the other.
* `OneSideAtATime`: the batch form and the batch routes share nothing.
* `PlainPayments`: what an envelope says does not change what becomes of it, so
  every kind is built, found, shown and validated, and payments without a memo
  that are built in the first second or found are also signed and submitted; of
  a fee bump, whose fate is that of the envelope in it, only signing is
  explored, and of the two maxima that become none only that of half a second;
  nothing is explored behind an answer that changed nothing.
* `OneCallInTime`: in `TokenLedger` time goes on after an answer where the other
  call has not begun.
* `SignInScenario`: two tabs of one account, one tab of two accounts (with a
  restart of the server, too), or one tab that goes a sign-in further; time stands
  still after a torn answer.
* `MembersScenario`: others change the members, or the form is used.
* `CountersBounded`: a counter of `RateLimit` runs to two above its limit, and after
  an outage one window is explored.

Constants that are bounds and not the code's: `MaxTime`, `MaxHistory`,
`MaxPauses`, `MaxProposals`, `MaxProposed`, `MaxApprovals`, `MaxFaults`,
`MaxCrashes`, `MaxDay`, `MaxRestarts`, `MaxChallenges`, `MaxMints`, `MaxRetries`,
`MaxChanges`, `MaxPresses`, `MaxSends`, `MaxSeq`, `MaxSignatures`, `LastTick`, `LastWrite`,
`MaxSupply`, `MaxPayments`, `MaxOutages`, `Highest`, `BalanceTTL`, `ReadDelay`,
`ExactTotals`, `Rounding`, `FileReaders`, `MaxUnix`, the sets of calls and
requests, and the sets of texts, entries and amounts that are tried.

Symmetry: accounts, requests, calls and hashes are interchangeable in each run
that declares them so, and the initial sets of balances are closed under
permutation. The runs with a liveness property use none.

Deadlock is checked in `loan_ledger`, where a request can always arrive or go
on. It is not checked in the others: the contract, the API and the pages may stop
whenever nobody calls, and the bounded counters and clocks run out.

### Fairness

None for the contract, the tables and the pages. Nobody is obliged to call them,
they retry nothing, and the ledger's clock is not the program's; their properties
are safety properties.

`LoanLedger` assumes, for each request, strong fairness of the steps that wait
for a row lock, because PostgreSQL grants a row's lock in the order in which it
was asked for, so that a waiter cannot be passed over for ever, and weak fairness
of the commit, which waits for nothing. Nothing is assumed of `Fail` or of the
arrival of requests. `EveryRequestAnswered` then says that the order in which
transactions take their rows (the loan's, then the borrower's) admits no
deadlock and that no failed transaction keeps a lock.

`Submissions` assumes weak fairness of each call's own step: a promise that has
settled is run by the event loop, and an exchange with Horizon ends with an
answer or the client's timeout. Nothing is assumed of late applications or of
other parties. `EveryCallAnswered` says that the queue survives a failing call
and that retries end.

`Lifecycle` assumes that the 25 s timer fires unless it is cleared, and nothing
of requests, streams or the pool: `StopsAtLast` holds in spite of them.

## 4. Findings

1. **An upgrade the hash index loses** (`PendingFoundByHash`). Two upgrades to
   one build are pending; the first expires and is swept; the sweep removes the
   index entry of that hash (`lib.rs:1543`), which by then named the second
   (`propose_upgrade` overwrote it). `get_pending_upgrade_by_hash` no longer
   finds an upgrade that is pending, which `lib.rs:208` and the contract's
   README promise. What does hold, and is proved, is that the index never finds a
   wrong one (`UpgradeRecordsSound`).
2. **A lost approval** (`EveryApprovalCounted`, `multisig.ts:191`). Two
   approvals read the same count; both are answered 200, one is counted.
3. **A transfer beyond the daily limit** (`DailyLimitHolds`, `tokens.ts:482`).
   A submission without an answer is marked failed and its allowance is free
   again; the network applies it after all. `compliance.ts:24` promises at most
   100 tokens a day. What does hold is `AllowanceKept`: whatever is reserved or
   known to be submitted stays within the limit (proved, `AllowanceHolds`).
4. **The page that is asked for** (`AskedPageShown`, `MemberList.tsx:226`). A
   list that fetches its own pages goes back to page 1 while the answer for any
   other is under way, because the number of pages is then unknown.

Observations. The models have these behaviours; no text of the repository
clearly denies them, or denying them needs no run.

* Multi-signature requests: an approval can land after a rejection and revive
  the request (`multisig.ts:195`); `execute` accepts a pending request
  (`multisig.ts:260`), and of two the second's hash stands; `ExecutedIsFinal`
  holds only because the table's CHECK refuses a row with `executed_at` and
  another status, and the refused call ends the process. `expires_at` is read by
  nobody. The API sends no `signers`, so the page's `userHasSigned` is never true
  and one member may approve twice; the list has no tab for approved requests
  and never offers Execute.
* Loans: one may be closed with up to a stroop outstanding, and a repayment of
  one stroop too much is answered 500 instead of 400.
* Communities: the last admin can leave or demote itself (`communities.ts:724`).
  `/:id/delegate` is registered twice (`proposals.ts:175`, `:376`); the first wins.
* Tokens: a database failure after a submission that succeeded is answered 400
  (`tokens.ts:381`).
* Prices: `prices.ts:11` says up to 30 seconds; `AgeBounded` is about twice that.
* Transfer form: `assetIssuer: ''` (`useTransferToken.ts:29`) is refused by
  `schemas/transaction.ts:49`, so lumens can never be sent through it; a pasted
  `1e3` becomes `13` and `-2` becomes `2`; issues the server reports about
  `assetIssuer` or `senderPublicKey` are shown under no control; a success clears
  what was typed meanwhile; the timer is cleared before the body is read
  (`api.ts:413`).
* Shutdown: a handler whose client hung up is not waited for (`index.ts:53`). Its
  query or transaction is, by the pool, but what it does between two of them, such
  as recording what the network answered, is cut by `process.exit(0)`.
* Rate limits: "throttled before they are blocked" (`rateLimit.ts:125-130`) has an
  exception. Requests that wait between a slow-down and its limit while the
  slow-down's window ends reach the limit with those of the next window: at the api
  limiter's 150 and 300, one request of an earlier window and 150 of each of two
  are over the limit, none of them slowed down. `RefusedAfterWarning` exempts it
  (`late`).
* Batches: the third column of a CSV is a memo to the form and an asset code to
  `/parse-csv`; `/parse-csv` accepts more than the 100 entries `/disburse`
  takes.
* Envelopes: the comment of `submitSignedXdr` (`transactions.ts` 100-112) says it
  rejects envelopes of another network and throws `StellarError`;
  `new Transaction` does neither, and malformed XDR is answered 502.
  `mapHorizonError` looks at the first operation's code only; one refusal is 400
  by the `StellarError` path and 422 or 402 by the other. `buildMultiSigPayment`
  asks for 0 signatures where the threshold is 0.
* Path payments: `describeOperation` puts one amount beside two assets
  (`xdrDetails.ts` 242-253). A strict send's is of the asset sent, and the field
  `asset` is the one that arrives; a strict receive's is of the asset that
  arrives, and the summary names it with the one sent. `ShownRightly` asks only
  that the fields or the summary be right, which holds of both.
* Time bounds: "an explicit `0` means it never expires" (`timeBounds.ts:25`), but
  a maximum of half a second, or a Date in the first second of 1970, is cut to 0
  before it is looked at. `WindowKept` says so.
* Balance cache: `/submit` evicts nothing (`tokens.ts` 346-374), so balances from
  before a transfer signed by a member are served until they expire.
* Batch previews: totals are added in doubles (`batch.ts` 125-131), and those
  above 2^53 stroops can be shown a few stroops off.
* Member list: after a change of the query a list that was further on shows the
  new last page instead of the first, because of two effects that set the page the
  second wins (`MemberList.tsx` 202-213).
* Members page: after a removal the focus is on the body; text typed during an
  addition is wiped.
* Wallet: a sign-in whose body is lost after its headers leaves the new cookies
  with the tab's old CSRF token (`torn`), and the 403 that answers the tab's writes
  from then on asks nobody to sign in again. A tab may act as an address other than the selected one
  (`useWallet.ts:111`).

## 5. Proofs

All theorems hold for every value of the constants that satisfies the modules'
named assumptions: absent values differ from real ones (no address, id, row or
record is the value that stands for none), bounds and amounts are natural
numbers, accounts and transfers are finite where the code counts or sums them,
a stored status is not the mark of an absent row. Nothing is assumed of how many
there are of anything.

A component that a run checks beside another is proved about in the module of
proofs of that run's MC module, since that is where its variables and its
property are: `MCSpec => KycSound` says that however the other component is
chosen, whenever the behaviour is one of `Compliance` it has the property.

* **Voting** (`GovernanceVotingProofs`). `TypeCorrect`. `DelegationConsistent`:
  the index and the one hop are inductive only together. Without the index
  `remove_delegator` may leave an entry behind, and without `HasInbound` being
  exactly "somebody delegated to me" a chain can form. `PowerCountedOnce`, on
  top of the delegation invariant, which makes every represented account occur
  once. `ExecutionQuorate`: strengthened by `Fresh` (ids above the counter are
  unused) and `Founded` (proposals exist only once initialised, so that the
  quorum is fixed). `WindowFreezesTally` follows from the guards and the type
  invariant. `VotingImplementsBallot` puts all of this together: initial states
  map to initial states, every call to a step of the ballot or a stutter; the
  group of a ballot is the set of accounts it represents.
* **Tallies** (`GovernanceVotingProofs`). `TalliesAddUp`: the two tallies of a
  proposal are the sums of its ballots. The sum of a function over a finite set
  is the community modules' `MapThenSumSet`, which takes one chosen element after
  another out of the set; `SumExists`, `SumUnique` and `SumWithout` show from a
  smallest counterexample that this function exists, is unique and does not
  depend on the order, and `TotalPlus`, `TotalWithout`, `TotalOne` that it adds
  up. `ParticipationBounded` is the part of it that needs a premise: while no
  token moves, what took part is at most what is held, because the ballots of a
  proposal have disjoint groups of counted accounts. With tokens moving it does
  not hold (the hazard at `lib.rs:654`), which is why the premise is in the
  theorem.
* **The daily allowance and KYC** (`GovernanceVotingProofs`). `AllowanceHolds`
  rests on the advisory lock: at most one transfer of an account is between its
  count and its insertion (`LockExclusive`), so what a reservation has counted is
  still all that counts when its row is inserted (`HasRoom`), whatever fails,
  crashes or is marked meanwhile. `Accounted` says what a row and the ledger can
  be at each stage of a transfer, from which `RowsTellTheTruth` follows.
  `KycConsistent`: an initiation that restarts a record holds its row, so the
  record is still the one it found, and no verdict is overwritten.
* **Control** (`GovernanceAdminProofs`). `CustodyRecorded` needs
  `PendingNamesAnother` and the number of records next to the chain.
  `ControlNotEscalated` is inductive as it stands. `OldKeyPowerless` is an action
  property and follows from the type invariant and the guard that a successor is
  another account. `PauseRecorded` is by induction over appended records.
* **Upgrades** (`GovernanceUpgradesProofs`). `UpgradeRecordsAgree`: an id that is
  not pending has no approvers, which is what keeps approvals from being carried
  over; `LiveUpgradesStay` uses it.
* **Communities** (`GovernanceUpgradesProofs`). `CommunitiesStayClosed`: live
  names are unique, a deleted community stays deleted and, once the requests that
  had found it live are answered, its row stays as it is and nobody joins it. Next
  to the unique index it needs what every request in flight carries
  (`RequestsCarry`), since a request acts on the row its guard has seen.
* **Payment stream** (`GovernanceUpgradesProofs`). `FeedNewestFirst`: the frames
  of a connection are in the order of the ledger, a connection that becomes the
  source starts behind everything the list holds, and a connection that was left
  is not heard (`FeedInv`); so every payment that is put on top of the list is
  newer than all of it.
* **Prices** (`GovernanceUpgradesProofs`). `PricesAreFresh` says how old a price
  may be wherever it is: in a server's memory (`Remembered`), in Redis
  (`SharedIn`) and in every message between them (`AgeAt`), which adds the time it
  was under way. Redis never holds what was read from itself, so the two lifetimes
  add up once. Assumed are a lifetime of at least one tick and messages to and
  from Redis that arrive or fail within some delay; the client sets no limit to
  it, so the bound is stated for every delay.
* **Migrations** (`GovernanceUpgradesProofs`). `SchemaStaysRecorded`: whoever is
  past the lock holds it, so what a process has read stays true until it is done
  with it; what is left of its list is in order, shipped by its image and, together
  with what is recorded, all that the image ships (`Due`). `SortedExists` shows that
  every set of numbers has the list the model sorts it into. Assumed is that every
  image ships the bootstrap file in one version: `ensureSchemaMigrationsTable` runs
  it again at each start, and adopts its checksum for a row that has none.
* **Contract** (`GovernanceContractProofs`). `ContractImplementsVoting`,
  `ContractImplementsAdmin`, `ContractImplementsUpgrades`, and all three as
  `ContractImplementsParts`: every call of the contract is a call of one part and
  for the others a stutter, a pause or a change of role holders. With them the
  theorems above hold of the whole contract. The only invariant needed is that
  the pause switches are Booleans. Two theorems combine parts: `PauseHolds` (no
  proposal is created and no ballot counted while the history says paused) and
  `ApprovalsAreControlled` (whoever approves an upgrade holds the Upgrade role by
  the doing of an admin, which uses the admin part's invariant about blessed assignments
  next to the upgrade part's).
* **Member list** (`GovernanceContractProofs`). `PagesAreShown`: at most one request
  is not cancelled, and it is for what the list last rendered (`RowsFollow`), so
  whichever answers arrive, in any order, the rows are those of the page on the
  screen. `PageFollows` says what page that is while a render is due;
  `RenderSettles`, that a render leaves a page that exists.
* **Transfer form** (`GovernanceContractProofs`). `TransferHolds`: a payment is in
  the hands of the route or of the network at most once, and carries the request
  and the account of its attempt (`PaymentsSound`); an attempt that is over has
  ended once (`EndsSound`); what the form shows is the answer of the attempt it
  belongs to (`AttemptSound`, `HashSound`). The cases are those of the code: a
  timeout before the answer, an answer that is lost, an envelope applied later,
  another transaction of the sender that takes the number.
* **Walks** (`GovernanceVotingProofs`). `WalksAreComplete`, for each of the sixteen
  lists. A row the walk has not seen has at least as many rows ahead of it as the
  pages asked for hold (`Steady`): a write that does not disturb the walk takes
  none of them away and moves none (`AheadStays`), and a page shows exactly the
  rows at its places, because without ties a row's place is the number of rows
  ahead of it whatever order the database answers in (`Positions`). Between the
  COUNT and the SELECT nothing comes ahead of a listed row (`NothingAhead`), so
  the row is among those counted, and the last page is not before it.
* **Loans** (`LoanLedgerProofs`). `IInvHolds` is the inductive invariant under
  the refinement: a transaction in progress holds the rows it wrote (`Holds`),
  hence what it has put aside is an update of the row that is committed now
  (`Written`, `RatedNow`). With it `LedgerImplementsBook` maps each `Commit` and
  `CancelLoan` to a call of the book and every other step to a stutter. The
  remaining theorems are proved of the book's calls and carried over:
  `LoansAccountedFor` (the log accounts for the row; an active loan owes at least
  a stroop, and whole stroops reach every total up to less than one),
  `ReputationIsRight` (over the cardinalities of sets of loans) and
  `LoansEndOnce`.
* **Multisig** (`MultisigProofs`). `TypeCorrect` includes the table's
  constraints. `CountsAgree` needs the invariant that what a call in flight has
  seen never exceeds the approvals stored so far. `ExecutionIsFinal` rests on
  `LegalRow` alone.
* **Sign-in** (`MultisigProofs`). `TokensHold`: every token goes back to a
  challenge that its address was given (`Grounded`), no two tokens come from one
  challenge or one refresh token (`UsedOnce`), and from a challenge that waits or
  a refresh token that can still be redeemed nothing has come yet (`Unspent`). No
  two tabs sign one challenge, which is what keeps a tab from taking it away from
  itself (`TriesSound`). Of a sign-in whose cookies are stored and whose body is
  still to be read, the cookie in the jar is its own, none or another client's, or
  it is torn (`Whole`); hence a tab whose token is not the cookie's was overtaken,
  is reading, or holds half of a torn answer (`Current`).
* **The pages** (`MultisigProofs`). `ScreensHold`. On the members page only the
  rows of the latest request can be shown, and a removed member is in none of
  those that can still arrive once its removal was answered (`GoneStay`), because
  the list is fetched again after the answer; while a removal is under way the
  dialog is busy (`Busy`), and as long as the row is on the page the focus can go
  back to where the dialog was opened (`FocusFrom`). On the page of a request what
  is fetched last tells of every press that is done, since that fetch is sent
  after the UPDATE (`Told`), and an Execute that is on its way was pressed on a
  row that had been approved (`Backed`); the handlers behind it are those of
  `Multisig`, and nothing is assumed of what other members call.
* **Submissions** (`SubmissionsProofs`). `TypeCorrect`, and `SettlementHolds`:
  the inductive invariant calls a ledger entry conclusive when its envelope is
  not among those whose answer was lost; a call has at most one conclusive entry,
  and only once it has been answered, with what the entry did. `HoldersExcluded`:
  at most one queued call of an account holds the cached `Account`. `CacheTracks`
  builds on it: as long as every submission is answered, none is refused before it
  uses its number and all go through the queue, the cached number is the ledger's
  plus the one build in flight, and nobody is rebuilt.
* **Proposals** (`ProposalsProofs`). `TypeCorrect`, `DelegationOneHop` and
  `DelegationsBeforeVotes`. At most one transaction is past the lock of a proposal
  (`Exclusive`), so what its earlier queries found is still so at the insertion
  (`Clear`).
* **Balances and the supply** (`ProposalsProofs`). `BalancesStayFresh`. An
  eviction marks every balance that has been read and is still to be stored, and
  what is not marked was read after the last one (`CacheInv`). The bound on
  staleness needs the age of a read and the ticks an entry has left: what was told
  as many ticks ago as both leave is in what was read (`ReadSound`,
  `EntrySound`). Assumed is an entry that lives at least a tick, of any length.
  The recorded supply needs to know where the calls are (`SupplyFollows`): as long
  as nothing spoils it, one call at a time asks for the refresh, what it has read
  is still so when it writes, and only between its operation and its UPDATE may
  the record differ from the ledger. `SumIsNat` shows that the sum the model takes
  over the holders exists, for any finite number of them.
* **Batch disbursements** (`ProposalsProofs`). `DisbursementsHold`. Lines, totals,
  codes and balances are folds over a text or a batch. `FoldExists` shows that such
  a fold has the values it goes through, by the well-foundedness of the naturals;
  the lemmas named `...Trace` say so for each fold of the model, as a sequence of
  values of which each comes from the one before it. Two traces are then compared
  place by place: the totals with what a sender is left with (`TotalsAddUp`), the
  payments of a batch with those made before it (`WholeBatch`), a batch with its
  first payments (`PrefixCodes`), the lines that are read with those that are not
  skipped (`OnlyAgrees`). Assumed are amounts and funds that are natural numbers;
  how far a double holds a total is any number.
* **Envelopes** (`ProposalsProofs`). `EnvelopesHold`. What is built meets what was
  asked once that is cut to seconds (`MeetsAsk`, `SecondsCut`), and what was
  applied was applied while it was open (`AppliedOK`); the server's signature is
  on an envelope once, and once on a fee bump around it (`OnceMore`); every
  operation is shown rightly, type by type (`OperationShown`). Nothing is claimed
  of signatures before the submission: `validateXdr` does not look at them. That
  `buildMultiSigPayment` asks for signers that reach the threshold, and for no
  more than are needed (none for a threshold of 0, where the network wants one),
  takes lemmas of its own: the signers that carry weight can be listed heaviest
  first (`RankedExists`, `RankedHasAll`); the two folds over that list are the sums
  of its first weights (`AvailableIs`, `ReachIs`); a sum over a set of keys splits
  at any key (`WeightSplits`), so no set of as many keys outweighs the first ones
  of the list (`HeadsAreHeaviest`). Assumed is a default timeout of at least a
  second that does not run past the last second a time bound can hold.

Only model-checked:

* `EveryRequestAnswered`, `EveryCallAnswered` and `StopsAtLast`: liveness under
  fairness is beyond the prover's reach, as is `ENABLED`.
* `RefusedAfterWarning`, for limits at least twice their slow-down's, as the code
  configures them (`LimitsAssumption`). It exempts refusals to which a request
  contributed that came `late`: it waited between slow-down and limit until the
  slow-down had begun to count anew. They happen, at the api limiter's two to one
  as well: see the observations in section 4.
* The four properties of section 4 do not hold.

## 6. Plan

Done: the contract and its parts, multi-signature requests, loans, submissions
and off-chain proposals, each with proofs; the other components of section 2
with their properties. What would add most next:

1. `Compliance` and `Submissions` composed: a transfer's retries under its
   reservation.
2. The deletion of a community under its loans and proposals.
3. DEX offers as operations of `TokenLedger`.

## 7. Not modelled

* The contract's queries change nothing. `get_analytics`, with its saturation at
  100 %, is left out.
* DEX offers, account data and account details (`contracts/`): builders and
  reads of one call each that keep no state. What they share with the others,
  the source account's sequence number, is in `Submissions`.
* Transaction fees beyond whether an account can pay them; Horizon and Soroban
  themselves, which are modelled as what the code can meet of them.
* The settings of a community and the limits on their values, the audit log,
  descriptions, titles and notification texts: written whole and read by no
  decision. The webhook's signature check only refuses calls.
* `due_at` and `expires_at`, which no code reads; the deletion of a community,
  which takes its loans along.
* The frontend's remaining pages and components render what the API answers, and
  their forms make one call each. Formatting, layout and accessibility attributes
  are no state of the system.
* Build, deployment and CI are scripts around external tools.
