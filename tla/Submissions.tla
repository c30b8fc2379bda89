---------------------------- MODULE Submissions ----------------------------
(***************************************************************************)
(* Transactions the backend submits for one source account                 *)
(* (backend/src/contracts/sequenceCache.ts, stellar.ts, and the callers of *)
(* withSequenceRetry in assets.ts, trustlines.ts, claimableBalance.ts and  *)
(* manageData.ts), next to the paths that load the account themselves      *)
(* (submitPayment, submitBatchPayment, distributeAsset, setTrustlineFlags) *)
(* and to transactions other parties submit for the account.               *)
(*                                                                         *)
(* A queued call waits for the promise of the call before it, takes the    *)
(* cached Account (or loads it), and builds: building advances the cached  *)
(* sequence whether or not the submission succeeds.  JavaScript runs a     *)
(* continuation to its next await, so each action below is one such burst. *)
(*                                                                         *)
(* Sequence numbers are positions of the account's ledger: a transaction   *)
(* with sequence n is applied exactly as its n-th entry.  What a           *)
(* transaction does is left out, except that it may fail and have no       *)
(* effect; delays and log lines are left out.                              *)
(***************************************************************************)
EXTENDS Integers, Sequences, FiniteSets

CONSTANTS Queued,      \* calls that go through withSequenceRetry
          Direct,      \* calls that load the account themselves
          None,        \* no entry, no caller
          MaxAttempts, \* HORIZON_RETRY_CONFIG.maxAttempts
          MaxFaults    \* bound: transactions of other parties and envelopes
                       \* without a conclusive answer

ASSUME CallsAssumption == Queued \cap Direct = {} /\ None \notin Queued \cup Direct
ASSUME AttemptsAssumption == MaxAttempts \in Nat \ {0} /\ MaxFaults \in Nat

VARIABLES
  ledger,     \* the account's applied transactions, in sequence order
  cache,      \* sequence number of the cached Account, None if absent or expired
  tail,       \* the promise queues.get(publicKey) holds
  calls,      \* what each call is doing
  unanswered, \* history: envelopes whose submission got no conclusive answer
  refused     \* history: a submission was refused without using its sequence

vars == <<ledger, cache, tail, calls, unanswered, refused>>

Calls    == Queued \cup Direct
Run      == [call : Queued, nth : 1 .. 2]
Envelope == [call : Calls, nth : 1 .. 2, seq : Nat \ {0}]
Entry    == [call : Calls \cup {None}, nth : 1 .. 2, effect : BOOLEAN]
Call     == [pc : {"idle", "waiting", "loading", "submitting", "ok", "failed", "gone"},
             nth : 1 .. 2, prev : Run \cup {None}, seq : Nat, tries : Nat]

(* The absence of a promise is not a promise.                              *)
ASSUME NoneAssumption == None \notin Run

At(pc, nth, prev, seq, tries) ==
  [pc |-> pc, nth |-> nth, prev |-> prev, seq |-> seq, tries |-> tries]

Unstarted == At("idle", 1, None, 0, 0)

Init ==
  /\ ledger = <<>>
  /\ cache = None
  /\ tail = None
  /\ calls = [c \in Calls |-> Unstarted]
  /\ unanswered = {}
  /\ refused = FALSE

-----------------------------------------------------------------------------
RunOf(c) == [call |-> c, nth |-> calls[c].nth]

EnvelopeOf(c) == [call |-> c, nth |-> calls[c].nth, seq |-> calls[c].seq]

Settled(run) ==
  \/ run = None
  \/ run # None /\ \/ calls[run.call].nth > run.nth
                   \/ calls[run.call].pc \in {"ok", "failed", "gone"}

OnLedger(env) ==
  /\ env.seq <= Len(ledger)
  /\ ledger[env.seq].call = env.call /\ ledger[env.seq].nth = env.nth

IsNext(env) == env.seq = Len(ledger) + 1

Extended(env, effect) ==
  Append(ledger, [call |-> env.call, nth |-> env.nth, effect |-> effect])

(* The queue's last promise once c's run has settled: withAccount deletes  *)
(* the map entry only if it is still its own.                              *)
Released(c) == IF tail = RunOf(c) THEN None ELSE tail

(* c is answered; nothing is left of its run in the queue.                 *)
Finish(c, pc) ==
  /\ calls' = [calls EXCEPT ![c] = At(pc, @.nth, None, 0, 0)]
  /\ tail' = Released(c)

(* Faulty: the transaction is built on a copy of the cached Account.       *)
RunOnCopy(c, seq) ==
  /\ \/ /\ calls' = [calls EXCEPT ![c] = At("submitting", @.nth, None, seq + 1, 1)]
        /\ cache' = IF c \in Queued THEN seq ELSE cache
        /\ UNCHANGED tail
     \/ /\ Finish(c, "failed")
        /\ cache' = IF c \in Queued THEN seq ELSE cache
  /\ UNCHANGED <<ledger, unanswered, refused>>

(* fn(account) with the account at sequence seq: it builds and submits, or *)
(* throws before the build (a malformed memo, a window already closed).    *)
(* Only queued calls share their Account with the cache.                   *)
RunOn(c, seq) ==
  /\ \/ /\ calls' = [calls EXCEPT ![c] = At("submitting", @.nth, None, seq + 1, 1)]
        /\ cache' = IF c \in Queued THEN seq + 1 ELSE cache
        /\ UNCHANGED tail
     \/ /\ Finish(c, "failed")
        /\ cache' = IF c \in Queued THEN seq ELSE cache
  /\ UNCHANGED <<ledger, unanswered, refused>>

-----------------------------------------------------------------------------
(* Entering and leaving the queue.                                         *)

Enqueue(c) ==
  /\ c \in Queued /\ calls[c].pc = "idle"
  /\ calls' = [calls EXCEPT ![c] = At("waiting", @.nth, tail, 0, 0)]
  /\ tail' = RunOf(c)
  /\ UNCHANGED <<ledger, cache, unanswered, refused>>

CallDirectly(c) ==
  /\ c \in Direct /\ calls[c].pc = "idle"
  /\ calls' = [calls EXCEPT ![c] = At("loading", @.nth, None, 0, 1)]
  /\ UNCHANGED <<ledger, cache, tail, unanswered, refused>>

(* The promise before c's has settled: getAccount.                         *)
TakeTurn(c) ==
  /\ calls[c].pc = "waiting" /\ Settled(calls[c].prev)
  /\ IF cache # None
     THEN RunOn(c, cache)
     ELSE /\ calls' = [calls EXCEPT ![c] = At("loading", @.nth, None, 0, 1)]
          /\ UNCHANGED <<ledger, cache, tail, unanswered, refused>>

(* The entry is 30 seconds old: the next getAccount loads again.           *)
CacheExpires ==
  /\ cache # None
  /\ cache' = None
  /\ UNCHANGED <<ledger, tail, calls, unanswered, refused>>

-----------------------------------------------------------------------------
(* What Horizon answers.                                                   *)

Loaded(c) ==
  /\ calls[c].pc = "loading"
  /\ RunOn(c, Len(ledger))

(* Faulty: the count starts over and the call never gives up.              *)
AttemptForever(c) ==
  /\ calls' = [calls EXCEPT ![c].tries = IF @ < MaxAttempts THEN @ + 1 ELSE 1]
  /\ UNCHANGED tail

(* withRetry after a 429 or a 503: again, until the attempts are used up.  *)
NextAttempt(c) ==
  \/ /\ calls[c].tries < MaxAttempts
     /\ calls' = [calls EXCEPT ![c] = At(@.pc, @.nth, None, @.seq, @.tries + 1)]
     /\ UNCHANGED tail
  \/ /\ calls[c].tries = MaxAttempts
     /\ Finish(c, "failed")

LoadUnavailable(c) ==
  /\ calls[c].pc = "loading"
  /\ NextAttempt(c)
  /\ UNCHANGED <<ledger, cache, unanswered, refused>>

LoadFails(c) ==
  /\ calls[c].pc = "loading"
  /\ Finish(c, "failed")
  /\ UNCHANGED <<ledger, cache, unanswered, refused>>

(* withSequenceRetry rebuilds once.                                        *)
MayRebuild(c) == c \in Queued /\ calls[c].nth = 1

(* The cached Account is dropped and the second run joins the queue.       *)
Rebuild(c) ==
  /\ calls' = [calls EXCEPT ![c] = At("waiting", @.nth + 1, Released(c), 0, 0)]
  /\ tail' = [call |-> c, nth |-> calls[c].nth + 1]
  /\ cache' = None

(* Faulty: a transaction that was applied and failed is rebuilt.           *)
AnswerOrRebuild(c, effect) ==
  IF effect \/ ~MayRebuild(c)
  THEN Finish(c, IF effect THEN "ok" ELSE "failed") /\ UNCHANGED cache
  ELSE Rebuild(c)

(* Horizon's answer for an applied transaction.                            *)
Answer(c, effect) ==
  /\ Finish(c, IF effect THEN "ok" ELSE "failed")
  /\ UNCHANGED cache

(* Applied, or known to have been applied by an earlier attempt.  A        *)
(* transaction whose operation fails still uses its sequence number.       *)
Applied(c) ==
  /\ calls[c].pc = "submitting" /\ IsNext(EnvelopeOf(c))
  /\ \E effect \in BOOLEAN :
       /\ ledger' = Extended(EnvelopeOf(c), effect)
       /\ Answer(c, effect)
  /\ UNCHANGED <<unanswered, refused>>

FoundApplied(c) ==
  /\ calls[c].pc = "submitting" /\ OnLedger(EnvelopeOf(c))
  /\ Answer(c, ledger[calls[c].seq].effect)
  /\ UNCHANGED <<ledger, unanswered, refused>>

(* Refused before it is applied (fee, signature, time bounds).             *)
Refused(c) ==
  /\ calls[c].pc = "submitting" /\ ~OnLedger(EnvelopeOf(c))
  /\ refused' = TRUE
  /\ Finish(c, "failed")
  /\ UNCHANGED <<ledger, cache, unanswered>>

(* tx_bad_seq.  The network also answers it for an envelope it has already *)
(* applied, when Horizon does not find that transaction.                   *)
BadSequence(c) ==
  /\ calls[c].pc = "submitting" /\ ~IsNext(EnvelopeOf(c))
  /\ IF MayRebuild(c) THEN Rebuild(c) ELSE Finish(c, "failed") /\ UNCHANGED cache
  /\ UNCHANGED <<ledger, unanswered, refused>>

(* 429: not submitted.                                                     *)
RateLimited(c) ==
  /\ calls[c].pc = "submitting"
  /\ NextAttempt(c)
  /\ refused' = TRUE
  /\ UNCHANGED <<ledger, cache, unanswered>>

(* Transactions of other parties.                                          *)
ForeignEntries == {p \in DOMAIN ledger : ledger[p].call = None}

(* The answer to envelopes envs is lost.                                   *)
Lose(envs) ==
  /\ unanswered' = unanswered \cup envs
  /\ Cardinality(unanswered') + Cardinality(ForeignEntries) <= MaxFaults

(* 503: tried again, whatever became of the first submission.              *)
Unavailable(c) ==
  /\ calls[c].pc = "submitting"
  /\ NextAttempt(c)
  /\ Lose({EnvelopeOf(c)})
  /\ UNCHANGED <<ledger, cache, refused>>

(* 504 or a broken connection: not tried again.                            *)
NoAnswer(c) ==
  /\ calls[c].pc = "submitting"
  /\ Finish(c, "failed")
  /\ Lose({EnvelopeOf(c)})
  /\ UNCHANGED <<ledger, cache, refused>>

-----------------------------------------------------------------------------
(* The network and the process.                                            *)

(* An envelope whose submission got no answer is applied after all.        *)
AppliedLate(env) ==
  /\ IsNext(env)
  /\ \E effect \in BOOLEAN : ledger' = Extended(env, effect)
  /\ UNCHANGED <<cache, tail, calls, unanswered, refused>>

AppliedForAnother ==
  /\ Cardinality(unanswered) + Cardinality(ForeignEntries) < MaxFaults
  /\ ledger' = Append(ledger, [call |-> None, nth |-> 1, effect |-> TRUE])
  /\ UNCHANGED <<cache, tail, calls, unanswered, refused>>

Active(c) == calls[c].pc \in {"waiting", "loading", "submitting"}

(* The process restarts: its calls are gone, with the queue and the cache. *)
Crash ==
  /\ \E c \in Calls : Active(c)
  /\ calls' = [c \in Calls |-> IF Active(c) THEN At("gone", calls[c].nth, None, 0, 0)
                                            ELSE calls[c]]
  /\ Lose({EnvelopeOf(c) : c \in {d \in Calls : calls[d].pc = "submitting"}})
  /\ cache' = None /\ tail' = None
  /\ UNCHANGED <<ledger, refused>>

Step(c) ==
  \/ TakeTurn(c)
  \/ Loaded(c) \/ LoadUnavailable(c) \/ LoadFails(c)
  \/ Applied(c) \/ FoundApplied(c) \/ Refused(c) \/ BadSequence(c)
  \/ RateLimited(c) \/ Unavailable(c) \/ NoAnswer(c)

Next ==
  \/ \E c \in Calls : Enqueue(c) \/ CallDirectly(c) \/ Step(c)
  \/ \E env \in unanswered : AppliedLate(env)
  \/ CacheExpires \/ AppliedForAnother \/ Crash

Spec == Init /\ [][Next]_vars

(* Timers fire and Horizon answers, or the HTTP client gives up.           *)
FairSpec == Spec /\ \A c \in Calls : WF_vars(Step(c))

-----------------------------------------------------------------------------
(* Properties.                                                             *)

TypeOK ==
  /\ ledger \in Seq(Entry)
  /\ cache \in Nat \cup {None}
  /\ tail \in Run \cup {None}
  /\ calls \in [Calls -> Call]
  /\ unanswered \in SUBSET Envelope
  /\ refused \in BOOLEAN

(* At most one queued call at a time is between getAccount and its answer, *)
(* so no two of them build on one Account object concurrently              *)
(* (SequenceCacheClass.withAccount, whose queue survives a failing run, a  *)
(* retry and the deletion of its map entry).                               *)
OneHolder ==
  \A c, d \in Queued :
    calls[c].pc \in {"loading", "submitting"} /\ calls[d].pc \in {"loading", "submitting"}
      => c = d

(* A call whose transactions enter the ledger twice lost the answer to one *)
(* of them: neither withRetry's resubmission nor the rebuild of            *)
(* withSequenceRetry repeats a transaction whose answer arrived.           *)
AppliedOnce ==
  \A p, q \in DOMAIN ledger :
    p # q /\ ledger[p].call = ledger[q].call /\ ledger[p].call # None
      => \E env \in unanswered : env.call = ledger[p].call

(* A call answered with success has taken effect, and one answered with an *)
(* error has not, unless the answer to a submission of it was lost.        *)
AnswersAreTrue ==
  \A c \in Calls :
    /\ calls[c].pc = "ok" =>
         \E p \in DOMAIN ledger : ledger[p].call = c /\ ledger[p].effect
    /\ calls[c].pc \in {"failed", "gone"} =>
         \/ \A p \in DOMAIN ledger : ledger[p].call = c => ~ledger[p].effect
         \/ \E env \in unanswered : env.call = c

(* What a caller may conclude from its answer                              *)
(* (stellar.ts withRetry, sequenceCache.ts withSequenceRetry).             *)
Settlement == AppliedOnce /\ AnswersAreTrue

(* Something the cached sequence cannot account for: a transaction that    *)
(* did not go through the queue, or a build that was not applied.          *)
Drifted ==
  \/ refused \/ unanswered # {}
  \/ \E p \in DOMAIN ledger : ledger[p].call \notin Queued

(* While every transaction of the account goes through the queue and is    *)
(* answered, no submission meets tx_bad_seq: the cached sequence is the    *)
(* ledger's, with a build in flight counted.                               *)
CacheTracksLedger ==
  ~Drifted =>
    /\ \A c \in Queued : calls[c].nth = 1
    /\ cache # None => cache = Len(ledger)
                         + Cardinality({c \in Queued : calls[c].pc = "submitting"})

(* Every call made is answered, or lost with its process: the queue never  *)
(* stalls behind a call that failed, and retries end.                      *)
EveryCallAnswered ==
  \A c \in Calls : Active(c) ~> calls[c].pc \in {"ok", "failed", "gone"}
=============================================================================
