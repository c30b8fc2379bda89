------------------------- MODULE SubmissionsProofs -------------------------
(***************************************************************************)
(* What a caller may conclude from the answer to a submission holds for    *)
(* any number of calls, attempts, foreign transactions and lost answers.   *)
(*                                                                         *)
(* The inductive invariant calls a ledger entry conclusive when its        *)
(* envelope is not among those whose answer was lost.  A call has at most  *)
(* one conclusive entry, and only once it has been answered.               *)
(*                                                                         *)
(* That the cached sequence number tracks the ledger rests on the queue:   *)
(* its links are shown to form one line of calls whose head alone runs.    *)
(***************************************************************************)
EXTENDS Submissions, FiniteSetTheorems, TLAPS

Conclusive(p) ==
  /\ ledger[p].call # None
  /\ [call |-> ledger[p].call, nth |-> ledger[p].nth, seq |-> p] \notin unanswered

(* A conclusive entry is what its call was answered for.                   *)
ConclusiveAnswered ==
  \A p \in DOMAIN ledger : Conclusive(p) =>
    calls[ledger[p].call].pc = IF ledger[p].effect THEN "ok" ELSE "failed"

ConclusiveUnique ==
  \A p, q \in DOMAIN ledger :
    Conclusive(p) /\ Conclusive(q) /\ ledger[p].call = ledger[q].call => p = q

OkApplied ==
  \A c \in Calls : calls[c].pc = "ok" =>
    \E p \in DOMAIN ledger : ledger[p].call = c /\ ledger[p].effect

(* A call that is submitting carries the sequence number it built.         *)
SeqBuilt == \A c \in Calls : calls[c].pc = "submitting" => calls[c].seq # 0

IInv == TypeOK /\ SeqBuilt /\ ConclusiveAnswered /\ ConclusiveUnique /\ OkApplied

-----------------------------------------------------------------------------
(* Type correctness.                                                       *)

LEMMA AtType ==
  ASSUME NEW pc \in {"idle", "waiting", "loading", "submitting", "ok", "failed", "gone"},
         NEW nth \in 1 .. 2, NEW prev \in Run \cup {None}, NEW seq \in Nat, NEW tries \in Nat
  PROVE  At(pc, nth, prev, seq, tries) \in Call
BY DEF At, Call

LEMMA CallsUpdate ==
  ASSUME TypeOK, NEW c \in Calls, NEW r \in Call
  PROVE  [calls EXCEPT ![c] = r] \in [Calls -> Call]
BY DEF TypeOK

LEMMA FieldTypes ==
  ASSUME TypeOK, NEW c \in Calls
  PROVE  /\ calls[c] \in Call /\ calls[c].nth \in 1 .. 2 /\ calls[c].seq \in Nat
         /\ calls[c].tries \in Nat /\ calls[c].prev \in Run \cup {None}
         /\ calls[c].pc \in {"idle", "waiting", "loading", "submitting", "ok", "failed", "gone"}
BY DEF TypeOK, Call

LEMMA InitType == Init => TypeOK
<1>1. Unstarted \in Call
  BY AtType, 0 \in Nat, 1 \in 1 .. 2 DEF Unstarted
<1> SUFFICES ASSUME Init PROVE TypeOK
  OBVIOUS
<1>2. ledger \in Seq(Entry)
  BY DEF Init
<1>3. calls \in [Calls -> Call]
  BY <1>1 DEF Init
<1> QED BY <1>2, <1>3 DEF Init, TypeOK

LEMMA ReleasedType ==
  ASSUME TypeOK, NEW c \in Calls
  PROVE  Released(c) \in Run \cup {None}
BY DEF TypeOK, Released

LEMMA FinishType ==
  ASSUME TypeOK, NEW c \in Calls, NEW pc \in {"ok", "failed"}, Finish(c, pc)
  PROVE  calls' \in [Calls -> Call] /\ tail' \in Run \cup {None}
<1>1. At(pc, calls[c].nth, None, 0, 0) \in Call
  BY AtType, FieldTypes
<1> QED BY <1>1, CallsUpdate, ReleasedType DEF Finish

LEMMA RebuildType ==
  ASSUME TypeOK, NEW c \in Calls, MayRebuild(c), Rebuild(c)
  PROVE  calls' \in [Calls -> Call] /\ tail' \in Run \cup {None} /\ cache' \in Nat \cup {None}
<1>1. calls[c].nth + 1 \in 1 .. 2 /\ c \in Queued
  BY DEF MayRebuild
<1>2. At("waiting", calls[c].nth + 1, Released(c), 0, 0) \in Call
  BY <1>1, AtType, ReleasedType
<1> QED BY <1>1, <1>2, CallsUpdate DEF Rebuild, Run

LEMMA RunOnType ==
  ASSUME TypeOK, NEW c \in Calls, NEW seq \in Nat, RunOn(c, seq)
  PROVE  TypeOK'
<1>1. CASE Finish(c, "failed") /\ cache' = IF c \in Queued THEN seq ELSE cache
  BY <1>1, FinishType DEF TypeOK, RunOn
<1>2. CASE /\ calls' = [calls EXCEPT ![c] = At("submitting", @.nth, None, seq + 1, 1)]
           /\ cache' = IF c \in Queued THEN seq + 1 ELSE cache
           /\ UNCHANGED tail
  <2>0. seq + 1 \in Nat /\ 1 \in Nat /\ None \in Run \cup {None}
    OBVIOUS
  <2>1. At("submitting", calls[c].nth, None, seq + 1, 1) \in Call
    BY <2>0, AtType, FieldTypes
  <2> QED BY <2>1, <1>2, CallsUpdate DEF TypeOK, RunOn
<1> QED BY <1>1, <1>2 DEF RunOn

LEMMA NextAttemptType ==
  ASSUME TypeOK, NEW c \in Calls, NextAttempt(c)
  PROVE  calls' \in [Calls -> Call] /\ tail' \in Run \cup {None}
<1>1. CASE Finish(c, "failed")
  BY <1>1, FinishType
<1>2. CASE /\ calls' = [calls EXCEPT ![c] = At(@.pc, @.nth, None, @.seq, @.tries + 1)]
           /\ UNCHANGED tail
  <2>0. calls[c].tries + 1 \in Nat /\ None \in Run \cup {None}
    BY FieldTypes
  <2>1. At(calls[c].pc, calls[c].nth, None, calls[c].seq, calls[c].tries + 1) \in Call
    BY <2>0, AtType, FieldTypes
  <2> QED BY <2>1, <1>2, CallsUpdate DEF TypeOK
<1> QED BY <1>1, <1>2 DEF NextAttempt

LEMMA EnvelopeType ==
  ASSUME TypeOK, SeqBuilt, NEW c \in Calls, calls[c].pc = "submitting"
  PROVE  EnvelopeOf(c) \in Envelope
BY FieldTypes DEF EnvelopeOf, Envelope, SeqBuilt

LEMMA ExtendedType ==
  ASSUME TypeOK, NEW env \in Envelope, NEW effect \in BOOLEAN,
         ledger' = Extended(env, effect)
  PROVE  ledger' \in Seq(Entry)
BY DEF TypeOK, Extended, Envelope, Entry

LEMMA LostType ==
  ASSUME TypeOK, NEW envs \in SUBSET Envelope, Lose(envs)
  PROVE  unanswered' \in SUBSET Envelope
BY DEF TypeOK, Lose

LEMMA StepType ==
  ASSUME TypeOK, SeqBuilt, NEW c \in Calls, Step(c)
  PROVE  TypeOK'
<1>1. CASE TakeTurn(c)
  <2>1. CASE cache # None
    BY <1>1, <2>1, RunOnType DEF TakeTurn, TypeOK
  <2>2. CASE cache = None
    <3>1. At("loading", calls[c].nth, None, 0, 1) \in Call
      BY AtType, FieldTypes, 0 \in Nat, 1 \in Nat, None \in Run \cup {None}
    <3> QED BY <1>1, <2>2, <3>1, CallsUpdate DEF TakeTurn, TypeOK
  <2> QED BY <2>1, <2>2
<1>2. CASE Loaded(c)
  <2>1. Len(ledger) \in Nat
    BY DEF TypeOK
  <2> QED BY <1>2, <2>1, RunOnType DEF Loaded
<1>3. CASE LoadUnavailable(c)
  BY <1>3, NextAttemptType DEF LoadUnavailable, TypeOK
<1>4. CASE LoadFails(c)
  BY <1>4, FinishType DEF LoadFails, TypeOK
<1>5. CASE Applied(c)
  <2>1. PICK effect \in BOOLEAN : ledger' = Extended(EnvelopeOf(c), effect) /\ Answer(c, effect)
    BY <1>5 DEF Applied
  <2>2. ledger' \in Seq(Entry)
    BY <1>5, <2>1, EnvelopeType, ExtendedType DEF Applied
  <2> QED BY <1>5, <2>1, <2>2, FinishType DEF Applied, Answer, TypeOK
<1>6. CASE FoundApplied(c)
  BY <1>6, FinishType DEF FoundApplied, Answer, TypeOK
<1>7. CASE Refused(c)
  BY <1>7, FinishType DEF Refused, TypeOK
<1>8. CASE BadSequence(c)
  BY <1>8, FinishType, RebuildType DEF BadSequence, TypeOK
<1>9. CASE RateLimited(c)
  BY <1>9, NextAttemptType DEF RateLimited, TypeOK
<1>10. CASE Unavailable(c)
  BY <1>10, NextAttemptType, EnvelopeType, LostType DEF Unavailable, TypeOK
<1>11. CASE NoAnswer(c)
  BY <1>11, FinishType, EnvelopeType, LostType DEF NoAnswer, TypeOK
<1> QED BY <1>1, <1>2, <1>3, <1>4, <1>5, <1>6, <1>7, <1>8, <1>9, <1>10, <1>11 DEF Step

LEMMA NextType ==
  ASSUME TypeOK, SeqBuilt, Next
  PROVE  TypeOK'
<1>1. ASSUME NEW c \in Calls, Enqueue(c) PROVE TypeOK'
  <2>1. calls[c].nth \in 1 .. 2 /\ tail \in Run \cup {None} /\ c \in Queued
    BY <1>1, FieldTypes DEF Enqueue, TypeOK
  <2>2. At("waiting", calls[c].nth, tail, 0, 0) \in Call
    BY <2>1, AtType, 0 \in Nat
  <2>3. RunOf(c) \in Run
    BY <2>1 DEF RunOf, Run
  <2> QED BY <1>1, <2>2, <2>3, CallsUpdate DEF Enqueue, TypeOK
<1>2. ASSUME NEW c \in Calls, CallDirectly(c) PROVE TypeOK'
  <2>1. At("loading", calls[c].nth, None, 0, 1) \in Call
    BY AtType, FieldTypes, 0 \in Nat, 1 \in Nat, None \in Run \cup {None}
  <2> QED BY <1>2, <2>1, CallsUpdate DEF CallDirectly, TypeOK
<1>3. ASSUME NEW c \in Calls, Step(c) PROVE TypeOK'
  BY <1>3, StepType
<1>4. ASSUME NEW env \in unanswered, AppliedLate(env) PROVE TypeOK'
  BY <1>4, ExtendedType DEF AppliedLate, TypeOK
<1>5. CASE CacheExpires
  BY <1>5 DEF CacheExpires, TypeOK
<1>6. CASE AppliedForAnother
  BY <1>6 DEF AppliedForAnother, TypeOK, Entry
<1>7. CASE Crash
  <2>1. \A c \in Calls : At("gone", calls[c].nth, None, 0, 0) \in Call /\ calls[c] \in Call
    BY AtType, FieldTypes, 0 \in Nat, None \in Run \cup {None}
  <2>2. calls' \in [Calls -> Call]
    BY <1>7, <2>1 DEF Crash
  <2>3. {EnvelopeOf(c) : c \in {d \in Calls : calls[d].pc = "submitting"}} \in SUBSET Envelope
    BY EnvelopeType
  <2> QED BY <1>7, <2>2, <2>3, LostType DEF Crash, TypeOK
<1> QED BY <1>1, <1>2, <1>3, <1>4, <1>5, <1>6, <1>7 DEF Next

-----------------------------------------------------------------------------
(* What a step does to the calls' answers.                                 *)

Answered(pc) == pc \in {"ok", "failed"}

EffectOf(c) == \E p \in DOMAIN ledger : ledger[p].call = c /\ ledger[p].effect

(* No answer is taken back, and success is answered only for an effect.    *)
AnswersJustified ==
  \A c \in Calls : calls'[c].pc = calls[c].pc \/
    (~Answered(calls[c].pc) /\ (calls'[c].pc = "ok" => EffectOf(c)))

Conclusions == ConclusiveAnswered /\ ConclusiveUnique /\ OkApplied

LEMMA LedgerKept ==
  ASSUME TypeOK, Conclusions, ledger' = ledger,
         unanswered \subseteq unanswered', AnswersJustified
  PROVE  Conclusions'
<1>1. \A p \in DOMAIN ledger : ledger[p] \in Entry
  BY DEF TypeOK
<1>2. \A p \in DOMAIN ledger : Conclusive(p)' => Conclusive(p)
  BY DEF Conclusive
<1>3. ConclusiveAnswered'
  <2> SUFFICES ASSUME NEW p \in DOMAIN ledger, Conclusive(p)'
               PROVE  calls'[ledger[p].call].pc = IF ledger[p].effect THEN "ok" ELSE "failed"
    BY DEF ConclusiveAnswered
  <2>1. calls[ledger[p].call].pc = IF ledger[p].effect THEN "ok" ELSE "failed"
    BY <1>2 DEF Conclusions, ConclusiveAnswered
  <2>2. ledger[p].call \in Calls
    BY <1>1 DEF Conclusive, Entry
  <2> QED BY <2>1, <2>2 DEF AnswersJustified, Answered
<1>4. ConclusiveUnique'
  BY <1>2 DEF Conclusions, ConclusiveUnique
<1>5. OkApplied'
  BY DEF Conclusions, OkApplied, AnswersJustified, EffectOf
<1> QED BY <1>3, <1>4, <1>5 DEF Conclusions

LEMMA ExtendedAt ==
  ASSUME TypeOK, NEW env, NEW effect, ledger' = Extended(env, effect)
  PROVE  /\ DOMAIN ledger' = DOMAIN ledger \cup {Len(ledger) + 1}
         /\ Len(ledger) + 1 \notin DOMAIN ledger
         /\ \A p \in DOMAIN ledger : ledger'[p] = ledger[p]
         /\ ledger'[Len(ledger) + 1] = [call |-> env.call, nth |-> env.nth, effect |-> effect]
BY DEF TypeOK, Extended

(* The ledger grows by an entry that is not conclusive.                    *)
LEMMA LedgerGrowsInconclusive ==
  ASSUME TypeOK, Conclusions, NEW env, NEW effect, ledger' = Extended(env, effect),
         UNCHANGED <<calls, unanswered>>,
         NEW n, n = Len(ledger) + 1, ~Conclusive(n)'
  PROVE  Conclusions'
<1>1. \A p \in DOMAIN ledger' : Conclusive(p)' => p \in DOMAIN ledger /\ Conclusive(p)
  BY ExtendedAt DEF Conclusive
<1>2. ConclusiveAnswered'
  <2> SUFFICES ASSUME NEW p \in DOMAIN ledger', Conclusive(p)'
               PROVE  calls'[ledger'[p].call].pc = IF ledger'[p].effect THEN "ok" ELSE "failed"
    BY DEF ConclusiveAnswered
  <2>1. p \in DOMAIN ledger /\ Conclusive(p) /\ ledger'[p] = ledger[p]
    BY <1>1, ExtendedAt
  <2> QED BY <2>1 DEF Conclusions, ConclusiveAnswered
<1>3. ConclusiveUnique'
  BY <1>1, ExtendedAt DEF Conclusions, ConclusiveUnique
<1>4. OkApplied'
  BY ExtendedAt DEF Conclusions, OkApplied
<1> QED BY <1>2, <1>3, <1>4 DEF Conclusions

(* The ledger grows by the entry its call is answered for.                 *)
LEMMA LedgerGrowsAnswered ==
  ASSUME TypeOK, Conclusions, NEW c \in Calls, NEW effect \in BOOLEAN,
         ~Answered(calls[c].pc), ledger' = Extended(EnvelopeOf(c), effect),
         UNCHANGED unanswered,
         calls'[c].pc = (IF effect THEN "ok" ELSE "failed"),
         \A d \in Calls \ {c} : calls'[d].pc = calls[d].pc
  PROVE  Conclusions'
<1> DEFINE n == Len(ledger) + 1
<1>1. \A p \in DOMAIN ledger : ledger[p] \in Entry
  BY DEF TypeOK
<1>2. \A p \in DOMAIN ledger : Conclusive(p)' =>
        Conclusive(p) /\ ledger[p].call \in Calls \ {c}
  <2> SUFFICES ASSUME NEW p \in DOMAIN ledger, Conclusive(p)'
               PROVE  Conclusive(p) /\ ledger[p].call \in Calls \ {c}
    OBVIOUS
  <2>1. Conclusive(p)
    BY ExtendedAt DEF Conclusive
  <2>2. ledger[p].call \in Calls
    BY <1>1, <2>1 DEF Conclusive, Entry
  <2>3. Answered(calls[ledger[p].call].pc)
    BY <2>1 DEF Conclusions, ConclusiveAnswered, Answered
  <2> QED BY <2>1, <2>2, <2>3
<1>3. ledger'[n].call = c /\ ledger'[n].effect = effect /\ n \in DOMAIN ledger'
  <2>1. /\ n \in DOMAIN ledger'
        /\ ledger'[n] = [call |-> EnvelopeOf(c).call, nth |-> EnvelopeOf(c).nth,
                         effect |-> effect]
    BY ExtendedAt
  <2>2. EnvelopeOf(c).call = c
    BY DEF EnvelopeOf
  <2> QED BY <2>1, <2>2
<1>4. \A p \in DOMAIN ledger' : p = n \/ (p \in DOMAIN ledger /\ ledger'[p] = ledger[p])
  BY ExtendedAt
<1> HIDE DEF n
<1>5. ConclusiveAnswered'
  <2> SUFFICES ASSUME NEW p \in DOMAIN ledger', Conclusive(p)'
               PROVE  calls'[ledger'[p].call].pc = IF ledger'[p].effect THEN "ok" ELSE "failed"
    BY DEF ConclusiveAnswered
  <2>1. CASE p = n
    BY <1>3, <2>1
  <2>2. CASE p # n
    <3>1. /\ p \in DOMAIN ledger /\ ledger'[p] = ledger[p] /\ Conclusive(p)
          /\ ledger[p].call \in Calls \ {c}
      BY <1>2, <1>4, <2>2
    <3> QED BY <3>1 DEF Conclusions, ConclusiveAnswered
  <2> QED BY <2>1, <2>2
<1>6. ConclusiveUnique'
  <2> SUFFICES ASSUME NEW p \in DOMAIN ledger', NEW q \in DOMAIN ledger', Conclusive(p)',
                      Conclusive(q)', ledger'[p].call = ledger'[q].call
               PROVE  p = q
    BY DEF ConclusiveUnique
  <2>1. CASE p = n \/ q = n
    BY <1>2, <1>3, <1>4, <2>1
  <2>2. CASE p # n /\ q # n
    BY <1>2, <1>4, <2>2 DEF Conclusions, ConclusiveUnique
  <2> QED BY <2>1, <2>2
<1>7. OkApplied'
  <2> SUFFICES ASSUME NEW d \in Calls, calls'[d].pc = "ok"
               PROVE  \E p \in DOMAIN ledger' : ledger'[p].call = d /\ ledger'[p].effect
    BY DEF OkApplied
  <2>1. CASE d = c
    BY <1>3, <2>1
  <2>2. CASE d # c
    <3>1. PICK p \in DOMAIN ledger : ledger[p].call = d /\ ledger[p].effect
      BY <2>2 DEF Conclusions, OkApplied
    <3>2. p \in DOMAIN ledger' /\ ledger'[p] = ledger[p]
      BY ExtendedAt
    <3> QED BY <3>1, <3>2
  <2> QED BY <2>1, <2>2
<1> QED BY <1>5, <1>6, <1>7 DEF Conclusions

-----------------------------------------------------------------------------
(* Every step preserves the invariant.                                     *)

LEMMA FinishPc ==
  ASSUME TypeOK, NEW c \in Calls, NEW pc, Finish(c, pc)
  PROVE  calls'[c].pc = pc /\ \A d \in Calls \ {c} : calls'[d] = calls[d]
BY DEF TypeOK, Finish, At

LEMMA NextAttemptPc ==
  ASSUME TypeOK, NEW c \in Calls, NextAttempt(c)
  PROVE  /\ calls'[c].pc = "failed" \/ (calls'[c].pc = calls[c].pc /\ calls'[c].seq = calls[c].seq)
         /\ \A d \in Calls \ {c} : calls'[d] = calls[d]
BY FinishPc DEF TypeOK, NextAttempt, At

LEMMA RunOnPc ==
  ASSUME TypeOK, NEW c \in Calls, NEW seq \in Nat, RunOn(c, seq)
  PROVE  /\ calls'[c].pc = "failed" \/ (calls'[c].pc = "submitting" /\ calls'[c].seq = seq + 1)
         /\ \A d \in Calls \ {c} : calls'[d] = calls[d]
BY FinishPc DEF TypeOK, RunOn, At

(* What every step of a call but Applied does.                             *)
QuietStep(c) ==
  /\ ledger' = ledger /\ unanswered \subseteq unanswered'
  /\ ~Answered(calls[c].pc)
  /\ calls'[c].pc = "ok" => EffectOf(c)
  /\ calls'[c].pc = "submitting" => calls'[c].seq # 0
  /\ \A d \in Calls \ {c} : calls'[d] = calls[d]

LEMMA QuietStepKeeps ==
  ASSUME TypeOK, SeqBuilt, Conclusions, NEW c \in Calls, QuietStep(c)
  PROVE  SeqBuilt' /\ Conclusions'
<1>1. SeqBuilt'
  BY DEF QuietStep, SeqBuilt
<1>2. AnswersJustified
  BY DEF QuietStep, AnswersJustified
<1> QED BY <1>1, <1>2, LedgerKept DEF QuietStep

LEMMA StepQuiet ==
  ASSUME TypeOK, SeqBuilt, Conclusions, NEW c \in Calls, Step(c), ~Applied(c)
  PROVE  QuietStep(c)
<1>1. CASE TakeTurn(c)
  <2>1. CASE cache # None
    BY <1>1, <2>1, RunOnPc DEF TakeTurn, TypeOK, QuietStep, Answered, RunOn
  <2>2. CASE cache = None
    BY <1>1, <2>2 DEF TakeTurn, TypeOK, QuietStep, Answered, At
  <2> QED BY <2>1, <2>2
<1>2. CASE Loaded(c)
  <2>1. Len(ledger) \in Nat
    BY DEF TypeOK
  <2> QED BY <1>2, <2>1, RunOnPc DEF Loaded, QuietStep, Answered, RunOn
<1>3. CASE LoadUnavailable(c)
  BY <1>3, NextAttemptPc DEF LoadUnavailable, QuietStep, Answered
<1>4. CASE LoadFails(c)
  BY <1>4, FinishPc DEF LoadFails, QuietStep, Answered
<1>6. CASE FoundApplied(c)
  <2>1. calls[c].seq \in DOMAIN ledger
    BY <1>6, FieldTypes DEF FoundApplied, OnLedger, EnvelopeOf, SeqBuilt, TypeOK
  <2>2. ledger[calls[c].seq].call = c
    BY <1>6 DEF FoundApplied, OnLedger, EnvelopeOf
  <2>3. /\ calls'[c].pc = IF ledger[calls[c].seq].effect THEN "ok" ELSE "failed"
        /\ \A d \in Calls \ {c} : calls'[d] = calls[d]
    BY <1>6, FinishPc DEF FoundApplied, Answer
  <2>4. ledger[calls[c].seq].effect => EffectOf(c)
    BY <2>1, <2>2 DEF EffectOf
  <2> QED BY <1>6, <2>3, <2>4 DEF FoundApplied, QuietStep, Answered
<1>7. CASE Refused(c)
  BY <1>7, FinishPc DEF Refused, QuietStep, Answered
<1>8. CASE BadSequence(c)
  <2>1. CASE MayRebuild(c)
    BY <1>8, <2>1 DEF BadSequence, Rebuild, QuietStep, Answered, TypeOK, At
  <2>2. CASE ~MayRebuild(c)
    BY <1>8, <2>2, FinishPc DEF BadSequence, QuietStep, Answered
  <2> QED BY <2>1, <2>2
<1>9. CASE RateLimited(c)
  BY <1>9, NextAttemptPc DEF RateLimited, QuietStep, Answered, SeqBuilt
<1>10. CASE Unavailable(c)
  BY <1>10, NextAttemptPc DEF Unavailable, QuietStep, Answered, SeqBuilt, Lose
<1>11. CASE NoAnswer(c)
  BY <1>11, FinishPc DEF NoAnswer, QuietStep, Answered, Lose
<1> QED BY <1>1, <1>2, <1>3, <1>4, <1>6, <1>7, <1>8, <1>9, <1>10, <1>11 DEF Step

LEMMA AppliedKeeps ==
  ASSUME TypeOK, SeqBuilt, Conclusions, NEW c \in Calls, Applied(c)
  PROVE  SeqBuilt' /\ Conclusions'
<1>1. PICK effect \in BOOLEAN : ledger' = Extended(EnvelopeOf(c), effect) /\ Answer(c, effect)
  BY DEF Applied
<1>2. /\ calls'[c].pc = IF effect THEN "ok" ELSE "failed"
      /\ \A d \in Calls \ {c} : calls'[d] = calls[d]
  BY <1>1, FinishPc DEF Answer
<1>3. SeqBuilt'
  BY <1>2 DEF SeqBuilt
<1>4. ~Answered(calls[c].pc) /\ UNCHANGED unanswered
  BY DEF Applied, Answered
<1> QED BY <1>1, <1>2, <1>3, <1>4, LedgerGrowsAnswered

LEMMA NextKeeps ==
  ASSUME TypeOK, SeqBuilt, Conclusions, Next
  PROVE  SeqBuilt' /\ Conclusions'
<1>1. ASSUME NEW c \in Calls, Enqueue(c) \/ CallDirectly(c) PROVE QuietStep(c)
  BY <1>1 DEF Enqueue, CallDirectly, QuietStep, Answered, TypeOK, At
<1>2. ASSUME NEW c \in Calls, Step(c) PROVE SeqBuilt' /\ Conclusions'
  BY <1>2, StepQuiet, QuietStepKeeps, AppliedKeeps
<1>3. ASSUME NEW env \in unanswered, AppliedLate(env) PROVE SeqBuilt' /\ Conclusions'
  <2>1. PICK effect \in BOOLEAN : ledger' = Extended(env, effect)
    BY <1>3 DEF AppliedLate
  <2>2. UNCHANGED <<calls, unanswered>>
    BY <1>3 DEF AppliedLate
  <2>3. \A n : n = Len(ledger) + 1 => ~Conclusive(n)'
    <3>1. env.seq = Len(ledger) + 1 /\ env \in Envelope
      BY <1>3 DEF AppliedLate, IsNext, TypeOK
    <3>2. ledger'[env.seq] = [call |-> env.call, nth |-> env.nth, effect |-> effect]
      BY <2>1, <3>1, ExtendedAt
    <3>3. env = [call |-> env.call, nth |-> env.nth, seq |-> env.seq]
      BY <3>1 DEF Envelope
    <3> SUFFICES ASSUME ledger'[env.seq].call # None
                 PROVE  [call |-> ledger'[env.seq].call, nth |-> ledger'[env.seq].nth,
                         seq |-> env.seq] \in unanswered'
      BY <3>1 DEF Conclusive
    <3>4. ledger'[env.seq].call = env.call /\ ledger'[env.seq].nth = env.nth
      BY <3>2
    <3> QED BY <1>3, <2>2, <3>3, <3>4
  <2>4. Conclusions'
    BY <2>1, <2>2, <2>3, LedgerGrowsInconclusive
  <2>5. SeqBuilt'
    BY <2>2 DEF SeqBuilt
  <2> QED BY <2>4, <2>5
<1>4. CASE CacheExpires
  BY <1>4, LedgerKept DEF CacheExpires, AnswersJustified, SeqBuilt
<1>5. CASE AppliedForAnother
  <2>1. ledger' = Extended([call |-> None, nth |-> 1], TRUE) /\ UNCHANGED <<calls, unanswered>>
    BY <1>5 DEF AppliedForAnother, Extended
  <2> DEFINE env == [call |-> None, nth |-> 1]
  <2>0. env.call = None
    OBVIOUS
  <2>a. ledger' = Extended(env, TRUE)
    BY <2>1
  <2> HIDE DEF env
  <2>2. \A n : n = Len(ledger) + 1 => ~Conclusive(n)'
    <3>1. ledger'[Len(ledger) + 1] = [call |-> env.call, nth |-> env.nth, effect |-> TRUE]
      BY <2>a, ExtendedAt
    <3>2. ledger'[Len(ledger) + 1].call = None
      BY <2>0, <3>1
    <3> QED BY <3>2 DEF Conclusive
  <2>3. Conclusions'
    BY <2>1, <2>a, <2>2, LedgerGrowsInconclusive
  <2>4. SeqBuilt'
    BY <2>1 DEF SeqBuilt
  <2> QED BY <2>3, <2>4
<1>6. CASE Crash
  <2>1. \A c \in Calls : calls'[c] = IF Active(c) THEN At("gone", calls[c].nth, None, 0, 0)
                                                  ELSE calls[c]
    BY <1>6 DEF Crash
  <2>g. \A c \in Calls : At("gone", calls[c].nth, None, 0, 0).pc = "gone"
    BY DEF At
  <2>c. ASSUME NEW c \in Calls
        PROVE  (Active(c) /\ calls'[c].pc = "gone") \/ calls'[c] = calls[c]
    BY <2>1, <2>g
  <2>2. AnswersJustified
    BY <2>c DEF AnswersJustified, Active, Answered
  <2>3. SeqBuilt'
    BY <2>c DEF SeqBuilt
  <2> QED BY <1>6, <2>2, <2>3, LedgerKept DEF Crash, Lose
<1> QED BY <1>1, <1>2, <1>3, <1>4, <1>5, <1>6, QuietStepKeeps DEF Next

LEMMA InitInv == Init => IInv
<1> SUFFICES ASSUME Init PROVE IInv
  OBVIOUS
<1>1. DOMAIN ledger = {}
  BY DEF Init
<1>2. \A c \in Calls : calls[c].pc = "idle"
  BY DEF Init, Unstarted, At
<1>3. SeqBuilt
  BY <1>2 DEF SeqBuilt
<1>4. ConclusiveAnswered /\ ConclusiveUnique /\ OkApplied
  BY <1>1, <1>2 DEF ConclusiveAnswered, ConclusiveUnique, OkApplied
<1> QED BY <1>3, <1>4, InitType DEF IInv

LEMMA NextInv == IInv /\ [Next]_vars => IInv'
<1> SUFFICES ASSUME IInv, [Next]_vars PROVE IInv'
  OBVIOUS
<1>1. CASE Next
  BY <1>1, NextType, NextKeeps DEF IInv, Conclusions
<1>2. CASE UNCHANGED vars
  <2>1. TypeOK' /\ SeqBuilt'
    BY <1>2 DEF vars, IInv, TypeOK, SeqBuilt
  <2>2. AnswersJustified
    BY <1>2 DEF vars, AnswersJustified
  <2> QED BY <1>2, <2>1, <2>2, LedgerKept DEF vars, IInv, Conclusions
<1> QED BY <1>1, <1>2

LEMMA InvSettlement == IInv => Settlement
<1> SUFFICES ASSUME IInv PROVE Settlement
  OBVIOUS
<1>0. \A p \in DOMAIN ledger : ledger[p] \in Entry
  BY DEF IInv, TypeOK
<1>1. AppliedOnce
  <2> SUFFICES ASSUME NEW p \in DOMAIN ledger, NEW q \in DOMAIN ledger, p # q,
                      ledger[p].call = ledger[q].call, ledger[p].call # None
               PROVE  \E env \in unanswered : env.call = ledger[p].call
    BY DEF AppliedOnce
  <2>1. ~Conclusive(p) \/ ~Conclusive(q)
    BY DEF IInv, ConclusiveUnique
  <2> QED BY <2>1 DEF Conclusive
<1>2. AnswersAreTrue
  <2> SUFFICES ASSUME NEW c \in Calls
               PROVE  /\ calls[c].pc = "ok" =>
                           \E p \in DOMAIN ledger : ledger[p].call = c /\ ledger[p].effect
                      /\ calls[c].pc \in {"failed", "gone"} =>
                           \/ \A p \in DOMAIN ledger : ledger[p].call = c => ~ledger[p].effect
                           \/ \E env \in unanswered : env.call = c
    BY DEF AnswersAreTrue
  <2>1. ASSUME calls[c].pc \in {"failed", "gone"}, NEW p \in DOMAIN ledger,
               ledger[p].call = c, ledger[p].effect
        PROVE  \E env \in unanswered : env.call = c
    <3>1. ~Conclusive(p)
      BY <2>1 DEF IInv, ConclusiveAnswered
    <3> QED BY <2>1, <3>1, CallsAssumption DEF Conclusive, Calls
  <2> QED BY <2>1 DEF IInv, OkApplied
<1> QED BY <1>1, <1>2 DEF Settlement

-----------------------------------------------------------------------------
(* The variables keep their types.                                         *)
THEOREM TypeCorrect == Spec => []TypeOK
<1>1. IInv => TypeOK
  BY DEF IInv
<1> QED BY <1>1, InitInv, NextInv, PTL DEF Spec

(* However many calls share an account, and whatever Horizon answers: a    *)
(* transaction is repeated only for a call that lost an answer, and every  *)
(* answer that arrived is true (stellar.ts withRetry, sequenceCache.ts     *)
(* withSequenceRetry).                                                     *)
THEOREM SettlementHolds == Spec => []Settlement
BY InitInv, NextInv, InvSettlement, PTL DEF Spec

-----------------------------------------------------------------------------
(* The queue.  Nothing in the state lists who waits: each call knows only  *)
(* the run before its own.  The invariant is that these links form one     *)
(* line, from a head that may run to the run that tail holds; q lists the  *)
(* calls of the line at first .. last - 1.                                 *)

(* c is between getAccount and its answer.                                 *)
Holds(c) == calls[c].pc \in {"loading", "submitting"}

(* c may take a step of its own.                                           *)
AtHead(c) == Holds(c) \/ (calls[c].pc = "waiting" /\ Settled(calls[c].prev))

(* The queued calls that are active, each once.                            *)
Window(q, first, last) ==
  /\ q \in [Nat -> Calls \cup {None}]
  /\ first \in Nat /\ last \in Nat /\ first <= last
  /\ \A i \in first .. last - 1 : q[i] \in Queued /\ Active(q[i])
  /\ \A c \in Queued : Active(c) => \E i \in first .. last - 1 : q[i] = c
  /\ \A i, j \in first .. last - 1 : q[i] = q[j] => i = j

(* Each waits for the run before it, but the first.                        *)
Linked(q, first, last) ==
  /\ first < last => AtHead(q[first]) /\ tail = RunOf(q[last - 1])
  /\ first = last => tail = None
  /\ \A i \in first .. last - 1 : i # first =>
       calls[q[i]].pc = "waiting" /\ calls[q[i]].prev = RunOf(q[i - 1])

Queue == \E q, first, last : Window(q, first, last) /\ Linked(q, first, last)

(* The calls outside the queue never wait.                                 *)
DirectHolds == \A c \in Direct : Active(c) => Holds(c)

QInv == Queue /\ DirectHolds

(* A run that is in the queue has not settled, so only the head may move.  *)
LEMMA InQueueUnsettled ==
  ASSUME TypeOK, NEW c \in Queued, Active(c)
  PROVE  RunOf(c) \in Run /\ RunOf(c) # None /\ ~Settled(RunOf(c))
<1>1. c \in Calls /\ calls[c].nth \in 1 .. 2
  BY FieldTypes DEF Calls
<1>2. RunOf(c) \in Run /\ RunOf(c).call = c /\ RunOf(c).nth = calls[c].nth
  BY <1>1 DEF RunOf, Run
<1> QED
  BY <1>1, <1>2, NoneAssumption DEF Settled, Active

LEMMA HeadIsFirst ==
  ASSUME TypeOK, NEW c \in Queued, AtHead(c),
         NEW q, NEW first, NEW last, Window(q, first, last), Linked(q, first, last)
  PROVE  first < last /\ q[first] = c
<1>1. Active(c)
  BY DEF AtHead, Holds, Active
<1>2. PICK i \in first .. last - 1 : q[i] = c
  BY <1>1 DEF Window
<1>3. CASE i # first
  <2>1. i - 1 \in first .. last - 1
    BY <1>3 DEF Window
  <2>2. ~Settled(RunOf(q[i - 1]))
    BY <2>1, InQueueUnsettled DEF Window
  <2>3. calls[c].pc = "waiting" /\ calls[c].prev = RunOf(q[i - 1])
    BY <1>2, <1>3 DEF Linked
  <2> QED
    BY <2>2, <2>3 DEF AtHead, Holds
<1> QED
  BY <1>2, <1>3 DEF Window

LEMMA QueueOneHolder ==
  ASSUME TypeOK, Queue
  PROVE  \A c, d \in Queued : AtHead(c) /\ AtHead(d) => c = d
BY HeadIsFirst DEF Queue

(* The queue is not a direct call's to release.                            *)
LEMMA DirectReleases ==
  ASSUME TypeOK, NEW c \in Direct
  PROVE  Released(c) = tail
<1>1. RunOf(c).call = c
  BY DEF RunOf
<1>2. tail \in Run => tail # RunOf(c)
  BY <1>1, CallsAssumption DEF Run, RunOf
<1> QED
  BY <1>2 DEF TypeOK, Released

(* A step of one call: the runs of the others, and what settled, stay.     *)
Moves(c) ==
  /\ \A d \in Calls \ {c} : calls'[d] = calls[d]
  /\ calls'[c].nth \in {calls[c].nth, calls[c].nth + 1}
  /\ calls'[c].pc \in {"ok", "failed", "gone"} \/ Active(c)

LEMMA OthersKept ==
  ASSUME TypeOK, NEW c \in Calls, Moves(c)
  PROVE  /\ \A d \in Calls \ {c} : RunOf(d)' = RunOf(d) /\ Active(d)' = Active(d)
         /\ \A run \in Run \cup {None} : Settled(run) => Settled(run)'
<1>1. \A d \in Calls \ {c} : RunOf(d)' = RunOf(d) /\ Active(d)' = Active(d)
  BY DEF RunOf, Active, Moves
<1>2. ASSUME NEW run \in Run, Settled(run), run # None PROVE Settled(run)'
  <2>1. run.call \in Calls /\ run.nth \in 1 .. 2
    BY DEF Run, Calls
  <2>2. CASE run.call # c
    BY <1>2, <2>1, <2>2 DEF Settled, Moves
  <2>3. CASE run.call = c
    <3>1. CASE calls[c].nth > run.nth
      <4>1. calls'[c].nth > run.nth
        BY <2>1, <3>1, FieldTypes DEF Moves
      <4> QED
        BY <2>3, <4>1 DEF Settled
    <3>2. CASE calls[c].pc \in {"ok", "failed", "gone"}
      BY <2>3, <3>2 DEF Settled, Moves, Active
    <3> QED
      BY <1>2, <2>3, <3>1, <3>2 DEF Settled
  <2> QED
    BY <2>2, <2>3
<1> QED
  BY <1>1, <1>2 DEF Settled

(* The call at the head is answered.                                       *)
LEMMA Leaves ==
  ASSUME TypeOK, QInv, NEW c \in Calls, AtHead(c), Moves(c),
         calls'[c].pc \in {"ok", "failed"}, tail' = Released(c)
  PROVE  QInv'
<1>0. DirectHolds'
  BY CallsAssumption DEF QInv, DirectHolds, Moves, Active, Holds, Calls
<1>1. PICK q, first, last : Window(q, first, last) /\ Linked(q, first, last)
  BY DEF QInv, Queue
<1>2. CASE c \in Direct
  <2>1. \A d \in Queued : d \in Calls \ {c}
    BY <1>2, CallsAssumption DEF Calls
  <2>2. Window(q, first, last)'
    BY <1>1, <2>1, OthersKept DEF Window
  <2>3. Linked(q, first, last)'
    <3>1. tail' = tail
      BY <1>2, DirectReleases
    <3>2. \A i \in first .. last - 1 : q[i] \in Calls \ {c} /\ calls[q[i]].prev \in Run \cup {None}
      BY <1>1, <2>1, FieldTypes DEF Window
    <3>3. first < last => AtHead(q[first])'
      BY <1>1, <3>2, OthersKept DEF Window, Linked, AtHead, Holds, Moves
    <3>4. first < last => tail' = RunOf(q[last - 1])'
      BY <1>1, <3>1, <3>2, OthersKept DEF Window, Linked
    <3>5. \A i \in first .. last - 1 : i # first =>
            calls'[q[i]].pc = "waiting" /\ calls'[q[i]].prev = RunOf(q[i - 1])'
      <4> SUFFICES ASSUME NEW i \in first .. last - 1, i # first
                   PROVE  calls'[q[i]].pc = "waiting" /\ calls'[q[i]].prev = RunOf(q[i - 1])'
        OBVIOUS
      <4>1. i - 1 \in first .. last - 1
        BY <1>1 DEF Window
      <4> QED
        BY <1>1, <3>2, <4>1, OthersKept DEF Linked, Moves
    <3> QED
      BY <1>1, <3>1, <3>3, <3>4, <3>5 DEF Linked
  <2> QED
    BY <1>0, <2>2, <2>3 DEF QInv, Queue
<1>3. CASE c \in Queued
  <2>1. first < last /\ q[first] = c
    BY <1>1, <1>3, HeadIsFirst
  <2>2. \A i \in first + 1 .. last - 1 : i \in first .. last - 1 /\ q[i] \in Queued \ {c}
    BY <1>1, <2>1 DEF Window
  <2>3. \A i \in first + 1 .. last - 1 : q[i] \in Calls \ {c} /\ calls[q[i]].prev \in Run \cup {None}
    BY <2>2, FieldTypes DEF Calls
  <2>4. Window(q, first + 1, last)'
    <3>1. q \in [Nat -> Calls \cup {None}] /\ first + 1 \in Nat /\ last \in Nat /\ first + 1 <= last
      BY <1>1, <2>1 DEF Window
    <3>2. \A i \in first + 1 .. last - 1 : q[i] \in Queued /\ Active(q[i])'
      BY <1>1, <2>2, <2>3, OthersKept DEF Window
    <3>3. ASSUME NEW d \in Queued, Active(d)'
          PROVE  \E i \in first + 1 .. last - 1 : q[i] = d
      <4>1. d # c
        BY <3>3 DEF Active
      <4>2. Active(d)
        BY <3>3, <4>1, OthersKept DEF Calls
      <4>3. PICK i \in first .. last - 1 : q[i] = d
        BY <1>1, <4>2 DEF Window
      <4> QED
        BY <1>1, <2>1, <4>1, <4>3 DEF Window
    <3>4. \A i, j \in first + 1 .. last - 1 : q[i] = q[j] => i = j
      BY <1>1, <2>2 DEF Window
    <3> QED
      BY <3>1, <3>2, <3>3, <3>4 DEF Window
  <2>5. Linked(q, first + 1, last)'
    <3>1. ASSUME first + 1 < last
          PROVE  AtHead(q[first + 1])' /\ tail' = RunOf(q[last - 1])'
      <4>1. first + 1 \in first .. last - 1 /\ first + 1 # first
        BY <1>1, <3>1 DEF Window
      <4>2. calls[q[first + 1]].pc = "waiting" /\ calls[q[first + 1]].prev = RunOf(c)
        BY <1>1, <2>1, <4>1 DEF Linked, Window
      <4>3. \A run : run = RunOf(c) => Settled(run)'
        BY DEF Settled, RunOf
      <4>a. q[first + 1] \in Calls \ {c}
        BY <2>3, <4>1
      <4>4. AtHead(q[first + 1])'
        BY <4>2, <4>3, <4>a DEF AtHead, Moves
      <4>5. tail = RunOf(q[last - 1]) /\ q[last - 1] \in Calls \ {c}
        BY <1>1, <2>1, <2>3, <3>1 DEF Linked, Window
      <4>6. tail' = tail
        BY <4>5 DEF Released, RunOf
      <4> QED
        BY <4>4, <4>5, <4>6, OthersKept
    <3>2. ASSUME first + 1 = last PROVE tail' = None
      BY <1>1, <2>1, <3>2 DEF Linked, Released, Window
    <3>3. ASSUME NEW i \in first + 1 .. last - 1, i # first + 1
          PROVE  calls'[q[i]].pc = "waiting" /\ calls'[q[i]].prev = RunOf(q[i - 1])'
      <4>1. i - 1 \in first + 1 .. last - 1 /\ i # first
        BY <1>1, <3>3 DEF Window
      <4> QED
        BY <1>1, <2>2, <2>3, <3>3, <4>1, OthersKept DEF Linked, Moves
    <3> QED
      BY <3>1, <3>2, <3>3 DEF Linked
  <2> QED
    BY <1>0, <2>4, <2>5 DEF QInv, Queue
<1> QED
  BY <1>2, <1>3 DEF Calls

(* The call at the head goes on, or loses only its cause to wait.          *)
LEMMA Stays ==
  ASSUME TypeOK, QInv, NEW c \in Calls, AtHead(c), Moves(c),
         Holds(c)', calls'[c].nth = calls[c].nth, UNCHANGED tail
  PROVE  QInv'
<1>0. DirectHolds'
  BY DEF QInv, DirectHolds, Moves, Active, Holds, Calls
<1>1. PICK q, first, last : Window(q, first, last) /\ Linked(q, first, last)
  BY DEF QInv, Queue
<1>2. RunOf(c)' = RunOf(c) /\ Active(c)' = Active(c) /\ AtHead(c)'
  BY DEF RunOf, Active, AtHead, Holds
<1>3. \A d \in Calls : RunOf(d)' = RunOf(d) /\ Active(d)' = Active(d)
  BY <1>2, OthersKept
<1>4. Window(q, first, last)'
  BY <1>1, <1>3 DEF Window, Calls
<1>5. \A i \in first .. last - 1 :
         q[i] \in Calls /\ calls[q[i]].prev \in Run \cup {None} /\ (i # first => q[i] # c)
  <2>1. \A i \in first .. last - 1 : q[i] \in Calls /\ calls[q[i]].prev \in Run \cup {None}
    BY <1>1, FieldTypes DEF Window, Calls
  <2>2. c \in Queued => q[first] = c /\ first \in first .. last - 1
    BY <1>1, HeadIsFirst DEF Window
  <2> QED
    BY <1>1, <2>1, <2>2 DEF Window
<1>6. first < last => AtHead(q[first])'
  <2> SUFFICES ASSUME first < last, q[first] # c PROVE AtHead(q[first])'
    BY <1>2
  <2>1. first \in first .. last - 1 /\ AtHead(q[first])
    BY <1>1 DEF Window, Linked
  <2>2. q[first] \in Calls \ {c} /\ calls[q[first]].prev \in Run \cup {None}
    BY <1>5, <2>1
  <2> QED
    BY <2>1, <2>2, OthersKept DEF AtHead, Holds, Moves
<1>7. first < last => tail' = RunOf(q[last - 1])'
  <2> SUFFICES ASSUME first < last PROVE tail' = RunOf(q[last - 1])'
    OBVIOUS
  <2>1. last - 1 \in first .. last - 1
    BY <1>1 DEF Window
  <2>2. q[last - 1] \in Calls
    BY <1>5, <2>1
  <2> QED
    BY <1>1, <1>3, <2>2 DEF Linked
<1>8. \A i \in first .. last - 1 : i # first =>
        calls'[q[i]].pc = "waiting" /\ calls'[q[i]].prev = RunOf(q[i - 1])'
  <2> SUFFICES ASSUME NEW i \in first .. last - 1, i # first
               PROVE  calls'[q[i]].pc = "waiting" /\ calls'[q[i]].prev = RunOf(q[i - 1])'
    OBVIOUS
  <2>1. i - 1 \in first .. last - 1
    BY <1>1 DEF Window
  <2> QED
    BY <1>1, <1>3, <1>5, <2>1 DEF Linked, Moves
<1>9. Linked(q, first, last)'
  BY <1>1, <1>6, <1>7, <1>8 DEF Linked
<1> QED
  BY <1>0, <1>4, <1>9 DEF QInv, Queue

(* A call joins behind the tail.                                           *)
LEMMA Joins ==
  ASSUME TypeOK, QInv, NEW c \in Calls, Enqueue(c)
  PROVE  QInv'
<1>1. PICK q, first, last : Window(q, first, last) /\ Linked(q, first, last)
  BY DEF QInv, Queue
<1>2. /\ calls'[c] = At("waiting", calls[c].nth, tail, 0, 0)
      /\ \A d \in Calls \ {c} : calls'[d] = calls[d]
      /\ c \in Queued /\ calls[c].pc = "idle" /\ tail' = RunOf(c)
  BY DEF Enqueue, TypeOK
<1>3. /\ calls'[c].pc = "waiting" /\ calls'[c].prev = tail /\ calls'[c].nth = calls[c].nth
      /\ RunOf(c)' = RunOf(c)
  BY <1>2 DEF At, RunOf
<1>0. DirectHolds'
  BY <1>2, CallsAssumption DEF QInv, DirectHolds, Active, Holds, Calls
<1>4. /\ first \in Nat /\ last \in Nat /\ first <= last
      /\ \A i \in first .. last - 1 : q[i] \in Queued /\ Active(q[i]) /\ q[i] \in Calls \ {c}
  BY <1>1, <1>2 DEF Window, Active, Calls
<1> DEFINE r == [q EXCEPT ![last] = c]
<1>5. /\ r \in [Nat -> Calls \cup {None}] /\ r[last] = c
      /\ \A i \in first .. last - 1 : r[i] = q[i]
      /\ \A i \in first .. (last + 1) - 1 : i = last \/ i \in first .. last - 1
  BY <1>1, <1>4 DEF Window
<1> HIDE DEF r
<1>6. \A d \in Calls \ {c} : RunOf(d)' = RunOf(d) /\ Active(d)' = Active(d)
  BY <1>2 DEF RunOf, Active
<1>7. Window(r, first, last + 1)'
  <2>1. \A i \in first .. (last + 1) - 1 : r[i] \in Queued /\ Active(r[i])'
    BY <1>2, <1>3, <1>4, <1>5, <1>6 DEF Active
  <2>2. ASSUME NEW d \in Queued, Active(d)'
        PROVE  \E i \in first .. (last + 1) - 1 : r[i] = d
    <3>1. CASE d = c
      BY <1>4, <1>5, <3>1
    <3>2. CASE d # c
      <4>1. PICK i \in first .. last - 1 : q[i] = d
        BY <1>1, <1>6, <2>2, <3>2 DEF Window, Calls
      <4> QED
        BY <1>4, <1>5, <4>1
    <3> QED
      BY <3>1, <3>2
  <2>3. \A i, j \in first .. (last + 1) - 1 : r[i] = r[j] => i = j
    BY <1>1, <1>4, <1>5 DEF Window
  <2> QED
    BY <1>4, <1>5, <2>1, <2>2, <2>3 DEF Window
<1>8. Linked(r, first, last + 1)'
  <2>1. AtHead(r[first])'
    <3>1. CASE first = last
      BY <1>1, <1>3, <1>5, <3>1 DEF Linked, AtHead, Settled
    <3>2. CASE first < last
      <4>1. r[first] = q[first] /\ q[first] \in Calls \ {c} /\ AtHead(q[first])
        BY <1>1, <1>4, <1>5, <3>2 DEF Linked
      <4>2. calls[q[first]].prev \in Run \cup {None}
        BY <4>1, FieldTypes
      <4>3. \A run \in Run \cup {None} : Settled(run) => Settled(run)'
        BY <1>2, <1>3 DEF Settled, Run, Calls
      <4> QED
        BY <1>2, <4>1, <4>2, <4>3 DEF AtHead, Holds
    <3> QED
      BY <1>4, <3>1, <3>2
  <2>2. tail' = RunOf(r[(last + 1) - 1])'
    BY <1>2, <1>3, <1>4, <1>5
  <2>3. ASSUME NEW i \in first .. (last + 1) - 1, i # first
        PROVE  calls'[r[i]].pc = "waiting" /\ calls'[r[i]].prev = RunOf(r[i - 1])'
    <3>1. i - 1 \in first .. last - 1
      BY <1>4, <2>3
    <3>2. q[i - 1] \in Calls \ {c} /\ r[i - 1] = q[i - 1]
      BY <1>4, <1>5, <3>1
    <3>3. CASE i = last
      BY <1>1, <1>3, <1>4, <1>5, <1>6, <2>3, <3>2, <3>3 DEF Linked
    <3>4. CASE i \in first .. last - 1
      BY <1>1, <1>2, <1>4, <1>5, <1>6, <2>3, <3>2, <3>4 DEF Linked
    <3> QED
      BY <1>5, <3>3, <3>4
  <2> QED
    BY <1>4, <2>1, <2>2, <2>3 DEF Linked
<1> QED
  BY <1>0, <1>7, <1>8 DEF QInv, Queue

(* The call at the head drops its run and joins again with a second one.   *)
LEMMA Rejoins ==
  ASSUME TypeOK, QInv, NEW c \in Queued, Holds(c), Rebuild(c)
  PROVE  QInv'
<1>0. c \in Calls /\ Active(c) /\ AtHead(c)
  BY DEF Calls, Holds, Active, AtHead
<1>1. PICK q, first, last : Window(q, first, last) /\ Linked(q, first, last)
  BY DEF QInv, Queue
<1>2. /\ calls'[c] = At("waiting", calls[c].nth + 1, Released(c), 0, 0)
      /\ \A d \in Calls \ {c} : calls'[d] = calls[d]
      /\ tail' = [call |-> c, nth |-> calls[c].nth + 1]
  BY <1>0 DEF Rebuild, TypeOK
<1>3. /\ calls'[c].pc = "waiting" /\ calls'[c].prev = Released(c)
      /\ calls'[c].nth = calls[c].nth + 1 /\ tail' = RunOf(c)'
      /\ Active(c)'
  BY <1>2 DEF At, RunOf, Active
<1>a. DirectHolds'
  BY <1>2, CallsAssumption DEF QInv, DirectHolds, Active, Holds, Calls
<1>b. \A d \in Calls \ {c} : RunOf(d)' = RunOf(d) /\ Active(d)' = Active(d)
  BY <1>2 DEF RunOf, Active
<1>c. \A run \in Run \cup {None} : Settled(run) => Settled(run)'
  BY <1>0, <1>2, <1>3, OthersKept DEF Moves
<1>4. /\ first \in Nat /\ last \in Nat /\ first < last /\ q[first] = c
      /\ \A i \in first + 1 .. last - 1 : i \in first .. last - 1
      /\ \A i \in first + 1 .. last - 1 : q[i] \in Queued /\ Active(q[i]) /\ q[i] \in Calls \ {c}
  <2>1. first < last /\ q[first] = c
    BY <1>0, <1>1, HeadIsFirst
  <2> QED
    BY <1>1, <2>1 DEF Window, Calls
<1> DEFINE r == [q EXCEPT ![last] = c]
<1>5. /\ r \in [Nat -> Calls \cup {None}] /\ r[last] = c
      /\ \A i \in first + 1 .. last - 1 : r[i] = q[i]
      /\ \A i \in first + 1 .. (last + 1) - 1 : i = last \/ i \in first + 1 .. last - 1
  BY <1>0, <1>1, <1>4 DEF Window
<1> HIDE DEF r
<1>6. Window(r, first + 1, last + 1)'
  <2>1. \A i \in first + 1 .. (last + 1) - 1 : r[i] \in Queued /\ Active(r[i])'
    BY <1>3, <1>4, <1>5, <1>b
  <2>2. ASSUME NEW d \in Queued, Active(d)'
        PROVE  \E i \in first + 1 .. (last + 1) - 1 : r[i] = d
    <3>1. CASE d = c
      BY <1>4, <1>5, <3>1
    <3>2. CASE d # c
      <4>1. PICK i \in first .. last - 1 : q[i] = d
        BY <1>1, <1>b, <2>2, <3>2 DEF Window, Calls
      <4>2. i \in first + 1 .. last - 1
        BY <1>4, <3>2, <4>1
      <4> QED
        BY <1>4, <1>5, <4>1, <4>2
    <3> QED
      BY <3>1, <3>2
  <2>3. \A i, j \in first + 1 .. (last + 1) - 1 : r[i] = r[j] => i = j
    BY <1>1, <1>4, <1>5 DEF Window
  <2> QED
    BY <1>4, <1>5, <2>1, <2>2, <2>3 DEF Window
<1>7. first + 1 = last => Released(c) = None
  BY <1>1, <1>4 DEF Linked, Released
<1>8. first + 1 < last => Released(c) = RunOf(q[last - 1])
  <2> SUFFICES ASSUME first + 1 < last PROVE Released(c) = RunOf(q[last - 1])
    OBVIOUS
  <2>1. last - 1 \in first + 1 .. last - 1
    BY <1>4
  <2>2. tail = RunOf(q[last - 1]) /\ q[last - 1] # c
    BY <1>1, <1>4, <2>1 DEF Linked
  <2> QED
    BY <2>2 DEF Released, RunOf
<1>9. Linked(r, first + 1, last + 1)'
  <2>1. AtHead(r[first + 1])'
    <3>1. CASE first + 1 = last
      BY <1>3, <1>5, <1>7, <3>1 DEF AtHead, Settled
    <3>2. CASE first + 1 < last
      <4>1. /\ first + 1 \in first .. last - 1 /\ first + 1 \in first + 1 .. last - 1
            /\ (first + 1) - 1 = first /\ first + 1 # first
        BY <1>4, <3>2
      <4>2. calls[q[first + 1]].pc = "waiting" /\ calls[q[first + 1]].prev = RunOf(c)
        BY <1>1, <1>4, <4>1 DEF Linked
      <4>3. \A run : run = RunOf(c) => Settled(run)'
        BY <1>0, <1>3, FieldTypes DEF Settled, RunOf
      <4>4. r[first + 1] \in Calls \ {c} /\ r[first + 1] = q[first + 1]
        BY <1>4, <1>5, <4>1
      <4> QED
        BY <1>2, <4>2, <4>3, <4>4 DEF AtHead
    <3> QED
      BY <1>4, <3>1, <3>2
  <2>2. tail' = RunOf(r[(last + 1) - 1])'
    BY <1>3, <1>4, <1>5
  <2>3. ASSUME NEW i \in first + 1 .. (last + 1) - 1, i # first + 1
        PROVE  calls'[r[i]].pc = "waiting" /\ calls'[r[i]].prev = RunOf(r[i - 1])'
    <3>1. i - 1 \in first + 1 .. last - 1
      BY <1>4, <2>3
    <3>2. q[i - 1] \in Calls \ {c} /\ r[i - 1] = q[i - 1]
      BY <1>4, <1>5, <3>1
    <3>3. CASE i = last
      BY <1>3, <1>4, <1>5, <1>8, <1>b, <2>3, <3>2, <3>3
    <3>4. CASE i \in first + 1 .. last - 1
      BY <1>1, <1>2, <1>4, <1>5, <1>b, <2>3, <3>2, <3>4 DEF Linked
    <3> QED
      BY <1>5, <3>3, <3>4
  <2> QED
    BY <1>4, <2>1, <2>2, <2>3 DEF Linked
<1> QED
  BY <1>a, <1>6, <1>9 DEF QInv, Queue

(* Nothing is left of the queue of a process that is gone.                 *)
LEMMA Emptied ==
  ASSUME \A c \in Calls : ~Active(c), tail = None
  PROVE  QInv
<1>1. DirectHolds
  BY DEF DirectHolds, Calls
<1> DEFINE q == [i \in Nat |-> None]
<1>2. Window(q, 0, 0) /\ Linked(q, 0, 0)
  BY DEF Window, Linked, Calls
<1> QED
  BY <1>1, <1>2 DEF QInv, Queue

(* A call outside the queue starts.                                        *)
LEMMA StaysDirect ==
  ASSUME TypeOK, QInv, NEW c \in Calls, CallDirectly(c)
  PROVE  QInv'
<1>1. /\ calls'[c] = At("loading", calls[c].nth, None, 0, 1)
      /\ \A d \in Calls \ {c} : calls'[d] = calls[d]
      /\ c \in Direct /\ calls[c].pc = "idle" /\ tail' = tail
  BY DEF CallDirectly, TypeOK
<1>2. Holds(c)'
  BY <1>1 DEF Holds, At
<1>3. DirectHolds'
  BY <1>1, <1>2 DEF QInv, DirectHolds, Holds, Active, Calls
<1>4. \A d \in Queued : d \in Calls \ {c}
  BY <1>1, CallsAssumption DEF Calls
<1>5. PICK q, first, last : Window(q, first, last) /\ Linked(q, first, last)
  BY DEF QInv, Queue
<1>6. Window(q, first, last)'
  BY <1>1, <1>4, <1>5 DEF Window, Active
<1>7. \A run \in Run \cup {None} : Settled(run) => Settled(run)'
  BY <1>1, <1>4 DEF Settled, Run
<1>8. /\ first \in Nat /\ last \in Nat
      /\ \A i \in first .. last - 1 :
         /\ q[i] \in Queued /\ q[i] \in Calls /\ calls'[q[i]] = calls[q[i]]
         /\ RunOf(q[i])' = RunOf(q[i]) /\ calls[q[i]].prev \in Run \cup {None}
  BY <1>1, <1>4, <1>5, FieldTypes DEF Window, RunOf
<1>9. Linked(q, first, last)'
  <2>1. first < last => AtHead(q[first])' /\ tail' = RunOf(q[last - 1])'
    BY <1>1, <1>5, <1>7, <1>8 DEF Linked, AtHead, Holds
  <2>2. ASSUME NEW i \in first .. last - 1, i # first
        PROVE  calls'[q[i]].pc = "waiting" /\ calls'[q[i]].prev = RunOf(q[i - 1])'
    <3>1. i - 1 \in first .. last - 1
      BY <1>8, <2>2
    <3> QED
      BY <1>5, <1>8, <2>2, <3>1 DEF Linked
  <2> QED
    BY <1>1, <1>5, <2>1, <2>2 DEF Linked
<1> QED
  BY <1>3, <1>6, <1>9 DEF QInv, Queue

-----------------------------------------------------------------------------
(* The two ways a step of one call ends, apart from Rebuild.               *)
Finished(c) ==
  Moves(c) /\ calls'[c].pc \in {"ok", "failed"} /\ calls'[c].nth = calls[c].nth
    /\ tail' = Released(c)
GoesOn(c) ==
  Moves(c) /\ Holds(c)' /\ calls'[c].nth = calls[c].nth /\ UNCHANGED tail

LEMMA FinishFinishes ==
  ASSUME TypeOK, NEW c \in Calls, NEW pc \in {"ok", "failed"}, Finish(c, pc)
  PROVE  Finished(c)
<1>1. calls'[c] = At(pc, calls[c].nth, None, 0, 0) /\ \A d \in Calls \ {c} : calls'[d] = calls[d]
  BY DEF Finish, TypeOK
<1>2. calls'[c].pc = pc /\ calls'[c].nth = calls[c].nth
  BY <1>1 DEF At
<1> QED
  BY <1>1, <1>2 DEF Finish, Finished, Moves

LEMMA NextAttemptGoesOn ==
  ASSUME TypeOK, NEW c \in Calls, Holds(c), NextAttempt(c)
  PROVE  Finished(c) \/ (GoesOn(c) /\ calls'[c].pc = calls[c].pc /\ calls'[c].seq = calls[c].seq)
<1>1. CASE Finish(c, "failed")
  BY <1>1, FinishFinishes
<1>2. CASE /\ calls' = [calls EXCEPT ![c] = At(@.pc, @.nth, None, @.seq, @.tries + 1)]
           /\ UNCHANGED tail
  <2>1. /\ calls'[c] = At(calls[c].pc, calls[c].nth, None, calls[c].seq, calls[c].tries + 1)
        /\ \A d \in Calls \ {c} : calls'[d] = calls[d]
    BY <1>2 DEF TypeOK
  <2>2. calls'[c].pc = calls[c].pc /\ calls'[c].nth = calls[c].nth /\ calls'[c].seq = calls[c].seq
    BY <2>1 DEF At
  <2> QED
    BY <1>2, <2>1, <2>2 DEF GoesOn, Moves, Holds, Active
<1> QED
  BY <1>1, <1>2 DEF NextAttempt

LEMMA RunOnGoesOn ==
  ASSUME TypeOK, NEW c \in Calls, NEW seq \in Nat, AtHead(c), RunOn(c, seq)
  PROVE  \/ Finished(c) /\ cache' = (IF c \in Queued THEN seq ELSE cache)
         \/ /\ GoesOn(c) /\ calls'[c].pc = "submitting" /\ calls'[c].seq = seq + 1
            /\ cache' = IF c \in Queued THEN seq + 1 ELSE cache
<1>1. CASE Finish(c, "failed") /\ cache' = IF c \in Queued THEN seq ELSE cache
  BY <1>1, FinishFinishes
<1>2. CASE /\ calls' = [calls EXCEPT ![c] = At("submitting", @.nth, None, seq + 1, 1)]
           /\ cache' = IF c \in Queued THEN seq + 1 ELSE cache
           /\ UNCHANGED tail
  <2>1. /\ calls'[c] = At("submitting", calls[c].nth, None, seq + 1, 1)
        /\ \A d \in Calls \ {c} : calls'[d] = calls[d]
    BY <1>2 DEF TypeOK
  <2>2. calls'[c].pc = "submitting" /\ calls'[c].nth = calls[c].nth /\ calls'[c].seq = seq + 1
    BY <2>1 DEF At
  <2> QED
    BY <1>2, <2>1, <2>2 DEF GoesOn, Moves, Holds, Active, AtHead
<1> QED
  BY <1>1, <1>2 DEF RunOn

(* What each step of a call does to the queue.                             *)
LEMMA StepMoves ==
  ASSUME TypeOK, NEW c \in Calls, Step(c)
  PROVE  /\ AtHead(c)
         /\ Finished(c) \/ GoesOn(c) \/ (Holds(c) /\ c \in Queued /\ Rebuild(c))
<1>1. CASE TakeTurn(c)
  <2>0. AtHead(c)
    BY <1>1 DEF TakeTurn, AtHead
  <2>1. CASE cache # None
    BY <1>1, <2>0, <2>1, RunOnGoesOn DEF TakeTurn, TypeOK
  <2>2. CASE cache = None
    <3>1. /\ calls'[c] = At("loading", calls[c].nth, None, 0, 1)
          /\ \A d \in Calls \ {c} : calls'[d] = calls[d]
      BY <1>1, <2>2 DEF TakeTurn, TypeOK
    <3>2. calls'[c].pc = "loading" /\ calls'[c].nth = calls[c].nth
      BY <3>1 DEF At
    <3> QED
      BY <1>1, <2>0, <2>2, <3>1, <3>2 DEF TakeTurn, GoesOn, Moves, Holds, Active
  <2> QED
    BY <2>0, <2>1, <2>2
<1>2. CASE Loaded(c)
  <2>1. Len(ledger) \in Nat /\ AtHead(c)
    BY <1>2 DEF TypeOK, AtHead, Holds, Loaded
  <2> QED
    BY <1>2, <2>1, RunOnGoesOn DEF Loaded
<1>3. CASE calls[c].pc \in {"loading", "submitting"} /\ NextAttempt(c)
  BY <1>3, NextAttemptGoesOn DEF AtHead, Holds
<1>4. CASE calls[c].pc \in {"loading", "submitting"}
             /\ \E pc \in {"ok", "failed"} : Finish(c, pc)
  BY <1>4, FinishFinishes DEF AtHead, Holds
<1>5. CASE BadSequence(c)
  <2>1. CASE MayRebuild(c)
    BY <1>5, <2>1 DEF BadSequence, MayRebuild, AtHead, Holds
  <2>2. CASE ~MayRebuild(c)
    BY <1>4, <1>5, <2>2 DEF BadSequence
  <2> QED
    BY <2>1, <2>2
<1> QED
  BY <1>1, <1>2, <1>3, <1>4, <1>5
     DEF Step, LoadUnavailable, LoadFails, Applied, FoundApplied, Answer, Refused,
         RateLimited, Unavailable, NoAnswer

LEMMA QueueStep ==
  ASSUME TypeOK, QInv, [Next]_vars
  PROVE  QInv'
<1>1. ASSUME NEW c \in Calls, Step(c) PROVE QInv'
  BY <1>1, StepMoves, Leaves, Stays, Rejoins DEF Finished, GoesOn
<1>2. CASE Crash
  <2>1. (\A c \in Calls : ~Active(c))' /\ (tail = None)'
    BY <1>2 DEF Crash, Active, At
  <2>2. ((\A c \in Calls : ~Active(c)) /\ tail = None => QInv)'
    BY Emptied, PTL
  <2> QED
    BY <2>1, <2>2
<1>3. CASE UNCHANGED <<tail, calls>>
  <2>1. PICK q, first, last : Window(q, first, last) /\ Linked(q, first, last)
    BY DEF QInv, Queue
  <2>2. Window(q, first, last)'
    BY <1>3, <2>1 DEF Window, Active
  <2>3. Linked(q, first, last)'
    BY <1>3, <2>1 DEF Linked, AtHead, Holds, RunOf, Settled
  <2>4. DirectHolds'
    BY <1>3 DEF QInv, DirectHolds, Active, Holds
  <2> QED
    BY <2>2, <2>3, <2>4 DEF QInv, Queue
<1> QED
  BY <1>1, <1>2, <1>3, Joins, StaysDirect DEF Next, vars, AppliedLate, CacheExpires, AppliedForAnother

LEMMA QueueInit == Init => QInv
<1> SUFFICES ASSUME Init PROVE QInv
  OBVIOUS
<1>1. (\A c \in Calls : ~Active(c)) /\ tail = None
  BY DEF Init, Active, Unstarted, At
<1> QED
  BY <1>1, Emptied

LEMMA QInvOneHolder ==
  ASSUME TypeOK, QInv
  PROVE  OneHolder
BY QueueOneHolder DEF QInv, OneHolder, AtHead, Holds

-----------------------------------------------------------------------------
(* The cached sequence number, while nothing has drifted.  nth = 1 is part *)
(* of it: no queued call has met tx_bad_seq.                               *)
Building == \E c \in Queued : calls[c].pc = "submitting"

Tracks ==
  /\ \A c \in Queued : calls[c].nth = 1
  /\ \A c \in Queued : calls[c].pc = "submitting" => calls[c].seq = Len(ledger) + 1
  /\ cache # None => cache = Len(ledger) + (IF Building THEN 1 ELSE 0)

TrackedUnlessDrifted == ~Drifted => Tracks

LEMMA TracksCache ==
  ASSUME TypeOK, QInv, TrackedUnlessDrifted
  PROVE  CacheTracksLedger
<1> DEFINE S == {c \in Queued : calls[c].pc = "submitting"}
<1>1. CASE Building
  <2>1. PICK c \in Queued : calls[c].pc = "submitting"
    BY <1>1 DEF Building
  <2>2. S = {c}
    BY <2>1, QInvOneHolder DEF OneHolder
  <2>3. Cardinality(S) = 1
    BY <2>2, FS_Singleton
  <2> QED
    BY <1>1, <2>3 DEF CacheTracksLedger, TrackedUnlessDrifted, Tracks
<1>2. CASE ~Building
  <2>1. S = {}
    BY <1>2 DEF Building
  <2>2. Cardinality(S) = 0
    BY <2>1, FS_EmptySet
  <2> QED
    BY <1>2, <2>2 DEF CacheTracksLedger, TrackedUnlessDrifted, Tracks
<1> QED
  BY <1>1, <1>2

(* What has drifted stays so.                                              *)
LEMMA DriftStays ==
  ASSUME TypeOK, refused => refused', unanswered \subseteq unanswered',
         ledger' = ledger \/ \E env, effect : ledger' = Extended(env, effect), ~Drifted'
  PROVE  ~Drifted
<1>1. \A p \in DOMAIN ledger : p \in DOMAIN ledger' /\ ledger'[p] = ledger[p]
  BY ExtendedAt
<1> QED
  BY <1>1 DEF Drifted, TypeOK

(* The head is the only queued call that may be building.                  *)
LEMMA HeadAlone ==
  ASSUME TypeOK, QInv, NEW c \in Queued, AtHead(c)
  PROVE  \A d \in Queued \ {c} : ~Holds(d)
BY QueueOneHolder DEF QInv, AtHead

(* A step that neither starts nor applies a queued build keeps the count.  *)
LEMMA FinishTracks ==
  ASSUME TypeOK, QInv, Tracks, NEW c \in Calls, AtHead(c), Finished(c), ledger' = ledger,
         calls[c].pc # "submitting" \/ c \in Direct, UNCHANGED cache
  PROVE  Tracks'
<1>1. \A d \in Queued : calls'[d].nth = 1
  BY DEF Tracks, Finished, Moves, Calls
<1>2. \A d \in Queued : calls'[d].pc = "submitting" <=> calls[d].pc = "submitting"
  BY CallsAssumption DEF Finished, Moves, Calls
<1>3. \A d \in Queued : calls'[d].pc = "submitting" => calls'[d].seq = calls[d].seq
  BY <1>2, CallsAssumption DEF Finished, Moves, Calls
<1> QED
  BY <1>1, <1>2, <1>3 DEF Tracks, Building

LEMMA GoesOnTracks ==
  ASSUME TypeOK, QInv, Tracks, NEW c \in Calls, GoesOn(c), ledger' = ledger,
         \/ c \in Direct
         \/ calls[c].pc # "submitting" /\ calls'[c].pc # "submitting",
         UNCHANGED cache \/ cache' = None
  PROVE  Tracks'
<1>1. \A d \in Queued : calls'[d].nth = 1
  BY DEF Tracks, GoesOn, Moves, Calls
<1>2. \A d \in Queued : calls'[d].pc = "submitting" <=> calls[d].pc = "submitting"
  BY CallsAssumption DEF GoesOn, Moves, Calls
<1>3. \A d \in Queued : calls'[d].pc = "submitting" => calls'[d].seq = calls[d].seq
  BY <1>2, CallsAssumption DEF GoesOn, Moves, Calls
<1> QED
  BY <1>1, <1>2, <1>3 DEF Tracks, Building

(* A build starts from the ledger's sequence number.                       *)
LEMMA RunOnTracks ==
  ASSUME TypeOK, QInv, Tracks, NEW c \in Calls, AtHead(c), calls[c].pc # "submitting",
         NEW seq \in Nat, c \in Queued => seq = Len(ledger), RunOn(c, seq)
  PROVE  Tracks'
<1>0. ledger' = ledger
  BY DEF RunOn
<1>1. CASE c \in Direct
  <2>1. c \notin Queued
    BY <1>1, CallsAssumption
  <2> QED
    BY <1>0, <1>1, <2>1, RunOnGoesOn, FinishTracks, GoesOnTracks
<1>2. CASE c \in Queued
  <2>1. \A d \in Queued \ {c} : calls[d].pc # "submitting" /\ calls'[d] = calls[d]
    BY <1>2, HeadAlone, RunOnPc DEF Holds, Calls
  <2>2. ~Building
    BY <2>1 DEF Building
  <2>3. CASE Finished(c) /\ cache' = seq
    BY <1>0, <1>2, <2>1, <2>3 DEF Tracks, Building, Finished
  <2>4. CASE GoesOn(c) /\ calls'[c].pc = "submitting" /\ calls'[c].seq = seq + 1 /\ cache' = seq + 1
    BY <1>0, <1>2, <2>1, <2>4 DEF Tracks, Building, GoesOn
  <2> QED
    BY <1>2, <2>3, <2>4, RunOnGoesOn
<1> QED
  BY <1>1, <1>2 DEF Calls

(* Applying the build in flight moves the ledger to the cached number.     *)
LEMMA AppliedTracks ==
  ASSUME TypeOK, SeqBuilt, QInv, Tracks, NEW c \in Queued, Applied(c)
  PROVE  Tracks'
<1>0. c \in Calls /\ AtHead(c)
  BY DEF Calls, Applied, AtHead, Holds
<1>1. PICK effect \in BOOLEAN : ledger' = Extended(EnvelopeOf(c), effect) /\ Answer(c, effect)
  BY DEF Applied
<1>2. Finished(c) /\ UNCHANGED cache
  BY <1>0, <1>1, FinishFinishes DEF Answer
<1>3. Len(ledger') = Len(ledger) + 1
  BY <1>1 DEF Extended, TypeOK
<1>4. \A d \in Queued \ {c} : calls[d].pc # "submitting" /\ calls'[d] = calls[d]
  BY <1>0, <1>2, HeadAlone DEF Holds, Finished, Moves, Calls
<1>5. \A d \in Queued : calls'[d].pc # "submitting"
  BY <1>2, <1>4 DEF Finished
<1>6. Building /\ ~Building'
  BY <1>5 DEF Building, Applied
<1>7. \A d \in Queued : calls'[d].nth = 1
  BY <1>0, <1>2, <1>4 DEF Tracks, Finished
<1>8. cache' # None => cache' = Len(ledger') + 0
  BY <1>2, <1>3, <1>6 DEF Tracks, TypeOK
<1> QED
  BY <1>5, <1>6, <1>7, <1>8 DEF Tracks

LEMMA StepTracks ==
  ASSUME TypeOK, SeqBuilt, QInv, Tracks, NEW c \in Calls, Step(c), ~Drifted'
  PROVE  Tracks'
<1>0. AtHead(c)
  BY StepMoves
<1>1. CASE TakeTurn(c)
  <2>0. c \in Queued /\ calls[c].pc = "waiting"
    BY <1>1 DEF TakeTurn, QInv, DirectHolds, Active, Holds, Calls
  <2>1. CASE cache # None
    <3>1. ~Building
      BY <1>0, <2>0, HeadAlone DEF Building, Holds
    <3>2. cache = Len(ledger) /\ cache \in Nat
      BY <2>1, <3>1 DEF Tracks, TypeOK
    <3> QED
      BY <1>0, <1>1, <2>0, <2>1, <3>2, RunOnTracks DEF TakeTurn
  <2>2. CASE cache = None
    <3>1. /\ calls'[c] = At("loading", calls[c].nth, None, 0, 1)
          /\ \A d \in Calls \ {c} : calls'[d] = calls[d]
          /\ UNCHANGED <<ledger, cache, tail>>
      BY <1>1, <2>2 DEF TakeTurn, TypeOK
    <3>2. calls'[c].pc = "loading" /\ calls'[c].nth = calls[c].nth
      BY <3>1 DEF At
    <3>3. GoesOn(c)
      BY <2>0, <3>1, <3>2 DEF GoesOn, Moves, Holds, Active
    <3> QED
      BY <2>0, <3>1, <3>2, <3>3, GoesOnTracks
  <2> QED
    BY <2>1, <2>2
<1>2. CASE Loaded(c)
  <2>1. Len(ledger) \in Nat /\ calls[c].pc # "submitting"
    BY <1>2 DEF TypeOK, Loaded
  <2> QED
    BY <1>0, <1>2, <2>1, RunOnTracks DEF Loaded
<1>3. CASE LoadUnavailable(c)
  <2>1. calls[c].pc = "loading" /\ UNCHANGED <<ledger, cache>>
    BY <1>3 DEF LoadUnavailable
  <2>2. Finished(c) \/ (GoesOn(c) /\ calls'[c].pc = calls[c].pc)
    BY <1>3, NextAttemptGoesOn DEF LoadUnavailable, Holds
  <2> QED
    BY <1>0, <2>1, <2>2, FinishTracks, GoesOnTracks
<1>4. CASE LoadFails(c)
  BY <1>0, <1>4, FinishFinishes, FinishTracks DEF LoadFails
<1>5. CASE Applied(c)
  <2>1. CASE c \in Queued
    BY <1>5, <2>1, AppliedTracks
  <2>2. CASE c \notin Queued
    <3>1. PICK effect \in BOOLEAN : ledger' = Extended(EnvelopeOf(c), effect)
      BY <1>5 DEF Applied
    <3>2. /\ Len(ledger) + 1 \in DOMAIN ledger'
          /\ ledger'[Len(ledger) + 1] = [call |-> EnvelopeOf(c).call, nth |-> EnvelopeOf(c).nth,
                                         effect |-> effect]
      BY <3>1, ExtendedAt
    <3>3. EnvelopeOf(c).call = c
      BY DEF EnvelopeOf
    <3>4. ledger'[Len(ledger) + 1].call = c
      BY <3>2, <3>3
    <3> QED
      BY <2>2, <3>2, <3>4 DEF Drifted
  <2> QED
    BY <2>1, <2>2
<1>6. CASE FoundApplied(c)
  <2>1. c \notin Queued
    BY <1>6 DEF FoundApplied, OnLedger, EnvelopeOf, Tracks, TypeOK
  <2>2. Finished(c) /\ UNCHANGED <<ledger, cache>>
    BY <1>6, FinishFinishes DEF FoundApplied, Answer, TypeOK
  <2> QED
    BY <1>0, <2>1, <2>2, FinishTracks DEF Calls
<1>7. CASE Refused(c) \/ RateLimited(c)
  BY <1>7 DEF Refused, RateLimited, Drifted
<1>8. CASE BadSequence(c)
  <2>1. c \notin Queued
    BY <1>8 DEF BadSequence, IsNext, EnvelopeOf, Tracks
  <2>2. Finished(c) /\ UNCHANGED <<ledger, cache>>
    BY <1>8, <2>1, FinishFinishes DEF BadSequence, MayRebuild
  <2> QED
    BY <1>0, <2>1, <2>2, FinishTracks DEF Calls
<1>9. CASE Unavailable(c) \/ NoAnswer(c)
  BY <1>9 DEF Unavailable, NoAnswer, Lose, Drifted
<1> QED
  BY <1>1, <1>2, <1>3, <1>4, <1>5, <1>6, <1>7, <1>8, <1>9 DEF Step

LEMMA NextTracks ==
  ASSUME TypeOK, SeqBuilt, QInv, Tracks, [Next]_vars, ~Drifted'
  PROVE  Tracks'
<1>1. ASSUME NEW c \in Calls, Enqueue(c) \/ CallDirectly(c) PROVE Tracks'
  <2>1. /\ calls[c].pc = "idle" /\ \A d \in Calls \ {c} : calls'[d] = calls[d]
        /\ calls'[c].pc # "submitting" /\ calls'[c].nth = calls[c].nth
        /\ UNCHANGED <<ledger, cache>>
    BY <1>1 DEF Enqueue, CallDirectly, TypeOK, At
  <2>2. \A d \in Queued : calls'[d].nth = calls[d].nth
           /\ (calls'[d].pc = "submitting" <=> calls[d].pc = "submitting")
           /\ (calls'[d].pc = "submitting" => calls'[d].seq = calls[d].seq)
    BY <2>1 DEF Calls
  <2> QED
    BY <2>1, <2>2 DEF Tracks, Building
<1>2. ASSUME NEW c \in Calls, Step(c) PROVE Tracks'
  BY <1>2, StepTracks
<1>3. ASSUME NEW env \in unanswered, AppliedLate(env) PROVE Tracks'
  BY <1>3 DEF AppliedLate, Drifted
<1>4. CASE CacheExpires
  BY <1>4 DEF CacheExpires, Tracks, Building
<1>5. CASE AppliedForAnother
  <2>1. Len(ledger) + 1 \in DOMAIN ledger' /\ ledger'[Len(ledger) + 1].call = None
    BY <1>5 DEF AppliedForAnother, TypeOK
  <2> QED
    BY <2>1, CallsAssumption DEF Drifted
<1>6. CASE Crash
  <2>1. \A c \in Calls : calls[c].pc # "submitting"
    BY <1>6 DEF Crash, Lose, Drifted
  <2>2. \A c \in Calls : calls'[c].nth = calls[c].nth /\ calls'[c].pc # "submitting"
    BY <1>6, <2>1 DEF Crash, At
  <2> QED
    BY <1>6, <2>2 DEF Crash, Tracks, Building, Calls
<1>7. CASE UNCHANGED vars
  BY <1>7 DEF vars, Tracks, Building
<1> QED
  BY <1>1, <1>2, <1>3, <1>4, <1>5, <1>6, <1>7 DEF Next

LEMMA NextDrifts ==
  ASSUME TypeOK, [Next]_vars, ~Drifted'
  PROVE  ~Drifted
<1>1. ASSUME NEW c \in Calls, Step(c) PROVE ~Drifted
  <2>1. unanswered \subseteq unanswered' /\ (refused => refused')
    BY <1>1 DEF Step, TakeTurn, Loaded, LoadUnavailable, LoadFails, Applied, FoundApplied,
       Refused, BadSequence, RateLimited, Unavailable, NoAnswer, Lose, RunOn
  <2>2. ledger' = ledger \/ \E env, effect : ledger' = Extended(env, effect)
    BY <1>1 DEF Step, TakeTurn, Loaded, LoadUnavailable, LoadFails, Applied, FoundApplied,
       Refused, BadSequence, RateLimited, Unavailable, NoAnswer, RunOn
  <2> QED
    BY <2>1, <2>2, DriftStays
<1>2. ASSUME NEW c \in Calls, Enqueue(c) \/ CallDirectly(c) PROVE ~Drifted
  BY <1>2, DriftStays DEF Enqueue, CallDirectly
<1>3. ASSUME NEW env \in unanswered, AppliedLate(env) PROVE ~Drifted
  BY <1>3, DriftStays DEF AppliedLate
<1>4. CASE CacheExpires \/ Crash \/ UNCHANGED vars
  BY <1>4, DriftStays DEF CacheExpires, Crash, Lose, vars
<1>5. CASE AppliedForAnother
  <2>1. ledger' = Extended([call |-> None, nth |-> 1], TRUE)
    BY <1>5 DEF AppliedForAnother, Extended
  <2> QED
    BY <1>5, <2>1, DriftStays DEF AppliedForAnother
<1> QED
  BY <1>1, <1>2, <1>3, <1>4, <1>5 DEF Next

QueueInv == QInv /\ TrackedUnlessDrifted

LEMMA QueueInvariant == Spec => [](IInv /\ QueueInv)
<1>1. Init => QueueInv
  <2> SUFFICES ASSUME Init PROVE QueueInv
    OBVIOUS
  <2>1. Tracks
    BY DEF Init, Tracks, Building, Unstarted, At, Calls
  <2> QED
    BY <2>1, QueueInit DEF QueueInv, TrackedUnlessDrifted
<1>2. IInv /\ QueueInv /\ [Next]_vars => QueueInv'
  <2> SUFFICES ASSUME IInv, QueueInv, [Next]_vars PROVE QueueInv'
    OBVIOUS
  <2>1. QInv'
    BY QueueStep DEF IInv, QueueInv
  <2>2. TrackedUnlessDrifted'
    BY NextTracks, NextDrifts DEF IInv, QueueInv, TrackedUnlessDrifted
  <2> QED
    BY <2>1, <2>2 DEF QueueInv
<1> QED
  BY <1>1, <1>2, InitInv, NextInv, PTL DEF Spec

-----------------------------------------------------------------------------
(* However many calls wait, settle, rebuild or are lost with their         *)
(* process: one of them at a time holds the cached Account                 *)
(* (SequenceCacheClass.withAccount).                                       *)
THEOREM HoldersExcluded == Spec => []OneHolder
<1>1. IInv /\ QueueInv => OneHolder
  BY QInvOneHolder DEF IInv, QueueInv
<1> QED
  BY <1>1, QueueInvariant, PTL

(* As long as only the queue submits and every submission is answered, the *)
(* cached number is the one the next transaction needs, and no call is     *)
(* rebuilt.                                                                *)
THEOREM CacheTracks == Spec => []CacheTracksLedger
<1>1. IInv /\ QueueInv => CacheTracksLedger
  BY TracksCache DEF IInv, QueueInv
<1> QED
  BY <1>1, QueueInvariant, PTL
=============================================================================
