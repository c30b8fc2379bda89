------------------------------ MODULE RateLimit ------------------------------
(***************************************************************************)
(* The rate limits one client address meets (api/middleware/rateLimit.ts,  *)
(* mounted by app.ts and api/routes/index.ts): each request passes the     *)
(* limiters on its way, one round trip to the shared Redis each. A         *)
(* slow-down counts and delays, a hard limit counts and refuses; a counter *)
(* that cannot be reached lets the request through.                        *)
(***************************************************************************)
EXTENDS Naturals, Sequences

CONSTANTS
  Requests,
  Kinds,          \* of routes called
  Quota,          \* of each limiter: requests per window
  DelayAfter,     \* of each slow-down: requests per window at full speed
  Window,
  MaxTime,
  MaxOutages      \* times a counter is out of reach

Limiters == {"api", "auth", "tokens", "write", "community-write"}
Slowed   == {"api", "auth", "tokens"}

VARIABLES
  now,
  counters,       \* a window of requests for each store
  requests,
  outages

vars == <<now, counters, requests, outages>>

Hard(name) == [limiter |-> name, slow |-> FALSE]
SlowDown(name) == [limiter |-> name, slow |-> TRUE]

(* Each slow-down stands in front of its hard limit.                       *)
Slowly(name) == <<SlowDown(name), Hard(name)>>

Chain(kind) ==
  CASE kind = "webhooks"    -> <<>>
    [] kind = "auth"        -> Slowly("api") \o Slowly("auth")
    [] kind = "tokens"      -> Slowly("api") \o Slowly("tokens")
    [] kind = "loans"       -> Slowly("api") \o <<Hard("write")>>
    [] kind = "communities" -> <<Hard("community-write")>> \o Slowly("api") \o <<Hard("write")>>

(* Faulty: the slow-down and the limit share a key. *)
SharedStore(step) == <<step.limiter, "">>

(* Every limiter counts under a key of its own, its slow-down under        *)
(* another.                                                                *)
Store(step) == <<step.limiter, IF step.slow THEN "slow" ELSE "">>
Stores == {Store(Hard(l)) : l \in Limiters} \cup {Store(SlowDown(l)) : l \in Slowed}

(* until: when Redis drops the counter; passed: the requests that passed   *)
(* this very limiter since; slowed: one of them had been delayed before;   *)
(* late: one of them came late.                                            *)
Counter == [count : Nat, until : Nat, passed : Nat, slowed : BOOLEAN, late : BOOLEAN]
NoRequests == [count |-> 0, until |-> 0, passed |-> 0, slowed |-> FALSE, late |-> FALSE]

(* late: it is between a slow-down and its hard limit, and the window in   *)
(* which the slow-down counted it has ended.                               *)
Request == [kind : Kinds, stage : {"idle", "passing", "served", "refused"},
            done : 0 .. 6, slowed : BOOLEAN, late : BOOLEAN]

TypeOK ==
  /\ now \in 0 .. MaxTime
  /\ counters \in [Stores -> Counter]
  /\ requests \in [Requests -> Request]
  /\ outages \in 0 .. MaxOutages

Init ==
  /\ now = 0
  /\ counters = [s \in Stores |-> NoRequests]
  /\ requests = [r \in Requests |-> [kind |-> CHOOSE k \in Kinds : TRUE, stage |-> "idle",
                                     done |-> 0, slowed |-> FALSE, late |-> FALSE]]
  /\ outages = 0

Step(r) == Chain(requests[r].kind)[requests[r].done + 1]

Arrive(r, kind) ==
  /\ requests[r].stage = "idle"
  /\ requests' = [requests EXCEPT ![r] =
       [kind |-> kind, stage |-> IF Chain(kind) = <<>> THEN "served" ELSE "passing",
        done |-> 0, slowed |-> FALSE, late |-> FALSE]]
  /\ UNCHANGED <<now, counters, outages>>

(* The script increments the counter, or starts a new window.              *)
Counted(r) ==
  LET counter == IF counters[Store(Step(r))] = NoRequests
                   THEN [NoRequests EXCEPT !.until = now + Window]
                   ELSE counters[Store(Step(r))]
  IN [counter EXCEPT !.count = @ + 1,
        !.passed = @ + IF Step(r).slow THEN 0 ELSE 1,
        !.slowed = @ \/ requests[r].slowed,
        !.late = @ \/ requests[r].late]

Goes(r, slowed) ==
  requests' = [requests EXCEPT ![r].done = @ + 1, ![r].slowed = @ \/ slowed, ![r].late = FALSE,
    ![r].stage = IF requests[r].done + 1 = Len(Chain(requests[r].kind)) THEN "served" ELSE @]

(* A delay is only the time until the next step.                           *)
Slow(r) ==
  /\ requests[r].stage = "passing" /\ Step(r).slow
  /\ counters' = [counters EXCEPT ![Store(Step(r))] = Counted(r)]
  /\ Goes(r, Counted(r).count > DelayAfter[Step(r).limiter])
  /\ UNCHANGED <<now, outages>>

Limit(r) ==
  /\ requests[r].stage = "passing" /\ ~Step(r).slow
  /\ counters' = [counters EXCEPT ![Store(Step(r))] = Counted(r)]
  /\ IF Counted(r).count > Quota[Step(r).limiter]
       THEN requests' = [requests EXCEPT ![r].stage = "refused"]
       ELSE Goes(r, FALSE)
  /\ UNCHANGED <<now, outages>>

(* The scripts could not be loaded or the command failed or timed out: the *)
(* request passes, whether it was counted or not.                          *)
PassOnStoreError(r) ==
  /\ requests[r].stage = "passing"
  /\ outages < MaxOutages
  /\ outages' = outages + 1
  /\ \E counter \in {counters[Store(Step(r))], Counted(r)} :
       counters' = [counters EXCEPT ![Store(Step(r))] = counter]
  /\ Goes(r, FALSE)
  /\ UNCHANGED now

Done(r) ==
  /\ requests[r].stage \in {"served", "refused"}
  /\ requests' = [requests EXCEPT ![r].stage = "idle", ![r].done = 0, ![r].slowed = FALSE,
                                      ![r].late = FALSE]
  /\ UNCHANGED <<now, counters, outages>>

Ends(counter) == counter # NoRequests /\ counter.until <= now + 1

(* The slow-down this request has just passed counted it in this store.    *)
WaitsAfter(r, store) ==
  /\ requests[r].stage = "passing" /\ requests[r].done > 0
  /\ LET passed == Chain(requests[r].kind)[requests[r].done]
     IN passed.slow /\ Store(passed) = store

(* Redis drops the counters whose time has come.                           *)
Tick ==
  /\ now < MaxTime
  /\ now' = now + 1
  /\ counters' = [s \in Stores |-> IF Ends(counters[s]) THEN NoRequests ELSE counters[s]]
  /\ requests' = [r \in Requests |-> [requests[r] EXCEPT !.late = @ \/
       \E s \in Stores : WaitsAfter(r, s) /\ Ends(counters[s])]]
  /\ UNCHANGED outages

Next ==
  \/ \E r \in Requests :
       \/ \E kind \in Kinds : Arrive(r, kind)
       \/ Slow(r) \/ Limit(r) \/ PassOnStoreError(r) \/ Done(r)
  \/ Tick

Spec == Init /\ [][Next]_vars

-----------------------------------------------------------------------------
(* Whoever is refused sent more requests than this very limit allows in    *)
(* its window, and was slowed down before it was blocked, unless counters  *)
(* were out of reach or a request came late: one that waited before the    *)
(* limit until the slow-down had begun to count anew.  However requests    *)
(* overlap and windows end on the way, wherever a limit is at least twice  *)
(* its slow-down's (createStore's prefixes, the order in routes/index.ts). *)
RefusedAfterWarning ==
  \A r \in Requests :
    requests[r].stage = "passing" /\ requests'[r].stage = "refused" =>
      LET limiter == Step(r).limiter
          counter == counters'[Store(Hard(limiter))]
      IN /\ counter.passed > Quota[limiter]
         /\ limiter \in Slowed => counter.slowed \/ counter.late \/ outages > 0
=============================================================================
