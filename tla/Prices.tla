------------------------------- MODULE Prices -------------------------------
(***************************************************************************)
(* The XLM price (api/routes/prices.ts, cache/prices.ts, cache/redis.ts,   *)
(* services/prices.ts): API servers with a memory tier each, one Redis     *)
(* they share, and a row of public sources asked in turn. A price is known *)
(* by the moment it was quoted. Commands to Redis and their replies take   *)
(* up to Delay; sources take any time.                                     *)
(***************************************************************************)
EXTENDS Naturals, Sequences

CONSTANTS
  Servers,
  Requests,
  Providers,     \* a sequence, in the order they are asked
  TTL, Delay,
  MaxTime,       \* how long the clock is followed
  None

Times == 0 .. MaxTime + TTL

VARIABLES
  now,
  memory,        \* of each server: a price and when it expires
  redis,         \* likewise, or a payload that is no price
  calls          \* what each request is doing

vars == <<now, memory, redis, calls>>

Entry == [born : Times \cup {None}, until : Times]
Stages == {"idle", "asking", "reading", "discarding", "fetching", "storing", "answered"}

(* found is the price in hand; next the source to ask; since, when the     *)
(* message under way was sent.                                             *)
Call == [stage : Stages, server : Servers \cup {None}, found : Times \cup {None},
         next : 1 .. Len(Providers) + 1, since : Times]

Free == [stage |-> "idle", server |-> None, found |-> None, next |-> 1, since |-> 0]

TypeOK ==
  /\ now \in 0 .. MaxTime
  /\ memory \in [Servers -> Entry \cup {None}]
  /\ redis \in Entry \cup {None}
  /\ calls \in [Requests -> Call]

Malformed == [born |-> None, until |-> TTL]

Init ==
  /\ now = 0
  /\ memory = [s \in Servers |-> None]
  /\ redis \in {None, Malformed}
  /\ calls = [r \in Requests |-> Free]

For(ttl, born) == [born |-> born, until |-> now + ttl]
MemoryHit(s) == memory[s] # None /\ now <= memory[s].until

(* What Redis holds: its own clock removes an entry.                       *)
Held == IF redis # None /\ now < redis.until THEN redis ELSE None

Goes(r, stage, found) ==
  calls' = [calls EXCEPT ![r].stage = stage, ![r].found = found, ![r].since = now]

(* getCachedPrice asks the memory of the process first.                    *)
Ask(r, s) ==
  /\ calls[r].stage = "idle"
  /\ calls' = [calls EXCEPT ![r] =
       [stage |-> IF MemoryHit(s) THEN "answered" ELSE "asking", server |-> s,
        found |-> IF MemoryHit(s) THEN memory[s].born ELSE None,
        next |-> Free.next, since |-> now]]
  /\ memory' = [memory EXCEPT ![s] = IF MemoryHit(s) THEN @ ELSE None]
  /\ UNCHANGED <<now, redis>>

RedisReplies(r) ==
  /\ calls[r].stage = "asking"
  /\ IF Held = None
       THEN Goes(r, "fetching", None)
       ELSE Goes(r, IF Held.born = None THEN "discarding" ELSE "reading", Held.born)
  /\ UNCHANGED <<now, memory, redis>>

(* No client, a failed command and a failed connection all read as a miss. *)
RedisFails(r) ==
  /\ calls[r].stage \in {"asking", "reading"}
  /\ Goes(r, "fetching", None)
  /\ UNCHANGED <<now, memory, redis>>

(* Faulty: what was read is written back to both tiers. *)
WarmBoth(r) ==
  /\ calls[r].stage = "reading"
  /\ memory' = [memory EXCEPT ![calls[r].server] = For(TTL, calls[r].found)]
  /\ Goes(r, "storing", calls[r].found)
  /\ UNCHANGED <<now, redis>>

(* The reply warms the memory tier.                                        *)
Warm(r) ==
  /\ calls[r].stage = "reading"
  /\ memory' = [memory EXCEPT ![calls[r].server] = For(TTL, calls[r].found)]
  /\ Goes(r, "answered", calls[r].found)
  /\ UNCHANGED <<now, redis>>

(* A payload that is no price is deleted, and whatever took its place.     *)
Discard(r) ==
  /\ calls[r].stage = "discarding"
  /\ redis' \in {redis, None}
  /\ Goes(r, "fetching", None)
  /\ UNCHANGED <<now, memory>>

(* A source quotes a price: both tiers are written, memory at once.        *)
Fetched(r) ==
  /\ calls[r].stage = "fetching"
  /\ calls[r].next <= Len(Providers)
  /\ memory' = [memory EXCEPT ![calls[r].server] = For(TTL, now)]
  /\ Goes(r, "storing", now)
  /\ UNCHANGED <<now, redis>>

(* It failed, timed out or does not know the currency: the next is asked,  *)
(* and after the last the request is answered 502.                         *)
SourceFails(r) ==
  /\ calls[r].stage = "fetching"
  /\ IF calls[r].next < Len(Providers)
       THEN calls' = [calls EXCEPT ![r].next = @ + 1]
       ELSE calls' = [calls EXCEPT ![r] = Free]
  /\ UNCHANGED <<now, memory, redis>>

(* SETEX reaches Redis, or is lost; its failure is swallowed.              *)
Store(r) ==
  /\ calls[r].stage = "storing"
  /\ redis' \in {redis, For(TTL, calls[r].found)}
  /\ Goes(r, "answered", calls[r].found)
  /\ UNCHANGED <<now, memory>>

Answered(r) ==
  /\ calls[r].stage = "answered"
  /\ calls' = [calls EXCEPT ![r] = Free]
  /\ UNCHANGED <<now, memory, redis>>

UnderWay(r) == calls[r].stage \in {"asking", "reading", "discarding", "storing"}

(* An answer leaves at once, a message to or from Redis within Delay.      *)
Tick ==
  /\ now < MaxTime
  /\ \A r \in Requests :
       /\ calls[r].stage # "answered"
       /\ UnderWay(r) => now < calls[r].since + Delay
  /\ now' = now + 1
  /\ UNCHANGED <<memory, redis, calls>>

Next ==
  \/ \E r \in Requests :
       \/ \E s \in Servers : Ask(r, s)
       \/ RedisReplies(r) \/ RedisFails(r) \/ Warm(r) \/ Discard(r)
       \/ Fetched(r) \/ SourceFails(r) \/ Store(r) \/ Answered(r)
  \/ Tick

Spec == Init /\ [][Next]_vars

-----------------------------------------------------------------------------
(* However requests of several servers fill and read the two tiers, the    *)
(* price served is under two lifetimes old, plus the time a write to and   *)
(* a reply from Redis take: a tier never renews what it reads from itself, *)
(* nor the one below from the one above (getCachedPrice, cachePrice).      *)
AgeBounded ==
  \A r \in Requests :
    calls[r].stage = "answered" =>
      /\ calls[r].found # None
      /\ now - calls[r].found < 2 * TTL + 2 * Delay
=============================================================================
