------------------------ MODULE MCGovernanceUpgrades ------------------------
(* Instances of GovernanceUpgrades, Communities, RateLimit, Migrations,    *)
(* PaymentFeed and Prices, checked one beside the other: the components    *)
(* share nothing but the model values, whose symmetry serves them all.     *)
EXTENDS GovernanceUpgrades, Sequences, TLC

CONSTANTS
  Requests,               \* bound: requests, processes or connections at a time
  Avatars, GrantedRoles,  \* Communities
  Highest, Images,        \* Migrations: files numbered, what deployments ship
  MaxItems, MaxPayments,  \* PaymentFeed
  Servers, Providers,     \* Prices
  PriceTTL, Delay,        \* Prices
  LastTime                \* Prices: how long the clock is followed

Symmetry == Permutations(Accounts) \cup Permutations(UpgradeIds)
            \cup Permutations(Hashes) \cup Permutations(Requests)

(* RateLimit: requests that pass each limiter in a window, and requests    *)
(* each slow-down passes at full speed, two to one as api has them.        *)
Quotas == "api" :> 2 @@ "auth" :> 2 @@ "tokens" :> 2 @@ "write" :> 2 @@ "community-write" :> 2
Delays == "api" :> 1 @@ "auth" :> 1 @@ "tokens" :> 1

(* Migrations: an image before the third file, a complete one, and one     *)
(* whose second file was edited.                                           *)
MCImages == {<<"v", "v", None>>, <<"v", "v", "v">>, <<"v", "w", "v">>}

(* Prices: two sources, asked in this order.                               *)
MCProviders == <<"coingecko", "binance">>

VARIABLES
  part, \* the component this behaviour is of
  x1, x2, x3, x4 \* its state

xs == <<x1, x2, x3, x4>>

Communities == INSTANCE Communities WITH
  Ids <- UpgradeIds, Addresses <- Accounts, Names <- Hashes,
  communities <- x1, members <- x2, requests <- x3

RateLimit == INSTANCE RateLimit WITH
  Kinds <- {"auth"}, Quota <- Quotas,
  DelayAfter <- Delays, Window <- 2, MaxTime <- 4, MaxOutages <- 1,
  now <- x1, counters <- x2, requests <- x3, outages <- x4

Migrations == INSTANCE Migrations WITH
  Runners <- Requests, Legacy <- "legacy",
  schema <- x1, table <- x2, lock <- x3, runs <- x4

PaymentFeed == INSTANCE PaymentFeed WITH
  Conns <- Requests,
  ledger <- x1, hook <- x2, source <- x3, conns <- x4

Prices == INSTANCE Prices WITH
  TTL <- PriceTTL, MaxTime <- LastTime,
  now <- x1, memory <- x2, redis <- x3, calls <- x4

(* One component moves; the others wait in their initial state.            *)
MCInit ==
  /\ Init
  /\ \/ /\ part = "GovernanceUpgrades"
        /\ x1 = None /\ x2 = None /\ x3 = None /\ x4 = None
     \/ /\ part = "Communities" /\ Communities!Init /\ x4 = None
     \/ /\ part = "RateLimit" /\ RateLimit!Init
     \/ /\ part = "Migrations" /\ Migrations!Init
     \/ /\ part = "PaymentFeed" /\ PaymentFeed!Init
     \/ /\ part = "Prices" /\ Prices!Init

MCNext ==
  \/ part = "GovernanceUpgrades" /\ Next /\ UNCHANGED <<part, xs>>
  \/ part = "Communities" /\ Communities!Next /\ UNCHANGED <<part, vars, x4>>
  \/ part = "RateLimit" /\ RateLimit!Next /\ UNCHANGED <<part, vars>>
  \/ part = "Migrations" /\ Migrations!Next /\ UNCHANGED <<part, vars>>
  \/ part = "PaymentFeed" /\ PaymentFeed!Next /\ UNCHANGED <<part, vars>>
  \/ part = "Prices" /\ Prices!Next /\ UNCHANGED <<part, vars>>

MCSpec == MCInit /\ [][MCNext]_<<part, vars, xs>>

(* What marks an absent value is no value; bounds, a price's lifetime and  *)
(* the delay of a message are numbers.                                     *)
ASSUME CommunitiesAssumption ==
  /\ GrantedRoles \subseteq Communities!Roles
  /\ None \notin UpgradeIds
  /\ None \notin Communities!Community
  /\ None \notin Communities!Request
  /\ None \notin Communities!Roles

(* Every deployment ships the files under their numbers, the first of them *)
(* always in the same version; a NULL checksum is no version's.            *)
ASSUME MigrationsAssumption ==
  /\ Highest \in Nat \ {0} /\ Images # {}
  /\ \A image \in Images :
       /\ DOMAIN image = 1 .. Highest /\ image = [f \in 1 .. Highest |-> image[f]]
       /\ image[Migrations!Bootstrap] # None
       /\ \A other \in Images : image[Migrations!Bootstrap] = other[Migrations!Bootstrap]
  /\ "legacy" \notin Migrations!Versions /\ None # "legacy"
  /\ None \notin Requests

(* Every limit is at least twice its slow-down's.                          *)
ASSUME LimitsAssumption == \A l \in DOMAIN Delays : Quotas[l] >= 2 * Delays[l]

ASSUME FeedAssumption ==
  /\ None \notin Requests
  /\ MaxItems \in Nat /\ MaxPayments \in Nat

ASSUME PricesAssumption ==
  /\ PriceTTL \in Nat \ {0} /\ Delay \in Nat /\ LastTime \in Nat
  /\ Len(Providers) \in Nat
  /\ None \notin Prices!Entry /\ None \notin Prices!Times

-----------------------------------------------------------------------------
(* A counter of RateLimit runs to two above its limit, and after an outage *)
(* one window is explored.                                                 *)
CountersBounded ==
  part = "RateLimit" => (\A s \in DOMAIN x2 : x2[s].count <= 4) /\ (x4 > 0 => x1 <= 2)

(* What holds of each component beside the host.                           *)

(* Communities: no two live communities have one name, and a deleted one   *)
(* stays as it was and nobody joins it.                                    *)
DeletedIsClosed ==
  /\ [](part = "Communities" => Communities!TypeOK /\ Communities!LiveNamesUnique)
  /\ [][part = "Communities" => Communities!DeletedIsClosed]_<<part, vars, xs>>

(* RateLimit: whoever is refused had sent too much to that very limit and  *)
(* was slowed down before, unless counters were out of reach or a request  *)
(* came late.                                                              *)
RefusedAfterWarning ==
  /\ [](part = "RateLimit" => RateLimit!TypeOK)
  /\ [][part = "RateLimit" => RateLimit!RefusedAfterWarning]_<<part, vars, xs>>

(* Migrations: each is applied after all earlier ones and over no edited   *)
(* one, and what is recorded is in effect.                                 *)
SchemaAsRecorded ==
  /\ [](part = "Migrations" => Migrations!TypeOK /\ Migrations!RecordedIsInEffect)
  /\ [][part = "Migrations" => Migrations!AppliedInOrder]_<<part, vars, xs>>

(* PaymentFeed: the list runs strictly from newer to older.                *)
NewestFirst == part = "PaymentFeed" => PaymentFeed!TypeOK /\ PaymentFeed!NewestFirst

(* Prices: a price served is under two lifetimes old, plus the delays.     *)
AgeBounded == part = "Prices" => Prices!TypeOK /\ Prices!AgeBounded
=============================================================================
