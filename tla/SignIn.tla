------------------------------- MODULE SignIn -------------------------------
(***************************************************************************)
(* Signing in with a wallet: the server's challenges, session tokens and   *)
(* rotating refresh tokens (api/routes/auth.ts, api/utils/*Token.ts), and  *)
(* one browser whose tabs sign in, expire, switch accounts and reload      *)
(* (frontend hooks/useWallet.ts, hooks/useAuth.tsx, lib/api.ts).  The tabs *)
(* share a cookie jar; each keeps a bearer token and a CSRF token of its   *)
(* own, and its sign-ins in flight.                                        *)
(*                                                                         *)
(* What a sign-in or a refresh mints together (session, refresh and CSRF   *)
(* token) bears one number, its place in `mints`.  One tick of the clock   *)
(* is the five minutes of a challenge and of the failure window.           *)
(***************************************************************************)
EXTENDS Naturals, Sequences

CONSTANTS Addresses,      \* wallet accounts
          Tabs,           \* tabs of the browser
          None,           \* no address, no tab
          MaxFailures,    \* MAX_FAILED_AUTH_ATTEMPTS, 10
          SessionTTL,     \* life of a session token, in ticks
          RefreshTTL,     \* life of a refresh token, in ticks
          MaxTime,        \* bound on the clock
          MaxChallenges,  \* bound on the challenges issued
          MaxMints,       \* bound on the tokens minted
          MaxRestarts     \* bound on the restarts of the server

VARIABLES now,       \* the server's clock
          restarts,  \* restarts of the server so far
          nonces,    \* every challenge issued: its address and its time
          pending,   \* pendingChallenges: the nonce each address must sign, or 0
          mints,     \* every set of tokens minted
          live,      \* refreshTokens: the mints whose refresh token is redeemable
          failures,  \* failedAuthAttemptsByIp of the browser's address: how
                     \* many in the window of the last one
          jar,       \* the browser's cookies: session, refresh and CSRF, or 0
          wallet,    \* the account selected in Freighter
          tabs,      \* what each tab shows and holds
          attempts,  \* pendingSignIns of each tab, by address
          torn       \* the mints of which the browser may have kept one half:
                     \* the body was lost after its cookies were stored, or
                     \* read after those of another sign-in of the tab

server  == <<restarts, nonces, pending, mints, live, failures>>
browser == <<jar, wallet, tabs, attempts, torn>>
vars == <<now, server, browser>>

Idle  == [step |-> "idle", nonce |-> 0, mint |-> 0, connects |-> FALSE]
Blank == [publicKey |-> None, token |-> 0, csrf |-> 0]
Empty == [session |-> 0, refresh |-> 0, csrf |-> 0]
NoChallenge == [a \in Addresses |-> 0]
NoFailures == [at |-> 0, count |-> 0]

Init ==
  /\ now = 0 /\ restarts = 0
  /\ nonces = <<>> /\ pending = NoChallenge
  /\ mints = <<>> /\ live = {} /\ failures = NoFailures
  /\ jar = Empty
  /\ wallet \in Addresses
  /\ tabs = [t \in Tabs |-> Blank]
  /\ attempts = [t \in Tabs |-> [a \in Addresses |-> Idle]]
  /\ torn = {}

-----------------------------------------------------------------------------
(* The server.                                                             *)

(* pruneExpiredChallenges *)
Unexpired ==
  [a \in Addresses |->
     IF pending[a] # 0 /\ nonces[pending[a]].at + 1 < now THEN 0 ELSE pending[a]]

(* pruneFailedAttempts: the failures of the last window, which is a tick. *)
Recent == IF failures.at = now THEN failures.count ELSE 0
Blocked == Recent >= MaxFailures

(* issueChallenge: a new challenge takes the place of the address's last. *)
IssueChallenge(a) ==
  /\ Len(nonces) < MaxChallenges
  /\ nonces' = Append(nonces, [address |-> a, at |-> now])
  /\ pending' = [Unexpired EXCEPT ![a] = Len(nonces) + 1]

(* verify looks for the very challenge that was presented ... *)
Matches(nonce, a) == nonce = Unexpired[a]
(* ... and consumes it, whether or not the signature checks out. *)
(* Faulty: a call that presents another challenge consumes it too. *)
AfterPresentingAny(nonce, a) == [Unexpired EXCEPT ![a] = 0]
AfterPresenting(nonce, a) ==
  IF Matches(nonce, a) THEN [Unexpired EXCEPT ![a] = 0] ELSE Unexpired

(* A mint: tokens of an address, in the family of one signed challenge, from  *)
(* the refresh token of an earlier mint or, when 0, from the signature.       *)
Mint(a, family, from, who) ==
  mints' = Append(mints, [address |-> a, family |-> family, from |-> from, by |-> who, at |-> now])

(* prune and issueRefreshToken *)
Redeemable == {k \in live : mints[k].at + RefreshTTL >= now}

(* POST /verify of `nonce` for a; `good` is the outcome of the signature check. *)
Verify(nonce, a, who, good) ==
  IF Blocked
  THEN /\ failures' = [at |-> now, count |-> Recent]
       /\ UNCHANGED <<pending, mints, live>>
  ELSE /\ pending' = AfterPresenting(nonce, a)
       /\ IF Matches(nonce, a) /\ good
          THEN /\ failures' = NoFailures
               /\ Mint(a, nonce, 0, who)
               /\ live' = Redeemable \union {Len(mints) + 1}
          ELSE /\ failures' = [at |-> now, count |-> Recent + 1]
               /\ UNCHANGED <<mints, live>>

(* consumeRefreshToken: a token leaves the map on every lookup. *)
AfterLookup(k) == Redeemable \ {k}

(* verifySessionToken: the session token of a mint is good. *)
Good(k) == k # 0 /\ mints[k].at + SessionTTL >= now

-----------------------------------------------------------------------------
(* The browser.                                                            *)

(* authenticate: callers for one address share the attempt in flight; one of *)
(* them may be establishSession, which then shows the address.               *)
Join(t, a, connects) ==
  attempts' = [attempts EXCEPT ![t][a].step = IF @ = "idle" THEN "challenge" ELSE @,
                               ![t][a].connects = @ \/ connects]

(* establishSession: on mount, from connect, or when the watcher sees that the *)
(* account selected in Freighter is no longer the one the tab shows.           *)
EstablishSession(t) ==
  /\ tabs[t].publicKey # wallet
  /\ Join(t, wallet, TRUE)
  /\ UNCHANGED <<now, server, jar, wallet, tabs, torn>>

(* A call of a protected route: the session cookie, or else the tab's bearer *)
(* token, says who calls.                                                    *)
ActsAs(t) ==
  CASE Good(jar.session) -> mints[jar.session].address
    [] ~Good(jar.session) /\ Good(tabs[t].token) -> mints[tabs[t].token].address
    [] OTHER -> None

(* reauthenticate: a call was answered 401, and the user signs in again. *)
Reauthenticate(t) ==
  /\ ActsAs(t) = None
  /\ IF tabs[t].publicKey = None THEN Join(t, wallet, TRUE) ELSE Join(t, tabs[t].publicKey, FALSE)
  /\ UNCHANGED <<now, server, jar, wallet, tabs, torn>>

(* The end of an attempt: its tokens are kept when it succeeded, and the   *)
(* address is shown, if establishSession waits for it, either way.         *)
Settled(t, a, ok) ==
  /\ tabs' = [tabs EXCEPT ![t].publicKey = IF attempts[t][a].connects THEN a ELSE @,
                          ![t].token = IF ok THEN attempts[t][a].mint ELSE @,
                          ![t].csrf = IF ok THEN attempts[t][a].mint ELSE @]
  /\ attempts' = [attempts EXCEPT ![t][a] = Idle]

(* POST /challenge, and its answer. *)
RequestChallenge(t, a) ==
  /\ attempts[t][a].step = "challenge"
  /\ IssueChallenge(a)
  /\ attempts' = [attempts EXCEPT ![t][a].step = "sign", ![t][a].nonce = Len(nonces) + 1]
  /\ UNCHANGED <<now, restarts, mints, live, failures, jar, wallet, tabs, torn>>

(* POST /verify, after Freighter signed. *)
SubmitSignature(t, a) ==
  /\ attempts[t][a].step = "sign"
  /\ Len(mints) < MaxMints
  /\ \E good \in BOOLEAN :
       /\ Verify(attempts[t][a].nonce, a, t, good)
       /\ attempts' = [attempts EXCEPT ![t][a].step = "answered",
                         ![t][a].mint = IF mints' = mints THEN 0 ELSE Len(mints')]
  /\ UNCHANGED <<now, restarts, nonces, jar, wallet, tabs, torn>>

(* The mints whose cookies are stored and whose body a tab is reading.     *)
Reading(t) == {attempts[t][a].mint : a \in {b \in Addresses : attempts[t][b].step = "reading"}}

(* The headers of the answer to a sign-in arrive: the browser stores the   *)
(* cookies.                                                                *)
CookiesStored(t, a) ==
  /\ attempts[t][a].step = "answered" /\ attempts[t][a].mint # 0
  /\ LET k == attempts[t][a].mint IN
       jar' = [session |-> k, refresh |-> k, csrf |-> k]
  /\ attempts' = [attempts EXCEPT ![t][a].step = "reading"]
  /\ torn' = torn \union Reading(t)
  /\ UNCHANGED <<now, server, wallet, tabs>>

(* Its body is read: the tab keeps the tokens.                             *)
Answered(t, a) ==
  /\ attempts[t][a].step = "reading"
  /\ Settled(t, a, TRUE)
  /\ UNCHANGED <<now, server, jar, wallet, torn>>

(* A refusal, an answer that never came or whose body was lost, a signature *)
(* the user declined.                                                      *)
Failed(t, a) ==
  /\ attempts[t][a].step # "idle"
  /\ Settled(t, a, FALSE)
  /\ torn' = torn \union (IF attempts[t][a].step = "reading" THEN {attempts[t][a].mint} ELSE {})
  /\ UNCHANGED <<now, server, jar, wallet>>

(* POST /refresh with the refresh token of mint k, from any client that was  *)
(* given it; the browser stores the answer, unless it is lost.               *)
Refresh(k) ==
  /\ live' = IF k \in Redeemable THEN AfterLookup(k) \union {Len(mints) + 1} ELSE AfterLookup(k)
  /\ IF k \in Redeemable
     THEN Len(mints) < MaxMints /\ Mint(mints[k].address, mints[k].family, k, None)
     ELSE UNCHANGED mints
  /\ jar' \in {jar,
               IF k \in Redeemable
               THEN [session |-> Len(mints'), refresh |-> Len(mints'), csrf |-> Len(mints')]
               ELSE [jar EXCEPT !.refresh = 0]}
  /\ UNCHANGED <<now, restarts, nonces, pending, failures, wallet, tabs, attempts, torn>>

(* disconnect, from logout: the tab forgets its tokens.  Neither the cookies *)
(* nor the attempts in flight are touched.                                   *)
Disconnect(t) ==
  /\ tabs[t].publicKey # None
  /\ tabs' = [tabs EXCEPT ![t] = Blank]
  /\ UNCHANGED <<now, server, jar, wallet, attempts, torn>>

(* POST /logout clears the cookies of the browser. *)
Logout ==
  /\ jar # Empty
  /\ jar' = Empty
  /\ UNCHANGED <<now, server, wallet, tabs, attempts, torn>>

(* The page is loaded again: the tab starts blank. *)
Reload(t) ==
  /\ tabs' = [tabs EXCEPT ![t] = Blank]
  /\ attempts' = [attempts EXCEPT ![t] = [a \in Addresses |-> Idle]]
  /\ UNCHANGED <<now, server, jar, wallet, torn>>

SwitchAccount ==
  /\ wallet' \in Addresses \ {wallet}
  /\ UNCHANGED <<now, server, jar, tabs, attempts, torn>>

(* The server's maps live in memory; session tokens are stateless. *)
Restart ==
  /\ restarts < MaxRestarts
  /\ restarts' = restarts + 1
  /\ pending' = NoChallenge /\ live' = {} /\ failures' = NoFailures
  /\ UNCHANGED <<now, nonces, mints, browser>>

Tick ==
  /\ now < MaxTime
  /\ now' = now + 1
  /\ UNCHANGED <<server, browser>>

Next ==
  \/ \E t \in Tabs : EstablishSession(t) \/ Reauthenticate(t) \/ Disconnect(t) \/ Reload(t)
  \/ \E t \in Tabs, a \in Addresses :
       RequestChallenge(t, a) \/ SubmitSignature(t, a)
         \/ CookiesStored(t, a) \/ Answered(t, a) \/ Failed(t, a)
  \/ \E k \in 1..Len(mints) : Refresh(k)
  \/ Logout \/ SwitchAccount \/ Restart \/ Tick

Spec == Init /\ [][Next]_vars

-----------------------------------------------------------------------------
Attempt == [step: {"idle", "challenge", "sign", "answered", "reading"},
            nonce: 0..MaxChallenges, mint: 0..MaxMints, connects: BOOLEAN]

(* The state is well typed; tokens belong to the address whose challenge was  *)
(* signed, and no window holds more failures than lock a client out.          *)
TypeOK ==
  /\ now \in 0..MaxTime /\ restarts \in 0..MaxRestarts
  /\ \A n \in 1..Len(nonces) : nonces[n] \in [address: Addresses, at: 0..now]
  /\ pending \in [Addresses -> 0..Len(nonces)]
  /\ \A k \in 1..Len(mints) : mints[k].address = nonces[mints[k].family].address
  /\ live \subseteq 1..Len(mints)
  /\ Recent <= MaxFailures
  /\ jar \in [session: 0..Len(mints), refresh: 0..Len(mints), csrf: 0..Len(mints)]
  /\ wallet \in Addresses
  /\ tabs \in [Tabs -> [publicKey: Addresses \union {None}, token: 0..Len(mints),
                        csrf: 0..Len(mints)]]
  /\ attempts \in [Tabs -> [Addresses -> Attempt]]
  /\ torn \subseteq 1..Len(mints)

(* A signature signs in once and a refresh token refreshes once, however often *)
(* either is presented and whatever restarts in between: no two mints come     *)
(* from one challenge or from one refresh token.                               *)
SingleUse ==
  \A j, k \in 1..Len(mints) :
    j # k => /\ mints[j].from = mints[k].from => mints[j].from = 0
             /\ mints[j].from = 0 /\ mints[k].from = 0 => mints[j].family # mints[k].family

(* A tab whose CSRF token is refused was overtaken by another client: its   *)
(* own sign-ins, whichever of them answers last, leave it with the cookie's *)
(* token, as soon as the body is read.  Unless one of the two was torn: a   *)
(* body was lost, or two answers to sign-ins of the tab came mixed.         *)
OwnCsrfCurrent ==
  \A t \in Tabs :
    tabs[t].csrf # 0 /\ jar.csrf # 0 /\ jar.csrf # tabs[t].csrf /\ mints[jar.csrf].by = t
      => jar.csrf \in torn \union Reading(t) \/ tabs[t].csrf \in torn

(* A challenge a tab is signing stays the one the server expects until the tab *)
(* itself presents it or gives up, it expires, another tab asks for a newer    *)
(* one, or the server restarts: nothing the tab does at the same time takes it *)
(* away ("a second sign-in started before the first finishes would invalidate  *)
(* it", hooks/useWallet.ts).                                                   *)
Signing(t, a) == attempts[t][a].step = "sign" /\ attempts[t][a].nonce = Unexpired[a]
ChallengeStands ==
  \A t \in Tabs, a \in Addresses :
    Signing(t, a) =>
      \/ Signing(t, a)'
      \/ attempts'[t][a].step = "answered" \/ attempts'[t][a] = Idle
      \/ now' # now \/ restarts' # restarts
      \/ \E u \in Tabs \ {t} : attempts'[u][a].nonce > attempts[t][a].nonce
=============================================================================
