---------------------------- MODULE AccessTokens ----------------------------
(***************************************************************************)
(* The two caches of WeCom access tokens, in createWeComKfClient           *)
(* (src/channels/wecom/client.ts) and in createStaffApi (staff-protocol.ts).*)
(* Calls share the token their client caches; a call that finds it too     *)
(* near its end asks for another, and learns of one that WeCom revoked     *)
(* only by being refused.  The customer-service client then tries once     *)
(* more with a token of its own, the staff client reports the refusal.     *)
(* Time passes in ticks of at most one request's timeout.                  *)
(***************************************************************************)
EXTENDS Naturals, FiniteSets

CONSTANTS
  Call,       \* syncs, sends and cards of one client
  Clients,    \* the clients: [window : Nat, retries : BOOLEAN]
  Timeout,    \* ticks after which a request is aborted
  Life,       \* ticks a token lives
  MaxTokens, MaxTime, MaxRevoked,  \* bounds: tokens issued, ticks, revocations
  None

VARIABLES
  client,    \* which client this is
  cached,    \* its cache: None, or a token and when it is taken to expire
  calls,     \* the calls
  now,
  issued,    \* at WeCom: when each issued token expires
  revoked    \* at WeCom: the tokens revoked early

vars == <<client, cached, calls, now, issued, revoked>>

Idle == [phase |-> "idle", refresh |-> FALSE, token |-> None, left |-> 0, since |-> 0, own |-> FALSE,
         processed |-> 0, refused |-> {}, result |-> None]
Waits(c) == calls[c].phase \in {"fetch", "handed", "post", "answered"}

Init ==
  /\ client \in Clients /\ cached = None
  /\ calls = [c \in Call |-> Idle]
  /\ now = 0 /\ issued = <<>> /\ revoked = {}

-----------------------------------------------------------------------------
(* The clients.                                                            *)

\* Mutant: a token is used until the moment it is taken to expire.
UnexpiredOnly(at) == cached # None /\ cached.expires > at
Fresh(at) == cached # None /\ cached.expires > at + client.window

Move(c, call) == calls' = [calls EXCEPT ![c] = call]
Ended(c, result) == [calls[c] EXCEPT !.phase = "done", !.result = result]

\* accessToken, token: the cached token, or a request for another.
Start(c) ==
  /\ calls[c].phase = "idle"
  /\ Move(c, IF Fresh(now) THEN [Idle EXCEPT !.phase = "post", !.since = now, !.token = cached.token]
             ELSE [Idle EXCEPT !.phase = "fetch", !.since = now])
  /\ UNCHANGED <<client, cached, now, issued, revoked>>

\* The expiry is counted from the moment the answer is read.
StoreToken(c) ==
  /\ calls[c].phase = "handed"
  /\ cached' = [token |-> calls[c].token, expires |-> now + calls[c].left]
  /\ Move(c, [calls[c] EXCEPT !.phase = "post", !.since = now, !.own = TRUE])
  /\ UNCHANGED <<client, now, issued, revoked>>

\* gettoken failed, timed out or answered nonsense: nothing was posted.
FetchFails(c) ==
  /\ calls[c].phase \in {"fetch", "handed"}
  /\ Move(c, Ended(c, "rejected"))
  /\ UNCHANGED <<client, cached, now, issued, revoked>>

\* 40014, 42001: the customer-service client forgets the token and tries once more.
RefusedOnce(c) ==
  /\ client.retries /\ ~calls[c].refresh
  /\ cached' = None
  /\ Move(c, [calls[c] EXCEPT !.phase = "fetch", !.refresh = TRUE, !.since = now, !.own = FALSE,
                              !.refused = @ \cup {calls[c].token}])

\* A second refusal is reported with the token still cached; the staff client
\* forgets the token and reports the first.
Refused(c) ==
  /\ client.retries => calls[c].refresh
  /\ cached' = IF client.retries THEN cached ELSE None
  /\ Move(c, [Ended(c, "rejected") EXCEPT !.refused = @ \cup {calls[c].token}])

Accepted(c) == cached' = cached /\ Move(c, Ended(c, "accepted"))

ReadAnswer(c) ==
  /\ calls[c].phase = "answered"
  /\ \/ calls[c].result = "token" /\ (RefusedOnce(c) \/ Refused(c))
     \/ calls[c].result = "ok" /\ Accepted(c)
  /\ UNCHANGED <<client, now, issued, revoked>>

\* The request or its answer is lost, or aborted by the timeout.
Lost(c) ==
  /\ calls[c].phase \in {"post", "answered"}
  /\ Move(c, Ended(c, "indeterminate"))
  /\ UNCHANGED <<client, cached, now, issued, revoked>>

-----------------------------------------------------------------------------
(* WeCom: gettoken hands out a token that is alive, with the time it has   *)
(* left, or a new one; a request is refused for a token that is not alive. *)

Alive(t) == t \notin revoked /\ issued[t] > now

GetToken(c) ==
  /\ calls[c].phase = "fetch"
  /\ \/ \E t \in DOMAIN issued :
          Alive(t) /\ issued' = issued /\ Move(c, [calls[c] EXCEPT !.phase = "handed", !.token = t, !.left = issued[t] - now])
     \/ LET t == Cardinality(DOMAIN issued) + 1 IN
          /\ t <= MaxTokens
          /\ issued' = [k \in 1..t |-> IF k = t THEN now + Life ELSE issued[k]]
          /\ Move(c, [calls[c] EXCEPT !.phase = "handed", !.token = t, !.left = Life])
  /\ UNCHANGED <<client, cached, now, revoked>>

Process(c) ==
  /\ calls[c].phase = "post"
  /\ Move(c, IF Alive(calls[c].token)
               THEN [calls[c] EXCEPT !.phase = "answered", !.result = "ok", !.processed = @ + 1]
               ELSE [calls[c] EXCEPT !.phase = "answered", !.result = "token"])
  /\ UNCHANGED <<client, cached, now, issued, revoked>>

Revoke(t) ==
  /\ Cardinality(revoked) < MaxRevoked /\ Alive(t)
  /\ revoked' = revoked \cup {t}
  /\ UNCHANGED <<client, cached, calls, now, issued>>

\* No request is older than the timeout.
Tick ==
  /\ now < MaxTime
  /\ \A c \in Call : Waits(c) => now < calls[c].since + Timeout
  /\ now' = now + 1
  /\ UNCHANGED <<client, cached, calls, issued, revoked>>

Next ==
  \/ \E c \in Call :
       \/ Start(c) \/ StoreToken(c) \/ FetchFails(c) \/ ReadAnswer(c) \/ Lost(c)
       \/ GetToken(c) \/ Process(c)
  \/ \E t \in DOMAIN issued : Revoke(t)
  \/ Tick

Spec == Init /\ [][Next]_vars

-----------------------------------------------------------------------------
(* Properties.                                                             *)

\* A token taken from the cache is refused only if WeCom revoked it: although its
\* expiry is counted from the answer and not from the hand-out, and the request is
\* on its way for up to a timeout, the window of the caches covers both.
CachedTokensAreAlive ==
  \A c \in Call : calls[c].phase = "answered" /\ calls[c].result = "token" /\ ~calls[c].own =>
    calls[c].token \in revoked

\* However often a call is refused and tries again, WeCom acts on it at most once.
ActedOnOnce == \A c \in Call : calls[c].processed <= 1

\* The customer-service client gives up for a token only when WeCom refused the
\* one it had just handed out for this very call, after having refused another.
GivesUpLate ==
  \A c \in Call : client.retries /\ calls[c].result = "rejected" /\ calls[c].own =>
    Cardinality(calls[c].refused) = 2
=============================================================================
