----------------------------- MODULE RequestPath -----------------------------
(***************************************************************************)
(* The way of a request through the middleware of app/main.py to the       *)
(* routes, with the rate limiter of RateLimiter on the way, and the tokens *)
(* that routers/auth.py issues and every other route asks for.             *)
(*                                                                         *)
(* A token's expiry is computed with local wall-clock times, which jump by *)
(* an hour twice a year. The clock of RateLimiter counts real time, within *)
(* which the local clock is changed once.                                  *)
(***************************************************************************)
EXTENDS RateLimiter, Functions

CONSTANTS
    Allowed,       \* the addresses of the allowlist
    DevIps,        \* loopback addresses in local mode, none otherwise
    AccessTtl, RefreshTtl,   \* lifetimes of tokens, in ticks
    Hour,          \* how far the local clock jumps
    Changes        \* when it may do so, and in which direction

ASSUME PathAssumption ==
    /\ Allowed \subseteq Ips /\ DevIps \subseteq Ips
    /\ \A d \in {AccessTtl, RefreshTtl, Hour} : d \in Nat \ {0} /\ d % Second = 0
    /\ Changes \subseteq [at : Nat \ {0}, autumn : BOOLEAN]

VARIABLES
    change,     \* when the local clock is changed, and whether back (autumn)
    session,    \* the last pair of tokens: when issued, and both expiries
    slipped     \* statuses of responses without their headers or their audit row

pathVars == <<vars, change, session, slipped>>

NoSession == [at |-> 0, access |-> 0, refresh |-> 0]

Statuses == {200, 401, 403, 413, 429, 500}

PathTypeOK ==
    /\ TypeOK
    /\ change \in Changes
    /\ session \in [at : 0..MaxNow, access : Int, refresh : Int]
    /\ slipped \subseteq Statuses

PathInit ==
    /\ Init
    /\ change \in Changes
    /\ session = NoSession
    /\ slipped = {}

-----------------------------------------------------------------------------
(* Tokens                                                                  *)

\* The local offset before and after the change.
OffsetBefore == IF change.autumn THEN Hour ELSE 0
OffsetAfter == IF change.autumn THEN 0 ELSE Hour

Local(time) == time + IF time < change.at THEN OffsetBefore ELSE OffsetAfter

\* datetime.timestamp() with fold = 0: of a local time that occurs twice the
\* first, and a local time that is skipped is read with the offset before.
Timestamp(local) ==
    local - IF local < change.at + Hour THEN OffsetBefore ELSE OffsetAfter

\* now + timedelta is wall-clock arithmetic; exp is in whole seconds.
Expiry(time, ttl) == (Timestamp(Local(time) + ttl) \div Second) * Second

Pair(time) ==
    [at |-> time, access |-> Expiry(time, AccessTtl), refresh |-> Expiry(time, RefreshTtl)]

\* jwt.decode: a token that expires at this instant has expired.
Valid(expiry) == expiry > now

-----------------------------------------------------------------------------
(* The chain                                                               *)

\* Fault: the allowlist is outside of the audit log.
ChainAuditInside == <<"headers", "allowlist", "audit", "limit", "size", "routes">>

\* Fault: requests are counted before their address is looked at.
ChainLimitOutside == <<"headers", "audit", "limit", "allowlist", "size", "routes">>

\* The outermost layer is the one added last.
Chain == <<"headers", "audit", "allowlist", "limit", "size", "routes">>

Place == [layer \in Range(Chain) |-> CHOOSE i \in DOMAIN Chain : Chain[i] = layer]

\* The layers that would answer the request themselves.
Answerers(caller, big) ==
    {"routes"} \cup (IF caller[2] \in Allowed THEN {} ELSE {"allowlist"})
               \cup (IF Full(Key(caller)) THEN {"limit"} ELSE {})
               \cup (IF big THEN {"size"} ELSE {})

\* The outermost of them does.
Answerer(caller, big) ==
    LET answerers == Answerers(caller, big)
    IN  CHOOSE layer \in answerers : \A other \in answerers : Place[layer] <= Place[other]

\* The limiter counts what reaches it, whatever becomes of it further in.
Counted(layer, caller) ==
    IF Place["limit"] <= Place[layer] THEN Request(caller) ELSE UNCHANGED vars

\* AuditLogMiddleware._classify: logins and refreshes, 401s, and mutations.
NeedsRow(path, status) ==
    path \in {"token", "refresh", "write"} \/ status = 401

\* A response takes its headers and its row in the layers it passes on the way
\* out. An exception passes them all by: the 500 is made outside of the chain.
Answer(path, caller, layer, status) ==
    LET Passes(wrapper) == status # 500 /\ Place[wrapper] < Place[layer] IN
    /\ Counted(layer, caller)
    /\ slipped' = IF Passes("headers") /\ (NeedsRow(path, status) => Passes("audit"))
                  THEN slipped ELSE slipped \cup {status}

\* RateLimitMiddleware._classify, for the paths that are limited.
BucketOf == [token |-> "auth_token", refresh |-> "auth_other", dev_token |-> "auth_other",
             read |-> "data", write |-> "data"]

\* 403, 429 or 413 from the layers; no route runs.
TurnedAway(path, caller, big) ==
    /\ LET layer == Answerer(caller, big) IN
           /\ layer # "routes"
           /\ Answer(path, caller, layer,
                     [allowlist |-> 403, limit |-> 429, size |-> 413][layer])
    /\ UNCHANGED <<change, session>>

\* A route that hands out a pair of tokens when it is satisfied.
Issues(path, caller, satisfied, otherwise) ==
    /\ Answer(path, caller, "routes", IF satisfied THEN 200 ELSE otherwise)
    /\ session' = IF satisfied THEN Pair(now) ELSE session
    /\ UNCHANGED change

IssueToken(caller, secretRight) == Issues("token", caller, secretRight, 401)

\* Fault: a refresh does not renew the refresh token.
RefreshTokenOnce(caller, type) ==
    LET ok == type = "refresh" /\ Valid(session.refresh) IN
    /\ Answer("refresh", caller, "routes", IF ok THEN 200 ELSE 401)
    /\ session' = IF ok THEN [Pair(now) EXCEPT !.refresh = session.refresh] ELSE session
    /\ UNCHANGED change

\* verify_refresh_token wants the type as well as the date.
RefreshToken(caller, type) ==
    Issues("refresh", caller, type = "refresh" /\ Valid(session.refresh), 401)

DevToken(caller) == Issues("dev_token", caller, caller[2] \in DevIps, 403)

\* A data route: require_agent wants an access token; then the handler may
\* raise what nobody catches.
Data(path, caller, type) ==
    LET authorized == caller[3] # NoCid /\ type = "access" /\ Valid(session.access) IN
    /\ \E status \in IF authorized THEN {200, 500} ELSE {401} :
           Answer(path, caller, "routes", status)
    /\ UNCHANGED <<change, session>>

Handled(path, caller) ==
    \/ \E big \in BOOLEAN : TurnedAway(path, caller, big)
    \/ /\ Answerer(caller, FALSE) = "routes"
       /\ \/ path = "token" /\ \E right \in BOOLEAN : IssueToken(caller, right)
          \/ path = "refresh" /\ \E type \in {"access", "refresh"} :
                                     RefreshToken(caller, type)
          \/ path = "dev_token" /\ DevToken(caller)
          \/ path \in {"read", "write"} /\ \E type \in {"access", "refresh"} :
                                               Data(path, caller, type)

PathNext ==
    \/ \E path \in DOMAIN BucketOf, caller \in Callers :
           caller[1] = BucketOf[path] /\ Handled(path, caller)
    \/ (Tick \/ Restart) /\ UNCHANGED <<change, session, slipped>>

PathSpec == PathInit /\ [][PathNext]_pathVars

-----------------------------------------------------------------------------
(* Properties                                                              *)

\* How far a lifetime may be off: by the hour when the clock is changed within
\* it, or when the token is issued in the hour after.
Slack(ttl) ==
    IF session.at + ttl < change.at \/ session.at >= change.at + Hour THEN 0 ELSE Hour

Kept(expiry, ttl) ==
    /\ now <= session.at + ttl - Slack(ttl) - Second => Valid(expiry)
    /\ now >= session.at + ttl + Slack(ttl) => ~Valid(expiry)

\* The server keeps to the lifetimes it states with a pair of tokens, and a
\* refresh renews both, so that an agent that refreshes in time stays logged
\* in: a token is not refused a second or more before its time, nor accepted
\* after it, but for an hour around a change of the clock.
LifetimesKept ==
    session # NoSession =>
        Kept(session.access, AccessTtl) /\ Kept(session.refresh, RefreshTtl)

\* Every response has its headers, and every event the audit log is for its
\* row, whichever layer answered; only an exception that nobody caught slips by.
OnlyCrashesSlip == slipped \subseteq {500}

\* Requests from addresses that are not allowed use up nobody's budget, also
\* when they carry the agent's client id and so share its window.
ForbiddenCostsNothing ==
    \A c \in Callers : admitted[c] # <<>> => c[2] \in Allowed
=============================================================================
