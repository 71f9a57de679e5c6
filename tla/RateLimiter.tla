----------------------------- MODULE RateLimiter -----------------------------
(***************************************************************************)
(* The rate limit of app/middleware.py: a sliding window of accepted       *)
(* requests per route bucket and caller, in the memory of the process.     *)
(* Requests reach it one at a time (it never awaits inside `hit').         *)
(*                                                                         *)
(* The clock counts ticks, Second of them to a second, because             *)
(* time.monotonic() is not whole seconds and Retry-After is.               *)
(***************************************************************************)
EXTENDS Integers, Sequences, FiniteSets

CONSTANTS
    Ips, Cids,     \* addresses, and client ids read from bearer tokens
    NoCid,         \* no readable bearer token
    Callers,       \* the route bucket, address and client id of requests
    Limit,         \* the settings: requests per window, by bucket
    Window,        \* window_seconds, in ticks
    Second,        \* ticks in a second
    MaxNow         \* bound: how far the clock goes

\* The route buckets that are limited; requests in "free" are not counted.
Buckets == {"auth_token", "auth_other", "data"}

ASSUME LimiterAssumption ==
    /\ Callers \subseteq Buckets \X Ips \X (Cids \cup {NoCid})
    /\ Limit \in [Buckets -> Nat \ {0}]
    /\ Second \in Nat \ {0}
    /\ Window \in Nat /\ Window % Second = 0
    /\ MaxNow \in Nat
    /\ NoCid \notin Cids \cup Ips
    /\ Ips \cap Cids = {}

VARIABLES
    now,
    store,     \* _SlidingWindow._buckets: times of the accepted hits, by key
    admitted,  \* history: what was accepted in the window that ends now, by caller
    refusal    \* history: the last 429, until its Retry-After is over or its key
               \* is let through

vars == <<now, store, admitted, refusal>>

Keys == Buckets \X (Ips \cup Cids)

TypeOK ==
    /\ now \in 0..MaxNow
    /\ store \in [Keys -> Seq(0..MaxNow)]
    /\ admitted \in [Callers -> Seq(0..MaxNow)]
    /\ refusal \subseteq [key : Keys, at : 0..MaxNow, retry : Nat \ {0}]

Init ==
    /\ now = 0
    /\ store = [k \in Keys |-> <<>>]
    /\ admitted = [c \in Callers |-> <<>>]
    /\ refusal = {}

-----------------------------------------------------------------------------

\* popleft while the leftmost hit is before the cutoff.
Since(cutoff, hits) ==
    LET popped == {i \in DOMAIN hits : \A j \in 1..i : hits[j] < cutoff}
    IN  SubSeq(hits, Cardinality(popped) + 1, Len(hits))

Pruned(bucket) == Since(now - Window, bucket)

\* Fault: the age of the oldest hit and the window are swapped.
RetryAfterSwapped(bucket) == ((now - Head(bucket)) - Window) \div Second + 1

\* The seconds until the oldest hit leaves the window, rounded up past it.
RetryAfter(bucket) ==
    LET retry == (Window - (now - Head(bucket))) \div Second + 1
    IN  IF retry < 1 THEN 1 ELSE retry

Full(key) == Len(Pruned(store[key])) >= Limit[key[1]]

\* Fault: refused requests use up the window too.
RefuseCounting(key) ==
    /\ Full(key)
    /\ refusal' = {[key |-> key, at |-> now, retry |-> RetryAfter(Pruned(store[key]))]}
    /\ store' = [store EXCEPT ![key] = Append(Pruned(@), now)]
    /\ UNCHANGED <<now, admitted>>

\* _SlidingWindow.hit at the limit: a 429, which is not recorded as a hit.
Refuse(key) ==
    /\ Full(key)
    /\ refusal' = {[key |-> key, at |-> now, retry |-> RetryAfter(Pruned(store[key]))]}
    /\ store' = [store EXCEPT ![key] = Pruned(@)]
    /\ UNCHANGED <<now, admitted>>

\* _SlidingWindow.hit below the limit.
Admit(key, caller) ==
    /\ ~Full(key)
    /\ store' = [store EXCEPT ![key] = Append(Pruned(@), now)]
    /\ admitted' = [admitted EXCEPT ![caller] = Append(@, now)]
    /\ refusal' = {r \in refusal : r.key # key}
    /\ UNCHANGED now

\* Fault: logins are counted by client id as well.
KeyByCid(caller) ==
    <<caller[1], IF caller[3] = NoCid THEN caller[2] ELSE caller[3]>>

\* dispatch: logins are counted by address, other requests by client id.
Key(caller) ==
    <<caller[1], IF caller[1] = "auth_token" \/ caller[3] = NoCid
                 THEN caller[2] ELSE caller[3]>>

Request(caller) == Admit(Key(caller), caller) \/ Refuse(Key(caller))

\* The two histories keep what the properties are about.
Tick ==
    /\ now < MaxNow
    /\ now' = now + 1
    /\ admitted' = [c \in Callers |-> Since(now' - Window, admitted[c])]
    /\ refusal' = {r \in refusal : now' <= r.at + r.retry * Second}
    /\ UNCHANGED store

\* The windows are in the memory of the process; the clock goes on.
Restart ==
    /\ store' = [k \in Keys |-> <<>>]
    /\ admitted' = [c \in Callers |-> <<>>]
    /\ refusal' = {}
    /\ UNCHANGED now

Next ==
    \/ \E caller \in Callers : Request(caller)
    \/ Tick
    \/ Restart

Spec == Init /\ [][Next]_vars

-----------------------------------------------------------------------------
(* Properties                                                              *)

\* Who counts as one caller of a bucket: the address for logins, the client id
\* for the rest, and the address again when there is none.
Same(c, d) ==
    /\ c[1] = d[1]
    /\ IF c[1] = "auth_token" THEN c[2] = d[2]
       ELSE c[3] = d[3] /\ (c[3] = NoCid => c[2] = d[2])

\* In no interval of one window, its two ends included, is a caller let through
\* more often than the limit, although hits are forgotten on the way and a
\* caller may come with other tokens or from other addresses.
WindowRespected ==
    \A c \in Callers :
        LET all == UNION {{d} \X DOMAIN admitted[d] : d \in {d \in Callers : Same(c, d)}}
        IN  Cardinality(all) <= Limit[c[1]]

\* Retry-After tells the truth to the second: who waits that long is let
\* through, provided that nobody with the same key was let through meanwhile,
\* and who comes back a whole number of seconds too early is not.
RetryAfterExact ==
    \A r \in refusal :
        LET waited == now - r.at IN
        waited % Second = 0 => (Full(r.key) <=> waited < r.retry * Second)
=============================================================================
