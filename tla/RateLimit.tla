----------------------------- MODULE RateLimit -----------------------------
(***************************************************************************)
(* RedisRateLimitGuard: a sorted set of request times per identifier,      *)
(* trimmed to the window on every check.  The guard reads the clock and    *)
(* sends its pipeline in one turn of the gateway's event loop, and Redis   *)
(* runs the pipelines of its one connection in order: a check is a step.   *)
(* Requests are numbered, since a member of the set is unique ("now" and a *)
(* random number).  The expiry of an idle key drops only what the next     *)
(* check would trim, and is left out.                                      *)
(***************************************************************************)
EXTENDS Integers, Sequences, FiniteSets

CONSTANTS
    Identifiers,    \* user ids and IP addresses
    WindowMs,       \* RATE_LIMIT_WINDOW_MS
    Limit,          \* RATE_LIMIT_MAX_REQUESTS
    MaxNow          \* bound: the clock

ASSUME RateLimitConstants ==
    WindowMs \in Nat \ {0} /\ Limit \in Nat \ {0} /\ MaxNow \in Nat

VARIABLES
    now,        \* Date.now()
    hits,       \* the requests so far, a sequence of [who, score]
    zset,       \* zset[i]: the members of ratelimit:i, numbers of hits
    admitted    \* the hits that were counted and let through

limiterVars == <<now, hits, zset, admitted>>

LimiterInit ==
    /\ now = 0
    /\ hits = <<>>
    /\ zset = [i \in Identifiers |-> {}]
    /\ admitted = {}

Latest == Len(hits) + 1

\* zremrangebyscore 0 .. now - windowMs
TrimmedEarly(i) == {n \in zset[i] : hits[n].score > now - WindowMs + 1}
Trimmed(i) == {n \in zset[i] : hits[n].score > now - WindowMs}

\* zadd, zcard and the verdict; a refused request stays in the set.
Check(i) ==
    /\ hits' = Append(hits, [who |-> i, score |-> now])
    /\ zset' = [zset EXCEPT ![i] = Trimmed(i) \cup {Latest}]
    /\ UNCHANGED now
Allows(i) == Check(i) /\ Cardinality(zset'[i]) <= Limit /\ admitted' = admitted \cup {Latest}
Refuses(i) == Check(i) /\ Cardinality(zset'[i]) > Limit /\ UNCHANGED admitted

\* A command of the pipeline that fails counts as zero (the request passes uncounted); a
\* connection that fails rejects the request, and whether Redis ran the pipeline is open.
Breaks(i) == (Check(i) \/ UNCHANGED <<now, hits, zset>>) /\ UNCHANGED admitted

Elapse == now < MaxNow /\ now' = now + 1 /\ UNCHANGED <<hits, zset, admitted>>

LimiterNext == Elapse \/ \E i \in Identifiers : Allows(i) \/ Refuses(i) \/ Breaks(i)

LimiterSpec == LimiterInit /\ [][LimiterNext]_limiterVars

-----------------------------------------------------------------------------
\* No identifier gets more than Limit requests through, as far as Redis answers, in any
\* window of WindowMs that ends at any time t, not only in those that start with a trim.
WindowBound ==
    \A i \in Identifiers, t \in 0..now :
        Cardinality({n \in admitted : /\ hits[n].who = i
                                      /\ t - WindowMs < hits[n].score
                                      /\ hits[n].score <= t}) <= Limit
=============================================================================
