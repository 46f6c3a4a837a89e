---------------------------- MODULE RateLimiter ----------------------------
(***************************************************************************)
(* The two token buckets a request passes: rateLimiter of middleware.go,   *)
(* which every request meets, and clientRateLimiter of query_policy.go, of *)
(* which each query mode has its own. Both are one algorithm.              *)
(*                                                                         *)
(* A request reads the clock BEFORE it takes the mutex of the bucket, so   *)
(* that requests may be served in another order than that of their times.  *)
(* Time is counted in ticks, and tokens by the ticks they take to refill:  *)
(* a request costs Cost[l] = tick / rps, and a full bucket is worth        *)
(* Burst[l]. What the floating point arithmetic rounds is left out.        *)
(***************************************************************************)
EXTENDS Integers, FiniteSets

CONSTANTS Requests,    \* requests, each made once
          Clients,     \* the keys of visitors: addresses
          Modes,       \* query modes that have a limiter
          Cost,        \* by limiter: the ticks one token takes
          Burst,       \* by limiter: the ticks an empty bucket takes to fill
          MaxVisitors, \* the size from which a map is cleaned up: 2048
          TTL,         \* how long an idle visitor is kept: ten minutes
          Skew,        \* the longest a request takes from time.Now() to the mutex
          MaxTime,     \* bound of the clock
          NoVisitor    \* a client that is not in the map

Server == "server"
Limiters == Modes \cup {Server}
NoMode == "none"

ASSUME LimitsAssumption ==
    /\ Server \notin Modes /\ NoMode \notin Modes
    /\ Cost \in [Limiters -> Nat] /\ Burst \in [Limiters -> Nat]
    /\ MaxVisitors \in Nat /\ TTL \in Nat /\ Skew \in Nat /\ MaxTime \in Nat
    /\ IsFiniteSet(Clients)

\* config.Validate and newClientRateLimiter: a limiter has rps > 0 and burst >= 1.
ASSUME PositiveAssumption == \A l \in Limiters : Cost[l] > 0 /\ Cost[l] <= Burst[l]

ASSUME NoVisitorAssumption == NoVisitor \notin [tokens : Int, lastSeen : Int]

VARIABLES
    clock,
    req,      \* the requests under way: where, whose, for which mode, when it read the clock
    visitors, \* by limiter and client: the bucket
    watched,  \* history: some client at some limiter, any of them,
    window    \* and what it has spent there, in all the time since some request of its own,
              \* and how often its bucket has been forgotten and made anew meanwhile

vars == <<clock, req, visitors, watched, window>>

Idle(at) == [at |-> at, client |-> NoVisitor, mode |-> NoMode, time |-> 0]
Away == Idle("away")
Done == Idle("done")

Init == /\ clock = 0
        /\ req = [r \in Requests |-> Away]
        /\ visitors = [l \in Limiters |-> [c \in Clients |-> NoVisitor]]
        /\ watched \in [limiter : Limiters, client : Clients]
        /\ window = [open |-> FALSE, from |-> 0, last |-> 0, spent |-> 0, anew |-> 0]

-----------------------------------------------------------------------------
(* Allow and cleanupLocked, under the mutex of the limiter.                *)

Known(l) == {c \in Clients : visitors[l][c] # NoVisitor}

Least(a, b) == IF a < b THEN a ELSE b

RefilledUncapped(l, c, now) == \* Variant: who is idle saves up without limit.
    visitors[l][c].tokens + (now - visitors[l][c].lastSeen)

Refilled(l, c, now) ==
    Least(Burst[l], visitors[l][c].tokens + (now - visitors[l][c].lastSeen))

CleanedWholly(seen, now) == \* Variant: the map is emptied as soon as it is too large.
    IF Cardinality({c \in Clients : seen[c] # NoVisitor}) < MaxVisitors THEN seen
    ELSE [c \in Clients |->
            IF seen[c] # NoVisitor /\ seen[c].lastSeen = now THEN seen[c] ELSE NoVisitor]

\* A map that is small enough keeps everybody; otherwise those idle for long go.
Cleaned(seen, now) ==
    IF Cardinality({c \in Clients : seen[c] # NoVisitor}) < MaxVisitors THEN seen
    ELSE [c \in Clients |->
            IF seen[c] # NoVisitor /\ now - seen[c].lastSeen > TTL THEN NoVisitor ELSE seen[c]]

\* History: the window opens with some admitted request of the watched client.
Watch(l, c, now) ==
    LET own == watched = [limiter |-> l, client |-> c] IN
    \/ /\ own /\ window.open
       /\ window' = [window EXCEPT !.last = now, !.spent = @ + Cost[l],
                                   !.anew = @ + IF c \in Known(l) THEN 0 ELSE 1]
    \/ /\ own /\ ~ window.open
       /\ \/ window' = [window EXCEPT !.last = now]
          \/ window' = [open |-> TRUE, from |-> now, last |-> now, spent |-> Cost[l], anew |-> 0]
    \/ /\ ~ own
       /\ UNCHANGED window

Admit(l, c, now, tokens) ==
    /\ visitors' = [visitors EXCEPT ![l] =
                      Cleaned([@ EXCEPT ![c] = [tokens |-> tokens, lastSeen |-> now]], now)]
    /\ Watch(l, c, now)
    /\ UNCHANGED watched

AllowNew(l, c, now) ==
    /\ c \notin Known(l)
    /\ Admit(l, c, now, Burst[l] - Cost[l])

AllowKnown(l, c, now) ==
    /\ c \in Known(l)
    /\ Refilled(l, c, now) >= Cost[l]
    /\ Admit(l, c, now, Refilled(l, c, now) - Cost[l])

DenyDraining(l, c, now) == \* Variant: it stores the time, not the tokens refilled until then.
    /\ c \in Known(l)
    /\ Refilled(l, c, now) < Cost[l]
    /\ visitors' = [visitors EXCEPT ![l][c].lastSeen = now]
    /\ UNCHANGED <<watched, window>>

Deny(l, c, now) ==
    /\ c \in Known(l)
    /\ Refilled(l, c, now) < Cost[l]
    /\ visitors' = [visitors EXCEPT ![l][c] = [tokens |-> Refilled(l, c, now), lastSeen |-> now]]
    /\ UNCHANGED <<watched, window>>

-----------------------------------------------------------------------------
(* A request on its way through both.                                      *)

Arrive(r, c, m) ==
    /\ req[r] = Away
    /\ req' = [req EXCEPT ![r] = [at |-> "server", client |-> c, mode |-> m, time |-> clock]]
    /\ UNCHANGED <<clock, visitors, watched, window>>

Allow(l, r) == \/ AllowNew(l, req[r].client, req[r].time)
               \/ AllowKnown(l, req[r].client, req[r].time)

\* The mode of a query is found; a request of another kind goes no further.
Pass(r) ==
    /\ req[r].at = "server"
    /\ Allow(Server, r)
    /\ req' = [req EXCEPT ![r].at = "routed", ![r].time = 0]
    /\ UNCHANGED clock

Refuse(r) ==
    /\ req[r].at = "server"
    /\ Deny(Server, req[r].client, req[r].time)
    /\ req' = [req EXCEPT ![r] = Done]
    /\ UNCHANGED clock

ApplyPolicy(r) ==
    /\ req[r].at = "routed"
    /\ req' = [req EXCEPT ![r].at = "mode", ![r].time = clock]
    /\ UNCHANGED <<clock, visitors, watched, window>>

PassMode(r) ==
    /\ req[r].at = "mode"
    /\ Allow(req[r].mode, r)
    /\ req' = [req EXCEPT ![r] = Done]
    /\ UNCHANGED clock

RefuseMode(r) ==
    /\ req[r].at = "mode"
    /\ Deny(req[r].mode, req[r].client, req[r].time)
    /\ req' = [req EXCEPT ![r] = Done]
    /\ UNCHANGED clock

\* Nobody waits for a mutex longer than Skew.
Tick ==
    /\ clock < MaxTime
    /\ \A r \in Requests : req[r].at \in {"server", "mode"} => clock < req[r].time + Skew
    /\ clock' = clock + 1
    /\ UNCHANGED <<req, visitors, watched, window>>

Next == \/ Tick
        \/ \E r \in Requests :
              \/ \E c \in Clients, m \in Modes : Arrive(r, c, m)
              \/ Pass(r) \/ Refuse(r) \/ ApplyPolicy(r) \/ PassMode(r) \/ RefuseMode(r)

Spec == Init /\ [][Next]_vars

-----------------------------------------------------------------------------
(* Properties.                                                             *)

Bucket == [tokens : Int, lastSeen : Nat]

Request == [at : {"server", "mode"}, client : Clients, mode : Modes, time : Nat]
           \cup [at : {"routed"}, client : Clients, mode : Modes, time : {0}]

\* Types, and no bucket holds more than its burst: minFloat is what keeps it so.
TypeOK ==
    /\ clock \in Nat
    /\ req \in [Requests -> Request \cup {Away, Done}]
    /\ visitors \in [Limiters -> [Clients -> Bucket \cup {NoVisitor}]]
    /\ \A l \in Limiters : \A c \in Known(l) : visitors[l][c].tokens <= Burst[l]
    /\ watched \in [limiter : Limiters, client : Clients]
    /\ window \in [open : BOOLEAN, from : Nat, last : Nat, spent : Nat, anew : Nat]

\* What an emptied bucket lacks of its burst when it is forgotten at the earliest. Nothing, at
\* 40 tokens and 20 a second; but nothing compares rps and burst with the ten minutes.
Lack(l) == IF Burst[l] + 2 * Skew > TTL THEN Burst[l] + 2 * Skew - TTL ELSE 0

\* From any admitted request on, a client gets no more than the burst and what has been
\* refilled since, whatever the order in which requests reach the mutex, although cleanupLocked
\* forgets buckets, that of this client included: each time it gives what the bucket lacked,
\* which is nothing where ten minutes refill it.
BurstBound ==
    LET l == watched.limiter IN
    window.open => window.spent <= Burst[l] + (window.last - window.from) + window.anew * Lack(l)

\* A request is refused only if its client had one admitted less than the time of one
\* token before it: refused attempts, however many and in whatever order of their times,
\* do not put off the next token, although Allow stores lastSeen on refusal, too.
RefusedEarly(l, r) ==
    watched = [limiter |-> l, client |-> req[r].client]
        => req[r].time < window.last + Cost[l]

RefusedOnlyEarly ==
    [][\A r \in Requests :
         /\ Refuse(r) => RefusedEarly(Server, r)
         /\ RefuseMode(r) => RefusedEarly(req[r].mode, r)]_vars
=============================================================================
