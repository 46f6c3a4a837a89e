------------------------- MODULE RateLimiterProofs -------------------------
(***************************************************************************)
(* RateLimiter for any number of requests, clients, modes and any rates.   *)
(*                                                                         *)
(* The argument is about tokens - lastSeen of the watched bucket, what it  *)
(* holds at time zero so to speak: refilling leaves it alone or lowers it, *)
(* whatever the order of the times, and each admitted request takes its    *)
(* cost from it. It is never so low that the bucket was overdrawn at the   *)
(* last admitted request, which limits both what the client may have spent *)
(* and when it may be refused.                                             *)
(***************************************************************************)
EXTENDS RateLimiter, TLAPS

USE DEF Server, NoMode

Watched == visitors[watched.limiter][watched.client]

Worth(b) == b.tokens - b.lastSeen

\* A request that has read the clock is no later and hardly earlier than it.
TimesInv ==
    \A r \in Requests : req[r].at \in {"server", "mode"} =>
        req[r].time <= clock /\ clock <= req[r].time + Skew

\* What the watched client got because its bucket was forgotten before it was full again.
Granted(l, w) == w.anew * Lack(l)

\* What holds of a bucket b that the watched client has at time t, or is to have anew.
KnownInv(b, w) ==
    /\ Worth(b) >= 0 - w.last
    /\ w.last <= b.lastSeen + Skew
    /\ w.open => w.spent <= Burst[watched.limiter] - w.from - Worth(b) + Granted(watched.limiter, w)

\* The window is not more than what has been refilled, if its bucket is forgotten, and what
\* it is to be granted then.
ForgottenInv(w, t) ==
    LET l == watched.limiter IN
    w.open => w.spent <= t - Skew - w.from + Granted(l, w) + Lack(l)

BucketInv ==
    /\ Watched # NoVisitor => KnownInv(Watched, window)
    /\ Watched = NoVisitor => ForgottenInv(window, clock)
    /\ window.last <= clock
    /\ BurstBound

Inv == TypeOK /\ TimesInv /\ BucketInv

LEMMA GrantedIsNat ==
    ASSUME NEW l \in Limiters, NEW w, w.anew \in Nat
    PROVE  /\ Lack(l) \in Nat /\ Granted(l, w) \in Nat
           /\ Burst[l] + 2 * Skew - TTL <= Lack(l)
           /\ \A v : v.anew = w.anew + 1 => Granted(l, v) = Granted(l, w) + Lack(l)
           /\ \A v : v.anew = w.anew + 0 => Granted(l, v) = Granted(l, w)
           /\ \A v : v.anew = 0 => Granted(l, v) = 0
<1>1. Lack(l) \in Nat /\ Burst[l] + 2 * Skew - TTL <= Lack(l)
  BY LimitsAssumption DEF Lack
<1> DEFINE k == Lack(l)
<1>2. \A i \in Nat : i * k \in Nat /\ (i + 1) * k = i * k + k /\ (i + 0) * k = i * k /\ 0 * k = 0
  <2> HIDE DEF k
  <2> SUFFICES ASSUME k \in Nat
               PROVE  \A i \in Nat : i * k \in Nat /\ (i + 1) * k = i * k + k /\ (i + 0) * k = i * k /\ 0 * k = 0
    BY <1>1 DEF k
  <2> QED OBVIOUS
<1> QED BY <1>1, <1>2 DEF Granted

\* The arithmetic of Allow and the map it leaves, for a request that reads the time now.
LEMMA CleanedKeeps ==
    ASSUME NEW seen \in [Clients -> Bucket \cup {NoVisitor}], NEW now \in Nat
    PROVE  /\ Cleaned(seen, now) \in [Clients -> Bucket \cup {NoVisitor}]
           /\ \A c \in Clients :
                \/ Cleaned(seen, now)[c] = seen[c]
                \/ /\ seen[c] # NoVisitor
                   /\ now - seen[c].lastSeen > TTL
                   /\ Cleaned(seen, now)[c] = NoVisitor
  BY DEF Cleaned

\* The part of TypeOK that is under the limiters' mutexes.
StoreOK ==
    /\ visitors \in [Limiters -> [Clients -> Bucket \cup {NoVisitor}]]
    /\ \A l \in Limiters : \A c \in Known(l) : visitors[l][c].tokens <= Burst[l]
    /\ watched \in [limiter : Limiters, client : Clients]
    /\ window \in [open : BOOLEAN, from : Nat, last : Nat, spent : Nat, anew : Nat]

LEMMA AdmitTypes ==
    ASSUME StoreOK, NEW l \in Limiters, NEW c \in Clients, NEW now \in Nat,
           NEW tokens \in Int, tokens <= Burst[l], Admit(l, c, now, tokens)
    PROVE  /\ StoreOK'
           /\ watched' = watched
           /\ \A m \in Limiters : m # l => visitors'[m] = visitors[m]
           /\ visitors'[l][c] = [tokens |-> tokens, lastSeen |-> now]
           /\ \A d \in Clients \ {c} :
                \/ visitors'[l][d] = visitors[l][d]
                \/ /\ visitors[l][d] # NoVisitor
                   /\ now - visitors[l][d].lastSeen > TTL
                   /\ visitors'[l][d] = NoVisitor
<1> DEFINE new == [tokens |-> tokens, lastSeen |-> now]
           seen == [visitors[l] EXCEPT ![c] = new]
<1>1. new \in Bucket
  BY DEF Bucket
<1>2. visitors[l] \in [Clients -> Bucket \cup {NoVisitor}]
  BY DEF StoreOK
<1>3. /\ seen \in [Clients -> Bucket \cup {NoVisitor}]
      /\ seen[c] = new
      /\ \A d \in Clients \ {c} : seen[d] = visitors[l][d]
  BY <1>1, <1>2
<1>4. new # NoVisitor /\ ~ (now - new.lastSeen > TTL)
  BY <1>1, NoVisitorAssumption, LimitsAssumption DEF Bucket
<1> HIDE DEF new, seen
<1>5. /\ Cleaned(seen, now) \in [Clients -> Bucket \cup {NoVisitor}]
      /\ \A d \in Clients :
           \/ Cleaned(seen, now)[d] = seen[d]
           \/ /\ seen[d] # NoVisitor
              /\ now - seen[d].lastSeen > TTL
              /\ Cleaned(seen, now)[d] = NoVisitor
  BY <1>3, CleanedKeeps
<1>6. visitors' = [visitors EXCEPT ![l] = Cleaned(seen, now)] /\ watched' = watched
  BY DEF Admit, new, seen
<1>7. /\ visitors' \in [Limiters -> [Clients -> Bucket \cup {NoVisitor}]]
      /\ visitors'[l] = Cleaned(seen, now)
      /\ \A m \in Limiters : m # l => visitors'[m] = visitors[m]
  BY <1>5, <1>6 DEF StoreOK
<1>8. visitors'[l][c] = new
  BY <1>3, <1>4, <1>5, <1>7
<1>9. \A d \in Clients \ {c} :
                \/ visitors'[l][d] = visitors[l][d]
                \/ /\ visitors[l][d] # NoVisitor
                   /\ now - visitors[l][d].lastSeen > TTL
                   /\ visitors'[l][d] = NoVisitor
  BY <1>3, <1>5, <1>7
<1>10. \A m \in Limiters : \A d \in Clients :
          visitors'[m][d] # NoVisitor => visitors'[m][d].tokens <= Burst[m]
  <2>1. \A m \in Limiters : \A d \in Clients :
          visitors[m][d] # NoVisitor => visitors[m][d].tokens <= Burst[m]
    BY DEF StoreOK, Known
  <2>2. visitors'[l][c].tokens <= Burst[l]
    BY <1>8 DEF new
  <2>3. ASSUME NEW d \in Clients \ {c}, visitors'[l][d] # NoVisitor
        PROVE  visitors'[l][d].tokens <= Burst[l]
    BY <1>9, <2>1, <2>3
  <2>4. ASSUME NEW m \in Limiters, m # l, NEW d \in Clients, visitors'[m][d] # NoVisitor
        PROVE  visitors'[m][d].tokens <= Burst[m]
    BY <1>7, <2>1, <2>4
  <2>. QED
    BY <2>2, <2>3, <2>4
<1> DEFINE renewed == IF c \in Known(l) THEN 0 ELSE 1
<1>11. window' \in [open : BOOLEAN, from : Nat, last : Nat, spent : Nat, anew : Nat]
  <2>1. Cost[l] \in Nat
    BY LimitsAssumption
  <2>2. window \in [open : BOOLEAN, from : Nat, last : Nat, spent : Nat, anew : Nat]
    BY DEF StoreOK
  <2>3. Watch(l, c, now)
    BY DEF Admit
  <2>4. window.spent + Cost[l] \in Nat /\ window.anew + renewed \in Nat
    BY <2>1, <2>2
  <2>5. CASE window' = [window EXCEPT !.last = now, !.spent = @ + Cost[l], !.anew = @ + renewed]
    BY <2>2, <2>4, <2>5
  <2>6. CASE window' = [window EXCEPT !.last = now]
    BY <2>2, <2>6
  <2>7. CASE window' = [open |-> TRUE, from |-> now, last |-> now, spent |-> Cost[l], anew |-> 0]
    BY <2>1, <2>7
  <2>8. CASE window' = window
    BY <2>2, <2>8
  <2> QED BY <2>3, <2>5, <2>6, <2>7, <2>8 DEF Watch
<1> QED
  BY <1>6, <1>7, <1>8, <1>9, <1>10, <1>11 DEF StoreOK, Known, new

\* A request that finds nobody in the map, or enough in the bucket, keeps the invariant.
LEMMA AllowKeeps ==
    ASSUME StoreOK, BucketInv, clock \in Nat, NEW l \in Limiters, NEW c \in Clients,
           NEW now \in Nat, now <= clock, clock <= now + Skew,
           AllowNew(l, c, now) \/ AllowKnown(l, c, now), clock' = clock
    PROVE  StoreOK' /\ BucketInv'
<1> DEFINE tokens == IF c \in Known(l) THEN Refilled(l, c, now) - Cost[l] ELSE Burst[l] - Cost[l]
<1> USE LimitsAssumption, PositiveAssumption
<1>1. Admit(l, c, now, tokens)
  BY DEF AllowNew, AllowKnown
<1>2. /\ Burst[l] \in Nat /\ Cost[l] \in Nat /\ Cost[l] > 0 /\ Cost[l] <= Burst[l]
      /\ TTL \in Nat /\ Skew \in Nat
  OBVIOUS
<1>3. visitors[l][c] \in Bucket \cup {NoVisitor}
  BY DEF StoreOK
<1>4. tokens \in Int /\ tokens <= Burst[l] /\ tokens >= 0
  BY <1>2, <1>3 DEF AllowNew, AllowKnown, Refilled, Least, Known, Bucket
<1>5. visitors[l][c] # NoVisitor =>
         /\ visitors[l][c] \in Bucket
         /\ tokens <= Burst[l] - Cost[l]
         /\ tokens - now <= Worth(visitors[l][c]) - Cost[l]
  BY <1>2, <1>3 DEF Refilled, Least, Known, Bucket, Worth
<1>6. visitors[l][c] = NoVisitor => tokens = Burst[l] - Cost[l]
  BY DEF Known
<1> HIDE DEF tokens
<1>7. /\ StoreOK'
      /\ watched' = watched
      /\ \A m \in Limiters : m # l => visitors'[m] = visitors[m]
      /\ visitors'[l][c] = [tokens |-> tokens, lastSeen |-> now]
      /\ \A d \in Clients \ {c} :
                \/ visitors'[l][d] = visitors[l][d]
                \/ /\ visitors[l][d] # NoVisitor
                   /\ now - visitors[l][d].lastSeen > TTL
                   /\ visitors'[l][d] = NoVisitor
  BY <1>1, <1>4, AdmitTypes
<1> DEFINE b == visitors[l][c]
           n == visitors'[l][c]
           renewed == IF c \in Known(l) THEN 0 ELSE 1
<1>8. window \in [open : BOOLEAN, from : Nat, last : Nat, spent : Nat, anew : Nat]
  BY DEF StoreOK
<1>9. CASE watched = [limiter |-> l, client |-> c]
  <2>1. /\ watched.limiter = l /\ watched.client = c
        /\ Watched = b /\ Watched' = n
    BY <1>7, <1>9 DEF Watched
  <2>2. /\ n.tokens = tokens /\ n.lastSeen = now /\ n # NoVisitor
        /\ n.tokens \in Int /\ n.lastSeen \in Nat
    BY <1>4, <1>7, NoVisitorAssumption
  <2>3. window'.last = now
    <3>1. \/ window' = [window EXCEPT !.last = now, !.spent = @ + Cost[l], !.anew = @ + renewed]
          \/ window' = [window EXCEPT !.last = now]
          \/ window' = [open |-> TRUE, from |-> now, last |-> now, spent |-> Cost[l], anew |-> 0]
      BY <1>1, <1>9 DEF Admit, Watch
    <3>2. CASE window' = [window EXCEPT !.last = now, !.spent = @ + Cost[l], !.anew = @ + renewed]
      BY <3>2, <1>8
    <3>3. CASE window' = [window EXCEPT !.last = now]
      BY <3>3, <1>8
    <3>4. CASE window' = [open |-> TRUE, from |-> now, last |-> now, spent |-> Cost[l], anew |-> 0]
      BY <3>4
    <3> QED BY <3>1, <3>2, <3>3, <3>4
  <2>4. window'.open => window'.spent <= Burst[l] - window'.from - (tokens - now) + Granted(l, window')
    <3>1. CASE ~ window.open
      <4>1. window'.open => window'.from = now /\ window'.spent = Cost[l] /\ window'.anew = 0
        BY <1>1, <1>8, <1>9, <3>1 DEF Admit, Watch
      <4>2. tokens <= Burst[l] - Cost[l]
        BY <1>5, <1>6, <1>2, <1>4
      <4>3. window'.open => Granted(l, window') = 0
        BY <4>1, <1>8, GrantedIsNat
      <4> QED BY <4>1, <4>2, <4>3, <1>2, <1>4
    <3>2. CASE window.open
      <4>1. /\ window'.from = window.from /\ window'.spent = window.spent + Cost[l]
            /\ window'.anew = window.anew + renewed
        BY <1>1, <1>8, <1>9, <3>2 DEF Admit, Watch
      <4>0. Granted(l, window) \in Nat /\ Lack(l) \in Nat
        BY <1>8, GrantedIsNat
      <4>2. CASE b = NoVisitor
        <5>1. window.spent <= clock - Skew - window.from + Granted(l, window) + Lack(l)
          BY <2>1, <4>2, <3>2 DEF BucketInv, ForgottenInv
        <5>2. Granted(l, window') = Granted(l, window) + Lack(l)
          BY <4>1, <4>2, <1>8, GrantedIsNat DEF Known
        <5> QED BY <5>1, <5>2, <4>0, <4>1, <4>2, <1>6, <1>2, <1>8
      <4>3. CASE b # NoVisitor
        <5>1. window.spent <= Burst[l] - window.from - Worth(b) + Granted(l, window)
          BY <2>1, <4>3, <3>2 DEF BucketInv, KnownInv
        <5>2. Worth(b) \in Int
          BY <1>5, <4>3 DEF Bucket, Worth
        <5>3. Granted(l, window') = Granted(l, window)
          BY <4>1, <4>3, <1>8, GrantedIsNat DEF Known
        <5> QED BY <5>1, <5>2, <5>3, <4>0, <4>1, <4>3, <1>5, <1>4, <1>2, <1>8
      <4> QED BY <4>2, <4>3
    <3> QED BY <3>1, <3>2
  <2>5. window' \in [open : BOOLEAN, from : Nat, last : Nat, spent : Nat, anew : Nat]
    BY <1>7 DEF StoreOK
  <2>6. KnownInv(Watched, window)'
    BY <2>1, <2>2, <2>3, <2>4, <1>4, <1>7, <1>2 DEF KnownInv, Worth
  <2>7. BurstBound'
    <3>1. Granted(l, window') \in Nat
      BY <2>5, GrantedIsNat
    <3>2. window'.open => window'.spent <= Burst[l] + (window'.last - window'.from) + Granted(l, window')
      BY <2>3, <2>4, <2>5, <3>1, <1>4, <1>2
    <3> QED BY <2>1, <1>7, <3>2 DEF BurstBound, Granted
  <2> QED BY <1>7, <2>1, <2>2, <2>3, <2>6, <2>7 DEF BucketInv
<1>10. CASE watched # [limiter |-> l, client |-> c]
  <2>1. window' = window
    BY <1>1, <1>8, <1>10 DEF Admit, Watch
  <2>2. BurstBound' /\ window'.last <= clock'
    BY <1>7, <2>1 DEF BucketInv, BurstBound
  <2>3. \/ Watched' = Watched
        \/ /\ watched.limiter = l
           /\ Watched # NoVisitor /\ now - Watched.lastSeen > TTL
           /\ Watched' = NoVisitor
    BY <1>7, <1>10 DEF Watched, StoreOK
  <2>4. CASE Watched' = Watched
    BY <1>7, <2>1, <2>2, <2>4 DEF BucketInv, KnownInv, ForgottenInv
  <2>5. CASE /\ watched.limiter = l
             /\ Watched # NoVisitor /\ now - Watched.lastSeen > TTL
             /\ Watched' = NoVisitor
    <3>1. Watched \in Bucket
      BY <2>5 DEF Watched, StoreOK
    <3>2. /\ Worth(Watched) >= 0 - window.last
          /\ window.last <= Watched.lastSeen + Skew
          /\ window.open => window.spent <= Burst[l] - window.from - Worth(Watched) + Granted(l, window)
      BY <2>5 DEF BucketInv, KnownInv
    <3>3. Worth(Watched) \in Int /\ Watched.lastSeen \in Nat
      BY <3>1 DEF Bucket, Worth
    <3>4. ForgottenInv(window, clock)
      <4>1. Granted(l, window) \in Nat /\ Lack(l) \in Nat /\ Burst[l] + 2 * Skew - TTL <= Lack(l)
        BY <1>8, GrantedIsNat
      <4> QED BY <4>1, <3>2, <3>3, <2>5, <1>2, <1>8 DEF ForgottenInv
    <3> QED BY <3>4, <1>7, <2>1, <2>2, <2>5 DEF BucketInv, ForgottenInv
  <2> QED BY <1>7, <2>3, <2>4, <2>5
<1> QED BY <1>7, <1>9, <1>10


\* So does a refusal; and it comes early.
LEMMA DenyKeeps ==
    ASSUME StoreOK, BucketInv, clock \in Nat, NEW l \in Limiters, NEW c \in Clients,
           NEW now \in Nat, now <= clock, clock <= now + Skew,
           Deny(l, c, now), clock' = clock
    PROVE  /\ StoreOK' /\ BucketInv'
           /\ watched = [limiter |-> l, client |-> c] => now < window.last + Cost[l]
<1> DEFINE b == visitors[l][c]
           n == [tokens |-> Refilled(l, c, now), lastSeen |-> now]
<1> USE LimitsAssumption, PositiveAssumption
<1>1. /\ Burst[l] \in Nat /\ Cost[l] \in Nat /\ Cost[l] > 0 /\ Cost[l] <= Burst[l]
      /\ Skew \in Nat
  OBVIOUS
<1>2. b # NoVisitor /\ b \in Bucket
  BY DEF Deny, Known, StoreOK
<1>3. /\ n.tokens \in Int /\ n.tokens <= Burst[l] /\ n.tokens < Cost[l]
      /\ n.lastSeen = now /\ n \in Bucket
      /\ Worth(n) = Worth(b) /\ Worth(n) \in Int /\ Worth(n) = n.tokens - now
  BY <1>1, <1>2 DEF Deny, Refilled, Least, Bucket, Worth
<1>4. /\ visitors' = [visitors EXCEPT ![l][c] = n]
      /\ watched' = watched /\ window' = window
  BY DEF Deny
<1>5. n # NoVisitor
  BY <1>3, NoVisitorAssumption DEF Bucket
<1> HIDE DEF n
<1>6. /\ visitors' \in [Limiters -> [Clients -> Bucket \cup {NoVisitor}]]
      /\ visitors'[l][c] = n
      /\ \A m \in Limiters : \A d \in Clients :
           m # l \/ d # c => visitors'[m][d] = visitors[m][d]
  BY <1>3, <1>4 DEF StoreOK
<1>7. StoreOK'
  <2>1. \A m \in Limiters : \A d \in Clients :
          visitors'[m][d] # NoVisitor => visitors'[m][d].tokens <= Burst[m]
    BY <1>3, <1>6 DEF StoreOK, Known
  <2> QED BY <1>4, <1>6, <2>1 DEF StoreOK, Known
<1>8. window \in [open : BOOLEAN, from : Nat, last : Nat, spent : Nat, anew : Nat]
  BY DEF StoreOK
<1>9. CASE watched = [limiter |-> l, client |-> c]
  <2>1. watched.limiter = l /\ Watched = b /\ Watched' = n
    BY <1>4, <1>6, <1>9 DEF Watched
  <2>2. /\ Worth(b) >= 0 - window.last
        /\ window.last <= clock
        /\ window.open => window.spent <= Burst[l] - window.from - Worth(b) + Granted(l, window)
    BY <1>2, <2>1 DEF BucketInv, KnownInv
  <2>3. now < window.last + Cost[l]
    BY <2>2, <1>1, <1>3, <1>8
  <2>4. KnownInv(Watched, window)'
    BY <2>1, <2>2, <1>1, <1>3, <1>4, <1>8 DEF KnownInv
  <2> QED BY <1>4, <1>5, <1>7, <2>1, <2>2, <2>3, <2>4 DEF BucketInv, BurstBound
<1>10. CASE watched # [limiter |-> l, client |-> c]
  <2>1. Watched' = Watched
    BY <1>4, <1>6, <1>10 DEF Watched, StoreOK
  <2> QED BY <1>4, <1>7, <1>10, <2>1 DEF BucketInv, BurstBound, KnownInv, ForgottenInv
<1> QED BY <1>9, <1>10

-----------------------------------------------------------------------------
(* The invariant of the specification.                                     *)

LEMMA InitInv == Init => Inv
<1> SUFFICES ASSUME Init PROVE Inv
  OBVIOUS
<1>1. TypeOK
  BY DEF Init, TypeOK, Known, Away, Idle
<1>2. TimesInv
  BY DEF Init, TimesInv, Away, Idle
<1>3. BucketInv
  BY DEF Init, BucketInv, Watched, ForgottenInv, BurstBound
<1> QED BY <1>1, <1>2, <1>3 DEF Inv

LEMMA TypeIsStore == TypeOK <=> /\ StoreOK
                                /\ clock \in Nat
                                /\ req \in [Requests -> Request \cup {Away, Done}]
  BY DEF TypeOK, StoreOK

\* What Allow and Deny need to know of a request that calls them.
LEMMA Caller ==
    ASSUME Inv, NEW r \in Requests, req[r].at \in {"server", "mode"}
    PROVE  /\ req[r].client \in Clients /\ req[r].mode \in Modes /\ req[r].time \in Nat
           /\ req[r].time <= clock /\ clock <= req[r].time + Skew
  BY DEF Inv, TypeOK, TimesInv, Request, Away, Done, Idle

LEMMA NextInv == Inv /\ [Next]_vars => Inv'
<1> SUFFICES ASSUME Inv, [Next]_vars PROVE Inv'
  OBVIOUS
<1> USE LimitsAssumption
<1>0. /\ StoreOK /\ BucketInv /\ TimesInv
      /\ clock \in Nat /\ req \in [Requests -> Request \cup {Away, Done}]
  BY TypeIsStore DEF Inv
<1> DEFINE Stored == StoreOK' /\ BucketInv'
           Requested == /\ clock' \in Nat /\ req' \in [Requests -> Request \cup {Away, Done}]
                        /\ TimesInv'
<1>1. ASSUME NEW r \in Requests, NEW c \in Clients, NEW m \in Modes, Arrive(r, c, m)
      PROVE  Stored /\ Requested
  <2>1. Requested
    BY <1>0, <1>1 DEF Arrive, Request, TimesInv
  <2>2. Stored
    BY <1>0, <1>1 DEF Arrive, StoreOK, BucketInv, Watched, KnownInv, ForgottenInv, BurstBound, Known
  <2> QED BY <2>1, <2>2
<1>2. ASSUME NEW r \in Requests, Pass(r) PROVE Stored /\ Requested
  <2>1. Stored
    BY <1>0, <1>2, Caller, AllowKeeps DEF Pass, Allow, Limiters
  <2> DEFINE q == [req[r] EXCEPT !.at = "routed", !.time = 0]
  <2>2. req[r] \in [at : {"server", "mode"}, client : Clients, mode : Modes, time : Nat]
    BY <1>0, <1>2 DEF Pass, Request, Away, Done, Idle
  <2>3. q \in Request /\ q.at = "routed"
    BY <2>2 DEF Request
  <2>4. req' = [req EXCEPT ![r] = q] /\ clock' = clock
    BY <1>2 DEF Pass
  <2> HIDE DEF q
  <2>5. Requested
    BY <1>0, <2>3, <2>4 DEF TimesInv
  <2> QED BY <2>1, <2>5
<1>3. ASSUME NEW r \in Requests, Refuse(r) PROVE Stored /\ Requested
  <2>1. Stored
    BY <1>0, <1>3, Caller, DenyKeeps DEF Refuse, Limiters
  <2>2. Requested
    BY <1>0, <1>3 DEF Refuse, TimesInv, Done, Idle
  <2> QED BY <2>1, <2>2
<1>4. ASSUME NEW r \in Requests, ApplyPolicy(r) PROVE Stored /\ Requested
  <2>1. req[r] \in [at : {"routed"}, client : Clients, mode : Modes, time : {0}]
    BY <1>0, <1>4 DEF ApplyPolicy, Request, Away, Done, Idle
  <2> DEFINE q == [req[r] EXCEPT !.at = "mode", !.time = clock]
  <2>2. q \in Request /\ q.time = clock
    BY <1>0, <2>1 DEF Request
  <2>3. req' = [req EXCEPT ![r] = q] /\ clock' = clock
    BY <1>4 DEF ApplyPolicy
  <2> HIDE DEF q
  <2>4. Requested
    BY <1>0, <2>2, <2>3 DEF TimesInv
  <2>5. Stored
    BY <1>0, <1>4 DEF ApplyPolicy, StoreOK, BucketInv, Watched, KnownInv, ForgottenInv, BurstBound, Known
  <2> QED BY <2>4, <2>5
<1>5. ASSUME NEW r \in Requests, PassMode(r) PROVE Stored /\ Requested
  <2>1. Stored
    <3>1. /\ req[r].client \in Clients /\ req[r].mode \in Limiters /\ req[r].time \in Nat
          /\ req[r].time <= clock /\ clock <= req[r].time + Skew
      BY <1>5, Caller DEF PassMode, Limiters
    <3>2. \/ AllowNew(req[r].mode, req[r].client, req[r].time)
           \/ AllowKnown(req[r].mode, req[r].client, req[r].time)
      BY <1>5 DEF PassMode, Allow
    <3>3. clock' = clock
      BY <1>5 DEF PassMode
    <3> QED BY <1>0, <3>1, <3>2, <3>3, AllowKeeps
  <2>2. req' = [req EXCEPT ![r] = Done] /\ clock' = clock
    BY <1>5 DEF PassMode
  <2>3. Requested
    BY <1>0, <2>2 DEF TimesInv, Done, Idle
  <2> QED BY <2>1, <2>3
<1>6. ASSUME NEW r \in Requests, RefuseMode(r) PROVE Stored /\ Requested
  <2>1. Stored
    <3>1. /\ req[r].client \in Clients /\ req[r].mode \in Limiters /\ req[r].time \in Nat
          /\ req[r].time <= clock /\ clock <= req[r].time + Skew
      BY <1>6, Caller DEF RefuseMode, Limiters
    <3>2. Deny(req[r].mode, req[r].client, req[r].time)
      BY <1>6 DEF RefuseMode
    <3>3. clock' = clock
      BY <1>6 DEF RefuseMode
    <3> QED BY <1>0, <3>1, <3>2, <3>3, DenyKeeps
  <2>2. req' = [req EXCEPT ![r] = Done] /\ clock' = clock
    BY <1>6 DEF RefuseMode
  <2>3. Requested
    BY <1>0, <2>2 DEF TimesInv, Done, Idle
  <2> QED BY <2>1, <2>3
<1>7. ASSUME Tick PROVE Stored /\ Requested
  <2>1. Requested
    <3>1. ASSUME NEW r \in Requests, req[r].at \in {"server", "mode"}
          PROVE  req[r].time <= clock + 1 /\ clock + 1 <= req[r].time + Skew
      BY <1>0, <1>7, <3>1, Caller DEF Tick
    <3> QED BY <1>0, <1>7, <3>1 DEF Tick, TimesInv
  <2>2. window \in [open : BOOLEAN, from : Nat, last : Nat, spent : Nat, anew : Nat]
    BY <1>0 DEF StoreOK
  <2>3. Granted(watched.limiter, window) \in Nat /\ Lack(watched.limiter) \in Nat
    BY <1>0, <2>2, GrantedIsNat DEF StoreOK
  <2>4. ForgottenInv(window, clock) => ForgottenInv(window, clock + 1)
    BY <1>0, <2>2, <2>3 DEF ForgottenInv
  <2>5. UNCHANGED <<visitors, watched, window, req>> /\ clock' = clock + 1
    BY <1>7 DEF Tick
  <2>6. Watched' = Watched /\ StoreOK'
    BY <1>0, <2>5 DEF Watched, StoreOK, Known
  <2>7. BucketInv'
    BY <1>0, <2>2, <2>4, <2>5, <2>6 DEF BucketInv, KnownInv, ForgottenInv, BurstBound
  <2> QED BY <2>1, <2>6, <2>7
<1>8. ASSUME UNCHANGED vars PROVE Stored /\ Requested
  BY <1>0, <1>8 DEF vars, StoreOK, BucketInv, Watched, KnownInv, ForgottenInv, BurstBound, Known, TimesInv
<1>9. Stored /\ Requested
  BY <1>1, <1>2, <1>3, <1>4, <1>5, <1>6, <1>7, <1>8 DEF Next
<1>10. TypeOK'
  BY <1>9 DEF TypeOK, StoreOK
<1> QED BY <1>9, <1>10 DEF Inv

THEOREM Always == Spec => []Inv
  BY InitInv, NextInv, PTL DEF Spec

-----------------------------------------------------------------------------
(* What is promised.                                                       *)

\* Types, and minFloat keeps every bucket within its burst.
THEOREM Typing == Spec => []TypeOK
<1>1. Inv => TypeOK
  BY DEF Inv
<1> QED BY <1>1, Always, PTL

\* No client gets more than its rate and burst allow, whatever the order in which requests
\* take the mutex, but for what a bucket lacked to its burst when cleanupLocked forgot it.
THEOREM WithinBurst == Spec => []BurstBound
<1>1. Inv => BurstBound
  BY DEF Inv, BucketInv
<1> QED BY <1>1, Always, PTL

\* A refusal means that a token was taken less than the time of one token before.
THEOREM RefusalsAreDue == Spec => RefusedOnlyEarly
<1>1. ASSUME Inv, Next
      PROVE  \A r \in Requests : /\ Refuse(r) => RefusedEarly(Server, r)
                                 /\ RefuseMode(r) => RefusedEarly(req[r].mode, r)
  <2> SUFFICES ASSUME NEW r \in Requests
               PROVE  /\ Refuse(r) => RefusedEarly(Server, r)
                      /\ RefuseMode(r) => RefusedEarly(req[r].mode, r)
    OBVIOUS
  <2>1. StoreOK /\ BucketInv /\ clock \in Nat
    BY <1>1, TypeIsStore DEF Inv
  <2>2. Refuse(r) => RefusedEarly(Server, r)
    BY <1>1, <2>1, Caller, DenyKeeps DEF Refuse, RefusedEarly, Limiters
  <2>3. RefuseMode(r) => RefusedEarly(req[r].mode, r)
    BY <1>1, <2>1, Caller, DenyKeeps DEF RefuseMode, RefusedEarly, Limiters
  <2> QED BY <2>2, <2>3
<1>2. Inv /\ [Next]_vars =>
        [\A r \in Requests : /\ Refuse(r) => RefusedEarly(Server, r)
                             /\ RefuseMode(r) => RefusedEarly(req[r].mode, r)]_vars
  BY <1>1
<1> QED BY <1>2, Always, PTL DEF Spec, RefusedOnlyEarly

=============================================================================
