----------------------------- MODULE RateLimiter -----------------------------
(***************************************************************************)
(* The token bucket of the relay's registration endpoints, for one client  *)
(* address: buckets of different addresses share nothing but the mutex.    *)
(* allow reads the clock before it takes the mutex, so concurrent calls    *)
(* can use the bucket in another order than that of their times.           *)
(*                                                                         *)
(* Time is counted in ticks and tokens in units such that the refill rate  *)
(* is one unit per tick: at 30 per minute a tick is a second and a token   *)
(* costs 2 units. Float rounding is left out.                              *)
(***************************************************************************)
EXTENDS Integers

CONSTANTS
  Caller,   \* goroutines that may be in allow at the same time
  Cost,     \* units a token is worth
  Burst,    \* ceiling of the bucket, in units
  Idle,     \* age at which reap drops a bucket
  Period,   \* time between two runs of reap
  Stall,    \* bound on the time between a call's clock reading and its turn
  MaxTime,  \* bound on the clock
  None

ASSUME LimiterAssumption ==
  /\ Cost \in Nat \ {0} /\ Burst \in Nat /\ Idle \in Nat /\ Period \in Nat \ {0}
  /\ Stall \in Nat /\ MaxTime \in Nat
  /\ Cost <= Burst

\* 10 minutes are more than the 20 seconds it takes to fill an empty bucket and
\* any time a goroutine is kept waiting.
ASSUME IdleAssumption == Burst + 2 * Stall <= Idle

Time == 0 .. MaxTime

Bucket == [tokens : Int, lastSeen : Time]

ASSUME NoneAssumption == None \notin Bucket /\ None \notin Time

VARIABLES
  now,      \* the clock
  bucket,   \* buckets[key]
  call,     \* the time each goroutine in allow has read, or None
  sinceReap, \* time since reap last read the clock
  reaping,  \* the time reap has read while it waits for the lock, or None
  spent,    \* history: units admitted to calls that read the clock at or after a time
  denied    \* history: the time of the latest call that was refused, or None

vars == <<now, bucket, call, sinceReap, reaping, spent, denied>>

Init ==
  /\ now = 0
  /\ bucket = None
  /\ call = [c \in Caller |-> None]
  /\ sinceReap = 0
  /\ reaping = None
  /\ spent = [s \in Time |-> 0]
  /\ denied = None

\* allow: time.Now(), before the lock.
Enter(c) ==
  /\ call[c] = None
  /\ call' = [call EXCEPT ![c] = now]
  /\ UNCHANGED <<now, bucket, sinceReap, reaping, spent, denied>>

\* A call that read the clock at time n is let through.
Admitted(n) ==
  /\ spent' = [s \in Time |-> IF s <= n THEN spent[s] + Cost ELSE spent[s]]
  /\ UNCHANGED denied

\* The tokens at time n, after the refill and the ceiling; and the slip of
\* leaving the ceiling out.
RefilledUncapped(n) == bucket.tokens + (n - bucket.lastSeen)

Refilled(n) ==
  LET tokens == bucket.tokens + (n - bucket.lastSeen)
  IN  IF tokens > Burst THEN Burst ELSE tokens

\* allow, under the lock: no bucket yet, so a full one less this token; and the
\* slip of starting with an empty one.
AllowNewEmpty(c) ==
  /\ call[c] # None
  /\ bucket = None
  /\ bucket' = [tokens |-> 0, lastSeen |-> call[c]]
  /\ Admitted(call[c])
  /\ call' = [call EXCEPT ![c] = None]
  /\ UNCHANGED <<now, sinceReap, reaping>>

AllowNew(c) ==
  /\ call[c] # None
  /\ bucket = None
  /\ bucket' = [tokens |-> Burst - Cost, lastSeen |-> call[c]]
  /\ Admitted(call[c])
  /\ call' = [call EXCEPT ![c] = None]
  /\ UNCHANGED <<now, sinceReap, reaping>>

\* allow, under the lock: a token is there.
Allow(c) ==
  /\ call[c] # None
  /\ bucket # None
  /\ Refilled(call[c]) >= Cost
  /\ bucket' = [tokens |-> Refilled(call[c]) - Cost, lastSeen |-> call[c]]
  /\ Admitted(call[c])
  /\ call' = [call EXCEPT ![c] = None]
  /\ UNCHANGED <<now, sinceReap, reaping>>

\* allow, under the lock: less than a token is there; the bucket is refilled
\* all the same.
Deny(c) ==
  /\ call[c] # None
  /\ bucket # None
  /\ Refilled(call[c]) < Cost
  /\ bucket' = [tokens |-> Refilled(call[c]), lastSeen |-> call[c]]
  /\ denied' = call[c]
  /\ call' = [call EXCEPT ![c] = None]
  /\ UNCHANGED <<now, sinceReap, reaping, spent>>

\* lastSeen.Before(cutoff); and the slip of waiting for a full bucket, which
\* nobody refills while its client is away.
StaleWhenFull(b) == b # None /\ b.tokens = Burst

Stale(b) == b # None /\ b.lastSeen < reaping - Idle

\* reap, once a period: the cutoff, before the lock, and what is done under it.
ReapEnter ==
  /\ sinceReap = Period /\ reaping = None
  /\ reaping' = now /\ sinceReap' = 0
  /\ UNCHANGED <<now, bucket, call, spent, denied>>

Reap ==
  /\ reaping # None
  /\ reaping' = None
  /\ bucket' = IF Stale(bucket) THEN None ELSE bucket
  /\ UNCHANGED <<now, call, sinceReap, spent, denied>>

\* The clock moves on, but past no goroutine that waits and no reap that is due.
Tick ==
  /\ now < MaxTime
  /\ sinceReap < Period
  /\ \A t \in {reaping} \cup {call[c] : c \in Caller} : t # None => now - t < Stall
  /\ now' = now + 1
  /\ sinceReap' = sinceReap + 1
  /\ UNCHANGED <<bucket, call, reaping, spent, denied>>

Next ==
  \/ \E c \in Caller : Enter(c) \/ AllowNew(c) \/ Allow(c) \/ Deny(c)
  \/ ReapEnter \/ Reap
  \/ Tick

Spec == Init /\ [][Next]_vars

-----------------------------------------------------------------------------
\* The types of the limiter's state; readings of the clock are recent.
TypeOK ==
  /\ now \in Time
  /\ bucket \in Bucket \cup {None}
  /\ call \in [Caller -> Time \cup {None}]
  /\ \A c \in Caller : call[c] # None => call[c] <= now /\ now - call[c] <= Stall
  /\ sinceReap \in 0 .. Period
  /\ reaping \in Time \cup {None}
  /\ reaping # None => reaping <= now /\ now - reaping <= Stall
  /\ spent \in [Time -> Nat]
  /\ denied \in Time \cup {None}

\* The limit: in any span of time a client is admitted at most a full bucket
\* and what the rate adds in that span, although allow may see its clock
\* readings out of order and reap forgets idle clients.
RateHonoured ==
  \A s \in Time : spent[s] > 0 => spent[s] <= Burst + (now - s)

\* No client is refused that kept to the limit: the refused call comes at the
\* end of a span in which less than one more token was left of a full bucket
\* and the refill, give or take the time a goroutine can be kept waiting.
DenialsEarned ==
  denied # None =>
    \E s \in 0 .. denied : spent[s] + Cost > Burst + (denied - s) - Stall

\* The map does not grow without bound: a bucket outlives its client's last
\* request by the idle limit, one period and reap's wait for the lock at most.
BucketsExpire ==
  bucket # None => now - bucket.lastSeen <= Idle + Period + Stall

=============================================================================
