-------------------------- MODULE RateLimiterProofs --------------------------
(***************************************************************************)
(* Proof that the limiter honours its rate for every burst, token cost,    *)
(* idle limit and number of concurrent callers.                            *)
(*                                                                         *)
(* The argument follows the credit tokens - lastSeen of the bucket, which  *)
(* the refill leaves alone, the ceiling can only lower and every admitted  *)
(* call lowers by a token: what was spent since s and the credit together  *)
(* stay below Burst - s. Reaping loses the credit, but only of a client    *)
(* who has since earned a full bucket anyway.                              *)
(***************************************************************************)
EXTENDS RateLimiter, TLAPS

Credit(b) == b.tokens - b.lastSeen

\* With a bucket: what it has left was not spent, and it is never more in debt
\* than the clock allows.
CreditKept ==
  bucket # None =>
    /\ bucket.lastSeen <= now
    /\ Credit(bucket) >= -now
    /\ bucket.tokens >= -Stall
    /\ \A s \in Time : spent[s] > 0 => spent[s] + Credit(bucket) <= Burst - s

\* Without a bucket: everything spent has been earned back, even at the
\* earliest time a call in progress can have read.
CreditEarned ==
  bucket = None => \A s \in Time : spent[s] > 0 => spent[s] <= now - Stall - s

\* What reap left was not idle when it read the clock; while it waits for the lock
\* this is what the run before left.
AgeKept ==
  /\ reaping # None => now - reaping = sinceReap
  /\ bucket # None =>
       now - bucket.lastSeen <= Idle + sinceReap + (IF reaping = None THEN 0 ELSE Period)

\* The inductive invariant.
IInv == TypeOK /\ CreditKept /\ CreditEarned /\ AgeKept

-----------------------------------------------------------------------------
\* Under the lock, a call that read the clock at n leaves a bucket b behind.
\* Whatever it decided, b is in order if its tokens are at most what refill
\* and ceiling allow and, where the call was admitted, a token was paid.
LEMMA BucketStep ==
  ASSUME IInv, NEW n \in Time, n <= now, now - n <= Stall,
         NEW tokens \in Int, bucket' = [tokens |-> tokens, lastSeen |-> n],
         NEW paid \in {0, Cost},
         spent' = [s \in Time |-> IF s <= n THEN spent[s] + paid ELSE spent[s]],
         tokens + paid <= Burst,
         bucket # None => tokens + paid - n <= Credit(bucket),
         tokens - n >= -now,
         bucket = None => paid = Cost,
         UNCHANGED <<now, sinceReap, reaping>>
  PROVE  bucket' \in Bucket /\ spent' \in [Time -> Nat] /\ CreditKept' /\ CreditEarned' /\ AgeKept'
<1> USE LimiterAssumption
<1>1. bucket' \in Bucket /\ bucket'.tokens = tokens /\ bucket'.lastSeen = n /\ bucket' # None
  BY NoneAssumption DEF Bucket
<1>2. now \in Int /\ n \in Int /\ paid \in Nat /\ spent \in [Time -> Nat]
  BY DEF IInv, TypeOK, Time
<1>3. spent' \in [Time -> Nat]
  BY <1>2
<1>4. ASSUME NEW s \in Time, spent'[s] > 0 PROVE spent'[s] + (tokens - n) <= Burst - s
  <2>1. s \in Int /\ spent[s] \in Nat
    BY <1>2 DEF Time
  <2>2. CASE spent[s] = 0
    <3>1. s <= n /\ spent'[s] = paid
      BY <1>2, <1>4, <2>1, <2>2
    <3> QED
      BY <1>2, <2>1, <3>1
  <2>3. CASE spent[s] > 0 /\ bucket # None
    <3>1. spent[s] + Credit(bucket) <= Burst - s
      BY <2>3 DEF IInv, CreditKept
    <3>2. Credit(bucket) \in Int
      BY <2>3 DEF IInv, TypeOK, Bucket, Credit, Time
    <3>3. spent'[s] <= spent[s] + paid
      BY <1>2, <2>1
    <3>4. spent'[s] \in Int
      BY <1>3
    <3>5. tokens + paid - n <= Credit(bucket)
      BY <2>3
    <3> QED
      BY <1>2, <2>1, <3>1, <3>2, <3>3, <3>4, <3>5
  <2>4. CASE spent[s] > 0 /\ bucket = None
    <3>1. spent[s] <= now - Stall - s /\ paid = Cost
      BY <2>4 DEF IInv, CreditEarned
    <3>2. spent'[s] <= spent[s] + paid /\ spent'[s] \in Int
      BY <1>2, <1>3, <2>1
    <3> QED
      BY <1>2, <2>1, <3>1, <3>2
  <2> QED
    BY <2>1, <2>2, <2>3, <2>4
<1>5. CreditKept'
  BY <1>1, <1>2, <1>4 DEF CreditKept, Credit
<1>6. CreditEarned'
  BY <1>1 DEF CreditEarned
<1>7. AgeKept'
  BY <1>1, <1>2, IdleAssumption DEF IInv, TypeOK, AgeKept
<1> QED
  BY <1>1, <1>3, <1>5, <1>6, <1>7

\* The refill changes no credit, and the ceiling only lowers it.
LEMMA RefilledCredit ==
  ASSUME TypeOK, bucket # None, NEW n \in Time
  PROVE  /\ Refilled(n) \in Int /\ Refilled(n) <= Burst
         /\ Refilled(n) - n <= Credit(bucket)
         /\ Refilled(n) = Burst \/ Refilled(n) - n = Credit(bucket)
  BY LimiterAssumption DEF TypeOK, Bucket, Refilled, Credit, Time


\* Every step of a caller, of reap and of the clock preserves the invariant.
LEMMA NextIInv == IInv /\ [Next]_vars => IInv'
<1> SUFFICES ASSUME IInv, [Next]_vars PROVE IInv'
  OBVIOUS
<1> USE LimiterAssumption
<1>1. ASSUME NEW c \in Caller, Enter(c) PROVE IInv'
  <2>1. TypeOK'
    BY <1>1, NoneAssumption DEF Enter, IInv, TypeOK, Time
  <2> QED
    BY <1>1, <2>1 DEF Enter, IInv, CreditKept, CreditEarned, AgeKept
<1>2. ASSUME NEW c \in Caller, AllowNew(c) PROVE IInv'
  <2>1. call[c] \in Time /\ call[c] <= now /\ now - call[c] <= Stall /\ now \in Time
    BY <1>2 DEF AllowNew, IInv, TypeOK
  <2>2. Burst - Cost \in Int /\ Cost \in {0, Cost} /\ (Burst - Cost) + Cost <= Burst
    OBVIOUS
  <2>3. (Burst - Cost) - call[c] >= -now
    BY <2>1 DEF Time
  <2>4. bucket' \in Bucket /\ spent' \in [Time -> Nat] /\ CreditKept' /\ CreditEarned' /\ AgeKept'
    BY <1>2, <2>1, <2>2, <2>3, BucketStep DEF AllowNew, Admitted
  <2>5. TypeOK'
    BY <1>2, <2>4 DEF AllowNew, Admitted, IInv, TypeOK
  <2> QED
    BY <2>4, <2>5 DEF IInv
<1>3. ASSUME NEW c \in Caller, Allow(c) PROVE IInv'
  <2>1. call[c] \in Time /\ call[c] <= now /\ now - call[c] <= Stall /\ now \in Time
    BY <1>3 DEF Allow, IInv, TypeOK
  <2> DEFINE tokens == Refilled(call[c])
  <2>2. tokens \in Int /\ tokens <= Burst /\ tokens - call[c] <= Credit(bucket)
    BY <1>3, <2>1, RefilledCredit DEF Allow, IInv
  <2>3. tokens >= Cost
    BY <1>3 DEF Allow
  <2>4. /\ bucket' = [tokens |-> tokens - Cost, lastSeen |-> call[c]]
        /\ spent' = [s \in Time |-> IF s <= call[c] THEN spent[s] + Cost ELSE spent[s]]
        /\ UNCHANGED <<now, sinceReap, reaping>> /\ bucket # None
    BY <1>3 DEF Allow, Admitted
  <2>5. Credit(bucket) \in Int
    BY <2>4 DEF IInv, TypeOK, Bucket, Credit, Time
  <2> HIDE DEF tokens
  <2>6. tokens - Cost \in Int /\ (tokens - Cost) + Cost <= Burst
        /\ (tokens - Cost) + Cost - call[c] <= Credit(bucket) /\ (tokens - Cost) - call[c] >= -now
    BY <2>1, <2>2, <2>3, <2>5 DEF Time
  <2>7. bucket' \in Bucket /\ spent' \in [Time -> Nat] /\ CreditKept' /\ CreditEarned' /\ AgeKept'
    BY Zenon, <2>1, <2>4, <2>6, BucketStep
  <2>8. TypeOK'
    BY <1>3, <2>7 DEF Allow, Admitted, IInv, TypeOK
  <2> QED
    BY <2>7, <2>8 DEF IInv
<1>4. ASSUME NEW c \in Caller, Deny(c) PROVE IInv'
  <2>1. call[c] \in Time /\ call[c] <= now /\ now - call[c] <= Stall /\ now \in Time
    BY <1>4 DEF Deny, IInv, TypeOK
  <2> DEFINE tokens == Refilled(call[c])
  <2>2. /\ tokens \in Int /\ tokens <= Burst /\ tokens - call[c] <= Credit(bucket)
        /\ tokens = Burst \/ tokens - call[c] = Credit(bucket)
    BY <1>4, <2>1, RefilledCredit DEF Deny, IInv
  <2>3. /\ bucket' = [tokens |-> tokens, lastSeen |-> call[c]]
        /\ UNCHANGED <<now, sinceReap, reaping, spent>> /\ bucket # None
    BY <1>4 DEF Deny
  <2>4. Credit(bucket) \in Int /\ Credit(bucket) >= -now
    BY <2>3 DEF IInv, TypeOK, CreditKept, Bucket, Credit, Time
  <2> HIDE DEF tokens
  <2>5. tokens + 0 <= Burst /\ tokens + 0 - call[c] <= Credit(bucket) /\ tokens - call[c] >= -now
    BY <2>1, <2>2, <2>4 DEF Time
  <2>6. spent' = [s \in Time |-> IF s <= call[c] THEN spent[s] + 0 ELSE spent[s]]
    <3>1. spent \in [Time -> Nat]
      BY DEF IInv, TypeOK
    <3> QED
      BY <2>3, <3>1
  <2>7. bucket' \in Bucket /\ spent' \in [Time -> Nat] /\ CreditKept' /\ CreditEarned' /\ AgeKept'
    BY Zenon, <2>1, <2>2, <2>3, <2>5, <2>6, BucketStep
  <2>8. TypeOK'
    BY <1>4, <2>7 DEF Deny, IInv, TypeOK
  <2> QED
    BY <2>7, <2>8 DEF IInv
<1>5. CASE Reap
  <2>1. TypeOK'
    BY <1>5, NoneAssumption DEF Reap, IInv, TypeOK
  <2>0. /\ reaping \in Int /\ now \in Int /\ reaping <= now /\ now - reaping = sinceReap
        /\ reaping' = None /\ UNCHANGED <<now, sinceReap, spent>>
    BY <1>5 DEF Reap, IInv, TypeOK, AgeKept, Time
  <2>2. CASE Stale(bucket)
    <3>1. bucket' = None
      BY <1>5, <2>2 DEF Reap
    <3>2. /\ bucket # None /\ bucket \in Bucket
          /\ bucket.lastSeen \in Int /\ bucket.tokens \in Int
          /\ bucket.lastSeen < reaping - Idle /\ bucket.tokens >= -Stall
      BY <2>2 DEF Stale, IInv, TypeOK, CreditKept, Bucket, Time
    <3>3. ASSUME NEW s \in Time, spent[s] > 0 PROVE spent[s] <= now - Stall - s
      <4>1. s \in Int /\ spent[s] \in Int
        BY DEF IInv, TypeOK, Time
      <4>2. spent[s] + (bucket.tokens - bucket.lastSeen) <= Burst - s
        BY <3>2, <3>3 DEF IInv, CreditKept, Credit
      <4> QED
        BY <2>0, <3>2, <4>1, <4>2, IdleAssumption
    <3> QED
      BY <2>0, <2>1, <3>1, <3>3 DEF IInv, CreditKept, CreditEarned, AgeKept
  <2>3. CASE ~Stale(bucket)
    <3>1. bucket' = bucket
      BY <1>5, <2>3 DEF Reap
    <3>2. AgeKept'
      <4>1. bucket # None => bucket.lastSeen \in Int /\ ~(bucket.lastSeen < reaping - Idle)
        BY <2>3 DEF Stale, IInv, TypeOK, Bucket, Time
      <4> QED
        BY <2>0, <3>1, <4>1 DEF AgeKept
    <3> QED
      BY <2>0, <2>1, <3>1, <3>2 DEF IInv, CreditKept, CreditEarned
  <2> QED
    BY <2>2, <2>3
<1>8. CASE ReapEnter
  <2>1. TypeOK' /\ now \in Int /\ sinceReap = Period /\ sinceReap' = 0 /\ reaping = None
        /\ reaping' = now /\ UNCHANGED <<now, bucket, spent>>
    BY <1>8 DEF ReapEnter, IInv, TypeOK, Time
  <2>2. AgeKept'
    <3>1. bucket # None => bucket.lastSeen \in Int /\ now - bucket.lastSeen <= Idle + Period
      BY <2>1 DEF IInv, TypeOK, AgeKept, Bucket, Time
    <3>2. now - now = 0 /\ now # None
      BY <2>1, NoneAssumption DEF IInv, TypeOK
    <3> QED BY <2>1, <3>1, <3>2 DEF AgeKept
  <2> QED BY <2>1, <2>2 DEF IInv, CreditKept, CreditEarned
<1>6. CASE Tick
  <2>1. now' = now + 1 /\ now \in Int /\ sinceReap \in Int
    BY <1>6 DEF Tick, IInv, TypeOK, Time
  <2>0. /\ reaping # None => now - reaping < Stall
        /\ \A c \in Caller : call[c] # None => now - call[c] < Stall
    BY Zenon, <1>6 DEF Tick
  <2>2. TypeOK'
    BY <1>6, <2>0 DEF Tick, IInv, TypeOK, Time
  <2>3. CreditKept'
    BY <1>6, <2>1 DEF Tick, IInv, TypeOK, CreditKept, Credit, Bucket, Time
  <2>4. CreditEarned'
    <3>1. UNCHANGED <<bucket, spent>>
      BY <1>6 DEF Tick
    <3> SUFFICES ASSUME bucket = None, NEW s \in Time, spent[s] > 0
                 PROVE  spent[s] <= now' - Stall - s
      BY <3>1 DEF CreditEarned
    <3>2. s \in Int /\ spent[s] \in Int /\ spent[s] <= now - Stall - s
      BY DEF IInv, TypeOK, CreditEarned, Time
    <3> QED
      BY <2>1, <3>2
  <2>5. AgeKept'
    BY <1>6, <2>1 DEF Tick, IInv, TypeOK, AgeKept, Bucket, Time
  <2> QED
    BY <2>2, <2>3, <2>4, <2>5 DEF IInv
<1>7. CASE UNCHANGED vars
  BY <1>7 DEF vars, IInv, TypeOK, CreditKept, CreditEarned, AgeKept
<1> QED
  BY <1>1, <1>2, <1>3, <1>4, <1>5, <1>6, <1>7, <1>8 DEF Next

\* The invariant holds throughout.
LEMMA SpecIInv == Spec => []IInv
<1>1. Init => IInv
  BY LimiterAssumption, NoneAssumption
  DEF Init, IInv, TypeOK, CreditKept, CreditEarned, AgeKept, Time
<1> QED
  BY <1>1, NextIInv, PTL DEF Spec

-----------------------------------------------------------------------------
\* A client never gets more than a full bucket and the refill of the time since,
\* in any span of time, however its concurrent calls are ordered and whenever
\* reap forgets it.
THEOREM RateIsHonoured == Spec => []RateHonoured
<1>1. ASSUME IInv PROVE RateHonoured
  <2> SUFFICES ASSUME NEW s \in Time, spent[s] > 0 PROVE spent[s] <= Burst + (now - s)
    BY DEF RateHonoured
  <2>1. s \in Int /\ spent[s] \in Int /\ now \in Int
    BY <1>1 DEF IInv, TypeOK, Time
  <2>2. CASE bucket = None
    BY <1>1, <2>1, <2>2, LimiterAssumption DEF IInv, CreditEarned
  <2>3. CASE bucket # None
    <3>1. spent[s] + Credit(bucket) <= Burst - s /\ Credit(bucket) >= -now
      BY <1>1, <2>3 DEF IInv, CreditKept
    <3>2. Credit(bucket) \in Int
      BY <1>1, <2>3 DEF IInv, TypeOK, Bucket, Credit, Time
    <3> QED
      BY <2>1, <3>1, <3>2, LimiterAssumption
  <2> QED
    BY <2>2, <2>3
<1> QED
  BY <1>1, SpecIInv, PTL

\* reap lets no bucket grow older than the idle limit, one period and its wait for
\* the lock (ratelimit.go:78-88).
THEOREM BucketsDoExpire == Spec => []BucketsExpire
<1>1. IInv => BucketsExpire
  BY LimiterAssumption DEF IInv, TypeOK, AgeKept, BucketsExpire, Bucket, Time
<1> QED
  BY <1>1, SpecIInv, PTL

-----------------------------------------------------------------------------
(* No refusal without a reason *)

\* More was admitted since a time than since a later one.
SpentFalls == \A s, t \in Time : s <= t => spent[t] <= spent[s]

\* What the bucket lacks was spent: all of it but what was refilled since it was
\* last full at a time `full', by calls that read the clock at or after a time
\* `from'. Calls that come late move `from' back, but no further than a goroutine
\* can have waited.
Missing(b, from, full) ==
  /\ from <= full /\ full <= now /\ full - from <= Stall
  /\ spent[from] + Credit(b) >= Burst - full

CreditMissed == bucket # None => \E from, full \in Time : Missing(bucket, from, full)

EarnedInv == SpentFalls /\ CreditMissed /\ DenialsEarned

\* Only callers change what was spent or refused, and only they spend credit.
LEMMA QuietEarned ==
  ASSUME IInv, EarnedInv, UNCHANGED <<spent, denied>>, bucket' \in {bucket, None},
         now' \in Int, now <= now'
  PROVE  EarnedInv'
<1>1. SpentFalls' /\ DenialsEarned'
  BY DEF EarnedInv, SpentFalls, DenialsEarned
<1>2. CreditMissed'
  <2> SUFFICES ASSUME bucket' # None
               PROVE  \E from, full \in Time : Missing(bucket, from, full)'
    BY DEF CreditMissed
  <2>1. bucket' = bucket
    OBVIOUS
  <2>2. PICK from \in Time, full \in Time : Missing(bucket, from, full)
    BY <2>1 DEF EarnedInv, CreditMissed
  <2>3. Missing(bucket, from, full)'
    BY <2>1, <2>2 DEF IInv, TypeOK, Time, Missing, Credit
  <2> QED BY <2>3
<1> QED BY <1>1, <1>2 DEF EarnedInv

\* A call that read the clock at n is admitted: from the full bucket, or from
\* what was left of the credit.
LEMMA AdmittedEarned ==
  ASSUME IInv, EarnedInv, NEW n \in Time, n <= now, now - n <= Stall,
         Admitted(n), NEW tokens \in Int,
         bucket' = [tokens |-> tokens - Cost, lastSeen |-> n], now' = now,
         tokens = Burst \/ (bucket # None /\ tokens - n = Credit(bucket))
  PROVE  EarnedInv'
<1> USE LimiterAssumption
<1>1. /\ spent' = [s \in Time |-> IF s <= n THEN spent[s] + Cost ELSE spent[s]]
      /\ denied' = denied
  BY DEF Admitted
<1>2. /\ spent \in [Time -> Nat] /\ now \in Int /\ n \in Int /\ \A s \in Time : s \in Int
      /\ denied \in Time \cup {None}
  BY DEF IInv, TypeOK, Time
<1>3. \A s \in Time : /\ spent[s] \in Nat /\ spent'[s] \in Nat /\ spent[s] <= spent'[s]
                      /\ s <= n => spent'[s] = spent[s] + Cost
                      /\ ~(s <= n) => spent'[s] = spent[s]
  BY <1>1, <1>2
<1>4. SpentFalls'
  <2> SUFFICES ASSUME NEW s \in Time, NEW t \in Time, s <= t PROVE spent'[t] <= spent'[s]
    BY DEF SpentFalls
  <2>1. spent[t] <= spent[s] /\ s \in Int /\ t \in Int
    BY <1>2 DEF EarnedInv, SpentFalls
  <2> QED BY <1>2, <1>3, <2>1
<1>5. DenialsEarned'
  <2> SUFFICES ASSUME denied # None
               PROVE  \E s \in 0 .. denied : spent'[s] + Cost > Burst + (denied - s) - Stall
    BY <1>1 DEF DenialsEarned
  <2>1. PICK s \in 0 .. denied : spent[s] + Cost > Burst + (denied - s) - Stall
    BY DEF EarnedInv, DenialsEarned
  <2>2. s \in Time /\ s \in Int /\ denied \in Int
    BY <1>2 DEF Time
  <2>3. spent'[s] + Cost > Burst + (denied - s) - Stall
    BY <1>3, <2>1, <2>2
  <2> QED BY <2>1, <2>3
<1>6. Credit(bucket') = tokens - Cost - n
  BY <1>2 DEF Credit
<1>7. CASE tokens = Burst
  <2>1. Missing(bucket, n, n)'
    <3>1. spent'[n] >= Cost
      BY <1>2, <1>3
    <3> QED BY <1>2, <1>3, <1>6, <1>7, <3>1 DEF Missing, Credit
  <2> QED BY <1>4, <1>5, <2>1 DEF EarnedInv, CreditMissed
<1>8. CASE bucket # None /\ tokens - n = Credit(bucket)
  <2>1. PICK from \in Time, full \in Time : Missing(bucket, from, full)
    BY <1>8 DEF EarnedInv, CreditMissed
  <2>2. /\ from \in Int /\ full \in Int /\ from <= full /\ full <= now /\ full - from <= Stall
        /\ spent[from] + (tokens - n) >= Burst - full
    BY <1>2, <1>8, <2>1 DEF Missing
  <2>3. CASE from <= n
    <3>1. spent'[from] + (tokens - Cost - n) >= Burst - full
      BY <1>2, <1>3, <2>2, <2>3
    <3>2. Missing(bucket, from, full)'
      BY <1>6, <2>2, <3>1 DEF Missing, Credit
    <3> QED BY <1>4, <1>5, <3>2 DEF EarnedInv, CreditMissed
  <2>4. CASE ~(from <= n)
    <3>1. spent[from] <= spent[n] /\ n <= full /\ full - n <= Stall
      BY <1>2, <2>2, <2>4 DEF EarnedInv, SpentFalls
    <3>2. spent'[n] + (tokens - Cost - n) >= Burst - full
      BY <1>2, <1>3, <2>2, <3>1
    <3>3. Missing(bucket, n, full)'
      BY <1>6, <2>2, <3>1, <3>2 DEF Missing, Credit
    <3> QED BY <1>4, <1>5, <3>3 DEF EarnedInv, CreditMissed
  <2> QED BY <2>3, <2>4
<1> QED BY <1>7, <1>8

\* A call is refused: less than a token is there, so what is missing was spent.
LEMMA DeniedEarned ==
  ASSUME IInv, EarnedInv, NEW c \in Caller, Deny(c)
  PROVE  EarnedInv'
<1> USE LimiterAssumption
<1> DEFINE n == call[c]
<1>1. /\ n \in Time /\ n <= now /\ now - n <= Stall /\ bucket # None
      /\ denied' = n /\ spent' = spent /\ now' = now
      /\ bucket' = [tokens |-> Refilled(n), lastSeen |-> n]
  BY DEF Deny, IInv, TypeOK
<1>2. Refilled(n) \in Int /\ Refilled(n) < Cost /\ Refilled(n) - n = Credit(bucket)
  <2>1. /\ Refilled(n) \in Int
        /\ Refilled(n) = Burst \/ Refilled(n) - n = Credit(bucket)
    BY <1>1, RefilledCredit DEF IInv
  <2>2. Refilled(n) < Cost
    BY DEF Deny
  <2> QED BY <2>1, <2>2
<1> HIDE DEF n
<1>3. now \in Int /\ n \in Int /\ \A s \in Time : s \in Int /\ spent[s] \in Nat
  BY <1>1 DEF IInv, TypeOK, Time
<1>4. PICK from \in Time, full \in Time : Missing(bucket, from, full)
  BY <1>1 DEF EarnedInv, CreditMissed
<1>5. /\ from \in Int /\ full \in Int /\ from <= full /\ full <= now /\ full - from <= Stall
      /\ spent[from] + (Refilled(n) - n) >= Burst - full
  BY <1>2, <1>3, <1>4 DEF Missing
<1>6. \E s \in 0 .. n : spent[s] + Cost > Burst + (n - s) - Stall
  <2>1. CASE from <= n
    <3>1. from \in 0 .. n /\ spent[from] + Cost > Burst + (n - from) - Stall
      BY <1>1, <1>2, <1>3, <1>5, <2>1 DEF Time
    <3> QED BY <3>1
  <2>2. CASE ~(from <= n)
    <3>1. spent[from] <= spent[n]
      BY <1>1, <1>3, <1>5, <2>2 DEF EarnedInv, SpentFalls
    <3>2. n \in 0 .. n /\ spent[n] + Cost > Burst + (n - n) - Stall
      BY <1>1, <1>2, <1>3, <1>5, <3>1 DEF Time
    <3> QED BY <3>2
  <2> QED BY <2>1, <2>2
<1>7. DenialsEarned'
  BY <1>1, <1>6 DEF DenialsEarned
<1>8. Missing(bucket, from, full)'
  <2>1. Credit(bucket') = Refilled(n) - n
    BY <1>1 DEF Credit
  <2> QED BY <1>1, <1>5, <2>1 DEF Missing, Credit
<1>9. CreditMissed'
  BY <1>8 DEF CreditMissed
<1>10. SpentFalls'
  BY <1>1 DEF EarnedInv, SpentFalls
<1> QED BY <1>7, <1>9, <1>10 DEF EarnedInv

LEMMA NextEarned == IInv /\ EarnedInv /\ [Next]_vars => EarnedInv'
<1> SUFFICES ASSUME IInv, EarnedInv, [Next]_vars PROVE EarnedInv'
  OBVIOUS
<1> USE LimiterAssumption
<1>0. now \in Int
  BY DEF IInv, TypeOK, Time
<1>1. ASSUME NEW c \in Caller, AllowNew(c) \/ Allow(c) PROVE EarnedInv'
  <2>1. /\ call[c] \in Time /\ call[c] <= now /\ now - call[c] <= Stall
        /\ Admitted(call[c]) /\ now' = now
    BY <1>1 DEF AllowNew, Allow, IInv, TypeOK
  <2>2. CASE AllowNew(c)
    BY <2>1, <2>2, AdmittedEarned DEF AllowNew
  <2>3. CASE Allow(c)
    <3>1. /\ bucket # None /\ Refilled(call[c]) \in Int
          /\ Refilled(call[c]) = Burst \/ Refilled(call[c]) - call[c] = Credit(bucket)
      BY <2>1, <2>3, RefilledCredit DEF Allow, IInv
    <3>2. bucket' = [tokens |-> Refilled(call[c]) - Cost, lastSeen |-> call[c]]
      BY <2>3 DEF Allow
    <3> QED BY <2>1, <3>1, <3>2, AdmittedEarned
  <2> QED BY <1>1, <2>2, <2>3
<1>2. ASSUME NEW c \in Caller, Deny(c) PROVE EarnedInv'
  BY <1>2, DeniedEarned
<1>3. CASE (\E c \in Caller : Enter(c)) \/ ReapEnter \/ Reap \/ UNCHANGED vars
  <2>1. UNCHANGED <<spent, denied, now>> /\ bucket' \in {bucket, None}
    BY <1>3 DEF Enter, ReapEnter, Reap, vars
  <2> QED BY <1>0, <2>1, QuietEarned
<1>4. CASE Tick
  <2>1. UNCHANGED <<spent, denied, bucket>> /\ now' = now + 1
    BY <1>4 DEF Tick
  <2> QED BY <1>0, <2>1, QuietEarned
<1> QED BY <1>1, <1>2, <1>3, <1>4 DEF Next

\* A client that keeps to the limit is never refused, whatever its concurrent
\* calls and the runs of reap (allow, ratelimit.go).
THEOREM DenialsAreEarned == Spec => []DenialsEarned
<1>1. Init => EarnedInv
  <2>1. ASSUME Init PROVE SpentFalls
    BY <2>1 DEF Init, SpentFalls
  <2> QED BY <2>1 DEF Init, EarnedInv, CreditMissed, DenialsEarned
<1>2. EarnedInv => DenialsEarned
  BY DEF EarnedInv
<1> QED
  BY <1>1, <1>2, NextEarned, SpecIInv, PTL DEF Spec


=============================================================================
