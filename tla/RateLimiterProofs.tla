------------------------- MODULE RateLimiterProofs -------------------------
(***************************************************************************)
(* Proofs about RateLimiter, for any number of servers, keys and requests  *)
(* and any limit: tickets are unique per counter, and so no counter lets   *)
(* in more requests than the limit.                                        *)
(***************************************************************************)
EXTENDS RateLimiter, FiniteSetTheorems, TLAPS

(* A counter stands at the last ticket it gave out or beyond.  A bucket of *)
(* an earlier minute may be gone, but gives out no more tickets either.    *)
Below(r) ==
    /\ ticket[r] >= 1
    /\ store[r] = "redis" => ticket[r] <= shared[key[r]][minute[r]]
    /\ store[r] \in Servers /\ minute[r] = now =>
          /\ local[store[r]][key[r]].tracked
          /\ local[store[r]][key[r]].window = now
          /\ ticket[r] <= local[store[r]][key[r]].count

TicketsBelow == \A r \in Requests : stage[r] = "charged" => Below(r)

RInv == TypeOK /\ TicketsBelow /\ TicketsUnique

-----------------------------------------------------------------------------
LEMMA InitRInv == Init => RInv
<1> SUFFICES ASSUME Init PROVE RInv
  OBVIOUS
<1>1. TypeOK
  <2>1. NoBucket \in BucketType BY BoundsAssumption DEF NoBucket, BucketType, Minutes
  <2> QED BY <2>1, BoundsAssumption DEF Init, TypeOK, Minutes, Stores
<1> QED BY <1>1 DEF Init, RInv, TicketsBelow, TicketsUnique

LEMMA BucketTyped ==
    ASSUME NEW m \in Minutes, NEW n \in Nat PROVE Bucket(m, n) \in BucketType
BY DEF Bucket, BucketType

LEMMA StandingTyped ==
    ASSUME TypeOK, NEW s \in Servers, NEW k \in Keys, NEW m \in Minutes
    PROVE  Standing(s, k, m) \in Nat
<1>1. local[s][k] \in BucketType BY DEF TypeOK
<1> QED BY <1>1 DEF Standing, BucketType

LEMMA RequestTyped ==
    ASSUME TypeOK, NEW r \in Requests
    PROVE  /\ key[r] \in Keys /\ server[r] \in Servers
           /\ minute[r] \in Minutes /\ minute[r] \in 0 .. now
           /\ ticket[r] \in Nat
<1>1. minute[r] \in 0 .. now /\ now \in 0 .. LastMinute BY DEF TypeOK, Minutes
<1>2. minute[r] \in Minutes BY <1>1, BoundsAssumption DEF Minutes
<1> QED BY <1>1, <1>2 DEF TypeOK

(* What an INCR does to the counters.                                      *)
LEMMA IncreasedCounters ==
    ASSUME TypeOK, NEW r \in Requests
    PROVE  /\ Increased(r) \in [Keys -> [Minutes -> Nat]]
           /\ Increased(r)[key[r]][minute[r]] = shared[key[r]][minute[r]] + 1
           /\ \A k \in Keys, m \in Minutes : shared[k][m] <= Increased(r)[k][m]
<1> DEFINE row == [shared[key[r]] EXCEPT ![minute[r]] = @ + 1]
<1>1. /\ shared \in [Keys -> [Minutes -> Nat]]
      /\ key[r] \in Keys /\ minute[r] \in Minutes
  BY RequestTyped DEF TypeOK
<1>2. shared[key[r]] \in [Minutes -> Nat] BY <1>1
<1>3. row \in [Minutes -> Nat] BY <1>1, <1>2
<1>4. /\ row[minute[r]] = shared[key[r]][minute[r]] + 1
      /\ \A m \in Minutes : shared[key[r]][m] <= row[m]
  BY <1>1, <1>2
<1>5. Increased(r) = [shared EXCEPT ![key[r]] = row] BY DEF Increased
<1> HIDE DEF row
<1>6. Increased(r) \in [Keys -> [Minutes -> Nat]] BY <1>1, <1>3, <1>5
<1>7. \A k \in Keys : Increased(r)[k] = IF k = key[r] THEN row ELSE shared[k]
  BY <1>1, <1>5
<1>8. \A k \in Keys, m \in Minutes : shared[k][m] \in Nat BY <1>1
<1>9. \A k \in Keys, m \in Minutes : shared[k][m] <= Increased(r)[k][m]
  BY <1>4, <1>7, <1>8
<1> QED BY <1>1, <1>4, <1>6, <1>7, <1>9

LEMMA TypeStep == ASSUME TypeOK, [Next]_vars PROVE TypeOK'
<1>1. CASE Tick
  BY <1>1, BoundsAssumption DEF Tick, TypeOK, Minutes
<1>2. ASSUME NEW r \in Requests, NameCounter(r) PROVE TypeOK'
  BY <1>2 DEF NameCounter, TypeOK, Minutes
<1>3. ASSUME NEW r \in Requests, Increment(r) PROVE TypeOK'
  <2>1. key[r] \in Keys /\ minute[r] \in Minutes /\ minute[r] \in 0 .. now
    BY RequestTyped
  <2>2. shared[key[r]][minute[r]] \in Nat BY <2>1 DEF TypeOK
  <2>3. shared' \in [Keys -> [Minutes -> Nat]]
    BY <1>3, IncreasedCounters DEF Increment
  <2> QED BY <1>3, <2>1, <2>2, <2>3 DEF Increment, Charge, TypeOK, Stores
<1>4. ASSUME NEW r \in Requests, IncrementFails(r) PROVE TypeOK'
  <2>3. shared' \in [Keys -> [Minutes -> Nat]]
    BY <1>4, IncreasedCounters DEF IncrementFails, TypeOK
  <2>4. stage' \in [Requests -> {"idle", "call", "fallback", "charged"}]
    BY <1>4 DEF IncrementFails, TypeOK
  <2>5. lost' \in 0 .. MaxLost
    BY <1>4, BoundsAssumption DEF IncrementFails, TypeOK
  <2> QED BY <1>4, <2>3, <2>4, <2>5 DEF IncrementFails, TypeOK
<1>5. ASSUME NEW r \in Requests, IncrementLocal(r) PROVE TypeOK'
  <2> DEFINE count == Standing(server[r], key[r], now) + 1
             swept == [k \in Keys |-> IF k = key[r] THEN Bucket(now, count)
                                      ELSE IF Swept(server[r], k, now) THEN NoBucket
                                      ELSE local[server[r]][k]]
  <2>1. /\ server[r] \in Servers /\ key[r] \in Keys
        /\ now \in Minutes /\ now \in 0 .. now /\ count \in Nat
    BY StandingTyped DEF TypeOK, Minutes
  <2>2. NoBucket \in BucketType BY BoundsAssumption DEF NoBucket, BucketType, Minutes
  <2>3. Bucket(now, count) \in BucketType BY <2>1, BucketTyped
  <2>4. swept \in [Keys -> BucketType]
    <3>1. \A k \in Keys : local[server[r]][k] \in BucketType BY <2>1 DEF TypeOK
    <3> HIDE DEF count
    <3> QED BY <2>2, <2>3, <3>1
  <2>5. /\ local' = [local EXCEPT ![server[r]] = swept]
        /\ Charge(r, server[r], now, count)
        /\ UNCHANGED <<now, shared, server, key, lost>>
    BY <1>5 DEF IncrementLocal, CountLocally
  <2> HIDE DEF swept, count
  <2>6. local' \in [Servers -> [Keys -> BucketType]] BY <2>1, <2>4, <2>5 DEF TypeOK
  <2> QED BY <2>1, <2>5, <2>6 DEF Charge, TypeOK, Stores
<1>6. CASE UNCHANGED vars
  BY <1>6 DEF vars, TypeOK
<1> QED BY <1>1, <1>2, <1>3, <1>4, <1>5, <1>6 DEF Next

(* What one charge must establish for the two other parts of RInv.         *)
LEMMA ChargeSuffices ==
    ASSUME RInv, TypeOK', NEW r \in Requests, NEW place, NEW window, NEW count,
           stage[r] # "charged", Charge(r, place, window, count), UNCHANGED key,
           Below(r)',
           \A q \in Requests : stage[q] = "charged" => Below(q)',
           \A q \in Requests :
              stage[q] = "charged" /\ key[q] = key[r] /\ minute[q] = window /\ store[q] = place
                => ticket[q] # count
    PROVE  TicketsBelow' /\ TicketsUnique'
<1>1. /\ stage'[r] = "charged" /\ store'[r] = place /\ minute'[r] = window /\ ticket'[r] = count
      /\ \A q \in Requests \ {r} : /\ stage'[q] = stage[q] /\ store'[q] = store[q]
                                   /\ minute'[q] = minute[q] /\ ticket'[q] = ticket[q]
  BY DEF Charge, RInv, TypeOK
<1>2. TicketsBelow' BY <1>1 DEF TicketsBelow
<1>3. TicketsUnique' BY <1>1 DEF TicketsUnique, SameCounter, RInv
<1> QED BY <1>2, <1>3

LEMMA RInvStep == RInv /\ [Next]_vars => RInv'
<1> SUFFICES ASSUME RInv, [Next]_vars PROVE TicketsBelow' /\ TicketsUnique'
  BY TypeStep DEF RInv
<1> USE DEF RInv
<1>0. TypeOK /\ TypeOK' BY TypeStep
<1>1. CASE Tick
  <2>1. \A r \in Requests : minute'[r] # now' BY <1>0, <1>1 DEF Tick, TypeOK, Minutes
  <2> QED BY <1>1, <2>1 DEF Tick, TicketsBelow, Below, TicketsUnique, SameCounter
<1>2. ASSUME NEW r \in Requests, NameCounter(r) PROVE TicketsBelow' /\ TicketsUnique'
  <2>1. \A q \in Requests : stage'[q] = "charged" =>
           stage[q] = "charged" /\ minute'[q] = minute[q]
    BY <1>0, <1>2 DEF NameCounter, TypeOK
  <2> QED BY <1>2, <2>1 DEF NameCounter, TicketsBelow, Below, TicketsUnique, SameCounter
<1>3. ASSUME NEW r \in Requests, shared' = Increased(r)
      PROVE  /\ shared'[key[r]][minute[r]] = shared[key[r]][minute[r]] + 1
             /\ \A k \in Keys, m \in Minutes :
                   shared[k][m] \in Nat /\ shared[k][m] <= shared'[k][m]
  <2>1. \A k \in Keys, m \in Minutes : shared[k][m] \in Nat BY <1>0 DEF TypeOK
  <2> QED BY <1>0, <1>3, <2>1, IncreasedCounters
<1>4. ASSUME NEW r \in Requests, Increment(r) PROVE TicketsBelow' /\ TicketsUnique'
  <2> DEFINE count == shared[key[r]][minute[r]] + 1
  <2>1. key[r] \in Keys /\ minute[r] \in Minutes /\ shared[key[r]][minute[r]] \in Nat
    BY <1>0, RequestTyped DEF TypeOK
  <2>2. Charge(r, "redis", minute[r], count) BY <1>4 DEF Increment
  <2>3. /\ store'[r] = "redis" /\ minute'[r] = minute[r] /\ ticket'[r] = count
        /\ \A q \in Requests : q # r => /\ store'[q] = store[q] /\ minute'[q] = minute[q]
                                        /\ ticket'[q] = ticket[q]
    BY <1>0, <2>2 DEF Charge, TypeOK
  <2>4. Below(r)'
    BY <1>3, <1>4, <2>1, <2>3, StoresAssumption DEF Increment, Below
  <2>5. \A q \in Requests : stage[q] = "charged" => Below(q)'
    <3> SUFFICES ASSUME NEW q \in Requests, stage[q] = "charged" PROVE Below(q)'
      OBVIOUS
    <3>1. q # r BY <1>4 DEF Increment
    <3>2. key[q] \in Keys /\ minute[q] \in Minutes /\ ticket[q] \in Nat
      BY <1>0, RequestTyped
    <3>3. shared[key[q]][minute[q]] <= shared'[key[q]][minute[q]]
          /\ shared'[key[q]][minute[q]] \in Nat /\ shared[key[q]][minute[q]] \in Nat
      BY <1>0, <1>3, <1>4, <3>2 DEF Increment, TypeOK
    <3> QED BY <1>4, <2>3, <3>1, <3>2, <3>3 DEF Increment, TicketsBelow, Below
  <2>6. \A q \in Requests :
           stage[q] = "charged" /\ key[q] = key[r] /\ minute[q] = minute[r] /\ store[q] = "redis"
             => ticket[q] # count
    BY <1>0, <2>1 DEF TicketsBelow, Below, TypeOK
  <2> QED
    BY <1>0, <1>4, <2>2, <2>4, <2>5, <2>6, ChargeSuffices DEF Increment
<1>5. ASSUME NEW r \in Requests, IncrementFails(r) PROVE TicketsBelow' /\ TicketsUnique'
  <2>1. \A q \in Requests : stage'[q] = "charged" => stage[q] = "charged"
    BY <1>0, <1>5 DEF IncrementFails, TypeOK
  <2>2. \A k \in Keys, m \in Minutes :
           /\ shared[k][m] \in Nat /\ shared'[k][m] \in Nat
           /\ shared[k][m] <= shared'[k][m]
    BY <1>0, <1>3, <1>5 DEF IncrementFails, TypeOK
  <2>3. \A q \in Requests : key[q] \in Keys /\ minute[q] \in Minutes /\ ticket[q] \in Nat
    BY <1>0, RequestTyped
  <2>4. TicketsBelow'
    BY <1>5, <2>1, <2>2, <2>3 DEF IncrementFails, TicketsBelow, Below
  <2>5. TicketsUnique'
    BY <1>5, <2>1 DEF IncrementFails, TicketsUnique, SameCounter
  <2> QED BY <2>4, <2>5
<1>6. ASSUME NEW r \in Requests, IncrementLocal(r) PROVE TicketsBelow' /\ TicketsUnique'
  <2> DEFINE s == server[r]
             count == Standing(server[r], key[r], now) + 1
  <2>1. server[r] \in Servers /\ key[r] \in Keys /\ now \in Minutes
    BY <1>0 DEF TypeOK, Minutes
  <2>2. Standing(server[r], key[r], now) \in Nat BY <1>0, <2>1, StandingTyped
  <2>3. Charge(r, server[r], now, count) /\ stage[r] = "fallback" /\ UNCHANGED <<now, shared, server, key>>
    BY <1>6 DEF IncrementLocal, CountLocally
  <2>4. /\ stage'[r] = "charged"
        /\ store'[r] = server[r] /\ minute'[r] = now /\ ticket'[r] = count
        /\ \A q \in Requests : q # r => /\ store'[q] = store[q] /\ minute'[q] = minute[q]
                                        /\ ticket'[q] = ticket[q]
    BY <1>0, <2>3 DEF Charge, TypeOK
  <2>5. local'[server[r]][key[r]] = Bucket(now, count)
    BY <1>0, <1>6, <2>1 DEF IncrementLocal, CountLocally, TypeOK
  <2>6. \A p \in Servers, k \in Keys :
           p # server[r] \/ (k # key[r] /\ ~ Swept(server[r], k, now)) => local'[p][k] = local[p][k]
    BY <1>0, <1>6, <2>1 DEF IncrementLocal, CountLocally, TypeOK
  <2>7. \A k \in Keys : local[server[r]][k].window = now => ~ Swept(server[r], k, now)
    BY <1>0 DEF Swept, TypeOK, Minutes
  <2>8. ASSUME NEW q \in Requests, stage[q] = "charged", store[q] = server[r],
               key[q] = key[r], minute[q] = now
        PROVE  /\ Standing(server[r], key[r], now) = local[server[r]][key[r]].count
               /\ ticket[q] <= Standing(server[r], key[r], now)
    <3>1. /\ local[server[r]][key[r]].tracked /\ local[server[r]][key[r]].window = now
          /\ ticket[q] <= local[server[r]][key[r]].count
      BY <2>1, <2>8 DEF TicketsBelow, Below
    <3> QED BY <2>1, <2>7, <3>1 DEF Standing
  <2>9. Below(r)'
    <3> HIDE DEF count
    <3>1. count \in Nat /\ count >= 1 BY <2>2 DEF count
    <3> QED
      BY <2>1, <2>3, <2>4, <2>5, <3>1, StoresAssumption DEF Below, Bucket
  <2>10. \A q \in Requests : stage[q] = "charged" => Below(q)'
    <3> SUFFICES ASSUME NEW q \in Requests, stage[q] = "charged" PROVE Below(q)'
      OBVIOUS
    <3>1. q # r /\ key[q] \in Keys /\ ticket[q] \in Nat BY <1>0, <2>3 DEF TypeOK
    <3>2. Below(q) BY DEF TicketsBelow
    <3>3. CASE store[q] \in Servers /\ minute[q] = now
      <4>1. CASE store[q] = server[r] /\ key[q] = key[r]
        <5>1. ticket[q] <= count BY <2>2, <2>8, <3>1, <3>3, <4>1
        <5> HIDE DEF count
        <5> QED BY <2>3, <2>4, <2>5, <3>1, <3>2, <3>3, <4>1, <5>1, StoresAssumption
                DEF Below, Bucket
      <4>2. CASE store[q] # server[r] \/ key[q] # key[r]
        <5>1. local'[store[q]][key[q]] = local[store[q]][key[q]]
          BY <2>6, <2>7, <3>1, <3>2, <3>3, <4>2 DEF Below
        <5> QED BY <2>3, <2>4, <3>1, <3>2, <3>3, <5>1, StoresAssumption DEF Below
      <4> QED BY <4>1, <4>2
    <3>4. CASE ~ (store[q] \in Servers /\ minute[q] = now)
      BY <2>3, <2>4, <3>1, <3>2, <3>4 DEF Below
    <3> QED BY <3>3, <3>4
  <2>11. \A q \in Requests :
            stage[q] = "charged" /\ key[q] = key[r] /\ minute[q] = now /\ store[q] = server[r]
              => ticket[q] # count
    <3>1. \A q \in Requests : ticket[q] \in Nat BY <1>0 DEF TypeOK
    <3> QED BY <2>2, <2>8, <3>1
  <2> HIDE DEF count
  <2> QED BY <1>0, <2>3, <2>9, <2>10, <2>11, ChargeSuffices
<1>7. CASE UNCHANGED vars
  BY <1>7 DEF vars, TicketsBelow, Below, TicketsUnique, SameCounter
<1> QED BY <1>1, <1>2, <1>4, <1>5, <1>6, <1>7 DEF Next

(* In every reachable state a drawn ticket is at most what its counter     *)
(* stands at, or its bucket has been left for a later minute, so that the  *)
(* next ticket is a new one (ratelimit.go:57-94).                          *)
THEOREM RInvHolds == Spec => []RInv
BY InitRInv, RInvStep, PTL DEF Spec

-----------------------------------------------------------------------------
(* Counters, buckets and requests keep the types of the program's data.    *)
THEOREM LimiterTypeCorrect == Spec => []TypeOK
<1>1. RInv => TypeOK BY DEF RInv
<1> QED BY <1>1, RInvHolds, PTL

(* No two requests draw the same ticket from one counter.                  *)
THEOREM NoTicketTwice == Spec => []TicketsUnique
<1>1. RInv => TicketsUnique BY DEF RInv
<1> QED BY <1>1, RInvHolds, PTL

(* No counter lets in more requests than the limit, whatever calls fail,   *)
(* for any number of servers, keys and requests.                           *)
THEOREM LimitHolds == Spec => []OneLimitPerStore
<1>1. ASSUME RInv PROVE OneLimitPerStore
  <2> SUFFICES ASSUME NEW k \in Keys, NEW m \in Minutes, NEW p \in Stores
               PROVE  Cardinality({r \in LetInFor(k, m) : store[r] = p}) <= Limit
    BY DEF OneLimitPerStore
  <2> DEFINE S == {r \in LetInFor(k, m) : store[r] = p}
             f == [r \in S |-> ticket[r]]
  <2>1. \A r \in S : ticket[r] \in 1 .. Limit
    BY <1>1, LimitAssumption DEF RInv, TypeOK, TicketsBelow, Below, LetInFor, LetIn
  <2>2. \A q, r \in S : q # r => ticket[q] # ticket[r]
    BY <1>1 DEF RInv, TicketsUnique, SameCounter, LetInFor, LetIn
  <2>3. f \in Injection(S, 1 .. Limit)
    <3> HIDE DEF S
    <3> QED BY <2>1, <2>2 DEF Injection, IsInjective
  <2>4. IsFiniteSet(1 .. Limit) /\ Cardinality(1 .. Limit) <= Limit
    BY LimitAssumption, FS_Interval
  <2>5. Cardinality(S) <= Cardinality(1 .. Limit) /\ Cardinality(S) \in Nat
    <3> HIDE DEF S, f
    <3> QED BY <2>3, <2>4, FS_Injection, FS_CardinalityType
  <2>6. Cardinality(1 .. Limit) \in Nat BY <2>4, FS_CardinalityType
  <2> HIDE DEF S
  <2>7. Cardinality(S) <= Limit BY <2>4, <2>5, <2>6, LimitAssumption
  <2> QED BY <2>7 DEF S
<1> QED BY <1>1, RInvHolds, PTL

-----------------------------------------------------------------------------
(* Refusals.  A counter that stands at N gave out the tickets up to N,     *)
(* except those that were lost.                                            *)
Drawn(k, m, p, n) ==
    {q \in Requests : /\ stage[q] = "charged" /\ ticket[q] <= n
                      /\ key[q] = k /\ minute[q] = m /\ store[q] = p}

Filled(k, m, p, n) == Cardinality(Drawn(k, m, p, n)) + lost >= n

CountersFilled ==
    /\ \A k \in Keys, m \in Minutes : \A n \in 0 .. shared[k][m] : Filled(k, m, "redis", n)
    /\ \A s \in Servers, k \in Keys :
          local[s][k].tracked =>
              \A n \in 0 .. local[s][k].count : Filled(k, local[s][k].window, s, n)
    /\ \A r \in Requests : stage[r] = "charged" =>
          \A n \in 0 .. ticket[r] : Filled(key[r], minute[r], store[r], n)

(* Who was charged stays charged.                                          *)
Kept ==
    /\ lost' \in Nat /\ lost' >= lost
    /\ \A q \in Requests : stage[q] = "charged" =>
          /\ stage'[q] = "charged" /\ ticket'[q] = ticket[q]
          /\ key'[q] = key[q] /\ minute'[q] = minute[q] /\ store'[q] = store[q]

LEMMA DrawnFinite ==
    ASSUME IsFiniteSet(Requests), NEW k, NEW m, NEW p, NEW n
    PROVE  IsFiniteSet(Drawn(k, m, p, n)) /\ Cardinality(Drawn(k, m, p, n)) \in Nat
<1>1. Drawn(k, m, p, n) \subseteq Requests BY DEF Drawn
<1> QED BY <1>1, FS_Subset, FS_CardinalityType

LEMMA DrawnFiniteNext ==
    ASSUME IsFiniteSet(Requests), NEW k, NEW m, NEW p, NEW n
    PROVE  IsFiniteSet(Drawn(k, m, p, n)') /\ Cardinality(Drawn(k, m, p, n)') \in Nat
<1>1. Drawn(k, m, p, n)' \subseteq Requests BY DEF Drawn
<1> QED BY <1>1, FS_Subset, FS_CardinalityType

LEMMA FilledStays ==
    ASSUME IsFiniteSet(Requests), TypeOK, Kept,
           NEW k, NEW m, NEW p, NEW n \in Nat, Filled(k, m, p, n)
    PROVE  Filled(k, m, p, n)'
<1>1. Drawn(k, m, p, n) \subseteq Drawn(k, m, p, n)' BY DEF Kept, Drawn
<1>2. Cardinality(Drawn(k, m, p, n)) <= Cardinality(Drawn(k, m, p, n)')
  BY <1>1, DrawnFiniteNext, FS_Subset
<1>3. lost \in Nat /\ lost' \in Nat /\ lost' >= lost
  BY BoundsAssumption DEF TypeOK, Kept
<1> HIDE DEF Drawn
<1> QED BY <1>2, <1>3, DrawnFinite, DrawnFiniteNext DEF Filled

(* The next ticket goes to a request that had none, or is lost.            *)
LEMMA FilledByDraw ==
    ASSUME IsFiniteSet(Requests), TypeOK, Kept,
           NEW k, NEW m, NEW p, NEW n \in Nat, Filled(k, m, p, n),
           NEW r \in Requests, stage[r] # "charged", stage'[r] = "charged",
           key'[r] = k, minute'[r] = m, store'[r] = p, ticket'[r] = n + 1
    PROVE  Filled(k, m, p, n + 1)'
<1> DEFINE D == Drawn(k, m, p, n)
           E == Drawn(k, m, p, n + 1)'
<1>1. \A q \in Requests : ticket[q] \in Nat BY DEF TypeOK
<1>2. D \cup {r} \subseteq E BY <1>1 DEF Kept, Drawn
<1>3. r \notin D BY DEF Drawn
<1>4. IsFiniteSet(D) /\ Cardinality(D) \in Nat /\ IsFiniteSet(E) /\ Cardinality(E) \in Nat
  BY DrawnFinite, DrawnFiniteNext
<1>5. lost \in Nat /\ lost' \in Nat /\ lost' >= lost BY BoundsAssumption DEF TypeOK, Kept
<1>6. Cardinality(D) + lost >= n BY DEF Filled
<1> SUFFICES Cardinality(E) + lost' >= n + 1 BY DEF Filled
<1> HIDE DEF D, E
<1>7. Cardinality(D \cup {r}) = Cardinality(D) + 1 BY <1>3, <1>4, FS_AddElement
<1>8. Cardinality(D \cup {r}) <= Cardinality(E) BY <1>2, <1>4, FS_Subset
<1> QED BY <1>4, <1>5, <1>6, <1>7, <1>8

LEMMA FilledByLoss ==
    ASSUME IsFiniteSet(Requests), TypeOK, Kept, lost' = lost + 1,
           NEW k, NEW m, NEW p, NEW n \in Nat, Filled(k, m, p, n)
    PROVE  Filled(k, m, p, n + 1)'
<1> DEFINE D == Drawn(k, m, p, n)
           E == Drawn(k, m, p, n + 1)'
<1>1. \A q \in Requests : ticket[q] \in Nat BY DEF TypeOK
<1>2. D \subseteq E BY <1>1 DEF Kept, Drawn
<1>4. Cardinality(D) \in Nat /\ IsFiniteSet(E) /\ Cardinality(E) \in Nat
  BY DrawnFinite, DrawnFiniteNext
<1>5. lost \in Nat BY BoundsAssumption DEF TypeOK
<1>6. Cardinality(D) + lost >= n BY DEF Filled
<1> SUFFICES Cardinality(E) + lost' >= n + 1 BY DEF Filled
<1> HIDE DEF D, E
<1>7. Cardinality(D) <= Cardinality(E) BY <1>2, <1>4, FS_Subset
<1> QED BY <1>4, <1>5, <1>6, <1>7

LEMMA EveryStepKeeps == ASSUME TypeOK, TypeOK', [Next]_vars PROVE Kept
<1>0. lost \in Nat /\ lost' \in Nat BY BoundsAssumption DEF TypeOK
<1>1. CASE UNCHANGED vars BY <1>0, <1>1 DEF Kept, vars
<1>2. CASE Tick BY <1>0, <1>2 DEF Kept, Tick
<1>3. ASSUME NEW r \in Requests, NameCounter(r) PROVE Kept
  BY <1>0, <1>3 DEF Kept, NameCounter, TypeOK
<1>4. ASSUME NEW r \in Requests, Increment(r) PROVE Kept
  BY <1>0, <1>4 DEF Kept, Increment, Charge, TypeOK
<1>5. ASSUME NEW r \in Requests, IncrementFails(r) PROVE Kept
  BY <1>0, <1>5 DEF Kept, IncrementFails, TypeOK
<1>6. ASSUME NEW r \in Requests, IncrementLocal(r) PROVE Kept
  BY <1>0, <1>6 DEF Kept, IncrementLocal, CountLocally, Charge, TypeOK
<1> QED BY <1>1, <1>2, <1>3, <1>4, <1>5, <1>6 DEF Next

LEMMA FilledInit == ASSUME Init, IsFiniteSet(Requests) PROVE CountersFilled
<1>1. \A k, m, p : Filled(k, m, p, 0)
  <2> SUFFICES ASSUME NEW k, NEW m, NEW p PROVE Filled(k, m, p, 0) OBVIOUS
  <2>1. Cardinality(Drawn(k, m, p, 0)) \in Nat BY DrawnFinite
  <2>2. lost = 0 BY DEF Init
  <2> QED BY <2>1, <2>2 DEF Filled
<1>2. \A n \in 0 .. 0 : n = 0 OBVIOUS
<1>3. \A k \in Keys, m \in Minutes : shared[k][m] = 0 BY DEF Init
<1>4. \A s \in Servers, k \in Keys : ~ local[s][k].tracked BY DEF Init, NoBucket
<1>5. \A r \in Requests : stage[r] # "charged" BY DEF Init
<1> HIDE DEF Filled
<1> QED BY <1>1, <1>2, <1>3, <1>4, <1>5 DEF CountersFilled

(* The parts of CountersFilled that a step leaves as they are.             *)
LEMMA SharedStays ==
    ASSUME IsFiniteSet(Requests), TypeOK, Kept, CountersFilled, UNCHANGED shared
    PROVE  \A k \in Keys, m \in Minutes : \A n \in 0 .. shared'[k][m] : Filled(k, m, "redis", n)'
<1> SUFFICES ASSUME NEW k \in Keys, NEW m \in Minutes, NEW n \in 0 .. shared[k][m]
             PROVE  Filled(k, m, "redis", n)'
  OBVIOUS
<1>1. Filled(k, m, "redis", n) BY DEF CountersFilled
<1>2. n \in Nat OBVIOUS
<1> QED BY <1>1, <1>2, FilledStays

LEMMA LocalStays ==
    ASSUME IsFiniteSet(Requests), TypeOK, Kept, CountersFilled,
           NEW s \in Servers, NEW k \in Keys, local[s][k].tracked,
           NEW m, m = local[s][k].window, NEW n \in 0 .. local[s][k].count
    PROVE  Filled(k, m, s, n)'
<1>1. Filled(k, m, s, n) BY DEF CountersFilled
<1>2. n \in Nat OBVIOUS
<1> QED BY <1>1, <1>2, FilledStays

LEMMA BucketsStay ==
    ASSUME IsFiniteSet(Requests), TypeOK, Kept, CountersFilled,
           NEW s \in Servers, NEW k \in Keys, local'[s][k] = local[s][k], local[s][k].tracked
    PROVE  (\A n \in 0 .. local[s][k].count : Filled(k, local[s][k].window, s, n))'
<1> SUFFICES ASSUME NEW m, m = local'[s][k].window, NEW n \in 0 .. local'[s][k].count
             PROVE  Filled(k, m, s, n)'
  OBVIOUS
<1> QED BY LocalStays

LEMMA TicketsStay ==
    ASSUME IsFiniteSet(Requests), TypeOK, Kept, CountersFilled,
           NEW q \in Requests, stage[q] = "charged"
    PROVE  (\A n \in 0 .. ticket[q] : Filled(key[q], minute[q], store[q], n))'
<1> SUFFICES ASSUME NEW k, NEW m, NEW p, NEW n \in 0 .. ticket'[q],
                    k = key'[q], m = minute'[q], p = store'[q]
             PROVE  Filled(k, m, p, n)'
  OBVIOUS
<1>1. k = key[q] /\ m = minute[q] /\ p = store[q] /\ ticket'[q] = ticket[q] BY DEF Kept
<1>2. Filled(k, m, p, n) BY <1>1 DEF CountersFilled
<1>3. n \in Nat OBVIOUS
<1> QED BY <1>2, <1>3, FilledStays

LEMMA FilledUpTo ==
    ASSUME IsFiniteSet(Requests), TypeOK, Kept, NEW k, NEW m, NEW p, NEW n \in Nat,
           \A i \in 0 .. n : Filled(k, m, p, i), Filled(k, m, p, n + 1)'
    PROVE  \A i \in 0 .. n + 1 : Filled(k, m, p, i)'
<1> SUFFICES ASSUME NEW i \in 0 .. n + 1 PROVE Filled(k, m, p, i)'
  OBVIOUS
<1>1. CASE i = n + 1 BY <1>1
<1>2. CASE i # n + 1
  <2>1. i \in 0 .. n /\ i \in Nat BY <1>2
  <2> QED BY <2>1, FilledStays
<1> QED BY <1>1, <1>2

LEMMA IncreasedOnly ==
    ASSUME TypeOK, NEW r \in Requests, NEW k \in Keys, NEW m \in Minutes,
           ~ (k = key[r] /\ m = minute[r])
    PROVE  Increased(r)[k][m] = shared[k][m]
<1>1. shared \in [Keys -> [Minutes -> Nat]] /\ key[r] \in Keys /\ minute[r] \in Minutes
  BY RequestTyped DEF TypeOK
<1> QED BY <1>1 DEF Increased

(* One more of a counter in Redis.                                         *)
LEMMA SharedGrows ==
    ASSUME IsFiniteSet(Requests), TypeOK, Kept, CountersFilled, NEW r \in Requests,
           shared' = Increased(r), NEW c \in Keys, NEW d \in Minutes, NEW n \in Nat,
           c = key[r], d = minute[r], n = shared[c][d], Filled(c, d, "redis", n + 1)'
    PROVE  /\ (\A k \in Keys, m \in Minutes : \A i \in 0 .. shared[k][m] : Filled(k, m, "redis", i))'
           /\ shared'[c][d] = n + 1
<1>0. shared'[c][d] = n + 1 BY IncreasedCounters
<1> SUFFICES ASSUME NEW k \in Keys, NEW m \in Minutes
             PROVE  (\A i \in 0 .. shared[k][m] : Filled(k, m, "redis", i))'
  BY <1>0
<1>1. CASE k = c /\ m = d
  <2>1. \A i \in 0 .. n : Filled(c, d, "redis", i) BY DEF CountersFilled
  <2>2. \A i \in 0 .. n + 1 : Filled(c, d, "redis", i)' BY <2>1, FilledUpTo
  <2> QED BY <1>0, <1>1, <2>2
<1>2. CASE ~ (k = c /\ m = d)
  <2>1. shared'[k][m] = shared[k][m] BY <1>2, IncreasedOnly
  <2> SUFFICES ASSUME NEW i \in 0 .. shared[k][m] PROVE Filled(k, m, "redis", i)'
    BY <2>1
  <2>2. Filled(k, m, "redis", i) BY DEF CountersFilled
  <2>3. i \in Nat OBVIOUS
  <2> QED BY <2>2, <2>3, FilledStays
<1> QED BY <1>1, <1>2

LEMMA IncrementFills ==
    ASSUME IsFiniteSet(Requests), TypeOK, TypeOK', Kept, CountersFilled,
           NEW r \in Requests, Increment(r)
    PROVE  CountersFilled'
<1>1. PICK c \in Keys, d \in Minutes : c = key[r] /\ d = minute[r] BY RequestTyped
<1>2. PICK n \in Nat : n = shared[c][d] BY <1>1 DEF TypeOK
<1>3. /\ stage[r] # "charged" /\ stage'[r] = "charged"
      /\ key'[r] = c /\ minute'[r] = d /\ store'[r] = "redis" /\ ticket'[r] = n + 1
  BY <1>1, <1>2 DEF Increment, Charge, TypeOK
<1>4. Filled(c, d, "redis", n)
  <2>1. n \in 0 .. shared[c][d] BY <1>2
  <2> QED BY <2>1 DEF CountersFilled
<1>5. Filled(c, d, "redis", n + 1)' BY <1>3, <1>4, FilledByDraw
<1>6. shared' = Increased(r) /\ local' = local BY DEF Increment
<1>7. /\ (\A k \in Keys, m \in Minutes : \A i \in 0 .. shared[k][m] : Filled(k, m, "redis", i))'
      /\ shared'[c][d] = n + 1
  BY <1>1, <1>2, <1>5, <1>6, SharedGrows
<1>8. ASSUME NEW q \in Requests, stage'[q] = "charged"
      PROVE  (\A i \in 0 .. ticket[q] : Filled(key[q], minute[q], store[q], i))'
  <2>1. CASE q = r BY <1>3, <1>7, <2>1
  <2>2. CASE q # r
    <3>1. stage[q] = "charged" BY <1>8, <2>2 DEF Increment, Charge, TypeOK
    <3> QED BY <3>1, TicketsStay
  <2> QED BY <2>1, <2>2
<1>9. ASSUME NEW s \in Servers, NEW k \in Keys, local'[s][k].tracked
      PROVE  (\A i \in 0 .. local[s][k].count : Filled(k, local[s][k].window, s, i))'
  BY <1>6, <1>9, BucketsStay
<1> QED BY <1>7, <1>8, <1>9 DEF CountersFilled

(* Every step that charges nobody and counts nothing in memory.            *)
LEMMA OthersStay ==
    ASSUME IsFiniteSet(Requests), TypeOK, Kept, CountersFilled, local' = local,
           \A q \in Requests : stage'[q] = "charged" => stage[q] = "charged"
    PROVE  /\ (\A s \in Servers, k \in Keys : local[s][k].tracked =>
                  \A n \in 0 .. local[s][k].count : Filled(k, local[s][k].window, s, n))'
           /\ (\A q \in Requests : stage[q] = "charged" =>
                  \A n \in 0 .. ticket[q] : Filled(key[q], minute[q], store[q], n))'
<1>1. ASSUME NEW s \in Servers, NEW k \in Keys, local'[s][k].tracked
      PROVE  (\A i \in 0 .. local[s][k].count : Filled(k, local[s][k].window, s, i))'
  BY <1>1, BucketsStay
<1>2. ASSUME NEW q \in Requests, stage'[q] = "charged"
      PROVE  (\A i \in 0 .. ticket[q] : Filled(key[q], minute[q], store[q], i))'
  BY <1>2, TicketsStay
<1> QED BY <1>1, <1>2

LEMMA LossFills ==
    ASSUME IsFiniteSet(Requests), TypeOK, TypeOK', Kept, CountersFilled,
           NEW r \in Requests, IncrementFails(r)
    PROVE  CountersFilled'
<1>1. local' = local /\ \A q \in Requests : stage'[q] = "charged" => stage[q] = "charged"
  BY DEF IncrementFails, TypeOK
<1>2. CASE UNCHANGED shared BY <1>1, <1>2, SharedStays, OthersStay DEF CountersFilled
<1>3. CASE lost' = lost + 1 /\ shared' = Increased(r)
  <2>1. PICK c \in Keys, d \in Minutes : c = key[r] /\ d = minute[r] BY RequestTyped
  <2>2. PICK n \in Nat : n = shared[c][d] BY <2>1 DEF TypeOK
  <2>3. Filled(c, d, "redis", n)
    <3>1. n \in 0 .. shared[c][d] BY <2>2
    <3> QED BY <3>1 DEF CountersFilled
  <2>4. Filled(c, d, "redis", n + 1)' BY <1>3, <2>3, FilledByLoss
  <2>5. (\A k \in Keys, m \in Minutes : \A i \in 0 .. shared[k][m] : Filled(k, m, "redis", i))'
    BY <1>3, <2>1, <2>2, <2>4, SharedGrows
  <2> QED BY <1>1, <2>5, OthersStay DEF CountersFilled
<1> QED BY <1>2, <1>3 DEF IncrementFails

LEMMA LocalFills ==
    ASSUME IsFiniteSet(Requests), TypeOK, TypeOK', Kept, CountersFilled,
           NEW r \in Requests, IncrementLocal(r)
    PROVE  CountersFilled'
<1>1. PICK c \in Keys, s \in Servers : c = key[r] /\ s = server[r] BY RequestTyped
<1>2. PICK n \in Nat : n = Standing(s, c, now) BY StandingTyped DEF TypeOK
<1>3. PICK d \in Minutes : d = now BY DEF TypeOK
<1>4. /\ stage[r] # "charged" /\ stage'[r] = "charged"
      /\ key'[r] = c /\ minute'[r] = d /\ store'[r] = s /\ ticket'[r] = n + 1
  BY <1>1, <1>2, <1>3 DEF IncrementLocal, CountLocally, Charge, TypeOK
<1>5. local'[s] = [k \in Keys |-> IF k = c THEN Bucket(d, n + 1)
                                  ELSE IF Swept(s, k, d) THEN NoBucket ELSE local[s][k]]
  BY <1>1, <1>2, <1>3 DEF IncrementLocal, CountLocally, TypeOK
<1>6. \A p \in Servers \ {s} : local'[p] = local[p]
  BY <1>1 DEF IncrementLocal, CountLocally, TypeOK
<1>7. \A i \in 0 .. n : Filled(c, d, s, i)
  <2>1. CASE n = 0
    <3>1. Filled(c, d, s, 0)
      <4>1. Cardinality(Drawn(c, d, s, 0)) \in Nat /\ lost \in Nat
        BY DrawnFinite, BoundsAssumption DEF TypeOK
      <4> QED BY <4>1 DEF Filled
    <3>2. \A i \in 0 .. n : i = 0 BY <2>1
    <3> HIDE DEF Filled
    <3> QED BY <3>1, <3>2
  <2>2. CASE n # 0
    <3>1. local[s][c].tracked /\ local[s][c].window = d /\ n = local[s][c].count
      BY <1>2, <1>3, <2>2 DEF Standing
    <3> QED BY <3>1 DEF CountersFilled
  <2> QED BY <2>1, <2>2
<1>8. \A i \in 0 .. n + 1 : Filled(c, d, s, i)'
  <2>1. Filled(c, d, s, n) BY <1>7
  <2>2. Filled(c, d, s, n + 1)' BY <1>4, <2>1, FilledByDraw
  <2> QED BY <1>7, <2>2, FilledUpTo
<1>9. ASSUME NEW q \in Requests, stage'[q] = "charged"
      PROVE  (\A i \in 0 .. ticket[q] : Filled(key[q], minute[q], store[q], i))'
  <2>1. CASE q = r BY <1>4, <1>8, <2>1
  <2>2. CASE q # r
    <3>1. stage[q] = "charged" BY <1>9, <2>2 DEF IncrementLocal, CountLocally, Charge, TypeOK
    <3> QED BY <3>1, TicketsStay
  <2> QED BY <2>1, <2>2
<1>10. ASSUME NEW p \in Servers, NEW k \in Keys, local'[p][k].tracked
       PROVE  (\A i \in 0 .. local[p][k].count : Filled(k, local[p][k].window, p, i))'
  <2>1. CASE p = s /\ k = c
    <3>1. local'[p][k] = Bucket(d, n + 1) BY <1>5, <2>1
    <3>2. local'[p][k].window = d /\ local'[p][k].count = n + 1 BY <3>1 DEF Bucket
    <3> QED BY <1>8, <2>1, <3>2
  <2>2. CASE ~ (p = s /\ k = c)
    <3>1. local'[p][k] = local[p][k] BY <1>5, <1>6, <1>10, <2>2 DEF NoBucket
    <3> QED BY <1>10, <3>1, BucketsStay
  <2> QED BY <2>1, <2>2
<1>11. (\A k \in Keys, m \in Minutes : \A i \in 0 .. shared[k][m] : Filled(k, m, "redis", i))'
  <2>1. UNCHANGED shared BY DEF IncrementLocal, CountLocally
  <2> QED BY <2>1, SharedStays
<1> QED BY <1>9, <1>10, <1>11 DEF CountersFilled

LEMMA CountersFilledStep ==
    ASSUME IsFiniteSet(Requests), TypeOK, TypeOK', CountersFilled, [Next]_vars
    PROVE  CountersFilled'
<1>0. Kept BY EveryStepKeeps
<1>1. ASSUME local' = local, shared' = shared, \A q \in Requests : stage'[q] = "charged" => stage[q] = "charged"
      PROVE  CountersFilled'
  BY <1>0, <1>1, SharedStays, OthersStay DEF CountersFilled
<1>2. CASE UNCHANGED vars BY <1>1, <1>2 DEF vars
<1>3. CASE Tick BY <1>1, <1>3 DEF Tick
<1>4. ASSUME NEW r \in Requests, NameCounter(r) PROVE CountersFilled'
  <2>1. \A q \in Requests : stage'[q] = "charged" => stage[q] = "charged"
    BY <1>4 DEF NameCounter, TypeOK
  <2> QED BY <1>1, <1>4, <2>1 DEF NameCounter
<1> QED BY <1>0, <1>2, <1>3, <1>4, IncrementFills, LossFills, LocalFills DEF Next

(* Nobody is refused early: a counter that refuses has let in as many as   *)
(* the limit says, except for those whose tickets were lost, however calls *)
(* fail over and buckets are swept.                                        *)
THEOREM RefusalsAreDue == ASSUME IsFiniteSet(Requests) PROVE Spec => []RefusedAtLimit
<1>1. ASSUME TypeOK, CountersFilled PROVE RefusedAtLimit
  <2> SUFFICES ASSUME NEW r \in Requests, Refused(r)
               PROVE  Cardinality({q \in LetInFor(key[r], minute[r]) : store[q] = store[r]})
                        + lost >= Limit
    BY DEF RefusedAtLimit
  <2>1. ticket[r] \in Nat /\ ticket[r] > Limit /\ stage[r] = "charged"
    BY <1>1, LimitAssumption DEF Refused, LetIn, TypeOK
  <2>2. Limit \in 0 .. ticket[r] BY <2>1, LimitAssumption
  <2>3. Filled(key[r], minute[r], store[r], Limit) BY <1>1, <2>1, <2>2 DEF CountersFilled
  <2>4. Drawn(key[r], minute[r], store[r], Limit)
          = {q \in LetInFor(key[r], minute[r]) : store[q] = store[r]}
    BY DEF Drawn, LetInFor, LetIn
  <2> QED BY <2>3, <2>4 DEF Filled
<1>2. CountersFilled /\ TypeOK /\ TypeOK' /\ [Next]_vars => CountersFilled'
  BY CountersFilledStep
<1>3. Init => CountersFilled BY FilledInit
<1> QED BY <1>1, <1>2, <1>3, LimiterTypeCorrect, PTL DEF Spec

=============================================================================
