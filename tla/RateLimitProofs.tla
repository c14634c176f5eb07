-------------------------- MODULE RateLimitProofs ---------------------------
(***************************************************************************)
(* Proofs about RateLimit, for every set of addresses, proxies, paths and  *)
(* forged headers, and all quotas.                                         *)
(***************************************************************************)
EXTENDS RateLimit, TLAPS, FiniteSetTheorems, WellFoundedInduction

-----------------------------------------------------------------------------
(***************************************************************************)
(* The walk over the forwarding header.                                    *)
(***************************************************************************)

\* A non-empty set of positions has a greatest one.
LEMMA MaxExists ==
    ASSUME NEW n \in Nat, NEW S, S \subseteq 1 .. n, S # {}
    PROVE  \E m \in S : \A i \in S : m >= i
  <1> DEFINE T == {n - i : i \in S}
  <1>0. \A i \in S : i \in Int /\ 1 <= i /\ i <= n
    OBVIOUS
  <1>1. T \subseteq Nat /\ T # {}
    <2>1. \A i \in S : n - i \in Nat
      BY <1>0
    <2> QED
      BY <2>1
  <1>2. PICK x \in T : \A y \in T : ~ (<<y, x>> \in OpToRel(<, Nat))
    BY <1>1, NatLessThanWellFounded, WFMin
  <1>3. \A y \in T : ~ (y < x)
    BY <1>1, <1>2 DEF OpToRel
  <1>4. PICK m \in S : x = n - m
    OBVIOUS
  <1>5. ASSUME NEW i \in S PROVE m >= i
    <2>1. ~ (n - i < n - m)
      BY <1>3, <1>4
    <2> QED
      BY <2>1, <1>0
  <1> QED
    BY <1>5

\* Max returns it, and nothing else will do.
LEMMA MaxIsGreatest ==
    ASSUME NEW n \in Nat, NEW S, S \subseteq 1 .. n, S # {}
    PROVE  /\ Max(S) \in S
           /\ \A i \in S : Max(S) >= i
           /\ \A m \in S : (\A i \in S : m >= i) => m = Max(S)
  <1> DEFINE top == Max(S)
  <1>1. top \in S /\ \A i \in S : top >= i
    BY MaxExists DEF Max
  <1> HIDE DEF top
  <1>2. \A i \in S : i \in Int
    OBVIOUS
  <1>3. ASSUME NEW m \in S, \A i \in S : m >= i PROVE m = top
    BY <1>1, <1>2, <1>3
  <1> QED
    BY <1>1, <1>3 DEF top

\* What the header holds: the forgery, then the path without its last hop.
LEMMA HeaderPositions ==
    ASSUME NEW p \in Paths, NEW f \in Forgeries
    PROVE  /\ Len(p) \in Nat /\ Len(p) >= 1 /\ Len(f) \in Nat
           /\ DOMAIN p = 1 .. Len(p)
           /\ \A i \in 1 .. Len(p) : p[i] \in Addresses
           /\ p[1] \notin Trusted
           /\ DOMAIN HeaderOf(p, f) = 1 .. Len(f) + Len(p) - 1
           /\ \A i \in 1 .. Len(p) - 1 : HeaderOf(p, f)[Len(f) + i] = p[i]
           /\ DOMAIN f = 1 .. Len(f)
           /\ \A i \in 1 .. Len(f) : HeaderOf(p, f)[i] = f[i]
  <1>1. p \in Seq(Addresses) /\ p # << >> /\ Head(p) \notin Trusted
    BY RateAssumption
  <1>2. f \in Seq(Addresses \cup {Garbage, Unreadable})
    BY RateAssumption
  <1>3. Len(p) \in Nat /\ Len(p) >= 1 /\ DOMAIN p = 1 .. Len(p) /\ p[1] = Head(p)
    BY <1>1
  <1>4. \A i \in 1 .. Len(p) : p[i] \in Addresses
    BY <1>1, <1>3
  <1> DEFINE q == SubSeq(p, 1, Len(p) - 1)
  <1>5. /\ q \in Seq(Addresses) /\ Len(q) = Len(p) - 1
        /\ \A i \in 1 .. Len(p) - 1 : q[i] = p[i]
    BY <1>1, <1>3
  <1> HIDE DEF q
  <1>6. /\ q \in Seq(Addresses \cup {Garbage, Unreadable})
        /\ Len(f) \in Nat /\ DOMAIN f = 1 .. Len(f)
    BY <1>5, <1>2
  <1>7. DOMAIN (f \o q) = 1 .. Len(f) + Len(q)
    BY <1>2, <1>6
  <1>8. /\ \A i \in 1 .. Len(q) : (f \o q)[Len(f) + i] = q[i]
        /\ \A i \in 1 .. Len(f) : (f \o q)[i] = f[i]
    BY <1>2, <1>6
  <1>9. HeaderOf(p, f) = f \o q
    BY DEF HeaderOf, q
  <1>10. Len(f) + Len(q) = Len(f) + Len(p) - 1
    BY <1>3, <1>5, <1>6
  <1> QED
    BY <1>1, <1>3, <1>4, <1>5, <1>6, <1>7, <1>8, <1>9, <1>10

\* The limit is keyed on the caller: whatever readable text the caller writes
\* into the header, the walk finds the nearest hop of the real path that is not
\* trusted.
LEMMA KeyIsCaller ==
    ASSUME NEW p \in Paths, NEW f \in Forgeries, Readable(f)
    PROVE  /\ ClientIp(PeerOf(p), HeaderOf(p, f)) = Caller(p)
           /\ Caller(p) \in Addresses
  <1> DEFINE n == Len(p)
             h == HeaderOf(p, f)
             U == Untrusted(p)
             V == Untrusted(h)
             top == Max(U)
  <1>1. /\ n \in Nat /\ n >= 1 /\ Len(f) \in Nat
        /\ DOMAIN p = 1 .. n
        /\ \A i \in 1 .. n : p[i] \in Addresses
        /\ p[1] \notin Trusted
        /\ DOMAIN h = 1 .. Len(f) + n - 1
        /\ \A i \in 1 .. n - 1 : h[Len(f) + i] = p[i]
        /\ DOMAIN f = 1 .. Len(f)
        /\ \A i \in 1 .. Len(f) : h[i] = f[i]
    BY HeaderPositions
  <1>2. U \subseteq 1 .. n /\ 1 \in U
    BY <1>1 DEF Untrusted
  <1>3. top \in U /\ \A i \in U : top >= i
    BY <1>1, <1>2, MaxIsGreatest
  <1>4. Caller(p) = p[top] /\ p[top] \in Addresses /\ p[top] \notin Trusted
    BY <1>1, <1>3 DEF Caller, Untrusted
  <1>5. PeerOf(p) = p[n]
    BY DEF PeerOf
  <1> HIDE DEF top, n, h
  <1>6. CASE p[n] \notin Trusted
    <2>1. n \in U
      BY <1>1, <1>6 DEF Untrusted
    <2>2. top = n
      BY <1>1, <1>2, <1>3, <2>1
    <2> QED
      BY <1>4, <1>5, <1>6, <2>2 DEF ClientIp, h
  <1>7. CASE p[n] \in Trusted
    <2>1. top \in 1 .. n - 1
      BY <1>1, <1>2, <1>3, <1>4, <1>7
    <2> DEFINE j == Len(f) + top
    <2>2. j \in 1 .. Len(f) + n - 1
      BY <1>1, <2>1
    <2>3. h[j] = p[top] /\ j \in V
      BY <1>1, <1>4, <2>1, <2>2 DEF Untrusted
    <2>4. ASSUME NEW i \in V PROVE j >= i
      <3>1. i \in 1 .. Len(f) + n - 1 /\ h[i] \in Addresses \ Trusted
        BY <1>1 DEF Untrusted
      <3>2. CASE i <= Len(f)
        BY <3>1, <3>2, <1>1, <2>1
      <3>3. CASE i > Len(f)
        <4>1. i - Len(f) \in 1 .. n - 1 /\ Len(f) + (i - Len(f)) = i
          BY <3>1, <3>3, <1>1
        <4>2. h[i] = p[i - Len(f)]
          BY <4>1, <1>1
        <4>3. i - Len(f) \in U
          BY <4>1, <4>2, <3>1, <1>1 DEF Untrusted
        <4>4. top >= i - Len(f)
          BY <4>3, <1>3
        <4> QED
          BY <4>1, <4>4, <3>1, <1>1, <2>1
      <3> QED
        BY <3>1, <3>2, <3>3, <1>1
    <2>5. V \subseteq 1 .. Len(f) + n - 1 /\ V # {} /\ Len(f) + n - 1 \in Nat
      BY <1>1, <2>3 DEF Untrusted
    <2>6. j = Max(V)
      BY <2>3, <2>4, <2>5, MaxIsGreatest
    <2>7. Readable(h)
      <3>1. ASSUME NEW i \in DOMAIN h PROVE h[i] # Unreadable
        <4>1. CASE i <= Len(f)
          <5>1. i \in 1 .. Len(f)
            BY <3>1, <4>1, <1>1
          <5> QED
            BY <5>1, <1>1 DEF Readable
        <4>2. CASE i > Len(f)
          <5>1. i - Len(f) \in 1 .. n - 1 /\ Len(f) + (i - Len(f)) = i
            BY <3>1, <4>2, <1>1
          <5>2. h[i] = p[i - Len(f)] /\ i - Len(f) \in 1 .. n
            BY <5>1, <1>1
          <5>3. h[i] \in Addresses
            BY <5>2, <1>1
          <5> QED
            BY <5>3, RateAssumption
        <4>3. i \in Int /\ Len(f) \in Int
          BY <3>1, <1>1
        <4> QED
          BY <4>1, <4>2, <4>3
      <3> QED
        BY <3>1 DEF Readable
    <2>8. ClientIp(p[n], h) = h[Max(V)]
      BY <1>7, <2>5, <2>7 DEF ClientIp
    <2> QED
      BY <1>4, <1>5, <2>3, <2>6, <2>8 DEF h
  <1> QED
    BY <1>4, <1>6, <1>7

\* An unreadable header is no header: the peer is charged.
LEMMA KeyIsPeer ==
    ASSUME NEW p \in Paths, NEW f \in Forgeries, ~ Readable(f)
    PROVE  /\ ClientIp(PeerOf(p), HeaderOf(p, f)) = PeerOf(p)
           /\ PeerOf(p) \in Addresses
  <1>1. /\ Len(p) \in Nat /\ Len(p) >= 1 /\ Len(f) \in Nat
        /\ \A i \in 1 .. Len(p) : p[i] \in Addresses
        /\ DOMAIN HeaderOf(p, f) = 1 .. Len(f) + Len(p) - 1
        /\ DOMAIN f = 1 .. Len(f)
        /\ \A i \in 1 .. Len(f) : HeaderOf(p, f)[i] = f[i]
    BY HeaderPositions
  <1>2. PICK i \in DOMAIN f : f[i] = Unreadable
    BY DEF Readable
  <1>3. i \in DOMAIN HeaderOf(p, f) /\ HeaderOf(p, f)[i] = Unreadable
    BY <1>1, <1>2
  <1>4. ~ Readable(HeaderOf(p, f))
    BY <1>3 DEF Readable
  <1>5. PeerOf(p) \in Addresses
    BY <1>1 DEF PeerOf
  <1> QED
    BY <1>4, <1>5 DEF ClientIp

\* So every request is keyed on its account.
LEMMA RequestKey ==
    ASSUME NEW r \in Requests
    PROVE  r.key = r.account /\ r.key \in Addresses
  <1>1. PICK p \in Paths, f \in Forgeries :
            r = [key |-> ClientIp(PeerOf(p), HeaderOf(p, f)), who |-> Caller(p),
                 account |-> Account(p, f)]
    BY DEF Requests
  <1> QED
    BY <1>1, KeyIsCaller, KeyIsPeer DEF Account

-----------------------------------------------------------------------------
(***************************************************************************)
(* The ledger.                                                             *)
(***************************************************************************)

\* What a bucket is worth now: its tokens and the refill up to this moment.
Worth(l, k) == tokens[l][k] + age[l][k] * Capacity[l]

\* Spent and spendable add up to the quota and at most Lag ticks more: a late
\* check spends the refill up to its reading, and the rest is still to come.  A
\* quota alone does not tell a bucket that was evicted too early from one that
\* had filled up.
LedgerBalances ==
    \A l \in Limiters, k \in Addresses :
        /\ meter[l][k] > 0 =>
               /\ k \in tracked[l]
               /\ meter[l][k] + Worth(l, k) <= Full(l) + Lag * Capacity[l]
        /\ k \in tracked[l] => meter[l][k] + Worth(l, k) >= Full(l)

\* The inductive invariant.
RateInv == RateTypeOK /\ BucketsBounded /\ LedgerBalances

LEMMA Products ==
    ASSUME NEW a \in Nat, NEW b \in Nat, NEW c \in Nat
    PROVE  /\ a * c \in Nat
           /\ (a + 1) * c = a * c + c
           /\ (a + b) * c = a * c + b * c
           /\ a >= b => a * c >= c * b /\ a * c >= b * c
           /\ a >= b => (a - b) * c = a * c - b * c
           /\ a >= 1 => a * c >= c
           /\ a = 0 => a * c = 0
           /\ a * c = c * a
  OBVIOUS

LEMMA QuotaType ==
    ASSUME NEW l \in Limiters
    PROVE  /\ Capacity[l] \in Nat /\ Capacity[l] >= 1
           /\ Period \in Nat /\ Period >= 1
           /\ Full(l) \in Nat /\ Full(l) >= Period
           /\ Lag \in Nat /\ Lag * Capacity[l] \in Nat
           /\ IdleEviction \in Nat /\ Oldest \in Nat /\ MaxBuckets \in Nat
           /\ Oldest = IdleEviction + Lag
           /\ IdleEviction * Capacity[l] >= Full(l) + Lag * Capacity[l]
  <1>1. /\ Capacity[l] \in Nat /\ Capacity[l] >= 1
        /\ Period \in Nat /\ Period >= 1
        /\ IdleEviction \in Nat /\ IdleEviction >= Period + Lag
        /\ MaxBuckets \in Nat /\ Lag \in Nat
    BY RateAssumption
  <1>2. Capacity[l] * Period \in Nat /\ Capacity[l] * Period >= Period
    BY <1>1, Products
  <1>3. IdleEviction * Capacity[l] >= (Period + Lag) * Capacity[l]
    BY <1>1, Products
  <1>4. (Period + Lag) * Capacity[l] = Capacity[l] * Period + Lag * Capacity[l]
    BY <1>1, Products
  <1>5. Lag * Capacity[l] \in Nat
    BY <1>1, Products
  <1> QED
    BY <1>1, <1>2, <1>3, <1>4, <1>5 DEF Full, Oldest

\* A bucket's values.
LEMMA BucketType ==
    ASSUME RateTypeOK, NEW l \in Limiters, NEW k \in Addresses
    PROVE  /\ tokens[l][k] \in Nat /\ tokens[l][k] <= Full(l)
           /\ age[l][k] \in Nat /\ age[l][k] <= Oldest
           /\ age[l][k] * Capacity[l] \in Nat
           /\ meter[l][k] \in Nat
           /\ Worth(l, k) \in Nat
           /\ Worth(l, k) = tokens[l][k] + age[l][k] * Capacity[l]
  <1>1. /\ tokens[l][k] \in Nat /\ tokens[l][k] <= Full(l)
        /\ age[l][k] \in Nat /\ age[l][k] <= Oldest
        /\ meter[l][k] \in Nat
    BY QuotaType DEF RateTypeOK
  <1>2. age[l][k] * Capacity[l] \in Nat
    BY <1>1, QuotaType, Products
  <1> QED
    BY <1>1, <1>2 DEF Worth

\* The time a late check counts, in tokens, and the time it sets the bucket's
\* clock back.
LEMMA ElapsedType ==
    ASSUME RateTypeOK, NEW l \in Limiters, NEW k \in Addresses, NEW late \in 0..Lag
    PROVE  LET gain == Elapsed(l, k, late) * Capacity[l]
               lost == late * Capacity[l]
               grown == age[l][k] * Capacity[l]
               back == SetBack(l, k, late) * Capacity[l]
           IN  /\ Elapsed(l, k, late) \in Nat /\ SetBack(l, k, late) \in Nat
               /\ gain \in Nat /\ lost \in Nat /\ grown \in Nat /\ back \in Nat
               /\ lost <= Lag * Capacity[l]
               /\ \/ gain = grown - lost /\ back = 0
                  \/ /\ gain = 0 /\ grown <= lost
                     /\ k \in Kept(l, late) => back = lost - grown
               /\ k \notin Kept(l, late) => back = 0
               /\ Refilled(l, k, late) =
                      IF tokens[l][k] + gain > Full(l) THEN Full(l)
                      ELSE tokens[l][k] + gain
               /\ Refilled(l, k, late) \in Nat /\ Refilled(l, k, late) <= Full(l)
  <1> DEFINE c == Capacity[l]
             a == age[l][k]
             e == Elapsed(l, k, late)
             b == SetBack(l, k, late)
  <1>1. /\ c \in Nat /\ a \in Nat /\ late \in Nat /\ late <= Lag /\ Lag \in Nat
        /\ tokens[l][k] \in Nat /\ Full(l) \in Nat
    BY QuotaType, BucketType
  <1>2. e = IF a > late THEN a - late ELSE 0
    BY DEF Elapsed
  <1>3. b = IF k \in Kept(l, late) /\ late > a THEN late - a ELSE 0
    BY DEF SetBack
  <1>4. Refilled(l, k, late) = IF tokens[l][k] + e * c > Full(l) THEN Full(l)
                               ELSE tokens[l][k] + e * c
    BY DEF Refilled
  <1> HIDE DEF c, a, e, b
  <1>5. e \in Nat /\ b \in Nat
    BY <1>1, <1>2, <1>3
  <1>6. e * c \in Nat /\ b * c \in Nat /\ late * c \in Nat /\ a * c \in Nat
    BY <1>1, <1>5, Products
  <1>7. late * c <= Lag * c
    BY <1>1, Products
  <1>8. CASE a > late
    <2>1. e = a - late /\ b = 0
      BY <1>1, <1>2, <1>3, <1>8
    <2>2. e * c = a * c - late * c /\ b * c = 0
      BY <1>1, <1>8, <2>1, Products
    <2> QED
      BY <1>1, <1>4, <1>5, <1>6, <1>7, <2>2 DEF c, a, e, b
  <1>9. CASE a <= late
    <2>1. e = 0 /\ (k \in Kept(l, late) => b = late - a)
          /\ (k \notin Kept(l, late) => b = 0)
      BY <1>1, <1>2, <1>3, <1>9
    <2>2. e * c = 0 /\ a * c <= late * c
      BY <1>1, <1>9, <2>1, Products
    <2>3. k \in Kept(l, late) => b * c = late * c - a * c
      BY <1>1, <1>9, <2>1, Products
    <2>4. k \notin Kept(l, late) => b * c = 0
      BY <1>1, <2>1, Products
    <2> QED
      BY <1>1, <1>4, <1>5, <1>6, <1>7, <2>2, <2>3, <2>4 DEF c, a, e, b
  <1> QED
    BY <1>1, <1>8, <1>9

\* Eviction loses nobody anything: an account whose bucket is evicted, or that
\* has none, owes nothing.
LEMMA EvictionIsFair ==
    ASSUME RateInv, NEW l \in Limiters, NEW k \in Addresses, NEW late \in 0..Lag,
           k \notin Kept(l, late)
    PROVE  meter[l][k] = 0
  <1> DEFINE c == Capacity[l]
             a == age[l][k]
  <1>1. /\ meter[l][k] \in Nat /\ a \in Nat /\ a * c \in Nat /\ Worth(l, k) \in Nat
        /\ Worth(l, k) >= a * c
    BY BucketType DEF RateInv
  <1>2. meter[l][k] > 0 => /\ k \in tracked[l]
                           /\ meter[l][k] + Worth(l, k) <= Full(l) + Lag * c
    BY DEF RateInv, LedgerBalances
  <1>3. ASSUME k \in tracked[l] PROVE a * c >= Full(l) + Lag * c
    <2>1. ~ (Elapsed(l, k, late) < IdleEviction)
      BY <1>3 DEF Kept
    <2>2. a >= IdleEviction
      BY <2>1, <1>1, QuotaType DEF Elapsed
    <2>3. a * c >= IdleEviction * c
      BY <2>2, <1>1, QuotaType, Products
    <2>4. IdleEviction * c >= Full(l) + Lag * c /\ IdleEviction * c \in Nat
      BY QuotaType, Products
    <2>5. Full(l) \in Nat /\ Lag * c \in Nat
      BY QuotaType
    <2> QED
      BY <2>3, <2>4, <2>5, <1>1
  <1>4. Full(l) \in Nat /\ Lag * c \in Nat
    BY QuotaType
  <1> QED
    BY <1>1, <1>2, <1>3, <1>4

\* An admission costs a request, and only what is there can be spent.
LEMMA LeftType ==
    ASSUME RateTypeOK, NEW l \in Limiters, NEW k \in Addresses, NEW late \in 0..Lag
    PROVE  Left(l, k, late) \in Nat /\ Left(l, k, late) <= Full(l)
  <1>1. Refilled(l, k, late) \in Nat /\ Refilled(l, k, late) <= Full(l)
    BY ElapsedType
  <1>2. Full(l) \in Nat /\ Period \in Nat /\ Full(l) >= Period
    BY QuotaType
  <1>3. CASE k \in Kept(l, late)
    BY <1>1, <1>2, <1>3 DEF Left, Admits
  <1>4. CASE k \notin Kept(l, late)
    BY <1>2, <1>4 DEF Left
  <1> QED
    BY <1>3, <1>4

\* The type invariant without the requests under way.
BucketsOK ==
    /\ tracked \in [Limiters -> SUBSET Addresses]
    /\ tokens \in [Limiters -> [Addresses -> Nat]]
    /\ age \in [Limiters -> [Addresses -> 0..Oldest]]
    /\ meter \in [Limiters -> [Addresses -> Nat]]
    /\ \A l \in Limiters, k \in Addresses :
           /\ tokens[l][k] <= Full(l)
           /\ k \notin tracked[l] => tokens[l][k] = 0 /\ age[l][k] = 0

\* The buckets of the limiter that checks request r, one by one.
LEMMA CheckPointwise ==
    ASSUME RateInv, NEW m \in Limiters, NEW r \in Requests,
           NEW late \in 0..Lag, Check(m, r, late),
           NEW l \in Limiters, NEW x \in Addresses
    PROVE  IF l = m THEN
             /\ x \in tracked'[l] <=>
                    x \in Kept(l, late) \/ (x = r.key /\ Admits(l, r.key, late))
             /\ tokens'[l][x] = IF x \notin tracked'[l] THEN 0
                                ELSE IF x = r.key THEN Left(l, x, late)
                                ELSE tokens[l][x]
             /\ age'[l][x] = IF x \notin tracked'[l] THEN 0
                             ELSE IF x = r.key THEN late ELSE age[l][x]
             /\ meter'[l][x] =
                    IF x = r.key
                    THEN Paid(meter[l][x], SetBack(l, x, late) * Capacity[l])
                             + (IF Admits(l, x, late) THEN Period ELSE 0)
                    ELSE meter[l][x]
           ELSE /\ tracked'[l] = tracked[l] /\ tokens'[l][x] = tokens[l][x]
                /\ age'[l][x] = age[l][x] /\ meter'[l][x] = meter[l][x]
  <1>1. r.key = r.account /\ r.key \in Addresses
    BY RequestKey
  <1>2. /\ tracked \in [Limiters -> SUBSET Addresses]
        /\ tokens \in [Limiters -> [Addresses -> Nat]]
        /\ age \in [Limiters -> [Addresses -> 0..Oldest]]
        /\ meter \in [Limiters -> [Addresses -> Nat]]
    BY DEF RateInv, RateTypeOK
  <1> DEFINE held == Kept(m, late) \cup (IF Admits(m, r.key, late) THEN {r.key} ELSE {})
  <1>3. tracked' = [tracked EXCEPT ![m] = held]
    BY DEF Check
  <1>4. tokens' = [tokens EXCEPT ![m] = [k \in Addresses |->
            IF k \notin held THEN 0
            ELSE IF k = r.key THEN Left(m, k, late) ELSE tokens[m][k]]]
    BY DEF Check
  <1>5. age' = [age EXCEPT ![m] = [k \in Addresses |->
            IF k \notin held THEN 0
            ELSE IF k = r.key THEN late ELSE age[m][k]]]
    BY DEF Check
  <1>6. meter' = [meter EXCEPT ![m][r.key] =
            Paid(@, SetBack(m, r.key, late) * Capacity[m])
                + (IF Admits(m, r.key, late) THEN Period ELSE 0)]
    BY <1>1 DEF Check
  <1>7. x \in held <=> x \in Kept(m, late) \/ (x = r.key /\ Admits(m, r.key, late))
    OBVIOUS
  <1> HIDE DEF held
  <1>8. CASE l = m
    <2>1. tracked'[l] = held
      BY <1>2, <1>3, <1>8
    <2>2. tokens'[l][x] = IF x \notin held THEN 0
                          ELSE IF x = r.key THEN Left(m, x, late) ELSE tokens[m][x]
      BY <1>2, <1>4, <1>8
    <2>3. age'[l][x] = IF x \notin held THEN 0
                       ELSE IF x = r.key THEN late ELSE age[m][x]
      BY <1>2, <1>5, <1>8
    <2>4. meter'[l][x] =
              IF x = r.key
              THEN Paid(meter[l][x], SetBack(l, x, late) * Capacity[l])
                       + (IF Admits(l, x, late) THEN Period ELSE 0)
              ELSE meter[l][x]
      BY <1>1, <1>2, <1>6, <1>8
    <2> QED
      BY <1>7, <1>8, <2>1, <2>2, <2>3, <2>4
  <1>9. CASE l # m
    <2>1. tracked'[l] = tracked[l]
      BY <1>2, <1>3, <1>9
    <2>2. tokens'[l][x] = tokens[l][x]
      BY <1>2, <1>4, <1>9
    <2>3. age'[l][x] = age[l][x]
      BY <1>2, <1>5, <1>9
    <2>4. meter'[l][x] = meter[l][x]
      BY <1>1, <1>2, <1>6, <1>9
    <2> QED
      BY <1>9, <2>1, <2>2, <2>3, <2>4
  <1> QED
    BY <1>8, <1>9

\* A check keeps every bucket within its type.
LEMMA CheckTypes ==
    ASSUME RateInv, NEW m \in Limiters, NEW r \in Requests,
           NEW late \in 0..Lag, Check(m, r, late)
    PROVE  BucketsOK'
  <1>1. r.key = r.account /\ r.key \in Addresses
    BY RequestKey
  <1>2. RateTypeOK
    BY DEF RateInv
  <1>3. Kept(m, late) \subseteq Addresses
    BY <1>2 DEF Kept, RateTypeOK
  <1>4. tracked' \in [Limiters -> SUBSET Addresses]
    <2>1. tracked' = [tracked EXCEPT ![m] =
              Kept(m, late) \cup (IF Admits(m, r.key, late) THEN {r.key} ELSE {})]
      BY DEF Check
    <2>2. Kept(m, late) \cup (IF Admits(m, r.key, late) THEN {r.key} ELSE {}) \in SUBSET Addresses
      BY <1>1, <1>3
    <2> QED
      BY <2>1, <2>2, <1>2 DEF RateTypeOK
  <1>5. ASSUME NEW l \in Limiters, NEW x \in Addresses
        PROVE  /\ tokens'[l][x] \in Nat /\ tokens'[l][x] <= Full(l)
               /\ age'[l][x] \in 0..Oldest
               /\ meter'[l][x] \in Nat
               /\ x \notin tracked'[l] => tokens'[l][x] = 0 /\ age'[l][x] = 0
    <2>1. /\ tokens[l][x] \in Nat /\ tokens[l][x] <= Full(l)
          /\ age[l][x] \in 0..Oldest /\ meter[l][x] \in Nat
          /\ x \notin tracked[l] => tokens[l][x] = 0 /\ age[l][x] = 0
      BY <1>2 DEF RateTypeOK
    <2>2. Left(l, x, late) \in Nat /\ Left(l, x, late) <= Full(l)
      BY <1>2, LeftType
    <2>3. /\ Full(l) \in Nat /\ Period \in Nat
          /\ 0 \in 0..Oldest /\ late \in 0..Oldest
      BY QuotaType
    <2>6. Paid(meter[l][x], SetBack(l, x, late) * Capacity[l]) \in Nat
      BY <1>2, <2>1, ElapsedType DEF Paid
    <2>4. CASE l = m
      BY <2>1, <2>2, <2>3, <2>4, <2>6, CheckPointwise
    <2>5. CASE l # m
      BY <2>1, <2>5, CheckPointwise
    <2> QED
      BY <2>4, <2>5
  <1>6. /\ tokens' \in [Limiters -> [Addresses -> Nat]]
        /\ age' \in [Limiters -> [Addresses -> 0..Oldest]]
        /\ meter' \in [Limiters -> [Addresses -> Nat]]
    <2>1. tokens' = [l \in Limiters |-> [x \in Addresses |-> tokens'[l][x]]]
      BY <1>2 DEF Check, RateTypeOK
    <2>2. age' = [l \in Limiters |-> [x \in Addresses |-> age'[l][x]]]
      BY <1>2 DEF Check, RateTypeOK
    <2>3. meter' = [l \in Limiters |-> [x \in Addresses |-> meter'[l][x]]]
      BY <1>1, <1>2 DEF Check, RateTypeOK
    <2>4. tokens' \in [Limiters -> [Addresses -> Nat]]
      BY <2>1, <1>5
    <2>5. age' \in [Limiters -> [Addresses -> 0..Oldest]]
      BY <2>2, <1>5
    <2>6. meter' \in [Limiters -> [Addresses -> Nat]]
      BY <2>3, <1>5
    <2> QED
      BY <2>4, <2>5, <2>6
  <1>7. \A l \in Limiters, k \in Addresses :
            /\ tokens'[l][k] <= Full(l)
            /\ k \notin tracked'[l] => tokens'[l][k] = 0 /\ age'[l][k] = 0
    BY <1>5
  <1> QED
    BY <1>4, <1>6, <1>7 DEF BucketsOK, Full

\* A check keeps the map within its cap: room is found before a bucket is added.
LEMMA CheckBounded ==
    ASSUME RateInv, NEW m \in Limiters, NEW r \in Requests,
           NEW late \in 0..Lag, Check(m, r, late)
    PROVE  BucketsBounded'
  <1>1. /\ tracked \in [Limiters -> SUBSET Addresses]
        /\ \A l \in Limiters : Cardinality(tracked[l]) <= MaxBuckets
    BY DEF RateInv, RateTypeOK, BucketsBounded
  <1>2. IsFiniteSet(Addresses) /\ MaxBuckets \in Nat
    BY RateAssumption
  <1>3. IsFiniteSet(tracked[m]) /\ Kept(m, late) \subseteq tracked[m]
    BY <1>1, <1>2, FS_Subset DEF Kept
  <1>4. /\ IsFiniteSet(Kept(m, late)) /\ Cardinality(Kept(m, late)) \in Nat
        /\ Cardinality(Kept(m, late)) <= MaxBuckets
    <2>1. IsFiniteSet(Kept(m, late)) /\ Cardinality(Kept(m, late)) <= Cardinality(tracked[m])
      BY <1>3, FS_Subset
    <2>2. Cardinality(Kept(m, late)) \in Nat /\ Cardinality(tracked[m]) \in Nat
      BY <2>1, <1>3, FS_CardinalityType
    <2> QED
      BY <2>1, <2>2, <1>1, <1>2
  <1> DEFINE held == Kept(m, late) \cup (IF Admits(m, r.key, late) THEN {r.key} ELSE {})
  <1>5. tracked' = [tracked EXCEPT ![m] = held]
    BY DEF Check
  <1>6. Cardinality(held) <= MaxBuckets
    <2>1. CASE r.key \in Kept(m, late)
      <3>1. held = Kept(m, late)
        BY <2>1
      <3> QED
        BY <3>1, <1>4
    <2>2. CASE r.key \notin Kept(m, late) /\ Admits(m, r.key, late)
      <3>1. held = Kept(m, late) \cup {r.key}
        BY <2>2
      <3>2. Cardinality(Kept(m, late)) < MaxBuckets
        BY <2>2 DEF Admits
      <3>3. Cardinality(Kept(m, late) \cup {r.key}) = Cardinality(Kept(m, late)) + 1
        BY <2>2, <1>4, FS_AddElement
      <3> DEFINE n == Cardinality(Kept(m, late))
      <3>4. n \in Nat /\ n < MaxBuckets /\ Cardinality(held) = n + 1
        BY <3>1, <3>2, <3>3, <1>4
      <3> HIDE DEF n, held
      <3> QED
        BY <3>4, <1>2
    <2>3. CASE ~ Admits(m, r.key, late)
      <3>1. held = Kept(m, late)
        BY <2>3
      <3> QED
        BY <3>1, <1>4
    <2> QED
      BY <2>1, <2>2, <2>3
  <1> HIDE DEF held
  <1>7. ASSUME NEW l \in Limiters PROVE Cardinality(tracked'[l]) <= MaxBuckets
    <2>1. tracked'[l] = IF l = m THEN held ELSE tracked[l]
      BY <1>1, <1>5
    <2> QED
      BY <2>1, <1>1, <1>6
  <1> QED
    BY <1>7 DEF BucketsBounded

\* A check books what it admits, and pays the meter for the time that it makes
\* count twice.
LEMMA CheckLedger ==
    ASSUME RateInv, NEW m \in Limiters, NEW r \in Requests,
           NEW late \in 0..Lag, Check(m, r, late)
    PROVE  LedgerBalances'
  <1>1. RateTypeOK
    BY DEF RateInv
  <1>2. ASSUME NEW l \in Limiters, NEW x \in Addresses
        PROVE  /\ meter'[l][x] > 0 =>
                      /\ x \in tracked'[l]
                      /\ meter'[l][x] + Worth(l, x)' <= Full(l) + Lag * Capacity[l]
               /\ x \in tracked'[l] => meter'[l][x] + Worth(l, x)' >= Full(l)
    <2>1. /\ meter[l][x] > 0 =>
                 /\ x \in tracked[l]
                 /\ meter[l][x] + Worth(l, x) <= Full(l) + Lag * Capacity[l]
          /\ x \in tracked[l] => meter[l][x] + Worth(l, x) >= Full(l)
      BY DEF RateInv, LedgerBalances
    <2>2. /\ Full(l) \in Nat /\ Period \in Nat /\ Full(l) >= Period
          /\ Capacity[l] \in Nat /\ Lag * Capacity[l] \in Nat
      BY QuotaType
    <2>3. Worth(l, x)' = tokens'[l][x] + age'[l][x] * Capacity[l]
      BY DEF Worth
    <2>4. CASE l # m
      <3>1. /\ tracked'[l] = tracked[l] /\ tokens'[l][x] = tokens[l][x]
            /\ age'[l][x] = age[l][x] /\ meter'[l][x] = meter[l][x]
        BY <2>4, CheckPointwise
      <3>2. Worth(l, x)' = Worth(l, x)
        BY <3>1, <2>3 DEF Worth
      <3> QED
        BY <3>1, <3>2, <2>1
    <2>5. CASE l = m /\ x # r.key
      <3>1. /\ x \in tracked'[l] <=> x \in Kept(l, late)
            /\ x \in tracked'[l] => /\ tokens'[l][x] = tokens[l][x]
                                    /\ age'[l][x] = age[l][x]
            /\ meter'[l][x] = meter[l][x]
        BY <2>5, CheckPointwise
      <3>2. CASE x \in Kept(l, late)
        <4>1. x \in tracked[l]
          BY <3>2 DEF Kept
        <4>2. Worth(l, x)' = Worth(l, x)
          BY <3>1, <3>2, <2>3 DEF Worth
        <4> QED
          BY <4>1, <4>2, <3>1, <3>2, <2>1
      <3>3. CASE x \notin Kept(l, late)
        <4>1. meter[l][x] = 0
          BY <3>3, EvictionIsFair
        <4> QED
          BY <4>1, <3>1, <3>3
      <3> QED
        BY <3>2, <3>3
    <2>6. CASE l = m /\ x = r.key
      <3> DEFINE gain == Elapsed(l, x, late) * Capacity[l]
                 lost == late * Capacity[l]
                 grown == age[l][x] * Capacity[l]
                 back == SetBack(l, x, late) * Capacity[l]
                 full == Full(l)
                 slack == Lag * Capacity[l]
                 had == tokens[l][x]
                 owed == meter[l][x]
                 has == tokens'[l][x]
                 owes == meter'[l][x]
                 admitted == Admits(l, x, late)
      <3>1. /\ x \in tracked'[l] <=> x \in Kept(l, late) \/ admitted
            /\ x \in tracked'[l] => has = Left(l, x, late) /\ age'[l][x] = late
            /\ owes = Paid(owed, back) + (IF admitted THEN Period ELSE 0)
        BY <2>6, CheckPointwise
      <3>2. /\ gain \in Nat /\ lost \in Nat /\ grown \in Nat /\ back \in Nat
            /\ lost <= slack
            /\ \/ gain = grown - lost /\ back = 0
               \/ /\ gain = 0 /\ grown <= lost
                  /\ x \in Kept(l, late) => back = lost - grown
            /\ x \notin Kept(l, late) => back = 0
            /\ Refilled(l, x, late) = IF had + gain > full THEN full ELSE had + gain
        BY <1>1, ElapsedType
      <3>3. /\ had \in Nat /\ had <= full /\ owed \in Nat
            /\ Worth(l, x) = had + grown
        BY <1>1, BucketType
      <3>4. x \in tracked'[l] => Worth(l, x)' = has + lost
        BY <2>3, <3>1
      <3>5. CASE x \in Kept(l, late)
        <4>1. /\ has = (IF had + gain > full THEN full ELSE had + gain)
                           - (IF admitted THEN Period ELSE 0)
              /\ x \in tracked'[l]
          BY <3>1, <3>2, <3>5 DEF Left
        <4>2. x \in tracked[l]
          BY <3>5 DEF Kept
        <4>3. /\ owed > 0 => owed + had + grown <= full + slack
              /\ owed + had + grown >= full
          BY <4>2, <3>2, <3>3, <2>1, <2>2
        <4>4. owes = (IF owed > back THEN owed - back ELSE 0)
                         + (IF admitted THEN Period ELSE 0)
          BY <3>1 DEF Paid
        <4>5. \/ gain = grown - lost /\ back = 0
              \/ gain = 0 /\ grown <= lost /\ back = lost - grown
          BY <3>2, <3>5
        <4>6. /\ full \in Nat /\ slack \in Nat /\ Period \in Nat
              /\ gain \in Nat /\ lost \in Nat /\ grown \in Nat /\ back \in Nat
              /\ lost <= slack /\ had \in Nat /\ had <= full /\ owed \in Nat
          BY <3>2, <3>3, <2>2
        <4> HIDE DEF gain, lost, grown, back, full, slack, had, owed, has, owes,
                     admitted
        <4>7. owes + has + lost <= full + slack
          BY <4>1, <4>3, <4>4, <4>5, <4>6
        <4>8. owes + has + lost >= full
          BY <4>1, <4>3, <4>4, <4>5, <4>6
        <4>9. has \in Int /\ owes \in Int
          BY <4>1, <4>4, <4>6
        <4>10. owes + (has + lost) = owes + has + lost
          BY <4>6, <4>9
        <4>11. owes + Worth(l, x)' = owes + has + lost
          BY <4>1, <4>10, <3>4
        <4>12. owes + Worth(l, x)' <= full + slack /\ owes + Worth(l, x)' >= full
          BY <4>7, <4>8, <4>11
        <4> QED
          BY <4>1, <4>12 DEF owes, full, slack
      <3>6. CASE x \notin Kept(l, late)
        <4>1. owed = 0
          BY <3>6, EvictionIsFair
        <4>2. owes = IF admitted THEN Period ELSE 0
          BY <4>1, <3>1, <3>2, <3>6, <2>2 DEF Paid
        <4>3. CASE ~ admitted
          BY <4>2, <4>3, <3>1, <3>6, <2>2
        <4>4. CASE admitted
          <5>1. has = full - Period /\ x \in tracked'[l] /\ owes = Period
            BY <4>2, <4>4, <3>1, <3>6 DEF Left
          <5>2. Worth(l, x)' = full - Period + lost
            BY <5>1, <3>4
          <5>3. full \in Nat /\ slack \in Nat /\ Period \in Nat /\ lost \in Nat
                /\ lost <= slack
            BY <3>2, <2>2
          <5> HIDE DEF full, slack, lost, owes, has
          <5>4. owes + Worth(l, x)' <= full + slack /\ owes + Worth(l, x)' >= full
            BY <5>1, <5>2, <5>3
          <5> QED
            BY <5>1, <5>4 DEF owes, full, slack
        <4> QED
          BY <4>3, <4>4
      <3> QED
        BY <3>5, <3>6
    <2> QED
      BY <2>4, <2>5, <2>6
  <1> QED
    BY <1>2 DEF LedgerBalances, Full

\* The buckets and meters one by one, when time passes.
LEMMA TickPointwise ==
    ASSUME RateInv, Tick, NEW l \in Limiters, NEW x \in Addresses
    PROVE  /\ tracked' = tracked /\ tokens' = tokens
           /\ age'[l][x] = IF x \in tracked[l] /\ age[l][x] < Oldest
                           THEN age[l][x] + 1 ELSE age[l][x]
           /\ meter'[l][x] = IF meter[l][x] > Capacity[l]
                             THEN meter[l][x] - Capacity[l] ELSE 0
  BY DEF Tick, Paid

\* When time passes, what the meter loses the bucket gains.
LEMMA TickInv ==
    ASSUME RateInv, Tick
    PROVE  BucketsOK' /\ BucketsBounded' /\ LedgerBalances'
  <1>1. RateTypeOK
    BY DEF RateInv
  <1>2. ASSUME NEW l \in Limiters, NEW x \in Addresses
        PROVE  /\ age'[l][x] \in 0..Oldest /\ meter'[l][x] \in Nat
               /\ x \notin tracked[l] => age'[l][x] = 0
    <2>1. /\ age[l][x] \in 0..Oldest /\ meter[l][x] \in Nat
          /\ x \notin tracked[l] => age[l][x] = 0
      BY <1>1 DEF RateTypeOK
    <2>2. Oldest \in Nat /\ Capacity[l] \in Nat
      BY QuotaType
    <2> QED
      BY <2>1, <2>2, TickPointwise
  <1>3. BucketsOK'
    <2>1. age' = [l \in Limiters |-> [x \in Addresses |-> age'[l][x]]]
      BY DEF Tick
    <2>2. meter' = [l \in Limiters |-> [x \in Addresses |-> meter'[l][x]]]
      BY DEF Tick
    <2>3. age' \in [Limiters -> [Addresses -> 0..Oldest]]
      BY <2>1, <1>2
    <2>4. meter' \in [Limiters -> [Addresses -> Nat]]
      BY <2>2, <1>2
    <2>5. tracked' = tracked /\ tokens' = tokens
      BY DEF Tick
    <2> QED
      BY <2>3, <2>4, <2>5, <1>1, <1>2 DEF BucketsOK, RateTypeOK, Full
  <1>4. BucketsBounded'
    BY DEF RateInv, BucketsBounded, Tick
  <1>5. ASSUME NEW l \in Limiters, NEW x \in Addresses
        PROVE  /\ meter'[l][x] > 0 =>
                      /\ x \in tracked'[l]
                      /\ meter'[l][x] + Worth(l, x)' <= Full(l) + Lag * Capacity[l]
               /\ x \in tracked'[l] => meter'[l][x] + Worth(l, x)' >= Full(l)
    <2> DEFINE c == Capacity[l]
               a == age[l][x]
               n == tokens[l][x]
               owed == meter[l][x]
               owes == meter'[l][x]
    <2>1. /\ owed > 0 => x \in tracked[l] /\ owed + Worth(l, x) <= Full(l) + Lag * c
          /\ x \in tracked[l] => owed + Worth(l, x) >= Full(l)
      BY DEF RateInv, LedgerBalances
    <2>2. /\ owed \in Nat /\ Worth(l, x) = n + a * c
          /\ n \in Nat /\ a \in Nat /\ a <= Oldest /\ a * c \in Nat
      BY <1>1, BucketType
    <2>3. /\ Full(l) \in Nat /\ c \in Nat /\ Oldest \in Nat /\ Lag * c \in Nat
      BY QuotaType
    <2>4. /\ tracked' = tracked /\ tokens' = tokens
          /\ age'[l][x] = IF x \in tracked[l] /\ a < Oldest THEN a + 1 ELSE a
          /\ owes = IF owed > c THEN owed - c ELSE 0
      BY TickPointwise
    <2>5. Worth(l, x)' = n + age'[l][x] * c
      BY <2>4 DEF Worth
    <2>6. (a + 1) * c = a * c + c
      BY <2>2, <2>3, Products
    <2>7. CASE x \notin tracked[l]
      BY <2>1, <2>2, <2>3, <2>4, <2>7
    <2>8. CASE x \in tracked[l] /\ ~ (a < Oldest)
      <3>1. a * c >= Full(l) + Lag * c
        <4>1. a = Oldest /\ Oldest >= IdleEviction /\ IdleEviction \in Nat
          BY <2>2, <2>3, <2>8, QuotaType
        <4>2. a * c >= IdleEviction * c /\ IdleEviction * c \in Nat
          BY <4>1, <2>2, <2>3, Products
        <4>3. IdleEviction * c >= Full(l) + Lag * c
          BY QuotaType
        <4> QED
          BY <4>2, <4>3, <2>2, <2>3
      <3>2. owed = 0
        <4>1. owed > 0 => owed + (n + a * c) <= Full(l) + Lag * c
          BY <2>1, <2>2
        <4> HIDE DEF owed, n, a, c
        <4> QED
          BY <4>1, <3>1, <2>2, <2>3
      <3>3. owes = 0 /\ Worth(l, x)' = n + a * c
        BY <3>2, <2>3, <2>4, <2>5, <2>8
      <3> QED
        BY <3>1, <3>3, <2>2, <2>3, <2>4, <2>8
    <2>9. CASE x \in tracked[l] /\ a < Oldest
      <3> DEFINE ac == a * c
                 full == Full(l)
                 slack == Lag * c
                 new == Worth(l, x)'
      <3>1. new = n + ac + c
        BY <2>2, <2>3, <2>4, <2>5, <2>6, <2>9
      <3>2. /\ owes = IF owed > c THEN owed - c ELSE 0
            /\ owed > 0 => owed + n + ac <= full + slack
            /\ owed + n + ac >= full
            /\ owed \in Nat /\ n \in Nat /\ ac \in Nat /\ c \in Nat
            /\ full \in Nat /\ slack \in Nat
        BY <2>1, <2>2, <2>3, <2>4, <2>9
      <3> HIDE DEF ac, full, slack, new, owed, owes, c, n, a
      <3>3. /\ owes > 0 => owes + new <= full + slack
            /\ owes + new >= full
        BY <3>1, <3>2
      <3> QED
        BY <3>3, <2>4, <2>9 DEF owes, new, full, slack, c
    <2> QED
      BY <2>7, <2>8, <2>9
  <1> QED
    BY <1>3, <1>4, <1>5 DEF LedgerBalances, Full

-----------------------------------------------------------------------------
\* A step is a check of some limiter, the passing of time, or leaves the
\* limiters alone; the requests under way stay requests.
LEMMA RateNextInv == RateInv /\ [Next]_vars => RateInv'
  <1> SUFFICES ASSUME RateInv, [Next]_vars PROVE RateInv'
    OBVIOUS
  <1>1. passed \subseteq Requests /\ lone \in Callers \cup {"nobody"}
    BY DEF RateInv, RateTypeOK
  <1>2. ASSUME BucketsOK', BucketsBounded', LedgerBalances',
               passed' \subseteq Requests, lone' \in Callers \cup {"nobody"}
        PROVE  RateInv'
    BY <1>2 DEF RateInv, RateTypeOK, BucketsOK
  <1>3. ASSUME NEW r \in Requests, NEW late \in 0..Lag,
               GeneralRequest(r, late)
        PROVE  RateInv'
    <2>1. Check("general", r, late) /\ passed' = passed /\ lone' = lone
      BY <1>3 DEF GeneralRequest
    <2> QED
      BY <2>1, <1>1, <1>2, CheckTypes, CheckBounded, CheckLedger DEF Limiters
  <1>4. ASSUME NEW r \in Requests, NEW late \in 0..Lag,
               OpenRequest(r, late)
        PROVE  RateInv'
    <2>1. Check("general", r, late) /\ passed' \subseteq passed \cup {r} /\ lone' = lone
      BY <1>4 DEF OpenRequest
    <2> QED
      BY <2>1, <1>1, <1>2, CheckTypes, CheckBounded, CheckLedger DEF Limiters
  <1>5. ASSUME NEW r \in Requests, NEW late \in 0..Lag,
               OpenCheck(r, late)
        PROVE  RateInv'
    <2>1. Check("open", r, late) /\ passed' \subseteq passed /\ lone' = lone
      BY <1>5 DEF OpenCheck
    <2> QED
      BY <2>1, <1>1, <1>2, CheckTypes, CheckBounded, CheckLedger DEF Limiters
  <1>6. CASE Tick
    <2>1. passed' = passed /\ lone' = lone
      BY <1>6 DEF Tick
    <2> QED
      BY <2>1, <1>1, <1>2, <1>6, TickInv
  <1>7. ASSUME UNCHANGED <<tracked, tokens, age, meter, passed>>,
               lone' \in Callers \cup {"nobody"}
        PROVE  RateInv'
    <2>1. \A l, x : Worth(l, x)' = Worth(l, x)
      BY <1>7 DEF Worth
    <2> QED
      BY <2>1, <1>7 DEF RateInv, RateTypeOK, BucketsBounded, LedgerBalances, Full
  <1>8. ASSUME NEW w \in Callers, OthersLeave(w) PROVE RateInv'
    BY <1>7, <1>8 DEF OthersLeave, bucketVars
  <1>9. CASE UNCHANGED vars
    BY <1>1, <1>7, <1>9 DEF vars
  <1> QED
    BY <1>3, <1>4, <1>5, <1>6, <1>8, <1>9 DEF Next

\* At first nobody is tracked and nothing is owed.
LEMMA RateInitInv == Init => RateInv
  <1> SUFFICES ASSUME Init PROVE RateInv
    OBVIOUS
  <1>1. \A l \in Limiters : tracked[l] = {}
    BY DEF Init
  <1>2. \A l \in Limiters, k \in Addresses :
            tokens[l][k] = 0 /\ age[l][k] = 0 /\ meter[l][k] = 0
    BY DEF Init, Zeroes
  <1>3. \A l \in Limiters : 0 <= Full(l) /\ Full(l) \in Nat
    BY QuotaType
  <1>4. RateTypeOK
    <2>1. Zeroes \in [Limiters -> [Addresses -> Nat]]
      BY DEF Zeroes
    <2>2. Zeroes \in [Limiters -> [Addresses -> 0..Oldest]]
      BY RateAssumption DEF Zeroes, Oldest
    <2> QED
      BY <1>1, <1>2, <1>3, <2>1, <2>2 DEF Init, RateTypeOK
  <1>5. BucketsBounded
    <2>1. Cardinality({}) = 0
      BY FS_EmptySet
    <2>2. 0 <= MaxBuckets
      BY RateAssumption
    <2> QED
      BY <1>1, <2>1, <2>2 DEF BucketsBounded
  <1>6. LedgerBalances
    BY <1>1, <1>2, <1>3 DEF LedgerBalances
  <1> QED
    BY <1>4, <1>5, <1>6 DEF RateInv

LEMMA RateInvariance == Spec => []RateInv
  BY RateInitInv, RateNextInv, PTL DEF Spec

\* The limiters' state is always well-formed and no bucket overflows.
THEOREM RateTypes == Spec => []RateTypeOK
  <1>1. RateInv => RateTypeOK
    BY DEF RateInv
  <1> QED
    BY <1>1, RateInvariance, PTL

\* The map of buckets never outgrows its cap (ratelimit.rs MAX_BUCKETS).
THEOREM MapStaysBounded == Spec => []BucketsBounded
  <1>1. RateInv => BucketsBounded
    BY DEF RateInv
  <1> QED
    BY <1>1, RateInvariance, PTL

\* No account is ever admitted beyond its quota, in any window, but for the time
\* that late readings of the clock account for, for any quotas, any map size and
\* whatever callers forge (ratelimit.rs check_at, client_ip_with).
THEOREM NobodyExceedsTheQuota == Spec => []QuotaHolds
  <1>1. ASSUME RateInv PROVE QuotaHolds
    <2>1. ASSUME NEW l \in Limiters, NEW k \in Addresses
          PROVE  meter[l][k] <= Full(l) + Lag * Capacity[l]
      <3>1. /\ meter[l][k] > 0 =>
                   meter[l][k] + Worth(l, k) <= Full(l) + Lag * Capacity[l]
            /\ meter[l][k] \in Nat /\ Worth(l, k) \in Nat
        BY <1>1, BucketType DEF RateInv, LedgerBalances
      <3>2. Full(l) \in Nat /\ Lag * Capacity[l] \in Nat
        BY QuotaType
      <3> QED
        BY <3>1, <3>2
    <2> QED
      BY <2>1 DEF QuotaHolds
  <1> QED
    BY <1>1, RateInvariance, PTL

\* A request is refused only for what was charged to its own account, except a
\* newcomer's while the map is full of accounts that were all active lately
\* (ratelimit.rs check_at).
THEOREM RefusalsAreEarned == Spec => []RefusalIsEarned
  <1>1. ASSUME RateInv PROVE RefusalIsEarned
    <2>1. ASSUME NEW l \in Limiters, NEW r \in Requests, NEW late \in 0..Lag,
                 ~ Admits(l, r.key, late)
          PROVE  \/ meter[l][r.account] + late * Capacity[l] + Period > Full(l)
                 \/ /\ r.key \notin tracked[l]
                    /\ Cardinality(tracked[l]) >= MaxBuckets
                    /\ \A k \in tracked[l] : Elapsed(l, k, late) < IdleEviction
      <3> DEFINE k == r.key
      <3>1. k = r.account /\ k \in Addresses /\ RateTypeOK
        BY <1>1, RequestKey DEF RateInv
      <3>2. CASE k \in Kept(l, late)
        <4> DEFINE gain == Elapsed(l, k, late) * Capacity[l]
                   lost == late * Capacity[l]
                   grown == age[l][k] * Capacity[l]
        <4>1. ~ (Refilled(l, k, late) >= Period)
          BY <2>1, <3>2 DEF Admits
        <4>2. /\ gain \in Nat /\ lost \in Nat /\ grown \in Nat
              /\ grown <= gain + lost
              /\ Refilled(l, k, late) = IF tokens[l][k] + gain > Full(l) THEN Full(l)
                                        ELSE tokens[l][k] + gain
          BY <3>1, ElapsedType
        <4>3. /\ meter[l][k] + tokens[l][k] + grown >= Full(l)
              /\ meter[l][k] \in Nat /\ tokens[l][k] \in Nat
          <5>1. k \in tracked[l]
            BY <3>2 DEF Kept
          <5>2. /\ meter[l][k] + Worth(l, k) >= Full(l)
                /\ Worth(l, k) = tokens[l][k] + grown
                /\ meter[l][k] \in Nat /\ tokens[l][k] \in Nat
            BY <1>1, <3>1, <5>1, BucketType DEF RateInv, LedgerBalances
          <5> QED
            BY <5>2, <4>2
        <4>4. Full(l) \in Nat /\ Period \in Nat /\ Full(l) >= Period
          BY QuotaType
        <4> HIDE DEF gain, lost, grown
        <4>5. meter[l][k] + lost + Period > Full(l)
          BY <4>1, <4>2, <4>3, <4>4
        <4> QED
          BY <3>1, <4>5 DEF lost
      <3>3. CASE k \notin Kept(l, late)
        <4>1. ~ (Cardinality(Kept(l, late)) < MaxBuckets)
          BY <2>1, <3>3 DEF Admits
        <4>2. /\ IsFiniteSet(tracked[l]) /\ Kept(l, late) \subseteq tracked[l]
              /\ Cardinality(tracked[l]) <= MaxBuckets
          BY <1>1, RateAssumption, FS_Subset
             DEF Kept, RateInv, RateTypeOK, BucketsBounded
        <4>3. /\ IsFiniteSet(Kept(l, late))
              /\ Cardinality(Kept(l, late)) <= Cardinality(tracked[l])
              /\ Cardinality(tracked[l]) = Cardinality(Kept(l, late)) =>
                     tracked[l] = Kept(l, late)
          BY <4>2, FS_Subset
        <4>4. /\ Cardinality(Kept(l, late)) \in Nat
              /\ Cardinality(tracked[l]) \in Nat
          BY <4>2, <4>3, FS_CardinalityType
        <4>5. Cardinality(tracked[l]) = MaxBuckets /\ tracked[l] = Kept(l, late)
          BY <4>1, <4>2, <4>3, <4>4, QuotaType
        <4>6. MaxBuckets >= MaxBuckets
          BY QuotaType
        <4>7. Kept(l, late) =
                  {j \in tracked[l] : Elapsed(l, j, late) < IdleEviction}
          BY <4>5, <4>6 DEF Kept
        <4> QED
          BY <3>3, <4>5, <4>6, <4>7
      <3> QED
        BY <3>2, <3>3
    <2> QED
      BY <2>1 DEF RefusalIsEarned
  <1> QED
    BY <1>1, RateInvariance, PTL
=============================================================================
