----------------------------- MODULE RateLimit ------------------------------
(***************************************************************************)
(* The rate limiters of the open routes (gateway/src/ratelimit.rs and the  *)
(* router in main.rs).  Every open request is charged to the general       *)
(* limiter; one for POST /v1/session/open that passes is then charged to   *)
(* the open limiter.  Each check runs under the limiter's own lock, so     *)
(* requests may interleave between the two.                                *)
(*                                                                         *)
(* Time is a Tick; a bucket keeps its age instead of the instant it was    *)
(* last used, and the age Oldest stands for every later one, by when the   *)
(* bucket is full again.  A check reads the clock before it has the lock:  *)
(* it works with an instant that is late ticks ago, up to Lag, and may be  *)
(* overtaken by a check with a later reading.  Tokens are counted in       *)
(* 1/Period of a request, so that a tick refills Capacity of them and      *)
(* nothing is rounded (the code's f64 is taken to be exact).  A poisoned   *)
(* lock, which refuses every caller from then on, is not modelled: nothing *)
(* in the critical section panics.                                         *)
(***************************************************************************)
EXTENDS Integers, Sequences, FiniteSets, FiniteSetsExt

CONSTANTS
    Addresses,      \* IP addresses
    Trusted,        \* AGENTPAY_TRUSTED_PROXIES
    Garbage,        \* a header entry that does not parse as an address
    Unreadable,     \* one with a byte that is not visible ASCII
    Paths,          \* the ways a request may travel: caller, proxies
    Forgeries,      \* what a caller may write into X-Forwarded-For
    Capacity,       \* per limiter: requests per Period
    Period,         \* Quota::period
    IdleEviction,   \* IDLE_EVICTION
    Lag,            \* how long a check may wait for the lock
    MaxBuckets      \* MAX_BUCKETS

VARIABLES
    tracked,        \* per limiter: the addresses that have a bucket
    tokens, age,    \* per limiter and address: the bucket
    passed,         \* requests between the general and the open limiter
    lone,           \* the only caller left, once the others have gone quiet
    meter           \* per limiter and account: admissions not yet paid for by
                    \* time (history; no action reads it)

bucketVars == <<tracked, tokens, age>>
vars == <<tracked, tokens, age, passed, lone, meter>>

Limiters == {"general", "open"}
Oldest == IdleEviction + Lag

\* The quotas come from configuration that refuses zero; an evicted bucket must
\* have had the time to fill up (300 s against 60 s), however late the check.
ASSUME RateAssumption ==
    /\ IsFiniteSet(Addresses)
    /\ Trusted \subseteq Addresses
    /\ Garbage \notin Addresses /\ Unreadable \notin Addresses \cup {Garbage}
    /\ Paths \subseteq Seq(Addresses)
    /\ \A p \in Paths : p # << >> /\ Head(p) \notin Trusted
    /\ Forgeries \subseteq Seq(Addresses \cup {Garbage, Unreadable})
    /\ Capacity \in [Limiters -> Nat \ {0}]
    /\ Period \in Nat \ {0}
    /\ Lag \in Nat
    /\ IdleEviction \in Nat /\ IdleEviction >= Period + Lag
    /\ MaxBuckets \in Nat \ {0}

-----------------------------------------------------------------------------
(***************************************************************************)
(* Whose bucket is it?                                                     *)
(***************************************************************************)

\* The hops of a header that name an address outside the trusted set.
Untrusted(hops) == {i \in DOMAIN hops : hops[i] \in Addresses \ Trusted}

\* to_str: one byte that is not visible ASCII spoils the whole header.
Readable(hops) == \A i \in DOMAIN hops : hops[i] # Unreadable

FirstUntrusted(peer, header) ==
    IF peer \in Trusted /\ Readable(header) /\ Untrusted(header) # {}
    THEN header[Min(Untrusted(header))] ELSE peer

\* client_ip_with: the header of a trusted peer, if it can be read, is walked
\* from the right, past trusted proxies and unparseable entries; an absent
\* header is an empty one.
ClientIp(peer, header) ==
    IF peer \in Trusted /\ Readable(header) /\ Untrusted(header) # {}
    THEN header[Max(Untrusted(header))] ELSE peer

\* A request arrives from the last hop of its path; every proxy has appended
\* the hop before it to what the caller wrote, in one header.
PeerOf(path) == path[Len(path)]
HeaderOf(path, forgery) == forgery \o SubSeq(path, 1, Len(path) - 1)

\* Who answers for a request: the nearest hop of its real path that the operator
\* does not trust.
Caller(path) == path[Max(Untrusted(path))]

\* Whom a request should be charged to, by its real path: its caller, unless
\* the header it sends through a proxy cannot be read.
Account(path, forgery) == IF Readable(forgery) THEN Caller(path) ELSE PeerOf(path)

\* What the limiters see of the possible requests: the address they are keyed
\* on, and (for the history) the caller behind it and the account.
Requests ==
    {[key |-> ClientIp(PeerOf(p), HeaderOf(p, f)), who |-> Caller(p),
      account |-> Account(p, f)] : p \in Paths, f \in Forgeries}

-----------------------------------------------------------------------------
(***************************************************************************)
(* check_at.                                                               *)
(***************************************************************************)

Full(l) == Capacity[l] * Period

\* now.duration_since(bucket.last), for a reading that is late ticks old: zero
\* if the bucket was used after it.
Elapsed(l, k, late) == IF age[l][k] > late THEN age[l][k] - late ELSE 0

EvictEarly(l, late) ==
    IF Cardinality(tracked[l]) >= MaxBuckets
    THEN {k \in tracked[l] : Elapsed(l, k, late) < 1} ELSE tracked[l]

\* The buckets left after eviction, which only a full map asks for.
Kept(l, late) ==
    IF Cardinality(tracked[l]) >= MaxBuckets
    THEN {k \in tracked[l] : Elapsed(l, k, late) < IdleEviction} ELSE tracked[l]

\* The refill since the bucket was last used, up to its capacity.
Refilled(l, k, late) ==
    LET sum == tokens[l][k] + Elapsed(l, k, late) * Capacity[l]
    IN  IF sum > Full(l) THEN Full(l) ELSE sum

AdmitsUntracked(l, k, late) ==
    k \in Kept(l, late) => Refilled(l, k, late) >= Period

\* One token, or, for a newcomer, room for its bucket.
Admits(l, k, late) ==
    IF k \in Kept(l, late) THEN Refilled(l, k, late) >= Period
    ELSE Cardinality(Kept(l, late)) < MaxBuckets

ForgetsFraction(l, k, late) ==
    (IF k \notin Kept(l, late) THEN Full(l)
     ELSE IF Refilled(l, k, late) >= Period THEN Refilled(l, k, late)
     ELSE tokens[l][k]) - (IF Admits(l, k, late) THEN Period ELSE 0)

\* The tokens of a checked bucket: a refused one keeps what it has gathered.
Left(l, k, late) ==
    (IF k \in Kept(l, late) THEN Refilled(l, k, late) ELSE Full(l))
        - (IF Admits(l, k, late) THEN Period ELSE 0)

Paid(debt, sum) == IF debt > sum THEN debt - sum ELSE 0

\* By how much the check sets the clock of the bucket back, so that this time
\* will be counted again: the check was overtaken by one with a later reading.
SetBack(l, k, late) ==
    IF k \in Kept(l, late) /\ late > age[l][k] THEN late - age[l][k] ELSE 0

\* The check of request r by limiter l with a reading that is late ticks old; a
\* bucket that is gone is all zeroes.
Check(l, r, late) ==
    LET held == Kept(l, late)
                    \cup (IF Admits(l, r.key, late) THEN {r.key} ELSE {})
    IN  /\ tracked' = [tracked EXCEPT ![l] = held]
        /\ tokens' = [tokens EXCEPT ![l] = [k \in Addresses |->
               IF k \notin held THEN 0
               ELSE IF k = r.key THEN Left(l, k, late) ELSE tokens[l][k]]]
        /\ age' = [age EXCEPT ![l] = [k \in Addresses |->
               IF k \notin held THEN 0
               ELSE IF k = r.key THEN late ELSE age[l][k]]]
        /\ meter' = [meter EXCEPT ![l][r.account] =
               Paid(@, SetBack(l, r.key, late) * Capacity[l])
                   + (IF Admits(l, r.key, late) THEN Period ELSE 0)]

-----------------------------------------------------------------------------
(***************************************************************************)
(* Requests and time.                                                      *)
(***************************************************************************)

MayCall(r) == lone \in {r.who, "nobody"}

\* limit_general on any other open route: served or refused at once.
GeneralRequest(r, late) ==
    /\ lone = "nobody"
    /\ Check("general", r, late)
    /\ UNCHANGED <<passed, lone>>

\* limit_general on the way to POST /v1/session/open.
OpenRequest(r, late) ==
    /\ MayCall(r) /\ r \notin passed
    /\ Check("general", r, late)
    /\ passed' = IF Admits("general", r.key, late) THEN passed \cup {r} ELSE passed
    /\ UNCHANGED lone

\* limit_open: the RPC read follows if the request is admitted.
OpenCheck(r, late) ==
    /\ r \in passed
    /\ Check("open", r, late)
    /\ passed' = passed \ {r}
    /\ UNCHANGED lone

\* One unit of time passes; the meters pay off what time allows.
Tick ==
    /\ age' = [l \in Limiters |-> [k \in Addresses |->
           IF k \in tracked[l] /\ age[l][k] < Oldest
           THEN age[l][k] + 1 ELSE age[l][k]]]
    /\ meter' = [l \in Limiters |-> [k \in Addresses |->
           Paid(meter[l][k], Capacity[l])]]
    /\ UNCHANGED <<tracked, tokens, passed, lone>>

\* From some point on, everybody but w is done.
OthersLeave(w) ==
    /\ lone = "nobody"
    /\ lone' = w
    /\ UNCHANGED <<bucketVars, passed, meter>>

Zeroes == [l \in Limiters |-> [k \in Addresses |-> 0]]

Init ==
    /\ tracked = [l \in Limiters |-> {}]
    /\ tokens = Zeroes /\ age = Zeroes /\ meter = Zeroes
    /\ passed = {}
    /\ lone = "nobody"

Callers == {r.who : r \in Requests}

Next ==
    \/ \E r \in Requests, late \in 0..Lag :
          \/ GeneralRequest(r, late)
          \/ OpenRequest(r, late)
          \/ OpenCheck(r, late)
    \/ Tick
    \/ \E w \in Callers : OthersLeave(w)

Spec == Init /\ [][Next]_vars

\* Time passes, a request in flight goes on, and a caller that is left alone
\* keeps asking.
FairSpec ==
    /\ Spec
    /\ WF_vars(Tick)
    /\ \A r \in Requests :
           /\ WF_vars(\E late \in 0..Lag : OpenCheck(r, late))
           /\ WF_vars(\E late \in 0..Lag : OpenRequest(r, late))

-----------------------------------------------------------------------------
(***************************************************************************)
(* Properties.                                                             *)
(***************************************************************************)

\* Every variable holds a value of its type; a bucket never holds more tokens
\* than its capacity, nor an address without a bucket any.
RateTypeOK ==
    /\ tracked \in [Limiters -> SUBSET Addresses]
    /\ tokens \in [Limiters -> [Addresses -> Nat]]
    /\ age \in [Limiters -> [Addresses -> 0..Oldest]]
    /\ meter \in [Limiters -> [Addresses -> Nat]]
    /\ passed \subseteq Requests
    /\ lone \in Callers \cup {"nobody"}
    /\ \A l \in Limiters, k \in Addresses :
           /\ tokens[l][k] <= Full(l)
           /\ k \notin tracked[l] => tokens[l][k] = 0 /\ age[l][k] = 0

\* No account gets more than its quota, in any window: among any t consecutive
\* ticks a limiter admits at most
\*     Capacity + (t + Lag + b) * Capacity / Period
\* requests charged to one account, where b is the time by which overtaken
\* checks have set the bucket's clock back meanwhile (zero if the checks get the
\* lock in the order of their readings).  This holds however requests interleave,
\* whatever addresses and rubbish a caller writes into the forwarding header,
\* and although its bucket may be evicted and begun anew.  An account is the
\* caller itself; the requests it sends through a trusted proxy with a header
\* that cannot be read go to the proxy's account, which it has besides its own.
\* The meter adds Period per admission and loses Capacity per tick counted, not
\* below zero: it is the largest excess of admissions over time of all the
\* windows that end now.  (ratelimit.rs check_at; "a client idle for an hour must
\* not accumulate an hour's worth".)
QuotaHolds ==
    \A l \in Limiters, k \in Addresses :
        meter[l][k] <= Full(l) + Lag * Capacity[l]

\* A refusal is earned: a request is refused only if the admissions charged to
\* its own account have used up the quota (but for the time its reading is
\* late), or, without a bucket, while MaxBuckets others were all active within
\* the eviction time (ratelimit.rs clients_are_limited_independently, "One noisy
\* client must not refuse everybody else").  A caller that sends a readable
\* header is thus never refused for what others did; the requests with an
\* unreadable one share the account of the proxy they came through.
RefusalIsEarned ==
    \A l \in Limiters, r \in Requests, late \in 0..Lag :
        ~ Admits(l, r.key, late) =>
            \/ meter[l][r.account] + late * Capacity[l] + Period > Full(l)
            \/ /\ r.key \notin tracked[l]
               /\ Cardinality(tracked[l]) >= MaxBuckets
               /\ \A k \in tracked[l] : Elapsed(l, k, late) < IdleEviction

\* The map stays within its cap (ratelimit.rs MAX_BUCKETS, "the map has a hard
\* cap").
BucketsBounded ==
    \A l \in Limiters : Cardinality(tracked[l]) <= MaxBuckets

Reconciled(w) ==
    \E r \in Requests, late \in 0..Lag :
        r.who = w /\ Admits("open", r.key, late) /\ OpenCheck(r, late)

\* Nobody is locked out for good: once the others have gone quiet, a caller that
\* keeps asking for POST /v1/session/open gets through again and again, even
\* with the map full when it came, and although every refused attempt restarts
\* the clock of its bucket.
PatientCallerIsServed ==
    \A w \in Callers : []<>(lone = w) => []<><<Reconciled(w)>>_vars
=============================================================================
