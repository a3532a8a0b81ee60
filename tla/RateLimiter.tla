----------------------------- MODULE RateLimiter -----------------------------
(***************************************************************************)
(* The per-IP rate limiter of the gateway: the rateLimit middleware of      *)
(* service/src/index.ts and the interval that sweeps its buckets.  The      *)
(* middleware runs without an await, so one request is one step; what it    *)
(* races with is the clock, the sweep and the eviction that other           *)
(* addresses cause.                                                         *)
(***************************************************************************)
EXTENDS Integers, Sequences, FiniteSets, Functions

CONSTANTS
    IPs,                \* client addresses
    RATE_LIMIT,         \* requests an address may make per window
    RATE_WINDOW,        \* RATE_WINDOW_MS, in ticks
    MAX_RATE_BUCKETS,
    MaxTime,            \* bound: ticks of the clock
    MaxRequests         \* bound: requests received

ASSUME RateConstants ==
    /\ RATE_LIMIT \in Nat \ {0} /\ RATE_WINDOW \in Nat \ {0}
    /\ MAX_RATE_BUCKETS \in Nat /\ MaxTime \in Nat /\ MaxRequests \in Nat

VARIABLES
    now,
    rateBuckets,   \* the map: address -> [count, resetAt]
    requests,      \* requests received so far
    admitted,      \* when each address's requests were let through
    evicted        \* a bucket was dropped before its window ended

rateVars == <<now, rateBuckets, requests, admitted, evicted>>

RateInit ==
    /\ now = 0
    /\ rateBuckets = <<>>
    /\ requests = 0
    /\ admitted = [ip \in IPs |-> <<>>]
    /\ evicted = FALSE

-----------------------------------------------------------------------------
Expired(b) == now >= b.resetAt
LiveOnly(buckets) == Restrict(buckets, {k \in DOMAIN buckets : ~Expired(buckets[k])})

\* Over the cap, expired buckets go; if that is not enough, a quarter of
\* them, rounded up, chosen at random.
Overfull(buckets) == Cardinality(DOMAIN buckets) > MAX_RATE_BUCKETS
Quarter(n) == (n + 3) \div 4

AfterEviction(buckets) ==
    IF ~Overfull(buckets) THEN {buckets}
    ELSE LET live == LiveOnly(buckets) IN
         IF ~Overfull(live) THEN {live}
         ELSE {Restrict(live, DOMAIN live \ gone) :
                 gone \in {g \in SUBSET DOMAIN live :
                             Cardinality(g) = Quarter(Cardinality(DOMAIN live))}}

\* mutant: an expired bucket goes on
NeverRenewed(buckets, ip) ==
    IF ip \notin DOMAIN buckets
    THEN [count |-> 0, resetAt |-> now + RATE_WINDOW]
    ELSE buckets[ip]

\* The bucket the request is counted in.
BucketOf(buckets, ip) ==
    IF ip \notin DOMAIN buckets \/ Expired(buckets[ip])
    THEN [count |-> 0, resetAt |-> now + RATE_WINDOW]
    ELSE buckets[ip]

Passes(count) == count <= RATE_LIMIT

\* rateLimit(): evict, find or renew the bucket, count, and pass or answer 429.
Request(ip) ==
    /\ requests < MaxRequests
    /\ requests' = requests + 1
    /\ \E kept \in AfterEviction(rateBuckets) :
          LET bucket == BucketOf(kept, ip)
              count == bucket.count + 1
          IN /\ rateBuckets' = [k \in DOMAIN kept \cup {ip} |->
                                  IF k = ip THEN [bucket EXCEPT !.count = count] ELSE kept[k]]
             /\ admitted' = IF Passes(count)
                            THEN [admitted EXCEPT ![ip] = Append(@, now)]
                            ELSE admitted
             /\ evicted' = (evicted \/ \E k \in DOMAIN rateBuckets \ DOMAIN kept :
                                           ~Expired(rateBuckets[k]))
    /\ UNCHANGED now

\* The one-minute interval.
Sweep ==
    /\ \E k \in DOMAIN rateBuckets : Expired(rateBuckets[k])
    /\ rateBuckets' = LiveOnly(rateBuckets)
    /\ UNCHANGED <<now, requests, admitted, evicted>>

Tick ==
    /\ now < MaxTime
    /\ now' = now + 1
    /\ UNCHANGED <<rateBuckets, requests, admitted, evicted>>

RateNext == Sweep \/ Tick \/ \E ip \in IPs : Request(ip)

RateSpec == RateInit /\ [][RateNext]_rateVars

-----------------------------------------------------------------------------
(* Properties *)

RateTypeOK ==
    /\ now \in 0 .. MaxTime
    /\ requests \in 0 .. MaxRequests
    /\ DOMAIN rateBuckets \subseteq IPs
    /\ \A k \in DOMAIN rateBuckets :
          /\ rateBuckets[k].count \in 1 .. requests
          /\ rateBuckets[k].resetAt \in RATE_WINDOW .. now + RATE_WINDOW
    /\ admitted \in [IPs -> Seq(0 .. MaxTime)]
    /\ evicted \in BOOLEAN

\* The requests of an address let through in the last window.
Recent(ip) == Cardinality({i \in DOMAIN admitted[ip] : admitted[ip][i] > now - RATE_WINDOW})

\* The map holds at most one bucket more than the cap, however many
\* addresses send requests ("bounded bucket map", index.ts line 6).
BucketsBounded == Cardinality(DOMAIN rateBuckets) <= MAX_RATE_BUCKETS + 1

\* A 429 is deserved: an address is refused only if RATE_LIMIT of its own
\* requests passed within the last window, whatever other addresses, the
\* sweep and evictions did in the meantime.
RefusedOnlyOverLimit ==
    [][\A ip \in IPs : Request(ip) /\ admitted' = admitted => Recent(ip) >= RATE_LIMIT]_rateVars

\* As long as no live bucket is evicted, an address gets at most twice the
\* limit through in any window: the end of one bucket and all of the next.
AtMostTwiceTheLimit == ~evicted => \A ip \in IPs : Recent(ip) <= 2 * RATE_LIMIT

\* The limiter is fair within its window: the map stays bounded, an address is
\* refused only over its limit, and gets at most twice the limit through.
LimitsAreFair ==
    /\ []RateTypeOK /\ []BucketsBounded /\ []AtMostTwiceTheLimit
    /\ RefusedOnlyOverLimit
=============================================================================
