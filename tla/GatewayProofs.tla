--------------------------- MODULE GatewayProofs ---------------------------
(***************************************************************************)
(* The safety properties of Gateway for any number of requests, keys and    *)
(* bodies, any cache size and any number of retries.                        *)
(*                                                                          *)
(* The inductive invariant GatewayInv says of every request what its        *)
(* program point implies: which state its kernel call is in, how many       *)
(* fetches it has cost and how many retries it has left.  The idempotency   *)
(* cache is a sequence whose entries each name a completed request, and     *)
(* what Map.delete leaves of it is a recursive function; the first lemmas   *)
(* establish what that function computes, by an induction that rests on the *)
(* well-founded order of the natural numbers.                               *)
(***************************************************************************)
EXTENDS Gateway, WellFoundedInduction, TLAPS

Answers == {NoAnswer, Failed, Streamed}
             \cup {Completion(r) : r \in Requests} \cup {Replay(r) : r \in Requests}

StorageKeys == {<<k>> : k \in Keys} \cup (Keys \X (Bodies \cup {"none"}))

Entry == [key : StorageKeys, from : Requests, expired : BOOLEAN]

RequestSet == [key : Keys \cup {NoKey}, body : Bodies \cup {"none"}, stream : BOOLEAN,
               provider : {"compat", "native", "none"}]

\* The type of every variable, with the records and the sequence spelled out.
BaseTypes ==
    /\ available \in BOOLEAN
    /\ call \in [Requests -> CallStates]
    /\ bound \in BOOLEAN
    /\ configured \in BOOLEAN
    /\ pc \in [Requests -> Points]
    /\ req \in [Requests -> RequestSet]
    /\ attempt \in [Requests -> 0..RETRIES]
    /\ fetches \in [Requests -> Nat]
    /\ answer \in [Requests -> Answers]
    /\ recorded \in SUBSET Requests

Types == BaseTypes /\ cache \in Seq(Entry)

\* The kernel call of a request follows its handler: it is made once, and it is
\* settled before the handler goes on.
CallFollows(r) ==
    /\ pc[r] \in {"idle", "stream", "sse"} => call[r] = "unused"
    /\ pc[r] = "kernel" => call[r] # "unused"
    /\ pc[r] = "node" => call[r] \in {"unused", "rejected"}
    /\ pc[r] = "done" => call[r] # "waiting"

\* What a streaming attempt may have cost before the other route starts.
Spent(r) == IF req[r].stream THEN RETRIES + 1 ELSE 0

\* The fetches of a request at every program point.
FetchesFollow(r) ==
    /\ pc[r] = "idle" => fetches[r] = 0
    /\ pc[r] = "stream" => req[r].stream /\ fetches[r] <= attempt[r]
    /\ pc[r] = "sse" => req[r].stream /\ fetches[r] <= RETRIES + 1
    /\ pc[r] = "kernel" => fetches[r] <= Spent(r)
    /\ pc[r] = "node" => fetches[r] <= Spent(r) + attempt[r]
    /\ pc[r] = "done" => fetches[r] <= Spent(r) + RETRIES + 1

\* Outcomes: an answer exists exactly when the handler is done, a request with
\* providers has one, and what was recorded or replayed cost what it should.
Outcome(r) ==
    /\ (pc[r] = "done") <=> (answer[r] # NoAnswer)
    /\ pc[r] # "idle" /\ configured => req[r].provider # "none"
    /\ pc[r] = "node" => req[r].provider # "none"
    /\ r \in recorded => pc[r] = "done" /\ fetches[r] <= Spent(r)
    /\ answer[r].kind = "hit" => fetches[r] = 0
    /\ answer[r] = Failed => ~configured \/ (fetches[r] > 0 /\ call[r] # "resolved")

\* A request that completed without a stream, under this storage key.
Genuine(from, key) ==
    /\ answer[from] = Completion(from)
    /\ ~req[from].stream
    /\ key = idempotencyStorageKey(req[from])

CacheIsGenuine == \A i \in 1..Len(cache) : Genuine(cache[i].from, cache[i].key)

HitsAreGenuine ==
    \A r \in Requests : answer[r].kind = "hit" =>
        Genuine(answer[r].from, idempotencyStorageKey(req[r]))

RequestOK(r) == CallFollows(r) /\ FetchesFollow(r) /\ Outcome(r)

GatewayInv ==
    /\ Types
    /\ \A r \in Requests : RequestOK(r)
    /\ CacheWellFormed
    /\ CacheIsGenuine
    /\ HitsAreGenuine

-----------------------------------------------------------------------------
(* What Map.delete leaves *)

\* A set of natural numbers that is not empty has a least element.
LEMMA Least ==
    ASSUME NEW T \in SUBSET Nat, T # {}
    PROVE  \E m \in T : \A k \in T : m <= k
<1> DEFINE R == OpToRel(<, Nat)
<1>1. IsWellFoundedOn(R, Nat)
  BY NatLessThanWellFounded
<1>2. PICK m \in T : \A k \in T : ~(<<k, m>> \in R)
  BY <1>1, WFMin
<1>3. \A k \in T : k < m => <<k, m>> \in R
  BY DEF OpToRel
<1> HIDE DEF R
<1>4. \A k \in T : k \in Nat /\ m \in Nat
  OBVIOUS
<1>5. \A k \in T : ~(k < m)
  BY <1>2, <1>3
<1>6. \A k \in T : m <= k
  BY <1>4, <1>5
<1> QED BY <1>6

\* Induction over the natural numbers, with the claim given as a set.
LEMMA Induction ==
    ASSUME NEW T, 0 \in T, \A n \in Nat : n \in T => n + 1 \in T
    PROVE  Nat \subseteq T
<1> SUFFICES ASSUME Nat \ T # {} PROVE FALSE
  OBVIOUS
<1>1. PICK m \in Nat \ T : \A k \in Nat \ T : m <= k
  BY Least
<1>2. m # 0 /\ m - 1 \in Nat /\ m - 1 \in T
  BY <1>1
<1> QED BY <1>2

\* The body of the recursive function in Remaining.
KeptAt(f, i, s, gone) ==
    IF i = 0 THEN <<>> ELSE IF i \in gone THEN f[i - 1] ELSE Append(f[i - 1], s[i])

\* f obeys it up to n.
KeptTo(f, s, gone, n) == f = [i \in 0..n |-> KeptAt(f, i, s, gone)]

\* The recursion in Remaining has a solution on every initial segment.
LEMMA KeptExists ==
    ASSUME NEW s, NEW gone, NEW n \in Nat
    PROVE  \E f : KeptTo(f, s, gone, n)
<1> DEFINE T == {k \in Nat : \E f : f = [i \in 0..k |-> KeptAt(f, i, s, gone)]}
<1>1. 0 \in T
  <2> DEFINE f == [i \in 0..0 |-> <<>>]
  <2>1. f = [i \in 0..0 |-> KeptAt(f, i, s, gone)]
    BY DEF KeptAt
  <2> QED BY <2>1
<1>2. ASSUME NEW k \in Nat, k \in T PROVE k + 1 \in T
  <2>1. PICK f : f = [i \in 0..k |-> KeptAt(f, i, s, gone)]
    BY <1>2
  <2> DEFINE g == [i \in 0..(k+1) |-> IF i <= k THEN f[i] ELSE KeptAt(f, i, s, gone)]
  <2>2. ASSUME NEW i \in 0..(k+1) PROVE g[i] = KeptAt(g, i, s, gone)
    <3>1. i > 0 => i - 1 \in 0..k /\ g[i-1] = f[i-1]
      OBVIOUS
    <3>2. KeptAt(g, i, s, gone) = KeptAt(f, i, s, gone)
      BY <3>1 DEF KeptAt
    <3>3. i <= k => f[i] = KeptAt(f, i, s, gone)
      BY <2>1
    <3> QED BY <3>2, <3>3
  <2>3. g = [i \in 0..(k+1) |-> KeptAt(g, i, s, gone)]
    BY <2>2
  <2> HIDE DEF g
  <2>4. \E h : h = [i \in 0..(k+1) |-> KeptAt(h, i, s, gone)]
    BY <2>3
  <2> QED BY <2>4
<1> HIDE DEF T
<1>3. n \in T
  BY <1>1, <1>2, Induction
<1> QED BY <1>3 DEF T, KeptTo

\* So Remaining is the last value of a function that obeys the recursion.
LEMMA RemainingIsKept ==
    ASSUME NEW S, NEW s \in Seq(S), NEW gone
    PROVE  \E f : /\ f = [i \in 0..Len(s) |-> KeptAt(f, i, s, gone)]
                  /\ Remaining(s, gone) = f[Len(s)]
<1> DEFINE G == CHOOSE f : f = [i \in 0..Len(s) |-> KeptAt(f, i, s, gone)]
<1>1. Len(s) \in Nat
  OBVIOUS
<1>2. G = [i \in 0..Len(s) |-> KeptAt(G, i, s, gone)]
  <2>1. \E f : KeptTo(f, s, gone, Len(s))
    BY <1>1, KeptExists
  <2>2. KeptTo(CHOOSE f : KeptTo(f, s, gone, Len(s)), s, gone, Len(s))
    BY <2>1
  <2> QED BY <2>2 DEF KeptTo
<1>3. Remaining(s, gone) = G[Len(s)]
  BY DEF Remaining, KeptAt
<1> QED BY <1>2, <1>3

\* What the entries r that a deletion leaves of the first n entries of s are: some
\* of those, none at a deleted position, fewer when one was deleted, each key once.
PartOf(r, s, gone, n, S) ==
    /\ r \in Seq(S)
    /\ Len(r) <= n
    /\ (\E i \in 1..n : i \in gone) => Len(r) < n
    /\ \A j \in 1..Len(r) : \E i \in 1..n : i \notin gone /\ r[j] = s[i]
    /\ \A i, j \in 1..Len(r) : r[i].key = r[j].key => i = j

\* Entries with distinct keys keep that property, and their order is theirs.
LEMMA RemainingIsPart ==
    ASSUME NEW S, NEW s \in Seq(S), NEW gone,
           \A i, j \in 1..Len(s) : s[i].key = s[j].key => i = j
    PROVE  PartOf(Remaining(s, gone), s, gone, Len(s), S)
<1>1. PICK f : /\ f = [i \in 0..Len(s) |-> KeptAt(f, i, s, gone)]
               /\ Remaining(s, gone) = f[Len(s)]
  BY RemainingIsKept
<1> DEFINE T == {n \in Nat : n <= Len(s) => PartOf(f[n], s, gone, n, S)}
<1>2. Len(s) \in Nat
  OBVIOUS
<1>3. 0 \in T
  <2>1. f[0] = <<>>
    BY <1>1, <1>2 DEF KeptAt
  <2>2. PartOf(<<>>, s, gone, 0, S)
    BY DEF PartOf
  <2> QED BY <2>1, <2>2
<1>4. ASSUME NEW n \in Nat, n \in T PROVE n + 1 \in T
  <2> SUFFICES ASSUME n + 1 <= Len(s) PROVE PartOf(f[n + 1], s, gone, n + 1, S)
    OBVIOUS
  <2> DEFINE r == f[n]
  <2>1. PartOf(r, s, gone, n, S)
    BY <1>4, <1>2
  <2>2. n + 1 \in 0..Len(s) /\ n + 1 # 0 /\ (n + 1) - 1 = n
    BY <1>2
  <2>3. f[n+1] = IF n + 1 \in gone THEN r ELSE Append(r, s[n+1])
    BY <1>1, <2>2 DEF KeptAt
  <2> HIDE DEF r
  <2>4. ASSUME n + 1 \in gone PROVE PartOf(r, s, gone, n + 1, S)
    BY <2>1, <2>4 DEF PartOf
  <2>5. ASSUME n + 1 \notin gone PROVE PartOf(Append(r, s[n+1]), s, gone, n + 1, S)
    <3> DEFINE a == Append(r, s[n+1])
    <3>1. s[n+1] \in S
      BY <2>2
    <3>2. /\ a \in Seq(S) /\ Len(a) = Len(r) + 1 /\ Len(r) \in Nat
          /\ a[Len(r) + 1] = s[n+1] /\ \A j \in 1..Len(r) : a[j] = r[j]
      BY <2>1, <3>1 DEF PartOf
    <3> HIDE DEF a
    <3>3. ASSUME NEW j \in 1..Len(a) PROVE \E i \in 1..(n+1) : i \notin gone /\ a[j] = s[i]
      <4>1. CASE j = Len(r) + 1
        <5>1. n + 1 \in 1..(n+1) /\ a[j] = s[n+1]
          BY <3>2, <4>1
        <5> QED BY <2>5, <5>1
      <4>2. CASE j \in 1..Len(r)
        <5>1. PICK i \in 1..n : i \notin gone /\ r[j] = s[i]
          BY <2>1, <4>2 DEF PartOf
        <5>2. i \in 1..(n+1) /\ a[j] = r[j]
          BY <3>2, <4>2
        <5> QED BY <5>1, <5>2
      <4> QED BY <3>2, <4>1, <4>2
    <3>4. \A j \in 1..Len(r) : r[j].key # s[n+1].key
      <4> SUFFICES ASSUME NEW j \in 1..Len(r) PROVE r[j].key # s[n+1].key
        OBVIOUS
      <4>1. PICK i \in 1..n : r[j] = s[i]
        BY <2>1 DEF PartOf
      <4>2. i \in 1..Len(s) /\ n + 1 \in 1..Len(s) /\ i < n + 1
        BY <1>2, <2>2
      <4> QED BY <4>1, <4>2
    <3>5. ASSUME NEW i \in 1..Len(a), NEW j \in 1..Len(a), a[i].key = a[j].key PROVE i = j
      <4>1. /\ i \in 1..Len(r) \/ i = Len(r) + 1
            /\ j \in 1..Len(r) \/ j = Len(r) + 1
        BY <3>2
      <4>2. CASE i \in 1..Len(r) /\ j \in 1..Len(r)
        BY <2>1, <3>2, <3>5, <4>2 DEF PartOf
      <4>3. CASE i = Len(r) + 1 /\ j \in 1..Len(r)
        BY <3>2, <3>4, <3>5, <4>3
      <4>4. CASE j = Len(r) + 1 /\ i \in 1..Len(r)
        BY <3>2, <3>4, <3>5, <4>4
      <4> QED BY <4>1, <4>2, <4>3, <4>4
    <3>6. Len(a) <= n + 1 /\ ((\E i \in 1..(n+1) : i \in gone) => Len(a) < n + 1)
      BY <2>1, <2>5, <3>2 DEF PartOf
    <3>7. PartOf(a, s, gone, n + 1, S)
      BY <3>2, <3>3, <3>5, <3>6 DEF PartOf
    <3> QED BY <3>7 DEF a
  <2> QED BY <2>3, <2>4, <2>5
<1>5. Len(s) \in T
  <2> HIDE DEF T
  <2> QED BY <1>2, <1>3, <1>4, Induction
<1> QED BY <1>1, <1>5

-----------------------------------------------------------------------------
(* The idempotency cache *)

\* The entries of c are those of the cache, up to their expiry, and those with a
\* key and an origin in new.
KeptOrNew(c, new) ==
    /\ c \in Seq(Entry)
    /\ Len(c) <= CACHE_MAX
    /\ \A i, j \in 1..Len(c) : c[i].key = c[j].key => i = j
    /\ \A i \in 1..Len(c) :
          \/ <<c[i].key, c[i].from>> \in new
          \/ \E j \in 1..Len(cache) : c[i].key = cache[j].key /\ c[i].from = cache[j].from

\* Deleting a key leaves the entries of the other keys.
LEMMA WithoutKey ==
    ASSUME Types, CacheWellFormed, NEW key
    PROVE  /\ PartOf(Without(key), cache, Entries(key), Len(cache), Entry)
           /\ \A j \in 1..Len(Without(key)) : Without(key)[j].key # key
<1>1. PartOf(Without(key), cache, Entries(key), Len(cache), Entry)
  BY RemainingIsPart DEF Types, CacheWellFormed, Without
<1>2. ASSUME NEW j \in 1..Len(Without(key)) PROVE Without(key)[j].key # key
  <2>1. PICK i \in 1..Len(cache) : i \notin Entries(key) /\ Without(key)[j] = cache[i]
    BY <1>1 DEF PartOf
  <2> QED BY <2>1 DEF Entries
<1> QED BY <1>1, <1>2

\* A new last entry next to the entries of the other keys.
LEMMA AppendEntry ==
    ASSUME Types, CacheWellFormed, NEW key, NEW e \in Entry, e.key = key
    PROVE  LET c == Append(Without(key), e) IN
           /\ c \in Seq(Entry)
           /\ Len(c) = Len(Without(key)) + 1
           /\ \A i, j \in 1..Len(c) : c[i].key = c[j].key => i = j
           /\ \A i \in 1..Len(c) : c[i] = e \/ \E j \in 1..Len(cache) : c[i] = cache[j]
<1> DEFINE w == Without(key)
           c == Append(w, e)
<1>1. /\ PartOf(w, cache, Entries(key), Len(cache), Entry)
      /\ \A j \in 1..Len(w) : w[j].key # key
  BY WithoutKey
<1> HIDE DEF w
<1>2. /\ c \in Seq(Entry) /\ Len(c) = Len(w) + 1 /\ Len(w) \in Nat
      /\ c[Len(w) + 1] = e /\ \A j \in 1..Len(w) : c[j] = w[j]
  BY <1>1 DEF PartOf
<1> HIDE DEF c
<1>3. ASSUME NEW i \in 1..Len(c), NEW j \in 1..Len(c), c[i].key = c[j].key PROVE i = j
  <2>1. /\ i \in 1..Len(w) \/ i = Len(w) + 1
        /\ j \in 1..Len(w) \/ j = Len(w) + 1
    BY <1>2
  <2>2. CASE i \in 1..Len(w) /\ j \in 1..Len(w)
    BY <1>1, <1>2, <1>3, <2>2 DEF PartOf
  <2>3. CASE i = Len(w) + 1 /\ j \in 1..Len(w)
    BY <1>1, <1>2, <1>3, <2>3
  <2>4. CASE j = Len(w) + 1 /\ i \in 1..Len(w)
    BY <1>1, <1>2, <1>3, <2>4
  <2> QED BY <2>1, <2>2, <2>3, <2>4
<1>4. ASSUME NEW i \in 1..Len(c) PROVE c[i] = e \/ \E j \in 1..Len(cache) : c[i] = cache[j]
  <2>1. i \in 1..Len(w) \/ i = Len(w) + 1
    BY <1>2
  <2> QED BY <1>1, <1>2, <2>1 DEF PartOf
<1> QED BY <1>2, <1>3, <1>4 DEF c, w

\* The entry a lookup hits is one of the cache's.
LEMMA HitEntry ==
    ASSUME Types, NEW key, LiveEntries(key) # {}
    PROVE  LET i == CHOOSE i \in LiveEntries(key) : TRUE IN
           i \in 1..Len(cache) /\ i \in Entries(key) /\ cache[i] \in Entry /\ cache[i].key = key
<1> DEFINE i == CHOOSE i \in LiveEntries(key) : TRUE
<1>1. i \in LiveEntries(key)
  OBVIOUS
<1>2. i \in 1..Len(cache) /\ cache[i].key = key
  BY <1>1 DEF LiveEntries, Entries
<1> HIDE DEF i
<1>3. cache[i] \in Entry
  BY <1>2 DEF Types
<1> QED BY <1>1, <1>2, <1>3 DEF LiveEntries, i

\* idempotencyGet keeps the cache within its bound.
LEMMA GetKeeps ==
    ASSUME Types, CacheWellFormed, NEW key
    PROVE  KeptOrNew(idempotencyGet(key), {})
<1>1. PartOf(Without(key), cache, Entries(key), Len(cache), Entry)
  BY WithoutKey
<1>2. CASE LiveEntries(key) = {}
  <2>1. idempotencyGet(key) = Without(key)
    BY <1>2 DEF idempotencyGet
  <2> DEFINE w == Without(key)
  <2>2. PartOf(w, cache, Entries(key), Len(cache), Entry)
    BY <1>1
  <2> HIDE DEF w
  <2>3. Len(w) <= CACHE_MAX
    BY <2>2, GatewayConstants DEF PartOf, CacheWellFormed, Types
  <2>4. KeptOrNew(w, {})
    BY <2>2, <2>3 DEF KeptOrNew, PartOf
  <2> QED BY <2>1, <2>4 DEF w
<1>3. CASE LiveEntries(key) # {}
  <2> DEFINE i == CHOOSE i \in LiveEntries(key) : TRUE
             e == cache[i]
             c == Append(Without(key), e)
  <2>1. i \in 1..Len(cache) /\ i \in Entries(key) /\ e \in Entry /\ e.key = key
    BY <1>3, HitEntry
  <2>2. idempotencyGet(key) = c
    BY <1>3 DEF idempotencyGet
  <2> HIDE DEF i
  <2>3. /\ c \in Seq(Entry)
        /\ Len(c) = Len(Without(key)) + 1
        /\ \A j, k \in 1..Len(c) : c[j].key = c[k].key => j = k
        /\ \A k \in 1..Len(c) : c[k] = e \/ \E j \in 1..Len(cache) : c[k] = cache[j]
    BY <2>1, AppendEntry
  <2>4. Len(Without(key)) < Len(cache) /\ Len(Without(key)) \in Nat
    BY <1>1, <2>1 DEF PartOf
  <2> HIDE DEF c
  <2>5. Len(c) <= CACHE_MAX
    BY <2>3, <2>4, GatewayConstants DEF CacheWellFormed, Types
  <2>6. \A k \in 1..Len(c) : \E j \in 1..Len(cache) : c[k].key = cache[j].key /\ c[k].from = cache[j].from
    BY <2>1, <2>3
  <2> QED BY <2>2, <2>3, <2>5, <2>6 DEF KeptOrNew
<1> QED BY <1>2, <1>3

\* idempotencySet keeps the cache within its bound, although it drops one entry
\* where the code has a loop.
LEMMA SetKeeps ==
    ASSUME Types, CacheWellFormed, NEW key \in StorageKeys, NEW r \in Requests
    PROVE  KeptOrNew(idempotencySet(key, r), {<<key, r>>})
<1> DEFINE e == [key |-> key, from |-> r, expired |-> FALSE]
           c == Append(Without(key), e)
<1>1. e \in Entry /\ e.key = key /\ e.from = r
  BY DEF Entry
<1> HIDE DEF e
<1>2. /\ c \in Seq(Entry)
      /\ Len(c) = Len(Without(key)) + 1
      /\ \A j, k \in 1..Len(c) : c[j].key = c[k].key => j = k
      /\ \A k \in 1..Len(c) : c[k] = e \/ \E j \in 1..Len(cache) : c[k] = cache[j]
  BY <1>1, AppendEntry
<1>3. idempotencySet(key, r) = IF Len(c) > CACHE_MAX THEN Tail(c) ELSE c
  BY DEF idempotencySet, e
<1>4. Len(Without(key)) <= Len(cache) /\ Len(Without(key)) \in Nat
  BY WithoutKey DEF PartOf
<1> HIDE DEF c
<1>5. Len(cache) <= CACHE_MAX /\ Len(cache) \in Nat /\ CACHE_MAX \in Nat
  BY GatewayConstants DEF CacheWellFormed, Types
<1>6. \A k \in 1..Len(c) :
         \/ <<c[k].key, c[k].from>> \in {<<key, r>>}
         \/ \E j \in 1..Len(cache) : c[k].key = cache[j].key /\ c[k].from = cache[j].from
  BY <1>1, <1>2
<1>7. CASE Len(c) > CACHE_MAX
  <2> DEFINE t == Tail(c)
  <2>1. /\ t \in Seq(Entry) /\ Len(t) = Len(c) - 1
        /\ \A k \in 1..Len(t) : t[k] = c[k+1] /\ k + 1 \in 1..Len(c)
    BY <1>2, <1>4, <1>5, <1>7
  <2> HIDE DEF t
  <2>2. \A j, k \in 1..Len(t) : t[j].key = t[k].key => j = k
    <3> SUFFICES ASSUME NEW j \in 1..Len(t), NEW k \in 1..Len(t), t[j].key = t[k].key PROVE j = k
      OBVIOUS
    <3>1. /\ j + 1 \in 1..Len(c) /\ k + 1 \in 1..Len(c)
          /\ c[j+1].key = c[k+1].key
      BY <2>1
    <3>2. j + 1 = k + 1
      BY <1>2, <3>1
    <3> QED BY <3>2
  <2>3. \A k \in 1..Len(t) :
         \/ <<t[k].key, t[k].from>> \in {<<key, r>>}
         \/ \E j \in 1..Len(cache) : t[k].key = cache[j].key /\ t[k].from = cache[j].from
    BY <1>6, <2>1
  <2>4. Len(t) <= CACHE_MAX
    BY <1>2, <1>4, <1>5, <2>1
  <2>5. KeptOrNew(t, {<<key, r>>})
    BY <2>1, <2>2, <2>3, <2>4 DEF KeptOrNew
  <2> QED BY <1>3, <1>7, <2>5 DEF t
<1>8. CASE ~(Len(c) > CACHE_MAX)
  <2>1. Len(c) <= CACHE_MAX
    BY <1>2, <1>4, <1>5, <1>8
  <2> QED BY <1>2, <1>3, <1>6, <1>8, <2>1 DEF KeptOrNew
<1> QED BY <1>7, <1>8

-----------------------------------------------------------------------------
(* The inductive invariant *)

LEMMA InitInv == Init => GatewayInv
<1> SUFFICES ASSUME Init PROVE GatewayInv
  OBVIOUS
<1>1. BaseTypes
  BY GatewayConstants DEF Init, PortInit, BaseTypes, CallStates, Points, RequestSet, NoRequest, Answers
<1>2. cache \in Seq(Entry) /\ CacheWellFormed /\ CacheIsGenuine
  BY GatewayConstants DEF Init, CacheWellFormed, CacheIsGenuine
<1>3. \A r \in Requests : RequestOK(r)
  BY GatewayConstants DEF Init, PortInit, RequestOK, CallFollows, FetchesFollow, Outcome, NoAnswer, Failed, Spent, NoRequest
<1>4. HitsAreGenuine
  BY DEF Init, HitsAreGenuine, NoAnswer
<1> QED BY <1>1, <1>2, <1>3, <1>4 DEF GatewayInv, Types

\* Requests that are done keep their answer and their request.
DoneStays == \A x \in Requests : pc[x] = "done" => answer'[x] = answer[x] /\ req'[x] = req[x]

\* A request that an entry or a replay names stays one that completed.
LEMMA GenuineStays ==
    ASSUME GatewayInv, DoneStays, NEW f \in Requests, NEW k, Genuine(f, k)
    PROVE  Genuine(f, k)'
<1>1. answer[f] # NoAnswer
  BY DEF Genuine, Completion, NoAnswer
<1>2. pc[f] = "done"
  BY <1>1 DEF GatewayInv, RequestOK, Outcome
<1> QED BY <1>2 DEF DoneStays, Genuine, idempotencyStorageKey

\* The cache after a step that keeps its entries or adds a genuine one.
LEMMA CacheStep ==
    ASSUME GatewayInv, DoneStays, NEW new, KeptOrNew(cache', new),
           \A p \in new : Genuine(p[2], p[1])'
    PROVE  cache' \in Seq(Entry) /\ CacheWellFormed' /\ CacheIsGenuine'
<1>1. cache' \in Seq(Entry) /\ CacheWellFormed'
  BY DEF KeptOrNew, CacheWellFormed
<1>2. ASSUME NEW i \in 1..Len(cache'), NEW f, NEW k, f = cache'[i].from, k = cache'[i].key
      PROVE  Genuine(f, k)'
  <2>1. CASE <<k, f>> \in new
    BY <2>1
  <2>2. ASSUME NEW j \in 1..Len(cache), k = cache[j].key, f = cache[j].from
        PROVE  Genuine(f, k)'
    <3>0. cache[j] \in Entry
      BY DEF GatewayInv, Types
    <3>1. f \in Requests
      BY <2>2, <3>0 DEF Entry
    <3>2. Genuine(f, k)
      BY <2>2 DEF GatewayInv, CacheIsGenuine
    <3> QED BY <3>1, <3>2, GenuineStays
  <2>3. <<k, f>> \in new \/ \E j \in 1..Len(cache) : k = cache[j].key /\ f = cache[j].from
    BY <1>2 DEF KeptOrNew
  <2> QED BY <2>1, <2>2, <2>3
<1>3. CacheIsGenuine'
  BY <1>2 DEF CacheIsGenuine, Genuine
<1> QED BY <1>1, <1>3

\* The replays after a step: an answer that was there is still genuine, and so is
\* a new one.
LEMMA HitsStep ==
    ASSUME GatewayInv, DoneStays,
           \A x \in Requests : answer'[x].kind = "hit" =>
              \/ answer'[x] = answer[x]
              \/ \E f, k : f = answer'[x].from /\ k = idempotencyStorageKey(req'[x]) /\ Genuine(f, k)'
    PROVE  HitsAreGenuine'
<1>1. ASSUME NEW x \in Requests, answer'[x].kind = "hit", NEW f, NEW k,
             f = answer'[x].from, k = idempotencyStorageKey(req'[x])
      PROVE  Genuine(f, k)'
  <2>1. CASE answer'[x] = answer[x]
    <3>1. answer[x] # NoAnswer
      BY <1>1, <2>1 DEF NoAnswer
    <3>2. pc[x] = "done"
      BY <3>1 DEF GatewayInv, RequestOK, Outcome
    <3>3. req'[x] = req[x]
      BY <3>2 DEF DoneStays
    <3>4. f = answer[x].from /\ k = idempotencyStorageKey(req[x])
      BY <1>1, <2>1, <3>3
    <3>5. f \in Requests
      <4>1. answer[x] \in Answers /\ answer[x].kind = "hit"
        BY <1>1, <2>1 DEF GatewayInv, Types, BaseTypes
      <4> QED BY <3>4, <4>1 DEF Answers, NoAnswer, Failed, Streamed, Completion, Replay
    <3>6. Genuine(f, k)
      BY <1>1, <2>1, <3>4 DEF GatewayInv, HitsAreGenuine
    <3> QED BY <3>5, <3>6, GenuineStays
  <2> QED BY <1>1, <2>1
<1> QED BY <1>1 DEF HitsAreGenuine, Genuine, idempotencyStorageKey

\* Request x is as it was.
Same(x) ==
    /\ call'[x] = call[x] /\ pc'[x] = pc[x] /\ req'[x] = req[x] /\ attempt'[x] = attempt[x]
    /\ fetches'[x] = fetches[x] /\ answer'[x] = answer[x]
    /\ (x \in recorded') = (x \in recorded)

LEMMA SameStaysOK ==
    ASSUME NEW x, RequestOK(x), Same(x), configured' = configured
    PROVE  RequestOK(x)'
BY DEF Same, RequestOK, CallFollows, FetchesFollow, Outcome, Spent

\* A step of the handler of r leaves the other requests alone: what is left to
\* show is about r and the cache.
LEMMA HandlerStep ==
    ASSUME GatewayInv, NEW r \in Requests, pc[r] # "done",
           \A x \in Requests \ {r} : Same(x),
           configured' = configured, BaseTypes', RequestOK(r)',
           NEW new, KeptOrNew(cache', new), \A p \in new : Genuine(p[2], p[1])',
           answer'[r].kind = "hit" =>
              \E f, k : f = answer'[r].from /\ k = idempotencyStorageKey(req'[r]) /\ Genuine(f, k)'
    PROVE  GatewayInv'
<1>1. DoneStays
  BY DEF DoneStays, Same
<1>2. cache' \in Seq(Entry) /\ CacheWellFormed' /\ CacheIsGenuine'
  BY <1>1, CacheStep
<1>3. ASSUME NEW x \in Requests PROVE RequestOK(x)'
  <2>1. CASE x = r
    BY <2>1
  <2>2. CASE x # r
    BY <2>2, SameStaysOK DEF GatewayInv
  <2> QED BY <2>1, <2>2
<1>4. \A x \in Requests : answer'[x].kind = "hit" =>
              \/ answer'[x] = answer[x]
              \/ \E f, k : f = answer'[x].from /\ k = idempotencyStorageKey(req'[x]) /\ Genuine(f, k)'
  BY DEF Same
<1>5. HitsAreGenuine'
  BY <1>1, <1>4, HitsStep
<1> QED BY <1>2, <1>3, <1>5 DEF GatewayInv, Types

\* The cache as it is.
LEMMA CacheKept ==
    ASSUME GatewayInv, cache' = cache
    PROVE  KeptOrNew(cache', {})
BY DEF GatewayInv, Types, CacheWellFormed, KeptOrNew

\* What Complete stores is the completion it sends.
LEMMA StoreStep ==
    ASSUME GatewayInv, NEW r \in Requests, StoreResult(r), req' = req,
           answer' = [answer EXCEPT ![r] = Completion(r)]
    PROVE  \E new : KeptOrNew(cache', new) /\ \A p \in new : Genuine(p[2], p[1])'
<1>1. req[r] \in RequestSet /\ answer'[r] = Completion(r)
  BY DEF GatewayInv, Types, BaseTypes
<1>2. CASE req[r].key # NoKey /\ ~req[r].stream
  <2> DEFINE key == idempotencyStorageKey(req[r])
  <2>1. key \in StorageKeys
    BY <1>1, <1>2 DEF idempotencyStorageKey, RequestSet, StorageKeys
  <2>2. cache' = idempotencySet(key, r)
    BY <1>2 DEF StoreResult
  <2>3. KeptOrNew(cache', {<<key, r>>})
    <3> HIDE DEF key
    <3> QED BY <2>1, <2>2, SetKeeps DEF GatewayInv
  <2>4. ASSUME NEW k, k = key PROVE Genuine(r, k)'
    BY <1>1, <1>2, <2>4 DEF Genuine, idempotencyStorageKey
  <2>5. \A p \in {<<key, r>>} : Genuine(p[2], p[1])'
    BY <2>4 DEF Genuine
  <2> QED BY <2>3, <2>5
<1>3. CASE ~(req[r].key # NoKey /\ ~req[r].stream)
  BY <1>3, CacheKept DEF StoreResult
<1> QED BY <1>2, <1>3

\* The fields of Types, read off for one request.
LEMMA Fields ==
    ASSUME GatewayInv, NEW r \in Requests
    PROVE  /\ call[r] \in CallStates /\ pc[r] \in Points /\ req[r] \in RequestSet
           /\ req[r].stream \in BOOLEAN /\ attempt[r] \in 0..RETRIES /\ fetches[r] \in Nat
           /\ answer[r] \in Answers /\ RequestOK(r) /\ RETRIES \in Nat
           /\ Spent(r) \in Nat
BY GatewayConstants DEF GatewayInv, Types, BaseTypes, RequestSet, Spent

\* Every answer a handler gives is one of Answers.
LEMMA AnswerTypes ==
    /\ NoAnswer \in Answers /\ Failed \in Answers /\ Streamed \in Answers
    /\ \A r \in Requests : Completion(r) \in Answers /\ Replay(r) \in Answers
BY DEF Answers

LEMMA KernelResultInv ==
    ASSUME GatewayInv, NEW r \in Requests, KernelResult(r)
    PROVE  GatewayInv'
<1> USE DEF KernelResult, Complete, Respond
<1>0. BaseTypes
  BY DEF GatewayInv, Types
<1>1. BaseTypes'
  BY <1>0, AnswerTypes, GatewayConstants DEF BaseTypes, Points, portVars
<1>2. \A x \in Requests \ {r} : Same(x)
  BY <1>0 DEF BaseTypes, Same, portVars
<1>3. RequestOK(r)'
  BY Fields DEF GatewayInv, Types, BaseTypes, portVars, RequestOK, CallFollows, FetchesFollow, Outcome,
     Spent, Completion, NoAnswer, Failed
<1>4. \E new : KeptOrNew(cache', new) /\ \A p \in new : Genuine(p[2], p[1])'
  BY StoreStep
<1>5. answer'[r].kind # "hit"
  BY DEF GatewayInv, Types, BaseTypes, Completion
<1>6. configured' = configured /\ pc[r] # "done"
  OBVIOUS
<1> QED BY <1>1, <1>2, <1>3, <1>4, <1>5, <1>6, HandlerStep

LEMMA NodeOkInv ==
    ASSUME GatewayInv, NEW r \in Requests, NodeOk(r)
    PROVE  GatewayInv'
<1> USE DEF NodeOk, Complete, Respond, FetchDone
<1>0. BaseTypes
  BY DEF GatewayInv, Types
<1>1. BaseTypes'
  BY <1>0, AnswerTypes, GatewayConstants DEF BaseTypes, Points, portVars
<1>2. \A x \in Requests \ {r} : Same(x)
  BY <1>0 DEF BaseTypes, Same, portVars
<1>v. /\ pc'[r] = "done" /\ answer'[r] = Completion(r) /\ fetches'[r] = fetches[r] + 1
      /\ req'[r] = req[r] /\ call'[r] = call[r] /\ attempt'[r] = attempt[r]
      /\ (r \in recorded') = (r \in recorded) /\ configured' = configured
  BY <1>0 DEF BaseTypes, portVars
<1>w. pc[r] = "node" /\ RequestOK(r)
  BY Fields
<1>3. RequestOK(r)'
  <2>1. CallFollows(r)'
    BY <1>v, <1>w DEF RequestOK, CallFollows
  <2>2. FetchesFollow(r)'
    BY <1>v, <1>w, Fields DEF RequestOK, FetchesFollow, Spent
  <2>3. Outcome(r)'
    BY <1>v, <1>w, Fields DEF RequestOK, Outcome, CallFollows, Spent, Completion, NoAnswer, Failed
  <2> QED BY <2>1, <2>2, <2>3 DEF RequestOK
<1>4. \E new : KeptOrNew(cache', new) /\ \A p \in new : Genuine(p[2], p[1])'
  BY StoreStep
<1>5. answer'[r].kind # "hit"
  BY DEF GatewayInv, Types, BaseTypes, Completion
<1>6. configured' = configured /\ pc[r] # "done"
  OBVIOUS
<1> QED BY <1>1, <1>2, <1>3, <1>4, <1>5, <1>6, HandlerStep

\* A step of the handler of r that leaves the cache alone and does not replay.
LEMMA PlainStep ==
    ASSUME GatewayInv, NEW r \in Requests, pc[r] # "done",
           \A x \in Requests \ {r} : Same(x),
           configured' = configured, BaseTypes', RequestOK(r)',
           cache' = cache, answer'[r].kind # "hit"
    PROVE  GatewayInv'
BY CacheKept, HandlerStep

LEMMA NodeErrorInv ==
    ASSUME GatewayInv, NEW r \in Requests, NodeError(r)
    PROVE  GatewayInv'
<1> USE DEF NodeError, Respond, FetchDone
<1>0. BaseTypes
  BY DEF GatewayInv, Types
<1>1. BaseTypes'
  BY <1>0, AnswerTypes, GatewayConstants DEF BaseTypes, Points, portVars
<1>2. \A x \in Requests \ {r} : Same(x)
  BY <1>0 DEF BaseTypes, Same, portVars
<1>v. /\ pc'[r] = "done" /\ answer'[r] = Failed /\ fetches'[r] = fetches[r] + 1
      /\ req'[r] = req[r] /\ call'[r] = call[r] /\ attempt'[r] = attempt[r]
      /\ (r \in recorded') = (r \in recorded) /\ configured' = configured
  BY <1>0 DEF BaseTypes, portVars
<1>w. pc[r] = "node" /\ RequestOK(r)
  BY Fields
<1>3. RequestOK(r)'
  <2>1. CallFollows(r)'
    BY <1>v, <1>w DEF RequestOK, CallFollows
  <2>2. FetchesFollow(r)'
    BY <1>v, <1>w, Fields DEF RequestOK, FetchesFollow, Spent
  <2>3. Outcome(r)'
    BY <1>v, <1>w, Fields DEF RequestOK, Outcome, CallFollows, Spent, Completion, NoAnswer, Failed
  <2> QED BY <2>1, <2>2, <2>3 DEF RequestOK
<1>4. answer'[r].kind # "hit"
  BY DEF GatewayInv, Types, BaseTypes, Failed
<1> QED BY <1>1, <1>2, <1>3, <1>4, PlainStep

LEMMA FetchRetryInv ==
    ASSUME GatewayInv, NEW r \in Requests, FetchRetry(r)
    PROVE  GatewayInv'
<1> USE DEF FetchRetry, MayRetry, FetchDone
<1>0. BaseTypes
  BY DEF GatewayInv, Types
<1>1. BaseTypes'
  BY <1>0, AnswerTypes, GatewayConstants DEF BaseTypes, Points, portVars
<1>2. \A x \in Requests \ {r} : Same(x)
  BY <1>0 DEF BaseTypes, Same, portVars
<1>3. answer[r] = NoAnswer
  BY DEF GatewayInv, RequestOK, Outcome
<1>v. /\ pc'[r] = pc[r] /\ answer'[r] = answer[r] /\ fetches'[r] = fetches[r] + 1
      /\ req'[r] = req[r] /\ call'[r] = call[r] /\ attempt'[r] = attempt[r] + 1
      /\ (r \in recorded') = (r \in recorded) /\ configured' = configured
  BY <1>0 DEF BaseTypes, portVars
<1>w. pc[r] \in {"node", "stream"} /\ attempt[r] < RETRIES /\ RequestOK(r)
  BY Fields
<1>4. RequestOK(r)'
  <2>1. CallFollows(r)'
    BY <1>v, <1>w DEF RequestOK, CallFollows
  <2>2. FetchesFollow(r)'
    BY <1>v, <1>w, Fields DEF RequestOK, FetchesFollow, Spent
  <2>3. Outcome(r)'
    BY <1>3, <1>v, <1>w, Fields DEF RequestOK, Outcome, CallFollows, Spent, NoAnswer, Failed
  <2> QED BY <2>1, <2>2, <2>3 DEF RequestOK
<1>5. answer'[r].kind # "hit"
  BY <1>3 DEF NoAnswer
<1> QED BY <1>1, <1>2, <1>4, <1>5, PlainStep

LEMMA StreamOkInv ==
    ASSUME GatewayInv, NEW r \in Requests, StreamOk(r)
    PROVE  GatewayInv'
<1> USE DEF StreamOk, FetchDone
<1>0. BaseTypes
  BY DEF GatewayInv, Types
<1>1. BaseTypes'
  BY <1>0, AnswerTypes, GatewayConstants DEF BaseTypes, Points, portVars
<1>2. \A x \in Requests \ {r} : Same(x)
  BY <1>0 DEF BaseTypes, Same, portVars
<1>3. answer[r] = NoAnswer
  BY DEF GatewayInv, RequestOK, Outcome
<1>4. RequestOK(r)'
  BY <1>3, Fields DEF GatewayInv, Types, BaseTypes, portVars, RequestOK, CallFollows, FetchesFollow, Outcome,
     Spent, NoAnswer, Failed
<1>5. answer'[r].kind # "hit"
  BY <1>3 DEF NoAnswer
<1> QED BY <1>1, <1>2, <1>4, <1>5, PlainStep

LEMMA StreamEndInv ==
    ASSUME GatewayInv, NEW r \in Requests, StreamEnd(r)
    PROVE  GatewayInv'
<1> USE DEF StreamEnd, Respond
<1>0. BaseTypes
  BY DEF GatewayInv, Types
<1>1. BaseTypes'
  BY <1>0, AnswerTypes, GatewayConstants DEF BaseTypes, Points, portVars
<1>2. \A x \in Requests \ {r} : Same(x)
  BY <1>0 DEF BaseTypes, Same, portVars
<1>3. RequestOK(r)'
  BY Fields DEF GatewayInv, Types, BaseTypes, portVars, RequestOK, CallFollows, FetchesFollow, Outcome,
     Spent, NoAnswer, Failed, Streamed
<1>4. answer'[r].kind # "hit"
  BY DEF GatewayInv, Types, BaseTypes, Streamed
<1> QED BY <1>1, <1>2, <1>3, <1>4, PlainStep

\* A request that has not been answered yet, on its way to another route.
Routable(r) ==
    /\ BaseTypes /\ answer[r] = NoAnswer /\ r \notin recorded' /\ configured' = configured
    /\ fetches'[r] \in Nat /\ req'[r] \in RequestSet /\ fetches'[r] <= Spent(r)'
    /\ configured => req'[r].provider # "none"

\* What a route does to the variables it owns: the other requests keep theirs.
Routed(r) ==
    /\ available' \in BOOLEAN /\ call' \in [Requests -> CallStates]
    /\ pc' \in [Requests -> Points] /\ attempt' \in [Requests -> 0..RETRIES]
    /\ answer' \in [Requests -> Answers] /\ answer'[r].kind # "hit"
    /\ \A x \in Requests \ {r} :
          call'[x] = call[x] /\ pc'[x] = pc[x] /\ attempt'[x] = attempt[x] /\ answer'[x] = answer[x]

LEMMA EnterNodeOK ==
    ASSUME NEW r \in Requests, Routable(r), call[r] \in {"unused", "rejected"}, EnterNode(r, req'[r])
    PROVE  Routed(r) /\ RequestOK(r)'
<1> USE DEF EnterNode, Respond
<1>1. Routed(r)
  BY AnswerTypes, GatewayConstants DEF Routable, BaseTypes, Routed, portVars, Points, NoAnswer, Failed
<1>2. attempt'[r] = 0 /\ call'[r] = call[r]
  BY DEF Routable, BaseTypes, portVars
<1>3. RETRIES \in Nat /\ Spent(r)' \in Nat
  BY GatewayConstants DEF Spent
<1>4. CASE req'[r].provider = "none"
  <2>1. pc'[r] = "done" /\ answer'[r] = Failed
    BY <1>4 DEF Routable, BaseTypes
  <2>2. CallFollows(r)'
    BY <1>2, <2>1 DEF CallFollows
  <2>3. FetchesFollow(r)'
    BY <1>2, <1>3, <2>1 DEF Routable, FetchesFollow
  <2>4. Outcome(r)'
    BY <1>4, <2>1 DEF Routable, Outcome, NoAnswer, Failed
  <2> QED BY <1>1, <2>2, <2>3, <2>4 DEF RequestOK
<1>5. CASE req'[r].provider # "none"
  <2>1. pc'[r] = "node" /\ answer'[r] = NoAnswer
    BY <1>5 DEF Routable, BaseTypes
  <2>2. CallFollows(r)'
    BY <1>2, <2>1 DEF CallFollows
  <2>3. FetchesFollow(r)'
    BY <1>2, <1>3, <2>1 DEF Routable, FetchesFollow
  <2>4. Outcome(r)'
    BY <1>5, <2>1 DEF Routable, Outcome, NoAnswer, Failed
  <2> QED BY <1>1, <2>2, <2>3, <2>4 DEF RequestOK
<1> QED BY <1>1, <1>4, <1>5

LEMMA RouteInferenceOK ==
    ASSUME NEW r \in Requests, Routable(r), call[r] = "unused", RouteInference(r, req'[r])
    PROVE  Routed(r) /\ RequestOK(r)'
<1>1. CASE bound /\ available
  <2>1. StartCall(r) /\ pc' = [pc EXCEPT ![r] = "kernel"] /\ attempt' = attempt /\ answer' = answer
    BY <1>1 DEF RouteInference
  <2>2. Routed(r)
    BY <2>1, GatewayConstants DEF StartCall, Routable, BaseTypes, Routed, CallStates, Points, NoAnswer
  <2>3. pc'[r] = "kernel" /\ answer'[r] = NoAnswer /\ call'[r] = "waiting"
    BY <2>1, GatewayConstants DEF StartCall, Routable, BaseTypes
  <2> QED BY <2>2, <2>3 DEF Routable, RequestOK, CallFollows, FetchesFollow, Outcome, NoAnswer, Failed
<1>2. CASE ~(bound /\ available)
  <2>1. EnterNode(r, req'[r])
    BY <1>2 DEF RouteInference
  <2> QED BY <2>1, EnterNodeOK
<1> QED BY <1>1, <1>2

LEMMA KernelFailureInv ==
    ASSUME GatewayInv, NEW r \in Requests, KernelFailure(r)
    PROVE  GatewayInv'
<1> USE DEF KernelFailure
<1>1. BaseTypes /\ RequestOK(r)
  BY DEF GatewayInv, Types
<1>2. answer[r] = NoAnswer /\ r \notin recorded /\ (configured => req[r].provider # "none")
  BY <1>1 DEF RequestOK, Outcome
<1>3. Routable(r)
  BY <1>1, <1>2, Fields DEF Routable, RequestOK, FetchesFollow, Spent
<1>4. Routed(r) /\ RequestOK(r)'
  BY <1>3, EnterNodeOK
<1>5. BaseTypes'
  BY <1>1, <1>4 DEF BaseTypes, Routed
<1>6. \A x \in Requests \ {r} : Same(x)
  BY <1>4 DEF Routed, Same
<1> QED BY <1>4, <1>5, <1>6, PlainStep DEF Routed

LEMMA StreamErrorInv ==
    ASSUME GatewayInv, NEW r \in Requests, StreamError(r)
    PROVE  GatewayInv'
<1> USE DEF StreamError, FetchDone
<1>1. BaseTypes /\ RequestOK(r)
  BY DEF GatewayInv, Types
<1>2. answer[r] = NoAnswer /\ r \notin recorded /\ (configured => req[r].provider # "none")
  BY <1>1 DEF RequestOK, Outcome
<1>3. call[r] = "unused" /\ req[r].stream /\ fetches'[r] = fetches[r] + 1 /\ fetches[r] <= attempt[r]
  BY <1>1 DEF RequestOK, CallFollows, FetchesFollow, BaseTypes
<1>4. Routable(r)
  BY <1>1, <1>2, <1>3, Fields DEF Routable, Spent
<1>5. Routed(r) /\ RequestOK(r)'
  BY <1>3, <1>4, RouteInferenceOK
<1>6. BaseTypes'
  BY <1>1, <1>5 DEF BaseTypes, Routed
<1>7. \A x \in Requests \ {r} : Same(x)
  BY <1>1, <1>5 DEF BaseTypes, Routed, Same
<1> QED BY <1>5, <1>6, <1>7, PlainStep DEF Routed

\* A hit answers with the completion the entry names.
LEMMA HitStep ==
    ASSUME GatewayInv, NEW q, NEW key, key = idempotencyStorageKey(q), LiveEntries(key) # {}
    PROVE  LET e == cache[CHOOSE i \in LiveEntries(key) : TRUE] IN
           e.from \in Requests /\ Genuine(e.from, key)
<1> DEFINE i == CHOOSE i \in LiveEntries(key) : TRUE
<1>1. i \in 1..Len(cache) /\ i \in Entries(key) /\ cache[i] \in Entry /\ cache[i].key = key
  BY HitEntry DEF GatewayInv
<1> HIDE DEF i
<1>2. cache[i].from \in Requests
  BY <1>1 DEF Entry
<1>3. Genuine(cache[i].from, key)
  BY <1>1 DEF GatewayInv, CacheIsGenuine
<1> QED BY <1>2, <1>3 DEF i

LEMMA ArriveInv ==
    ASSUME GatewayInv, NEW r \in Requests, Arrive(r)
    PROVE  GatewayInv'
<1>1. BaseTypes /\ RequestOK(r)
  BY DEF GatewayInv, Types
<1>2. PICK q \in Incoming :
          LET key == idempotencyStorageKey(q)
              hit == q.key # NoKey /\ LiveEntries(key) # {} IN
          /\ req' = [req EXCEPT ![r] = q]
          /\ cache' = IF q.key # NoKey THEN idempotencyGet(key) ELSE cache
          /\ \/ /\ hit
                /\ Respond(r, Replay(cache[CHOOSE i \in LiveEntries(key) : TRUE].from))
                /\ UNCHANGED <<portVars, attempt>>
             \/ ~hit /\ q.stream /\ RouteStream(r, q)
             \/ ~hit /\ ~q.stream /\ RouteInference(r, q)
  BY DEF Arrive
<1> DEFINE key == idempotencyStorageKey(q)
           hit == q.key # NoKey /\ LiveEntries(key) # {}
<1>3. pc[r] = "idle" /\ bound' = bound /\ configured' = configured /\ fetches' = fetches /\ recorded' = recorded
  BY DEF Arrive
<1>4. /\ answer[r] = NoAnswer /\ r \notin recorded /\ call[r] = "unused" /\ fetches[r] = 0
  BY <1>1, <1>3 DEF RequestOK, Outcome, CallFollows, FetchesFollow
<1>5. /\ q \in RequestSet /\ req'[r] = q /\ req' \in [Requests -> RequestSet]
      /\ \A x \in Requests \ {r} : req'[x] = req[x]
      /\ configured => q.provider # "none"
  BY <1>1, <1>2 DEF Incoming, RequestSet, BaseTypes
<1>6. KeptOrNew(cache', {})
  <2>1. CASE q.key # NoKey
    BY <1>2, <2>1, GetKeeps DEF GatewayInv
  <2>2. CASE q.key = NoKey
    BY <1>2, <2>2, CacheKept
  <2> QED BY <2>1, <2>2
<1>7. Routable(r)
  BY <1>1, <1>3, <1>4, <1>5, Fields, GatewayConstants DEF Routable, Spent, RequestSet
<1>8. CASE hit
  <2> DEFINE from == cache[CHOOSE i \in LiveEntries(key) : TRUE].from
  <2>1. from \in Requests /\ Genuine(from, key)
    BY <1>8, HitStep
  <2>2. Respond(r, Replay(from)) /\ UNCHANGED <<portVars, attempt>>
    BY <1>2, <1>8
  <2> HIDE DEF from
  <2>3. BaseTypes'
    BY <1>1, <1>3, <1>5, <2>1, <2>2, AnswerTypes DEF BaseTypes, Respond, portVars, Points
  <2>4. \A x \in Requests \ {r} : Same(x)
    BY <1>1, <1>3, <1>5, <2>2 DEF BaseTypes, Respond, portVars, Same
  <2>5. pc'[r] = "done" /\ answer'[r] = Replay(from) /\ call'[r] = call[r] /\ fetches'[r] = 0
    BY <1>1, <1>3, <1>4, <2>2 DEF BaseTypes, Respond, portVars
  <2>6. RequestOK(r)'
    <3>1. Spent(r)' \in Nat /\ RETRIES \in Nat
      BY GatewayConstants DEF Spent
    <3> QED BY <1>3, <1>4, <1>5, <2>5, <3>1
        DEF RequestOK, CallFollows, FetchesFollow, Outcome, Replay, NoAnswer, Failed
  <2>7. DoneStays
    BY <1>3, <2>4 DEF DoneStays, Same
  <2>8. ASSUME NEW f, NEW k, f = from, k = key PROVE Genuine(f, k)'
    BY <2>1, <2>7, <2>8, GenuineStays
  <2>9. \E f, k : f = answer'[r].from /\ k = idempotencyStorageKey(req'[r]) /\ Genuine(f, k)'
    <3>1. from = answer'[r].from /\ key = idempotencyStorageKey(req'[r])
      BY <1>5, <2>5 DEF Replay
    <3>2. PICK f, k : f = from /\ k = key
      OBVIOUS
    <3> QED BY <2>8, <3>1, <3>2
  <2> QED BY <1>3, <1>6, <2>3, <2>4, <2>6, <2>9, HandlerStep
<1>9. CASE ~hit
  <2>1. Routed(r) /\ RequestOK(r)'
    <3>1. CASE q.stream /\ q.provider = "compat"
      <4>1. /\ pc' = [pc EXCEPT ![r] = "stream"] /\ attempt' = [attempt EXCEPT ![r] = 0]
            /\ UNCHANGED <<portVars, answer>>
        BY <1>2, <1>9, <3>1 DEF RouteStream
      <4>2. Routed(r)
        BY <1>1, <1>4, <4>1, GatewayConstants DEF BaseTypes, Routed, portVars, Points, NoAnswer
      <4>3. pc'[r] = "stream" /\ answer'[r] = NoAnswer /\ call'[r] = "unused" /\ attempt'[r] = 0
        BY <1>1, <1>4, <4>1 DEF BaseTypes, portVars
      <4> QED BY <1>3, <1>4, <1>5, <3>1, <4>2, <4>3
          DEF RequestOK, CallFollows, FetchesFollow, Outcome, NoAnswer, Failed
    <3>2. CASE ~(q.stream /\ q.provider = "compat")
      <4>1. RouteInference(r, req'[r])
        BY <1>2, <1>5, <1>9, <3>2 DEF RouteStream
      <4> QED BY <1>4, <1>7, <4>1, RouteInferenceOK
    <3> QED BY <3>1, <3>2
  <2>2. BaseTypes'
    BY <1>1, <1>3, <1>5, <2>1 DEF BaseTypes, Routed
  <2>3. \A x \in Requests \ {r} : Same(x)
    BY <1>3, <1>5, <2>1 DEF Routed, Same
  <2> QED BY <1>3, <1>6, <2>1, <2>2, <2>3, HandlerStep DEF Routed
<1> QED BY <1>8, <1>9

\* A step of the cache or of the kernel client leaves every request alone, up to
\* the state of its kernel call.
LEMMA WorldStep ==
    ASSUME GatewayInv, BaseTypes', \A x \in Requests : RequestOK(x)',
           answer' = answer, req' = req, KeptOrNew(cache', {})
    PROVE  GatewayInv'
<1>1. DoneStays
  BY DEF DoneStays
<1>2. cache' \in Seq(Entry) /\ CacheWellFormed' /\ CacheIsGenuine'
  BY <1>1, CacheStep
<1>3. HitsAreGenuine'
  BY <1>1, HitsStep
<1> QED BY <1>2, <1>3 DEF GatewayInv, Types

LEMMA EntryExpiresInv == ASSUME GatewayInv, EntryExpires PROVE GatewayInv'
<1>1. PICK i \in 1..Len(cache) : cache' = [cache EXCEPT ![i].expired = TRUE]
  BY DEF EntryExpires
<1>2. BaseTypes' /\ answer' = answer /\ req' = req
  BY DEF EntryExpires, GatewayInv, Types, BaseTypes, portVars
<1>3. \A x \in Requests : Same(x) /\ configured' = configured
  BY DEF EntryExpires, Same, portVars
<1>4. \A x \in Requests : RequestOK(x)'
  BY <1>3, SameStaysOK DEF GatewayInv
<1>5. KeptOrNew(cache', {})
  <2>1. cache \in Seq(Entry) /\ cache[i] \in Entry
    BY DEF GatewayInv, Types
  <2>2. [cache[i] EXCEPT !.expired = TRUE] \in Entry
    BY <2>1 DEF Entry
  <2>3. cache' \in Seq(Entry) /\ Len(cache') = Len(cache)
    BY <1>1, <2>1, <2>2
  <2>4. \A j \in 1..Len(cache) : cache'[j].key = cache[j].key /\ cache'[j].from = cache[j].from
    <3>1. [cache[i] EXCEPT !.expired = TRUE].key = cache[i].key /\ [cache[i] EXCEPT !.expired = TRUE].from = cache[i].from
      BY <2>1 DEF Entry
    <3> QED BY <1>1, <2>1, <3>1
  <2> QED BY <2>3, <2>4 DEF GatewayInv, CacheWellFormed, KeptOrNew
<1> QED BY <1>2, <1>4, <1>5, WorldStep

LEMMA SweepInv == ASSUME GatewayInv, Sweep PROVE GatewayInv'
<1> DEFINE gone == {i \in 1..Len(cache) : cache[i].expired}
<1>1. cache' = Remaining(cache, gone)
  BY DEF Sweep
<1>2. BaseTypes' /\ answer' = answer /\ req' = req
  BY DEF Sweep, GatewayInv, Types, BaseTypes, portVars
<1>3. \A x \in Requests : Same(x) /\ configured' = configured
  BY DEF Sweep, Same, portVars
<1>4. \A x \in Requests : RequestOK(x)'
  BY <1>3, SameStaysOK DEF GatewayInv
<1> HIDE DEF gone
<1>5. PartOf(cache', cache, gone, Len(cache), Entry)
  BY <1>1, RemainingIsPart DEF GatewayInv, Types, CacheWellFormed
<1>6. Len(cache') <= CACHE_MAX
  BY <1>5, GatewayConstants DEF GatewayInv, Types, PartOf, CacheWellFormed
<1>7. KeptOrNew(cache', {})
  BY <1>5, <1>6 DEF PartOf, KeptOrNew
<1> QED BY <1>2, <1>4, <1>7, WorldStep

\* A call that the kernel client settles belongs to a handler that waits for it.
LEMMA SettleInv ==
    ASSUME GatewayInv, UNCHANGED gatewayVars, available' \in BOOLEAN,
           call' \in [Requests -> CallStates],
           \A x \in Requests : \/ call'[x] = call[x]
                               \/ call[x] = "waiting" /\ call'[x] \in {"resolved", "rejected"}
    PROVE  GatewayInv'
<1>1. BaseTypes' /\ answer' = answer /\ req' = req
  BY DEF gatewayVars, GatewayInv, Types, BaseTypes
<1>2. ASSUME NEW x \in Requests PROVE RequestOK(x)'
  <2>1. CASE call'[x] = call[x]
    BY <2>1, SameStaysOK DEF GatewayInv, gatewayVars, Same
  <2>2. CASE call[x] = "waiting" /\ call'[x] \in {"resolved", "rejected"}
    <3>1. pc[x] = "kernel" /\ answer[x] = NoAnswer
      BY <2>2, Fields DEF RequestOK, CallFollows, Outcome, Points
    <3>2. RequestOK(x)
      BY DEF GatewayInv
    <3> QED BY <2>2, <3>1, <3>2 DEF gatewayVars, RequestOK, CallFollows, FetchesFollow, Outcome, Spent, NoAnswer, Failed
  <2> QED BY <2>1, <2>2
<1>3. KeptOrNew(cache', {})
  BY CacheKept DEF gatewayVars
<1> QED BY <1>1, <1>2, <1>3, WorldStep

LEMMA NextInv == GatewayInv /\ [Next]_vars => GatewayInv'
<1> SUFFICES ASSUME GatewayInv, [Next]_vars PROVE GatewayInv'
  OBVIOUS
<1>1. ASSUME NEW r \in Requests, Arrive(r) PROVE GatewayInv'
  BY <1>1, ArriveInv
<1>2. ASSUME NEW r \in Requests, Handler(r) PROVE GatewayInv'
  BY <1>2, KernelResultInv, KernelFailureInv, FetchRetryInv, NodeOkInv, NodeErrorInv, StreamOkInv,
     StreamErrorInv, StreamEndInv DEF Handler
<1>3. call \in [Requests -> CallStates] /\ CallIds = Requests
  BY GatewayConstants DEF GatewayInv, Types, BaseTypes
<1>4. ASSUME NEW r \in Requests, Resolve(r), UNCHANGED gatewayVars PROVE GatewayInv'
  <2>1. /\ call' \in [Requests -> CallStates] /\ available' \in BOOLEAN
        /\ \A x \in Requests : call'[x] = call[x] \/ (call[x] = "waiting" /\ call'[x] = "resolved")
    BY <1>3, <1>4 DEF Resolve, CallStates
  <2> QED BY <1>4, <2>1, SettleInv
<1>5. ASSUME NEW ids, Reject(ids), UNCHANGED gatewayVars PROVE GatewayInv'
  <2>1. /\ call' \in [Requests -> CallStates] /\ available' \in BOOLEAN
        /\ \A x \in Requests : call'[x] = call[x] \/ (call[x] = "waiting" /\ call'[x] = "rejected")
    BY <1>3, <1>5 DEF Reject, Waiting, CallStates
  <2> QED BY <1>5, <2>1, SettleInv
<1>6. CASE Sweep
  BY <1>6, SweepInv
<1>7. CASE EntryExpires
  BY <1>7, EntryExpiresInv
<1>8. CASE UNCHANGED vars
  <2>1. UNCHANGED gatewayVars /\ UNCHANGED portVars
    BY <1>8 DEF vars
  <2> QED BY <1>3, <2>1, SettleInv DEF portVars, GatewayInv, Types, BaseTypes
<1> QED BY <1>1, <1>2, <1>4, <1>5, <1>6, <1>7, <1>8 DEF Next, KernelSettles, KernelExit

\* GatewayInv holds in every reachable state of the gateway.
THEOREM GatewayInvariance == Spec => []GatewayInv
BY InitInv, NextInv, PTL DEF Spec

-----------------------------------------------------------------------------
(* The properties of the runs *)

\* The idempotency cache is bounded by CACHE_MAX and holds each key once.
THEOREM CacheBounded == Spec => []CacheWellFormed
<1>1. GatewayInv => CacheWellFormed
  BY DEF GatewayInv
<1> QED BY <1>1, GatewayInvariance, PTL

\* Every replay, and every entry, is the completion of a request with the same
\* key that was answered with it.
THEOREM ReplaysGenuine == Spec => []ReplaysAreGenuine
<1>1. ASSUME GatewayInv PROVE ReplaysAreGenuine
  <2>1. ASSUME NEW r \in Requests, answer[r].kind = "hit"
        PROVE  /\ Succeeded(answer[r].from)
               /\ ~req[answer[r].from].stream
               /\ req[answer[r].from].key = req[r].key
               /\ BODY_HASH => req[answer[r].from].body = req[r].body
    <3>1. Genuine(answer[r].from, idempotencyStorageKey(req[r]))
      BY <1>1, <2>1 DEF GatewayInv, HitsAreGenuine
    <3>2. idempotencyStorageKey(req[r]) = idempotencyStorageKey(req[answer[r].from])
      BY <3>1 DEF Genuine
    <3>3. req[answer[r].from].key = req[r].key /\ (BODY_HASH => req[answer[r].from].body = req[r].body)
      BY <3>2, GatewayConstants DEF idempotencyStorageKey
    <3> QED BY <3>1, <3>3 DEF Genuine, Succeeded
  <2>2. ASSUME NEW i \in 1..Len(cache)
        PROVE  Succeeded(cache[i].from) /\ cache[i].key = idempotencyStorageKey(req[cache[i].from])
    BY <1>1 DEF GatewayInv, CacheIsGenuine, Genuine, Succeeded
  <2> QED BY <2>1, <2>2 DEF ReplaysAreGenuine
<1> QED BY <1>1, GatewayInvariance, PTL

\* No request costs more fetches than its routes allow, and a failure is sent
\* only after the fallback was tried.
THEOREM FallbackBounded == Spec => []FallbackIsBounded
<1>1. ASSUME GatewayInv PROVE FallbackIsBounded
  <2>1. BaseTypes
    BY <1>1 DEF GatewayInv, Types
  <2>2. TypeOK
    <3>1. \A r \in Requests : answer[r].kind \in {"none", "error", "sse", "completion", "hit"}
      BY <2>1 DEF BaseTypes, Answers, NoAnswer, Failed, Streamed, Completion, Replay
    <3> QED BY <1>1, <2>1, <3>1, GatewayConstants DEF BaseTypes, TypeOK, PortTypeOK, GatewayInv, RequestOK, Outcome
  <2>3. ASSUME NEW r \in Requests
        PROVE  /\ fetches[r] <= (RETRIES + 1) * (IF req[r].stream THEN 2 ELSE 1)
               /\ answer[r].kind = "hit" => fetches[r] = 0
               /\ r \in recorded /\ ~req[r].stream => fetches[r] = 0
    <3>1. fetches[r] <= Spent(r) + RETRIES + 1
      BY <1>1, Fields DEF RequestOK, FetchesFollow, Points
    <3>2. fetches[r] <= (RETRIES + 1) * (IF req[r].stream THEN 2 ELSE 1)
      <4>1. CASE req[r].stream
        BY <1>1, <3>1, <4>1, Fields DEF Spent
      <4>2. CASE ~req[r].stream
        BY <1>1, <3>1, <4>2, Fields DEF Spent
      <4> QED BY <4>1, <4>2
    <3> QED BY <1>1, <3>2, Fields DEF RequestOK, Outcome, Spent
  <2>4. FailureOnlyAfterFallback
    BY <1>1 DEF FailureOnlyAfterFallback, GatewayInv, RequestOK, Outcome
  <2> QED BY <2>2, <2>3, <2>4 DEF FallbackIsBounded, FetchBudget
<1> QED BY <1>1, GatewayInvariance, PTL
=============================================================================
