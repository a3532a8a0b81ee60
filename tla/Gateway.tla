------------------------------ MODULE Gateway ------------------------------
(***************************************************************************)
(* POST /v1/chat/completions: service/src/index.ts looks the request up in  *)
(* the idempotency cache, service/src/router.ts sends it to the kernel and  *)
(* falls back to a provider over HTTP, and service/src/http-fetch-retry.ts  *)
(* repeats failed fetches.  The kernel is used through RpcPort, which       *)
(* KernelClient implements.                                                 *)
(*                                                                          *)
(* A handler runs without interruption from one await to the next, so the   *)
(* actions are cut at the awaits: the kernel call, each fetch and the end   *)
(* of the SSE pump.  A completion is represented by the request whose       *)
(* inference produced it.                                                   *)
(*                                                                          *)
(* Whether the router holds a kernel client at all is an input (bound):     *)
(* routeInference is checked for both answers, although the boot code of    *)
(* index.ts (1129-1135) asks isReady() before a pong can have arrived.      *)
(***************************************************************************)
EXTENDS RpcPort, Naturals, Sequences, FiniteSets

CONSTANTS
    Requests,      \* the requests that arrive, each once
    Keys,          \* values of the Idempotency-Key header
    NoKey,         \* the header is absent
    Bodies,        \* request bodies, after alias resolution
    BODY_HASH,     \* OPSEEQ_IDEMPOTENCY_BODY_HASH === 'true'
    CACHE_MAX,     \* IDEMPOTENCY_CACHE_MAX
    RETRIES        \* retries of fetchWithRetry

ASSUME GatewayConstants ==
    /\ NoKey \notin Keys
    /\ CallIds = Requests
    /\ BODY_HASH \in BOOLEAN
    /\ CACHE_MAX \in Nat \ {0}     \* Math.max(1, ...)
    /\ RETRIES \in Nat

NoRequest == [key |-> NoKey, body |-> "none", stream |-> FALSE, provider |-> "none"]

VARIABLES
    bound,        \* router.ts has a kernel: setKernel() was called
    configured,   \* config.providers is not empty
    pc,           \* where the handler of each request waits
    req,          \* the request
    attempt,      \* attempt of the running fetchWithRetry
    fetches,      \* fetches made for the request so far
    answer,       \* what the client got
    cache,        \* idempotencyCache in Map insertion order
    recorded      \* requests reported to feedback.ts

gatewayVars == <<bound, configured, pc, req, attempt, fetches, answer, cache, recorded>>
vars == <<portVars, gatewayVars>>

Points == {"idle", "kernel", "node", "stream", "sse", "done"}
NoAnswer == [kind |-> "none", from |-> NoKey]
Failed == [kind |-> "error", from |-> NoKey]
Streamed == [kind |-> "sse", from |-> NoKey]
Completion(r) == [kind |-> "completion", from |-> r]
Replay(r) == [kind |-> "hit", from |-> r]

Init ==
    /\ PortInit
    /\ bound \in BOOLEAN
    /\ configured \in BOOLEAN
    /\ pc = [r \in Requests |-> "idle"]
    /\ req = [r \in Requests |-> NoRequest]
    /\ attempt = [r \in Requests |-> 0]
    /\ fetches = [r \in Requests |-> 0]
    /\ answer = [r \in Requests |-> NoAnswer]
    /\ cache = <<>>
    /\ recorded = {}

\* What may arrive: the provider is what resolveProviderFor() picks, "compat"
\* for one that can stream and "native" for Anthropic and Ollama.
Incoming ==
    [key : Keys \cup {NoKey}, body : Bodies, stream : BOOLEAN,
     provider : IF configured THEN {"compat", "native"} ELSE {"none"}]

-----------------------------------------------------------------------------
(* The idempotency cache *)

idempotencyStorageKey(q) == IF BODY_HASH THEN <<q.key, q.body>> ELSE <<q.key>>

Entries(key) == {i \in 1..Len(cache) : cache[i].key = key}

\* Map.delete of the entries at the positions in gone: the others keep their order.
Remaining(s, gone) ==
    LET kept[i \in 0..Len(s)] ==
            IF i = 0 THEN <<>>
            ELSE IF i \in gone THEN kept[i - 1] ELSE Append(kept[i - 1], s[i])
    IN  kept[Len(s)]

Without(key) == Remaining(cache, Entries(key))
LiveEntries(key) == {i \in Entries(key) : ~cache[i].expired}

\* idempotencyGet: a hit moves to the end of the map, an expired entry goes.
idempotencyGet(key) ==
    IF LiveEntries(key) = {} THEN Without(key)
    ELSE Append(Without(key), cache[CHOOSE i \in LiveEntries(key) : TRUE])

\* mutant: the oldest entry is never dropped
SetUnbounded(key, from) ==
    Append(Without(key), [key |-> key, from |-> from, expired |-> FALSE])

\* idempotencySet: insert at the end, then drop the oldest while over the cap.
idempotencySet(key, from) ==
    LET c == Append(Without(key), [key |-> key, from |-> from, expired |-> FALSE]) IN
    IF Len(c) > CACHE_MAX THEN Tail(c) ELSE c

-----------------------------------------------------------------------------
(* routeInference and the end of the handler *)

Respond(r, a) ==
    /\ answer' = [answer EXCEPT ![r] = a]
    /\ pc' = [pc EXCEPT ![r] = "done"]

\* The Node branch of routeInference: no provider is an error, otherwise the
\* first fetch is under way.
EnterNode(r, q) ==
    /\ UNCHANGED portVars
    /\ attempt' = [attempt EXCEPT ![r] = 0]
    /\ IF q.provider = "none"
       THEN Respond(r, Failed)
       ELSE pc' = [pc EXCEPT ![r] = "node"] /\ UNCHANGED answer

\* routeInference up to its first await.
RouteInference(r, q) ==
    IF bound /\ available
    THEN /\ StartCall(r)
         /\ pc' = [pc EXCEPT ![r] = "kernel"]
         /\ UNCHANGED <<attempt, answer>>
    ELSE EnterNode(r, q)

\* routeInferenceStream throws before it fetches for a provider that cannot
\* stream; the handler then falls back to routeInference.
RouteStream(r, q) ==
    IF q.provider = "compat"
    THEN /\ pc' = [pc EXCEPT ![r] = "stream"]
         /\ attempt' = [attempt EXCEPT ![r] = 0]
         /\ UNCHANGED <<portVars, answer>>
    ELSE RouteInference(r, q)

\* mutant: a stream is stored as well
StoreAlways(r) ==
    cache' = IF req[r].key # NoKey
             THEN idempotencySet(idempotencyStorageKey(req[r]), r) ELSE cache

\* The completion is stored, unless the request asked for a stream, and sent.
StoreResult(r) ==
    cache' = IF req[r].key # NoKey /\ ~req[r].stream
             THEN idempotencySet(idempotencyStorageKey(req[r]), r) ELSE cache

Complete(r) == Respond(r, Completion(r)) /\ StoreResult(r)

-----------------------------------------------------------------------------
(* The handler *)

\* The request arrives; up to the first await.
Arrive(r) ==
    /\ pc[r] = "idle"
    /\ \E q \in Incoming :
          LET key == idempotencyStorageKey(q)
              hit == q.key # NoKey /\ LiveEntries(key) # {} IN
          /\ req' = [req EXCEPT ![r] = q]
          /\ cache' = IF q.key # NoKey THEN idempotencyGet(key) ELSE cache
          /\ \/ /\ hit
                /\ Respond(r, Replay(cache[CHOOSE i \in LiveEntries(key) : TRUE].from))
                /\ UNCHANGED <<portVars, attempt>>
             \/ ~hit /\ q.stream /\ RouteStream(r, q)
             \/ ~hit /\ ~q.stream /\ RouteInference(r, q)
    /\ UNCHANGED <<bound, configured, fetches, recorded>>

\* The kernel call resolves: the success is recorded and the client answered.
KernelResult(r) ==
    /\ pc[r] = "kernel"
    /\ call[r] = "resolved"
    /\ recorded' = recorded \cup {r}
    /\ Complete(r)
    /\ UNCHANGED <<portVars, bound, configured, req, attempt, fetches>>

\* mutant: the catch reports the kernel's error
KernelFailureSurfaces(r) ==
    /\ pc[r] = "kernel"
    /\ call[r] = "rejected"
    /\ Respond(r, Failed)
    /\ UNCHANGED <<portVars, bound, configured, req, attempt, fetches, cache, recorded>>

\* The kernel call fails or times out: the Node branch takes over.
KernelFailure(r) ==
    /\ pc[r] = "kernel"
    /\ call[r] = "rejected"
    /\ EnterNode(r, req[r])
    /\ UNCHANGED <<bound, configured, req, fetches, cache, recorded>>

\* One fetch of fetchWithRetry ends; a 5xx or a network error is tried again,
\* a 4xx is not.
MayRetry(r) == attempt[r] < RETRIES

FetchDone(r) ==
    /\ fetches' = [fetches EXCEPT ![r] = @ + 1]
    /\ UNCHANGED <<bound, configured, req, recorded>>

\* A 5xx or a network error, and attempts are left: backoff and retry.
FetchRetry(r) ==
    /\ pc[r] \in {"node", "stream"}
    /\ MayRetry(r)
    /\ attempt' = [attempt EXCEPT ![r] = @ + 1]
    /\ FetchDone(r)
    /\ UNCHANGED <<portVars, pc, answer, cache>>

\* The provider answers a non-streaming fetch.
NodeOk(r) ==
    /\ pc[r] = "node"
    /\ FetchDone(r)
    /\ Complete(r)
    /\ UNCHANGED <<portVars, attempt>>

\* A 4xx, or the last 5xx or network error: 502.
NodeError(r) ==
    /\ pc[r] = "node"
    /\ FetchDone(r)
    /\ Respond(r, Failed)
    /\ UNCHANGED <<portVars, attempt, cache>>

\* A streaming fetch succeeds: the SSE headers are committed.
StreamOk(r) ==
    /\ pc[r] = "stream"
    /\ FetchDone(r)
    /\ pc' = [pc EXCEPT ![r] = "sse"]
    /\ UNCHANGED <<portVars, attempt, answer, cache>>

\* A streaming fetch fails for good: non-streaming fallback.
StreamError(r) ==
    /\ pc[r] = "stream"
    /\ FetchDone(r)
    /\ RouteInference(r, req[r])
    /\ UNCHANGED cache

\* mutant: the pump forgets res.end()
StreamHangs(r) == pc[r] = "sse" /\ UNCHANGED vars

\* The pump reaches the end of the stream or reports that it was interrupted.
StreamEnd(r) ==
    /\ pc[r] = "sse"
    /\ Respond(r, Streamed)
    /\ UNCHANGED <<portVars, bound, configured, req, attempt, fetches, cache, recorded>>

-----------------------------------------------------------------------------
(* The rest of the world *)

\* An hour has passed since an entry was stored.
EntryExpires ==
    /\ \E i \in 1..Len(cache) :
          /\ ~cache[i].expired
          /\ cache' = [cache EXCEPT ![i].expired = TRUE]
    /\ UNCHANGED <<portVars, bound, configured, pc, req, attempt, fetches, answer, recorded>>

\* The two-minute sweep of expired entries.
Sweep ==
    /\ \E i \in 1..Len(cache) : cache[i].expired
    /\ cache' = Remaining(cache, {i \in 1..Len(cache) : cache[i].expired})
    /\ UNCHANGED <<portVars, bound, configured, pc, req, attempt, fetches, answer, recorded>>

\* The kernel client settles calls and changes its availability.
KernelSettles(r) == (Resolve(r) \/ Reject({r})) /\ UNCHANGED gatewayVars
KernelExit == (Reject({}) \/ Reject(Waiting)) /\ UNCHANGED gatewayVars

Handler(r) ==
    \/ KernelResult(r) \/ KernelFailure(r)
    \/ FetchRetry(r) \/ NodeOk(r) \/ NodeError(r)
    \/ StreamOk(r) \/ StreamError(r) \/ StreamEnd(r)

Next ==
    \/ \E r \in Requests : Arrive(r) \/ Handler(r) \/ KernelSettles(r)
    \/ KernelExit \/ Sweep \/ EntryExpires

Spec == Init /\ [][Next]_vars

\* A fetch ends (the HTTP client has its own timeouts), a stream ends, a settled
\* promise resumes its handler, and KernelClient settles every call.
FairSpec ==
    Spec /\ \A r \in Requests : WF_vars(Handler(r)) /\ WF_vars(KernelSettles(r))

-----------------------------------------------------------------------------
(* Properties *)

TypeOK ==
    /\ PortTypeOK
    /\ bound \in BOOLEAN /\ configured \in BOOLEAN
    /\ pc \in [Requests -> Points]
    /\ attempt \in [Requests -> 0..RETRIES]
    /\ \A r \in Requests :
          /\ fetches[r] \in Nat
          /\ answer[r].kind \in {"none", "error", "sse", "completion", "hit"}
          /\ (pc[r] = "done") <=> (answer[r] # NoAnswer)
    /\ recorded \subseteq Requests

Succeeded(r) == answer[r] = Completion(r)

\* The idempotency cache holds at most CACHE_MAX entries, one per storage key,
\* whatever mix of hits, concurrent stores and expiries produced it.
CacheWellFormed ==
    /\ Len(cache) <= CACHE_MAX
    /\ \A i, j \in 1..Len(cache) : cache[i].key = cache[j].key => i = j

\* A replayed answer, and every entry that could be replayed, is the completion
\* of a non-streaming request with the same key, and with body hashing the same
\* body, whose own client got it.
ReplaysAreGenuine ==
    /\ \A r \in Requests : answer[r].kind = "hit" =>
          /\ Succeeded(answer[r].from)
          /\ ~req[answer[r].from].stream
          /\ req[answer[r].from].key = req[r].key
          /\ BODY_HASH => req[answer[r].from].body = req[r].body
    /\ \A i \in 1..Len(cache) :
          /\ Succeeded(cache[i].from)
          /\ cache[i].key = idempotencyStorageKey(req[cache[i].from])

\* A request never costs more than RETRIES + 1 fetches per route it takes: one
\* for a plain request, two for a stream that falls back, none for a replay or
\* for a completion the kernel produced without a fallback.
FetchBudget ==
    \A r \in Requests :
        /\ fetches[r] <= (RETRIES + 1) * (IF req[r].stream THEN 2 ELSE 1)
        /\ answer[r].kind = "hit" => fetches[r] = 0
        /\ r \in recorded /\ ~req[r].stream => fetches[r] = 0

\* A failure is reported only after the way out was tried: when providers exist,
\* a 502 means at least one fetch was made by Node; and a kernel failure alone
\* is never what the client sees.
FailureOnlyAfterFallback ==
    \A r \in Requests :
        answer[r] = Failed => \/ ~configured
                              \/ fetches[r] > 0 /\ call[r] # "resolved"

\* Every request that arrived is answered.
EveryRequestAnswered ==
    \A r \in Requests : (pc[r] # "idle") ~> (pc[r] = "done")

\* The retries and the fallback stay within what fetchWithRetry and
\* routeInference allow, and a client sees a failure only after both.
FallbackIsBounded == TypeOK /\ FetchBudget /\ FailureOnlyAfterFallback
=============================================================================
