# TLA+ models of Opseeq

Opseeq is an inference gateway (`service/`, Node/TypeScript) in front of a Rust
kernel (`engine/`), with an agent operating system (`agent-os/`) that runs WASM
programs in Workers and brings its own commands (`agent-os/registry/native/`,
Rust), and command-line tools that set up sandboxes (`bin/`, `nemoclaw/`). This
directory models the parts that carry the program's logic: the two ends of the
kernel pipe, the gateway's request path, the kernel's cascade and shell, the
Anthropic client, the shared-memory and process interfaces of the virtual
machine, its scheduled jobs and agent client, the onboarding lock, and the
commands of the VM with the library they share.

`PROJECT.json` lists components, runs, mutants, the map from definitions to
source lines, findings, hazards and theorems. Paths below are relative to `src/`.

## 1. Inventory

| Component | State it keeps | Operations | Interacts with | Hard because of |
|---|---|---|---|---|
| Kernel client, `service/src/kernel.ts` | child process, `ready`, `stopped`, `pending` map, restart count, timers | start, call, stop; events: reply line, exit, four kinds of timer | kernel process by pipes; router by `call` and `isReady` | late replies, exits during the handshake, timers that outlive a child, stop racing all of them |
| Gateway, `service/src/index.ts`, `router.ts`, `http-fetch-retry.ts` | idempotency cache, the bound kernel | chat completions, streaming or not | kernel client, providers, feedback | state read before an await and written after it, partial failure, fallback |
| Rate limiter, `service/src/index.ts` | bucket per address | one request, sweep | clock | window edges, eviction at the cap |
| Kernel process, `engine/src/` (`main`, `config`, `router`, `rpc`, `chat`, `adapters`, `probes`) | configuration, model cache, run envelope, chat history | serve a line, route an inference, list models, shell commands | gateway by pipe, HTTP providers | retries times providers, error classes read off message texts, an ageing cache, head-of-line blocking |
| Anthropic client, `engine/src/anthropic/` | attempts, buffer, pending events | send_with_retry, next_event | HTTP | chunks cut anywhere, a body without its last blank line, two bounds for one loop |
| wasi-http, `agent-os/registry/native/crates/libs/wasi-http` | socket, buffer, offset | send, send_sse, next event | host sockets | early ends, partial sends, three framings |
| wasi-spawn, wasi-pty, timeout, same directory | pipe ends, child handle | spawn, capture, kill, wait, drop | host processes | one of several calls fails; a full pipe nobody reads; a child that ends while it is timed out |
| Worker pipe, `agent-os/packages/posix/src/ring-buffer.ts` | three shared words and a payload | write, read, close | two Workers | lock-free shared memory, lost wake-ups, Int32 wrap, timeouts |
| Descriptor table, `posix/src/fd-table.ts` | entries, counter, free list, reference counts | open, close, dup, dupMinFd, dup2, renumber | kernel worker, WASI polyfill | long sequences of legal calls |
| System-call RPC, `posix/src/kernel-worker.ts`, `driver.ts`, `syscall-rpc.ts` | state word, answer words, signal word | rpcCall, _handleSyscall | Worker and main thread | a timeout racing a late answer, calls inside signal handlers |
| ACP client, `agent-os/packages/core/src/acp-client.ts` | pending map, closed flag | request, close; line, timer, exit | agent process | exit before queued answers, close during an await |
| Cron manager, `core/src/cron/` | jobs with running and queued flags, timer entries | schedule, cancel, fire, dispose | driver, VM | overlap, cancel or replacement while a run goes on |
| Onboarding lock, `bin/lib/onboard-session.js` | lock file | acquire, release | other processes | stale takeover, crash between steps |
| Commands of the registry, `crates/libs/` (`find`, `fd`, `tree`, `du`, `tar`, `gzip`, `file`, `grep`, `rg`, `diff`, `column`, `strings`, `yq`, `jq`, `awk`, `xargs`, `env`, `test`, `expr`, `codex`, ...) | none between calls | one call | file trees, stdin, child commands | hand-written option loops, walks with links, counts and limits |
| Shared library of the core utilities, `agent-os/registry/native/stubs/uucore` | none, but for a thread's messages | parsers, formatters, quoting, checksums, encodings, tree walks, copies, waits | every core utility, the kernel | widths, carries and roundings; races on a tree; system calls that fall short |
| Model residency, AgentOS VM registry, trace sink, feedback, execution runtime, analysis services, integrations, dashboard | see section 7 | | | |

What makes the modelled components correct:

* kernel client: no request is forgotten or settled twice; one child at a time;
  stop is final; every call ends; a crash is answered;
* gateway: bounded cache, genuine replays, bounded fetches, an error only after
  the fallback, an answer for every request;
* kernel process: one answer per line, in order; failure only when every
  provider is used up; a rejection is final; the model list is not older than
  its lifetime; the history never pairs an answer with another question;
* streams: what the server framed is delivered once and in order, however it is cut;
* processes: every descriptor closed once on every path, nothing captured is
  lost, a timeout is neither early nor missed;
* pipe: bytes in order, each once, no race, no overfull buffer, both sides return;
* descriptor table and rate limiter: allocation never hits an open descriptor, a
  description in use is never counted as unused; bounded memory and no
  undeserved refusal;
* system calls: a call gets its own answer, a signal is handled once and in order;
* jobs, agent client, lock: overlap policy kept, cancelled jobs silent; every
  promise settled once; one holder unless a lock was taken over blindly;
* commands and library: each result equals an independent definition of it.

## 2. Modules

| Module | Models | Uses |
|---|---|---|
| `KernelClient` | `kernel.ts` and the loop of `rpc.rs` seen from it | |
| `RpcPort` | abstract: what a caller of a request port may rely on | |
| `Gateway` | the chat-completions handler, routing, retries, cache | `RpcPort` |
| `Engine`, `MCEngine` | configuration, cascade, RPC server, chat shell of `engine/` | |
| `AnthropicStream`, `MCAnthropicStream` | `engine/src/anthropic/` | |
| `WasiHttp`, `WasiProcess`, `MCWasi` | wasi-http; wasi-spawn, wasi-pty, timeout | |
| `RingBuffer` | `ring-buffer.ts` | |
| `FdTable`, `RateLimiter`, `MCTables` | `fd-table.ts`; `rateLimit` and its sweep | |
| `CronManager`, `AcpClient`, `SyscallRpc`, `OnboardLock`, `MCAgentOs` | one component each | `RpcPort` (`AcpClient`) |
| `FileTools`, `ShellTools`, `TextTools`, `ToolMains` | commands of the registry; `ToolMains` also their command lines | |
| `MCRegistryTools` | their inputs and what each should compute | `ToolBench` |
| `Numerals`, `Printf`, `UserArgs`, `Encodings`, `Locales`, `Digests`, `Paths`, `SystemCalls` | the shared library; `Encodings` also its quoting of names | |
| `MCUucoreNumbers`, `MCUucoreTexts`, `MCUucore` | their inputs and what each should compute | `ToolBench` |
| `ToolBench` | one call of one function on one input | |
| `KernelClientProofs`, `GatewayProofs`, `EngineProofs`, `AnthropicProofs` (of `AnthropicStream`), `WasiProofs` (of `WasiProcess` and `WasiHttp`), `SharedMemoryProofs` (of `RingBuffer` and `SyscallRpc`), `TablesProofs` (of `FdTable` and `RateLimiter`), `AgentOsProofs` (of `CronManager`, `AcpClient` and `OnboardLock`) | theorems | the modules named, TLAPS |

Composition: `KernelClient` and `AcpClient` are both shown to implement `RpcPort`
(model-checked and proved), and `Gateway` extends `RpcPort`, so that what the
gateway is checked against is exactly what the client was shown to do. `MCWasi`,
`MCTables` and `MCAgentOs` put components that share no state side by side: a
behaviour belongs to one of them, the others stay as they began.

### KernelClient

Actions are the steps of the Node event loop (`Start`, `FirstSpawn`, `Respawn`,
`ReadReply`, `IgnoreLateReply`, `ExitEvent`, `PingTimeout`, `CallTimeout`,
`StableTimer`, `Call`, `Stop`) and of the child (`EngineReply`, `Die`,
`Terminate`). A callback of the code runs without interruption, so it is one
action, with everything it calls. `inbox` and `outbox` are the two pipes;
a child's death loses what it had not answered, while lines it had written may
still be read before or after its exit event, and even after the next child was
spawned. A timer is a countdown in ticks; `Tick` passes time for all, and due
timers fire first, in any order. `this.proc` is represented by `held` (not null)
and `child` (the process itself and whether its exit event was handled).
`settled`, `kind` and `gaveUp` are history. Not modelled: the 'error' events of
the spawn and of stdin, and malformed lines (ignored by the code).

### RpcPort and Gateway

`RpcPort`: a call starts only while the port is available and is settled at most
once; availability may change at any moment. In `Gateway` a request's handler is
cut at its awaits: the kernel call, each fetch, the end of the stream. A
completion is represented by the request that produced it, which is what makes a
wrong replay visible. The cache is a sequence in Map insertion order; an entry
expires at any time after it was stored. What `resolveProviderFor` picks is an
input ("compat" streams, "native" does not), and so is whether the router holds a
kernel. `recordModelUse` belongs to model residency and has no effect here.

### Engine

The configuration is computed from an environment and .env files by the code's
own rules (`load_config`, `try_load_dotenv`, `resolve_provider`). One HTTP
exchange is one action (`Attempt`), which applies the answer the way the adapter
of its provider reads it; between two of them the run envelope holds the cascade,
the position and the attempt. An error is the set of texts the code looks for in
it (`ErrorText`), because `is_retryable` and the RPC error code read the message,
which carries the body of the answer. `ReadLine`, `Immediate`, `Route`, `Routed`,
`ListModels`, `ServerExit` are the server; `Type`, `Replied`, `ChatExit` the
shell. `log` is the event list of the run envelope, `up` the history of Ollama's
availability.

### AnthropicStream

A body is a sequence of tokens: lines of text, CR and LF. The server renders
`frames`, so what should be delivered is known without parsing. `Chunk` takes any
number of tokens, `SendFails` and `SendSucceeds` the exchanges of the retry loop;
the backoff shift is as narrow as `SHIFT_WIDTH` to reach its overflow. The parser
is a set of recursive functions over the length of a text (`next_frame` cuts the
buffer, `Parses` reads a frame, `Drain` is the loop of `push`), which is the form
the prover can unfold.

### WasiHttp and WasiProcess

One step is one host call: a send that takes some bytes, a recv of up to `RECV`
tokens, a close. The server chooses a framing and where the connection ends; it
cuts a body into chunks of up to `MaxChunk` tokens, and `LengthLine` and
`SizeLine` are the lines that announce a length and a size. `EventsAsSent`
compares the events of a stream with the body the server meant, before framing; a
chunked stream, and one that goes on past its Content-Length, are excepted,
because `send_sse` decodes neither (section 4). A blank line is LF LF, the one
the code knows: a stream that ends its lines in CR LF is one event, at its end. In
`WasiProcess` the parent, the child and the clock are three actors; `faults`
counts host calls that failed, and any may fail while it is below `MaxFaults`.
Descriptors are the pipe ends, each with its open copies.

### RingBuffer

One step is one access to memory the other Worker can see: a load, a store, a
wait, a notify, the copy of one byte. A byte is its index in the stream. `sent`
and `taken` count without wrapping; the header words wrap at `INT_LIMIT` (2^31 in
the code, small in the runs). `Slot` is JavaScript's remainder, which is negative
for a negative position. Memory accesses are sequentially consistent: the
positions are accessed with Atomics, and `NoDataRace` shows that the plain
accesses never conflict, which is what justifies treating them as ordered.

### FdTable and RateLimiter

One call is one step. The free list may hold a number twice and is sorted after
each push, so it is kept as the number of occurrences of each number, from which
pop takes the smallest. `placed` is history: a call has put an entry at a number
`_allocateFd` did not choose. In the limiter `AfterEviction` yields every map that
expiry and the random drop of a quarter may leave; the times at which requests
passed, and whether a live bucket was evicted, are history.

### CronManager, AcpClient, SyscallRpc, OnboardLock

`CronManager` separates what the maps say about an id from the objects closures
hold: a run keeps the job it started for, a timeout the entry it was set for, and
both may outlive the map entry. The driver is the code's own (`custom` false) or
the user's, which fires at will. `AcpClient` cuts the reading loop at its await:
a line arrives (`NextLine`), and is handled in a later step (`HandleLine`).
`SyscallRpc` has one step per access to the shared words on either side; a word
holds the call whose answer it belongs to. A signal handler runs inside the call
whose answer brought the signal (`RunTrampoline` to `HandlerReturns`) and makes as
many calls as it likes (`HandlerCall`), with or without a time limit. `OnboardLock` has one step per system
call of every process, and a kill at every one of them.

### Commands and shared library

Each command or library function is a TLA+ operator (recursive where the code
loops or recurs) from its input to what it prints, returns or leaves behind.
`ToolBench` gives one function one input of a bounded set; the MC modules hold
the inputs and, per function, a property that compares the result with an
independent definition (a round trip, an order, arithmetic on numbers, the set of
paths of a tree, a patch that is applied). Characters are tokens where only their
class matters. What a regular expression matches, what a hash is and what the
infer crate finds are given. Machine integers, digit chunks, limbs and buffers
keep their role with a small width. Three parts are state machines of several
steps on the bench: two processes creating directories in one tree at once
(`create_dir_all_safe`, one step per system call), a stream copy (every splice,
read and write moves any amount or fails), and a wait for a child against the
clock and a signal handler. `chown`'s walk of a tree (`perms.rs:480-533`) is one
step, so that what another process does between its looks and its changes is not
covered.

## 3. Runs

| Run | Bounds | Shows |
|---|---|---|
| `kernel_client` | 5 ids, 2 calls, 2 crashes, 1 restart | requests accounted for, current handshake, one child, final stop, implements RpcPort; calls settle, children get used, crashes are answered |
| `gateway` | 2 requests, 1 key, 2 bodies, cache of 1, the code's 2 retries | bounded cache without duplicates, genuine replays, fetch budget and errors only after the fallback, every request answered |
| `engine` | 2 lines, up to 3 providers, TTL 2, 2 ticks | honest cascade, answers follow requests, fresh model list, every line served |
| `anthropic_stream` | every short list of frames, 2 line endings, retries 0, 2, 4 | faithful stream, exact retries, an end |
| `wasi` | recv of 3 tokens, header of 8, pipe of 2, one failing call, 3 ticks | faithful exchange (but for chunked and overrun streams), descriptors and output kept, exact timeout, an end |
| `tables` | 4 numbers, 4 descriptions; 3 addresses, limit 2, window 2, cap 1, 7 requests | never undercounted, lowest number before the first placing call, fair limits |
| `ring_buffer` | capacity 2, requests up to 3, 6 bytes | never overfull, no race, bytes in order, write and read return |
| `agent_os` | 2 job ids, 2 jobs, 3 runs; 2 requests, 2 queued lines of 3; 3 calls, 1 signal, depth 2; 2 processes and a dead one | jobs kept, own answers, client accounted for and a port, one holder, undisturbed outcome, all go on (a system call not while a handler inside it waits in a poll(-1)) |
| `registry_tools` | texts, trees and command lines of up to 4 elements | every command computes what it should |
| `uucore` | texts of up to 4 or 5 characters, 8-bit integers, trees of 4 nodes | every function computes what it should |
| `ring_eof`, `syscall_wake` | two writes; two calls | the two findings below |

Several properties are conjunctions of named parts, each with its own comment
(`CallsAndCrashesEnd`, `CascadeIsHonest`, `ExchangeIsFaithful`, `JobsAreKept`,
`NumbersAreExact`, ...): the parts are the statements to read, the conjunction
the one to run. TLC names the part that fails by its line.

Why the bounds are enough for the cases to happen. *kernel_client*: two crashes
with one restart reach a restart, a give-up, and a reply of the first child read
under the second; five ids are two pings for restarts and two calls with one to
spare; timeouts keep the order of the code (ping < call, ping < forgiveness).
*gateway*: two requests on a cache of one entry give a hit, two stores of one
key, and an eviction; two bodies with body hashing give equal keys with different
storage keys. *engine*: two lines are enough for an answer to be given out of
turn and for a list to be served from the cache, and two ticks pass a lifetime
of two; attempts are the code's three. *anthropic_stream*: frames of one and two
lines with any cut reach a cut inside a separator and several frames in one
chunk; four retries pass the cap of the pause and the width of the shift.
*wasi*: three tokens per recv cut chunk sizes, CR LF and data in every way; a
pipe of two with programs that write four times blocks the child on either
pipe. *ring_buffer*: requests of 3 bytes over a capacity of 2 wrap and block in
the middle of a request, and six bytes go round three times. *tables*: four
numbers are stdio and one more, so placements below, at and above the counter all
occur; three addresses over a cap of one reach both branches of the eviction.
*agent_os*: a job replaced by another of its id while a run goes on; an answer
that comes twice or after its timeout; a call made by the handler of a signal that
rode on the previous answer; a lock whose holder is dead, with two processes that
find it and any of them killed. *registry_tools*, *uucore*: every function's
branches are reached by inputs of this size, because the widths, chunk lengths,
buffers and link limits are scaled with them (`Bits`, `Chunk`, `MaxScale`,
`LimbBytes`, `TrimEvery`, `SPLICE_SIZE`, `PipeSize`, `BUF_SIZE`, `KernelLinks`,
`MaxOpenDirs`, ...).

`CHECK_DEADLOCK FALSE` is set where the bounds or the single call on the bench
end a behaviour. The runs of the kernel process, the streams, the wasi libraries
and the pipe check deadlock: their end states are explicit.

Every property of a passing run has a mutant in `PROJECT.json`: a small change of
a mapped definition, as a plausible bug would make it, under which TLC finds the
property violated. Mutated definitions stand beside the originals and are marked.

## 4. Findings

Two runs are expected to be violated; each states what a comment says and shows
that the code does otherwise.

| Run | What is said | What happens |
|---|---|---|
| `ring_eof` | `ring-buffer.ts:14` 0 when empty and closed | 0 with bytes left, when write and close fall between two loads |
| `syscall_wake` | `kernel-worker.ts`: rpcCall blocks until the response | the notify of the first answer, delayed until the Worker sleeps in its next call, ends that call with the first one's answer |

Met while modelling and not kept as runs. The properties of the passing runs
except the cases below by name, in the definition or in the comment above it.

*Gateway and kernel.*
* `kernel.ts:79,127`: `isReady()` stays true after the give-up line if the last
  child died before its pong. `kernel.ts:22,128`: the restarts are capped, but
  a child that dies before its pong counts as ready and leaves a 30 s timer
  nobody cancels, which resets the count; the backoffs add up to just that time,
  so a kernel that crashes at every start is restarted without end.
* `index.ts:1132`: `setKernel` is decided before the first pong can be read,
  though `router.ts:6` says kernel first when ready. `router.ts:14` says that
  Node routes record their successes; only the kernel branch does.
* `index.ts:8,447,496`: overlapping requests with one Idempotency-Key both run.
  `index.ts:6` calls the limit a sliding window; it is a fixed one.
* The shell's help says that /provider forces a provider; the cascade may ask
  another first.

*Virtual machine.*
* `ring-buffer.ts:5,12,106`: Int32 wraps after 2 GiB and unread bytes are
  overwritten. `fd-table.ts:69,75`: dup2, dupMinFd and renumber leave a number in
  the free list, so open() may overwrite an open descriptor;
  `fd-table.test.ts:426` expects stdio numbers never to be reclaimed.
* A late answer after a timeout is taken by the next call. `kernel-worker.ts:165`:
  the time limit of a call (`RPC_WAIT_TIMEOUT_MS`) covers its wait only; a signal
  handler that polls without one, inside the call, holds the call up for ever
  (`CallsReturn` and `AnswerWakes` except it as `HeldUp`). `driver.ts:808`: the
  length fdStat stores is overwritten by the common tail.
* ACP: requests of the agent carry an id and are taken for answers; a throwing
  handler ends the reader silently; an exit rejects requests whose answers are
  queued. Cron: scheduling an id again leaves a timeout nobody can cancel, and an
  old entry's callback acts on the new entry's registration.
* Lock: two processes that take over one stale lock both hold it; a lock file
  without a pid is never taken over.
* wasi: `consume_output` deadlocks on a full stderr; `timeout.rs` documents a
  status 126 it never returns; two error paths leave the socket open.
  `wasi-http/src/lib.rs:11-12` lists streamed events and chunked bodies as
  supported, but `send_sse` (404) and `next_event` (282) never look at the framing:
  of a chunked reply the size lines, the line ends behind the chunks and the final
  0 are read as text of events, and so is what follows a Content-Length
  (`EventsAsSent` excepts both). Blank lines that end in CR LF end no event.

*Commands.* With three arguments `test ! -f x` is false, and so is `test a -a b`
(`builtins/src/lib.rs:119`; `TestIsItsConnective` excepts both);
rg and grep drop attached values of some short options and read `*.t?t` as a
plain suffix; `diff -C0` ranges start at 1;
`grep/src/lib.rs:342,373` has unescaped `+ ? |` literal in a basic expression, but
the conversion leaves them special (`PatternsKeepTheirMeaning` excepts them); grep
`-l` with one file prints "(standard input)", `-m 0` prints one line; jq's `-e`
looks at any output; awk runs BEGIN and END once per file; yq reads the values of
XML attributes as they stand and escapes them when it writes (`yq/src/lib.rs:279,
320,409`), so that JSON shows `&amp;` and each round trip makes it one escape
longer, and it drops CDATA and any run of text with an entity it does not know
(`XmlSurvivesJson` excepts the three); gunzip drops later members and deletes its input; find
ignores options inside groups and panics on a trailing -o; file never sees a
link as one, calls an HTML document XML, and a JSON or shebang start hides NUL
bytes.

*Shared library.* `buf_copy/linux.rs`: copy_exact never resets `written`, so what
it reads after its first buffer is lost (line 121: "Move exactly `num_bytes`
bytes"), and after a partial splice it waits for bytes no longer in the pipe;
`validate.rs`: a line that starts with "(" panics (283), untagged lines of escaped
names are unreadable, an unpadded base64 digest of hexadecimal digits is misread;
`fast_inc.rs:8,66`: "9" plus "99" gives "18"; `ringbuffer.rs` relies on
`VecDeque::capacity()`; shell quoting of a name with a single quote and control
bytes puts `$'...'` inside double quotes; `%A` of 0 in lower case, `%.0d` of 0 as
"0"; parse_size takes "50%" for 0 and parse_signed_num_max "0K" for 1024;
version_cmp is no equivalence on equal versions; human sizes print "1024K";
numbered backups reuse gaps and race with another process;
`fs.rs:478`: canonicalize never ends for a link `a -> a/x`;
`fs.rs:745`: link texts are resolved from the working directory;
`safe_traversal.rs:495`: an existing link is replaced though the doc says it is
followed; `perms.rs:327,332`: chown -h of a link to a directory changes the
directory, and an unreadable directory without -R returns 0; -H with
--preserve-root changes "/" through a link in the tree; -L cycles end only by
running out of descriptors; `locale.rs`: an English file with only the common
strings hides the built-in ones.

## 5. Fairness

* `KernelClient!FairSpec`: weak fairness of time, timers, exit events and the end
  of `start()`: the event loop keeps turning. Nothing is assumed of the child,
  which may hang for ever, nor of its replies.
* `Gateway!FairSpec`: each handler, and the settling of each kernel call. The
  first stands for fetches and streams that end (the HTTP client has its own
  time limits); the second is `EveryCallSettles` of the kernel client.
* `Engine!FairSpec`: the loop runs whenever it can, and every exchange ends (the
  HTTP client has a timeout of 120 s). `AnthropicStream!FairSpec`: the caller
  keeps asking and every exchange and read comes back.
* `MCWasi!FairSpec`: the exchange goes on, parent and child run, the clock goes
  on; no call has to fail.
* `RingBuffer!FairSpec`: a Worker inside `write` or `read` keeps running and its
  wait times out.
* `MCAgentOs!FairSpec`: an action of a job ends, the client's timers fire, both
  threads of a system call run, a signal handler ends (the calls it makes are not
  owed an end by fairness), a process that is not killed goes on. Nothing is
  assumed of the agent and of the kernel.

In no specification is anybody obliged to call anything.

## 6. Proofs

Checked by TLAPS for all values of the constants, with the assumptions named in
the modules (naturals for bounds and timeouts; `BackoffIsNat`, a fact about
powers of two, is evaluated by TLC).

**KernelClientProofs.** `NoRequestForgotten` is not inductive alone: that the
next id is unused needs ids to be handed out in order, and that a handshake
belongs to the current child needs the life cycle, which relates `started`,
`held`, `child` and the restart timer (a restart is pending only when the child
is gone and nothing was stopped, nothing is spawned before `start()` ends, and a
stopped client holds no child). `IInv` is the conjunction; `Invariance` proves
it, and `TypeCorrect`, `RequestsAccounted`, `HandshakeCurrent` follow. `OneChild`
and `StopFinal` are action properties proved from it. `Refinement` proves that
every step is a step of `RpcPort` or a stutter.

**GatewayProofs.** For any number of requests, keys, cached entries and fetches.
`CacheWellFormed` (`CacheBounded`) needs what `Map.delete` leaves: `Remaining` is
a function defined by recursion over the length, and the lemmas `KeptExists`,
`RemainingIsKept`, `RemainingIsPart` show that it exists, and that it keeps the
entries that are not removed, in their order, and no key twice. `ReplaysAreGenuine`
is not inductive: that a hit answers its own key follows from what the cache
holds, so the invariant says of every entry that its request is done, did not
stream, and has that storage key (`CacheIsGenuine`), and of every hit the same
(`HitsAreGenuine`); a done request never changes, which makes both stable.
`FallbackIsBounded` needs the number of fetches at every point of the handler
(`FetchesFollow`), relative to the attempt and to whether the local part was spent
already. `GatewayInvariance` proves the conjunction, one lemma per action.

**EngineProofs.** For any environment and configuration files, any lines and
inputs, any answers of the providers. `RepliesInOrder`: lines read and answers
written match one to one, but for the line being dispatched, which is the last one
read; a run of the server belongs to a line `inference.route` being dispatched, a
run of the shell to the last question. `HonestCascade` needs what a cascade is
(`CascadeCovers`: it names every configured provider once, by induction along the
recursive function that builds it, whatever provider `resolve_provider` returns,
which is one as long as there is any) and what the events say of a run in flight
(`InFlightInv`): only providers reached so far occur, each one before the current
one is exhausted, and the current one has failed as often as it was attempted,
each time with an error that `is_retryable` accepts. That an empty answer passes
no tier is arithmetic (`EmptyScore`): without the marks for content the score is
at most 666 of 1000 for any latency and token counts, and the lowest threshold is
700. The assumption on the inputs (`EngineConstants`): a line that parses has a
method, one that does not has no id, latency and token counts are unsigned.
`FreshModelList` proves `ModelListFresh`: an answer to `models.list` shows Ollama
as it was less than one lifetime of the cache ago. `FreshInv` says that the cached
list shows it as it was at the cache's time stamp (`CacheInv`). That a list shows
anything at all needs the whole way from the environment to the list:
the variables split into sequences of ids (`PushedLists`, `LoadedLists`), the
sort by priority has a result (`OrderExists`, by the rank of each provider) that
only moves the providers (`SortedElements`), all their models are in the model
map (`ModelsInv`), and the list is those, flattened (`Flattened`), followed by an
enumeration of Ollama's (`Enumerated`). It assumes that list variables hold lists
of ids (`ListsAreLists`), that Ollama serves finitely many models, and a lifetime
above 0.

**TablesProofs.** `CounterAbove` needs the types and that entries name created
descriptions; `CountsAreSafe` adds a cardinality argument: a call changes the set
of numbers naming a description by at most the number it places or removes.
`LowestFd` speaks of the calls before the first placing one; its invariant says
that until then the free list holds exactly the closed numbers below the counter,
each once. `FairLimits` proves both halves of `LimitsAreFair`, for any number of
addresses and any limits. They compare two histories per address with the bucket,
so the invariant counts: a bucket's count is at most the requests let through
since its window began and, as long as no bucket was evicted, exactly the requests
seen since then; the window before it let through no more than the limit; an
address without a bucket has nothing in the current window (`Quiet`). The
cardinality lemmas (`FromLater`, `FromAppend`) say how the number of requests since
a time changes when the time moves or a request is added.

**WasiProofs, `WasiProcess`.** For any programs of the child, any size of the pipe and of a read,
and any host calls failing within `MaxFaults`. `KeptProcesses` proves
`ProcessesAreKept`, `TimeoutIsExact` the action property `TimeoutExact`. The
invariant follows the parent through its calls: which use can be at which point
(`KindsInv`); which descriptors it holds there, all others never opened or closed
once (`EndsInv`), so that every error path and the drop can be compared with what
was open; that a child exists from the spawn on and is reaped by the wait that
records it (`ChildInv`); that what was read and what is in the pipe are, in
order, what the child wrote (`DataInv`); that a stream read to its end stays empty
(`DrainInv`) and a child whose output is wanted ends only at the end of its
program (`EndInv`), which together make the capture complete; and, for timeout, that a
kill and a 124 come only at or after the deadline, from a child found running
there (`TimeoutInv`). Lemmas give what one pass of a reading loop does to the
pipe and to what was read.

**WasiProofs, `WasiHttp`.** For any URLs, replies, chunk sizes and buffer sizes.
`FaithfulExchange` proves `ExchangeIsFaithful` from `HttpInvariance`. The heart of
the invariant is `Ahead(b, w, y, c)`: the buffer and the wire together are `y` but
for the last `c` tokens, which the connection loses. While the headers come, `y` is
the whole reply; then the framed body; for chunks, what is sent from the n-th last
token of the body on, while the body read is the part before it (`ChunksRead`); for
a stream, the text on the wire from its p-th token on, while the events returned are
the blocks of the first p tokens (`EventsRead`). That a finished stream gave the
blocks of the wire (`EventsOfWire`) holds for every framing; it is what the server
sent, `EventsAsSent`, where the wire is the body, hence not for chunked and overrun
replies. A recv and a cut of the buffer keep
it (`AheadReceived`, `AheadTaken`). What each reader does to it are lemmas:
the end of the headers is found where it is and says the framing
(`HeadersFound`, `HeadersSay`); a size line is found at its CR, never inside data,
and a chunk is the next part of the body (`SizeRead`, `ChunkRead`); a body of a
length or up to the end is a prefix (`PlainBody`); a blank line found in the
buffer is where the scan of the whole text ends a block (`NextBlock`,
`LastBlock`). `Reparsed` shows that the Host header names the server of any URL
that parses. Assumptions: `UrlTokens` (a URL has a scheme), `Lines` (the server
can announce its bodies and chunks, and no two lines of lengths or of sizes are
the same) and `Sizes`.

**AnthropicProofs.** For any retries, any frames without an empty one, both line
endings, and any cut of the body into chunks.
`RetriesHold` is the retry loop: `SleptInv` says that the pauses so far are those
of the formula, `AttemptInv` how attempts and pauses count; that a pause is at
most the maximum and never shorter than the one before (`PausesGrow`) rests on
`Doubling`, the shift below its width.
`StreamHolds` proves `StreamIsFaithful`: what `next_event` delivers are the
server's events, once and in order, however the body is cut. The invariant
(`StreamInv`) says that the stream stands at a frame of the answer: for some k, the
buffer and what is still on the wire are the rendering of the last k frames
(`Standing`), and what is delivered or pending are the events of the others. Its
induction needs what the code relies on silently: in any piece of a body
`next_frame` finds exactly the first frame or nothing (`CutBody`). For LF this
follows from no line being empty; for CR LF, where the code looks for LF LF first,
from every LF following a CR (`Paired`). A frame cut from the wire then parses like its lines
(`JoinedParses`), and a round of `push` leaves the body in that form again
(`DrainKeeps`, by induction on the length of the buffer). Assumptions:
`RetryPolicy` (naturals, a width and pauses above 0) and `EventStreams` (no frame
is empty, no token of a line is a CR or an LF).

**SharedMemoryProofs, `RingBuffer`.** All theorems assume fewer than `INT_LIMIT` bytes. The
invariant: header words are the true counts; each side's copy of the other's
position is old at most, never ahead; the chunk being copied fits the room so
computed; and every byte from `readPos` up to the one being copied in is in its
cell. The step that copies a byte needs `SlotsDiffer`: positions less than a
capacity apart land in different cells. `NeverOverfull`, `InOrder`, `RaceFree`
and `RingTypeCorrect` follow.

**SharedMemoryProofs, `SyscallRpc`.** For any number of calls, signals and nested handlers,
`CallsGetTheirOwn`: until a call timed out or was woken by the notify of another
answer (`late`, `stray`), every call returns the answer to itself and the signals
arrive once and in order. One buffer serves all activations of `rpcCall`, so the
invariant says whose it is: only the innermost activation waits or loads, each
outer one has copied its answer and its signal handler runs, with any number of
calls, one after the other; and the
request of the innermost one is in exactly one place (inbox, kernel, half
written, ready). Each signal is pending, in the buffer, loaded, or delivered. An
answer being written is of one call up to the word written next and of nobody
after it. `MCAgentOs` shows that the two exceptions do occur.

**AgentOsProofs, `CronManager`.** For any number of ids, jobs and runs, under
both kinds of driver, `KeptJobs` proves `JobsAreKept`. The flag the code consults
is one boolean per job while runs belong to the entries that started them, so the
invariant says what the flag stands for: under skip and queue a job with a run in
flight has its flag set and no second run (`OverlapInv`). It adds that what the
maps name was made and for that id, that what was not made did nothing
(`BooksInv`), that nothing of the timer driver moves under the user's
(`DriverInv`), and that the maps of the driver and of the manager agree while no
id is used again (`IdsInv`). Assumption: there is an id.

**AgentOsProofs, `AcpClient`.** The invariant adds to the accounting that ids not yet handed
out are unused. `AcpAccounted` proves the accounting and that nothing is heard
after close; `AcpRefinement` that the client implements `RpcPort`.

**AgentOsProofs, `OnboardLock`.** `MutualExclusion`: as long as no lock was removed that was
not stale any more, at most one process holds it. The invariant adds that a
process makes at most two attempts, that an unlink not marked blind follows a
read of the file it removes, and that a holder owns the file. `UndisturbedAnswer`:
what the function tells a process during whose call nobody else wrote, removed or
died is what the file it found says. Its invariant (`AloneInv`) relates, at each
point of the function, what the process remembers of the file to the file; a step
of another process either leaves that alone or ends the process' being alone.

**Recursion.** The library's induction theorems take an operator parameter, which
the provers cannot instantiate. `GatewayProofs`, `EngineProofs` and
`AnthropicProofs` therefore have induction over a set (`Induction`), from the
well-foundedness of `<` on the naturals, and a lemma that a function made step
by step exists (`Recursion`), from which each recursive function of the models
is unfolded once (`RemainingIsKept`, `DrainIs`, `WithoutIs`, `Flattened`, ...).
The library's sorting and selecting operators and `@@` are opaque to the provers, so
`Engine` sorts with a definition of its own (`ByPriority`) and `Engine` and
`AnthropicStream` select with recursive functions. A module that declares
RECURSIVE operators is out of the prover's reach altogether.

**Model-checked only.** Liveness, which is out of the prover's reach:
`CallsAndCrashesEnd`, `EveryRequestAnswered` and the like, which are the
properties that the specifications with fairness are for. `FilesAreExact` and
`CommandsAreExact` of the registry's commands, `ConversionsAreExact`,
`TreesAreSafe` and `ListsAndCopiesAreWhole` of the shared library: their operators
are RECURSIVE over their input, and each compares two computations over data.

## 7. Not modelled, and why

* Precision pipeline, architecture graph, cross-repo index: text and file
  analysis. Integrations (MCP, NemoClaw control, app launcher, iTerm2) run a
  command or forward a call. The dashboard is a user interface.
* Feedback enters `Gateway` only as "was it reported"; provider resolution of the
  gateway is an input of it.
* The uucore files that wrap one system call or one C structure each (fsext,
  utmpx, entries, signals and others, mostly compiled out under WASI), its
  macros, error types and command-line glue: no logic of their own. Hash
  functions, regular expressions, Fluent formatting, jaq and awk-rs are crates
  outside the repository.
* The remaining commands only print or call the host (sleep, whoami, stubs).
* The other routes of `index.ts`, model residency, the gateway's VM registry, the
  trace sink, agent sessions, the WASI polyfill, the virtual machine as a whole,
  the sandbox registry file, and the blueprint runner: see the plan.

## 8. Plan

1. `ModelResidency` (`model-residency.ts:98` keeps a stale start time),
   `AgentOsVm` (a stop during an awaited create or prompt, `agent-os.ts:134`),
   `TimedCache` (`index.ts:208`, the slower of two fetches wins).
2. `WorkerFds`: the local-to-kernel descriptor mapping composed with `FdTable`
   and `SyscallRpc`; the sandbox registry's read-modify-write.
3. An abstract pipe (a queue of bytes) that `RingBuffer` implements below the
   Int32 limit, and its proof.
4. Proofs of the shared library's conversions and of the registry's text
   commands, their RECURSIVE operators written as functions, in the manner of
   `AnthropicProofs`.
