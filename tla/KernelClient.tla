---------------------------- MODULE KernelClient ----------------------------
(***************************************************************************)
(* The gateway's handle on the Rust kernel: service/src/kernel.ts spawns    *)
(* `opseeq-core serve`, pings it, sends JSON-RPC lines to its stdin, reads  *)
(* reply lines from its stdout, and restarts it with exponential backoff.   *)
(* The other end of the pipe is the loop of engine/src/rpc.rs, which takes  *)
(* one line at a time and answers it before it reads the next.              *)
(*                                                                          *)
(* Steps of the Node event loop are atomic.  What interleaves with them is  *)
(* the child process (it replies, fails or dies at any moment), the arrival *)
(* of its stdout lines and of its exit event, and timers.  A timer is a     *)
(* countdown: Tick lets one unit of time pass for all of them, and due      *)
(* timers fire, in any order, before time passes on.                        *)
(***************************************************************************)
EXTENDS Integers, Sequences, FiniteSets

CONSTANTS
    MaxId,            \* bound: request ids handed out (pings and calls)
    MaxCalls,         \* bound: call() invocations
    MaxCrashes,       \* bound: times the child dies by itself
    MAX_RESTARTS,     \* KernelClient.MAX_RESTARTS
    BACKOFF_BASE,     \* RESTART_BACKOFF_BASE_MS, in ticks
    PING_TIMEOUT,     \* PING_TIMEOUT_MS, in ticks
    STABLE_AFTER,     \* the 30_000 ms after which restartCount is forgiven
    CALL_TIMEOUT      \* the default timeoutMs of call(), in ticks

ASSUME KernelConstants ==
    /\ MaxId \in Nat /\ MaxCalls \in Nat /\ MaxCrashes \in Nat
    /\ MAX_RESTARTS \in Nat
    /\ BACKOFF_BASE \in Nat /\ PING_TIMEOUT \in Nat
    /\ STABLE_AFTER \in Nat /\ CALL_TIMEOUT \in Nat

Backoff(n) == BACKOFF_BASE * 2 ^ n

\* Arithmetic that the provers do not know of.
ASSUME BackoffIsNat == \A n \in 0..MAX_RESTARTS : Backoff(n) \in Nat

Ids == 1..MaxId

Off == -1                       \* a timer that is not armed
Countdown == Nat \cup {Off}

VARIABLES
    started,       \* "no", "probing" (awaiting the binary's access check), "yes"
    held,          \* this.proc is not null
    child,         \* "none", "running", "died" (exit event still queued), "gone"
    ready,         \* this.ready
    stopped,       \* this.stopped
    restartCount,  \* this.restartCount
    restartTimer,  \* this.restartTimer
    nextId,        \* this.nextId
    kind,          \* what an id was used for
    pending,       \* the keys of this.pending
    timer,         \* the timeout timer of each pending id
    stableTimer,   \* the 30 s timer that each handshake leaves behind
    settled,       \* how the callback of each id ended, once it left the map
    inbox,         \* request lines the child has not answered yet
    outbox,        \* reply lines Node has not read yet
    crashes,       \* times the child died by itself
    gaveUp         \* "Max restarts exceeded, running without kernel" was logged

clientVars == <<held, ready, stopped, restartCount, restartTimer, nextId, kind,
                pending, timer, stableTimer, settled>>
vars == <<started, held, child, ready, stopped, restartCount, restartTimer,
          nextId, kind, pending, timer, stableTimer, settled, inbox, outbox,
          crashes, gaveUp>>

Kinds == {"none", "ping", "call"}
Outcomes == {"none", "result", "error", "exited", "timeout"}
Replies == [id : Ids, ok : BOOLEAN]

TypeOK ==
    /\ started \in {"no", "probing", "yes"}
    /\ held \in BOOLEAN
    /\ child \in {"none", "running", "died", "gone"}
    /\ ready \in BOOLEAN
    /\ stopped \in BOOLEAN
    /\ restartCount \in 0..MAX_RESTARTS
    /\ restartTimer \in Countdown
    /\ nextId \in 1..(MaxId + 1)
    /\ kind \in [Ids -> Kinds]
    /\ pending \in SUBSET Ids
    /\ timer \in [Ids -> Countdown]
    /\ stableTimer \in [Ids -> Countdown]
    /\ settled \in [Ids -> Outcomes]
    /\ inbox \in Seq(Ids)
    /\ outbox \in Seq(Replies)
    /\ crashes \in 0..MaxCrashes
    /\ gaveUp \in BOOLEAN

Init ==
    /\ started = "no"
    /\ held = FALSE
    /\ child = "none"
    /\ ready = FALSE
    /\ stopped = FALSE
    /\ restartCount = 0
    /\ restartTimer = Off
    /\ nextId = 1
    /\ kind = [i \in Ids |-> "none"]
    /\ pending = {}
    /\ timer = [i \in Ids |-> Off]
    /\ stableTimer = [i \in Ids |-> Off]
    /\ settled = [i \in Ids |-> "none"]
    /\ inbox = <<>>
    /\ outbox = <<>>
    /\ crashes = 0
    /\ gaveUp = FALSE

-----------------------------------------------------------------------------
(* Helpers *)

\* isReady(): proc.killed is only set by stop(), which also drops proc.
isReady == ready /\ held

Pings == {i \in pending : kind[i] = "ping"}
Calls == {i \in Ids : kind[i] = "call"}

\* A line written to the stdin of a child that is dead goes nowhere.
Write(id) == inbox' = IF child = "running" THEN Append(inbox, id) ELSE inbox

\* mutant: the timers are not cleared
ForgetTimersKept(ids) ==
    /\ pending' = pending \ ids
    /\ UNCHANGED timer

\* mutant: the requests stay in the map
ForgetNothing(ids) ==
    /\ UNCHANGED pending
    /\ timer' = [i \in Ids |-> IF i \in ids THEN Off ELSE timer[i]]

\* Requests leave the map, and clearTimeout stops their timers.
Forget(ids) ==
    /\ pending' = pending \ ids
    /\ timer' = [i \in Ids |-> IF i \in ids THEN Off ELSE timer[i]]

\* However a handshake ends, answered, rejected or timed out, the client is
\* marked ready and a 30 s timer starts; "was" is the flag before that.
HandshakeEnds(was, ids) ==
    /\ ready' = (was \/ ids # {})
    /\ stableTimer' = [i \in Ids |-> IF i \in ids THEN STABLE_AFTER ELSE stableTimer[i]]

\* mutant: spawnProcess() does not look at the stopped flag
SpawnAnyway == FALSE

\* The early return of spawnProcess().
SpawnRefused == stopped

\* mutant: the last restart within the cap is not made
RestartOneShort == ~stopped /\ restartCount + 1 < MAX_RESTARTS

\* The exit handler restarts the child only within the cap.
MayRestart == ~stopped /\ restartCount < MAX_RESTARTS

-----------------------------------------------------------------------------
(* Starting the child *)

\* start(): looks for the binary, one asynchronous access check at a time.
Start ==
    /\ started = "no"
    /\ started' = "probing"
    /\ UNCHANGED <<clientVars, child, inbox, outbox, crashes, gaveUp>>

\* No candidate is executable: start() returns without spawning.
BinaryNotFound ==
    /\ started = "probing"
    /\ started' = "yes"
    /\ UNCHANGED <<clientVars, child, inbox, outbox, crashes, gaveUp>>

\* spawnProcess() up to handshake(): the ping is registered and written.
SpawnAndPing ==
    /\ nextId <= MaxId
    /\ held' = TRUE
    /\ child' = "running"
    /\ nextId' = nextId + 1
    /\ kind' = [kind EXCEPT ![nextId] = "ping"]
    /\ pending' = pending \cup {nextId}
    /\ timer' = [timer EXCEPT ![nextId] = PING_TIMEOUT]
    /\ inbox' = <<nextId>>
    /\ UNCHANGED <<ready, stopped, restartCount, stableTimer, settled, outbox,
                   crashes, gaveUp>>

\* The tail of start(); spawnProcess() returns early after stop().
FirstSpawn ==
    /\ started = "probing"
    /\ started' = "yes"
    /\ IF SpawnRefused
       THEN UNCHANGED <<clientVars, child, inbox, outbox, crashes, gaveUp>>
       ELSE SpawnAndPing /\ UNCHANGED restartTimer

\* mutant: the restart timer is not one-shot
RespawnPeriodically ==
    /\ restartTimer = 0
    /\ restartTimer' = BACKOFF_BASE
    /\ ~stopped /\ SpawnAndPing
    /\ UNCHANGED started

\* The backoff timer fires.
Respawn ==
    /\ restartTimer = 0
    /\ restartTimer' = Off
    /\ IF SpawnRefused
       THEN UNCHANGED <<held, ready, stopped, restartCount, nextId, kind, pending,
                        timer, stableTimer, settled, child, inbox, outbox,
                        crashes, gaveUp>>
       ELSE SpawnAndPing
    /\ UNCHANGED started

-----------------------------------------------------------------------------
(* The child: engine/src/rpc.rs, run_rpc_server *)

\* One request is read, dispatched and answered; only inference and the
\* provider-backed methods can answer with an error.
EngineReply ==
    /\ child = "running"
    /\ inbox # <<>>
    /\ \E ok \in BOOLEAN :
          /\ kind[Head(inbox)] = "ping" => ok
          /\ outbox' = Append(outbox, [id |-> Head(inbox), ok |-> ok])
    /\ inbox' = Tail(inbox)
    /\ UNCHANGED <<clientVars, started, child, crashes, gaveUp>>

\* The child crashes; what it had not answered is lost.
Die ==
    /\ child = "running"
    /\ held
    /\ crashes < MaxCrashes
    /\ crashes' = crashes + 1
    /\ child' = "died"
    /\ inbox' = <<>>
    /\ UNCHANGED <<clientVars, started, outbox, gaveUp>>

\* stdin.end() and SIGTERM from stop() take effect.
Terminate ==
    /\ child = "running"
    /\ ~held
    /\ child' = "died"
    /\ inbox' = <<>>
    /\ UNCHANGED <<clientVars, started, outbox, crashes, gaveUp>>

-----------------------------------------------------------------------------
(* Events at the client *)

\* rl.on('line') for an id still in the map; a pong makes the client ready.
ReadReply ==
    /\ outbox # <<>>
    /\ LET r == Head(outbox) IN
          /\ r.id \in pending
          /\ Forget({r.id})
          /\ settled' = [settled EXCEPT ![r.id] = IF r.ok THEN "result" ELSE "error"]
          /\ HandshakeEnds(ready, {r.id} \cap Pings)
    /\ outbox' = Tail(outbox)
    /\ UNCHANGED <<started, held, child, stopped, restartCount, restartTimer,
                   nextId, kind, inbox, crashes, gaveUp>>

\* rl.on('line') for an id that timed out or was rejected by an exit.
IgnoreLateReply ==
    /\ outbox # <<>>
    /\ Head(outbox).id \notin pending
    /\ outbox' = Tail(outbox)
    /\ UNCHANGED <<clientVars, started, child, inbox, crashes, gaveUp>>

\* proc.on('exit'): every pending callback is rejected after ready was
\* cleared, and the reject of a handshake sets it again.
ExitEvent ==
    /\ child = "died"
    /\ child' = "gone"
    /\ HandshakeEnds(FALSE, Pings)
    /\ settled' = [i \in Ids |-> IF i \in pending THEN "exited" ELSE settled[i]]
    /\ Forget(pending)
    /\ IF MayRestart
       THEN /\ restartTimer' = Backoff(restartCount)
            /\ restartCount' = restartCount + 1
            /\ UNCHANGED gaveUp
       ELSE /\ gaveUp' = (gaveUp \/ restartCount >= MAX_RESTARTS)
            /\ UNCHANGED <<restartTimer, restartCount>>
    /\ UNCHANGED <<started, held, stopped, nextId, kind, inbox, outbox, crashes>>

\* The handshake timer: ready in degraded mode.
PingTimeout(id) ==
    /\ id \in Pings
    /\ timer[id] = 0
    /\ Forget({id})
    /\ settled' = [settled EXCEPT ![id] = "timeout"]
    /\ HandshakeEnds(ready, {id})
    /\ UNCHANGED <<started, held, child, stopped, restartCount, restartTimer,
                   nextId, kind, inbox, outbox, crashes, gaveUp>>

\* The timer of call().
CallTimeout(id) ==
    /\ id \in pending
    /\ kind[id] = "call"
    /\ timer[id] = 0
    /\ Forget({id})
    /\ settled' = [settled EXCEPT ![id] = "timeout"]
    /\ UNCHANGED <<started, held, child, ready, stopped, restartCount,
                   restartTimer, nextId, kind, stableTimer, inbox, outbox,
                   crashes, gaveUp>>

\* The 30 s timer of an earlier handshake.
StableTimer(id) ==
    /\ stableTimer[id] = 0
    /\ stableTimer' = [stableTimer EXCEPT ![id] = Off]
    /\ restartCount' = IF ready THEN 0 ELSE restartCount
    /\ UNCHANGED <<started, held, child, ready, stopped, restartTimer, nextId,
                   kind, pending, timer, settled, inbox, outbox, crashes, gaveUp>>

-----------------------------------------------------------------------------
(* Operations *)

\* call() when isReady(); otherwise it throws and changes nothing.
Call ==
    /\ isReady
    /\ nextId <= MaxId /\ Cardinality(Calls) < MaxCalls
    /\ nextId' = nextId + 1
    /\ kind' = [kind EXCEPT ![nextId] = "call"]
    /\ pending' = pending \cup {nextId}
    /\ timer' = [timer EXCEPT ![nextId] = CALL_TIMEOUT]
    /\ Write(nextId)
    /\ UNCHANGED <<started, held, child, ready, stopped, restartCount,
                   restartTimer, stableTimer, settled, outbox, crashes, gaveUp>>

\* stop(): clearTimeout on the restart timer, SIGTERM, proc = null.
Stop ==
    /\ ~stopped
    /\ stopped' = TRUE
    /\ restartTimer' = Off
    /\ held' = FALSE
    /\ ready' = IF held THEN FALSE ELSE ready
    /\ UNCHANGED <<started, child, restartCount, nextId, kind, pending, timer,
                   stableTimer, settled, inbox, outbox, crashes, gaveUp>>

\* Time passes for every armed timer.
Down(c) == IF c > 0 THEN c - 1 ELSE c

Tick ==
    /\ restartTimer # 0 /\ \A i \in Ids : timer[i] # 0 /\ stableTimer[i] # 0
    /\ \/ restartTimer > 0
       \/ \E i \in Ids : timer[i] > 0 \/ stableTimer[i] > 0
    /\ restartTimer' = Down(restartTimer)
    /\ timer' = [i \in Ids |-> Down(timer[i])]
    /\ stableTimer' = [i \in Ids |-> Down(stableTimer[i])]
    /\ UNCHANGED <<started, held, child, ready, stopped, restartCount, nextId,
                   kind, pending, settled, inbox, outbox, crashes, gaveUp>>

Next ==
    \/ Start \/ BinaryNotFound \/ FirstSpawn \/ Respawn
    \/ EngineReply \/ Die \/ Terminate
    \/ ReadReply \/ IgnoreLateReply \/ ExitEvent
    \/ \E id \in Ids : PingTimeout(id) \/ CallTimeout(id) \/ StableTimer(id)
    \/ Call \/ Stop \/ Tick

Spec == Init /\ [][Next]_vars

\* The event loop keeps running: timers fire, exit events and lines arrive.
\* Nothing is assumed of the child, which may hang or never answer.
Fairness ==
    /\ WF_vars(Tick)
    /\ WF_vars(FirstSpawn \/ BinaryNotFound)
    /\ WF_vars(Respawn)
    /\ WF_vars(ExitEvent)
    /\ \A id \in Ids : /\ WF_vars(PingTimeout(id))
                       /\ WF_vars(CallTimeout(id))
                       /\ WF_vars(StableTimer(id))

FairSpec == Spec /\ Fairness

-----------------------------------------------------------------------------
(* Properties *)

\* Every request that left the map was answered, rejected or timed out, every
\* one still in it has a timer that will end it, and nothing else has: no
\* promise of call() and no handshake is ever forgotten or ended while it waits.
NoRequestForgotten ==
    \A i \in Ids :
        /\ i \in pending <=> (kind[i] # "none" /\ settled[i] = "none")
        /\ i \in pending <=> timer[i] # Off

\* The client never runs two kernels: a child is spawned only when there was
\* none or when the exit of the previous one was handled, whatever order start(),
\* the backoff timer, exit events and stop() come in.
OneChildAtATime ==
    [][(\E i \in Ids : kind[i] = "none" /\ kind'[i] = "ping")
            => child \in {"none", "gone"}]_vars

\* stop() is final: afterwards no child is spawned and isReady() stays false,
\* although the exit event of the killed child, its late replies, the handshake
\* timer and the access checks of start() still arrive.
StopIsFinal ==
    [][stopped => /\ ~isReady'
                  /\ child' = "running" => child = "running"]_vars

\* At most one handshake is outstanding and it belongs to the current child, so
\* a pong or a ping timeout never speaks for a child that was replaced.
HandshakeIsCurrent ==
    /\ \A i, j \in Pings : i = j
    /\ Pings # {} => child \in {"running", "died"}

\* Every call() ends, whether the child answers, dies or hangs.
EveryCallSettles ==
    \A i \in Ids : (kind[i] = "call") ~> (settled[i] # "none")

\* A child that stays up is eventually used, answered ping or not.
RunningBecomesReady ==
    (child = "running") ~> (isReady \/ stopped \/ child # "running")

\* A crash is followed by a new child, unless stop() was called or the
\* restarts are used up.
CrashIsAnswered ==
    (child = "gone") ~> (child = "running" \/ stopped \/ gaveUp)

\* Nothing is waited for without end: every call settles, a child that stays
\* up is used, and a crash is answered by a restart until the cap is reached.
CallsAndCrashesEnd == EveryCallSettles /\ RunningBecomesReady /\ CrashIsAnswered

-----------------------------------------------------------------------------
(* The client implements the port its callers rely on. *)

PortState(i) ==
    CASE kind[i] # "call"                          -> "unused"
      [] kind[i] = "call" /\ settled[i] = "none"   -> "waiting"
      [] kind[i] = "call" /\ settled[i] = "result" -> "resolved"
      [] OTHER                                     -> "rejected"

Port == INSTANCE RpcPort WITH
            CallIds   <- Ids,
            available <- isReady,
            call      <- [i \in Ids |-> PortState(i)]

\* KernelClient implements RpcPort: whatever pings, timers, replies, exits,
\* restarts and stop() do, a caller sees calls that start only while isReady()
\* and are settled at most once.
ImplementsPort == Port!PortSpec

=============================================================================
