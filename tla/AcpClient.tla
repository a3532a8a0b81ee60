----------------------------- MODULE AcpClient -----------------------------
(***************************************************************************)
(* The client that speaks JSON-RPC with an agent process over its pipes     *)
(* (agent-os/packages/core/src/acp-client.ts).                              *)
(*                                                                          *)
(* Callbacks run without interruption; what comes between them is the       *)
(* reader's await of the next line, the exit of the process, the timers     *)
(* and the calls of the owner.  The process is external: it may answer any  *)
(* id, more than once or never, send notifications and die.  Whatever has   *)
(* an id counts as an answer, a request of the agent too.  Empty lines      *)
(* and lines that are not JSON-RPC are skipped by the reader and left out,  *)
(* and so is notify, which only writes.                                     *)
(***************************************************************************)
EXTENDS Integers, Sequences

CONSTANTS
    MaxAcpId,     \* bound: requests made
    MaxLines,     \* bound: lines waiting in the reader's queue
    MaxWritten    \* bound: lines the process writes

ASSUME AcpConstants ==
    MaxAcpId \in Nat /\ MaxLines \in Nat /\ MaxWritten \in Nat

VARIABLES
    alive,        \* the agent process runs
    exited,       \* its exit was seen by _watchExit
    stdoutLines,  \* lines read from the process and not yet taken
    written,      \* how many lines the process has written
    reader,       \* the loop of _startReading: awaiting, resumed, ended
    line,         \* the line it was resumed with
    closed,       \* _closed
    nextId,       \* _nextId
    pending,      \* the ids in _pending, each with its timer
    outcome,      \* history: how each request ended
    told          \* history: notifications handed to the handlers

acpVars == <<alive, exited, stdoutLines, written, reader, line, closed, nextId,
             pending, outcome, told>>

AcpIds == 1 .. MaxAcpId
Notification == 0
Lines == AcpIds \cup {Notification}

AcpInit ==
    /\ alive = TRUE /\ exited = FALSE
    /\ stdoutLines = <<>> /\ written = 0
    /\ reader = "awaiting" /\ line = Notification
    /\ closed = FALSE
    /\ nextId = 1 /\ pending = {}
    /\ outcome = [i \in AcpIds |-> "unused"]
    /\ told = 0

\* External: the process writes a line that the line reader picks up.
AgentWrites ==
    /\ alive
    /\ written < MaxWritten /\ Len(stdoutLines) < MaxLines
    /\ \E l \in Lines : stdoutLines' = Append(stdoutLines, l)
    /\ written' = written + 1
    /\ UNCHANGED <<alive, exited, reader, line, closed, nextId, pending, outcome, told>>

\* External: the process ends.
AgentDies ==
    /\ alive
    /\ alive' = FALSE
    /\ UNCHANGED <<exited, stdoutLines, written, reader, line, closed, nextId,
                   pending, outcome, told>>

\* request(): once closed it rejects at once and uses no id.
Request ==
    /\ ~closed
    /\ nextId \in AcpIds
    /\ nextId' = nextId + 1
    /\ pending' = pending \cup {nextId}
    /\ outcome' = [outcome EXCEPT ![nextId] = "waiting"]
    /\ UNCHANGED <<alive, exited, stdoutLines, written, reader, line, closed, told>>

\* The timer of a request runs out.
RequestTimeout(i) ==
    /\ i \in pending
    /\ pending' = pending \ {i}
    /\ outcome' = [outcome EXCEPT ![i] = "timed out"]
    /\ UNCHANGED <<alive, exited, stdoutLines, written, reader, line, closed, nextId, told>>

\* iterator.next() yields a line; the loop goes on in a turn of its own.
NextLine ==
    /\ reader = "awaiting" /\ stdoutLines # <<>>
    /\ line' = Head(stdoutLines)
    /\ stdoutLines' = Tail(stdoutLines)
    /\ reader' = "resumed"
    /\ UNCHANGED <<alive, exited, written, closed, nextId, pending, outcome, told>>

\* The lines end: the process is gone and nothing is queued, or _closeReader
\* has ended the iteration.
NoMoreLines ==
    /\ reader = "awaiting"
    /\ closed \/ (~alive /\ stdoutLines = <<>>)
    /\ reader' = "ended"
    /\ UNCHANGED <<alive, exited, stdoutLines, written, line, closed, nextId,
                   pending, outcome, told>>

\* mutant: a response settles its request whether or not it still waits
DeliverAnyway ==
    \/ /\ line # Notification
       /\ pending' = pending \ {line}
       /\ outcome' = [outcome EXCEPT ![line] = "answered"]
       /\ reader' = "awaiting"
       /\ UNCHANGED told
    \/ /\ line = Notification
       /\ told' = told + 1
       /\ reader' \in {"awaiting", "ended"}
       /\ UNCHANGED <<pending, outcome>>

\* A response settles the request that waits for it, if there is one; a
\* notification goes to the handlers, and one that throws ends the loop.
Deliver ==
    \/ /\ line # Notification
       /\ pending' = pending \ {line}
       /\ outcome' = [outcome EXCEPT ![line] = IF line \in pending THEN "answered" ELSE @]
       /\ reader' = "awaiting"
       /\ UNCHANGED told
    \/ /\ line = Notification
       /\ told' = told + 1
       /\ reader' \in {"awaiting", "ended"}
       /\ UNCHANGED <<pending, outcome>>

\* mutant: _closed is tested before the await only
HandleLineUnchecked ==
    /\ reader = "resumed"
    /\ Deliver
    /\ UNCHANGED <<alive, exited, stdoutLines, written, line, closed, nextId>>

\* The loop is resumed with a line, and looks at _closed again first.
HandleLine ==
    /\ reader = "resumed"
    /\ IF closed
       THEN reader' = "ended" /\ UNCHANGED <<pending, outcome, told>>
       ELSE Deliver
    /\ UNCHANGED <<alive, exited, stdoutLines, written, line, closed, nextId>>

\* _rejectAll
RejectAll ==
    /\ outcome' = [i \in AcpIds |-> IF i \in pending THEN "rejected" ELSE outcome[i]]
    /\ pending' = {}

\* close(): the owner closes the client and kills the process.
Close ==
    /\ ~closed
    /\ closed' = TRUE
    /\ RejectAll
    /\ alive' = FALSE
    /\ UNCHANGED <<exited, stdoutLines, written, reader, line, nextId, told>>

\* _watchExit: wait() resolves, be there lines left to read or not.
WatchExit ==
    /\ ~alive /\ ~exited
    /\ exited' = TRUE
    /\ closed' = TRUE
    /\ RejectAll
    /\ UNCHANGED <<alive, stdoutLines, written, reader, line, nextId, told>>

AcpNext ==
    \/ AgentWrites \/ AgentDies
    \/ Request \/ Close
    \/ \E i \in AcpIds : RequestTimeout(i)
    \/ NextLine \/ NoMoreLines \/ HandleLine \/ WatchExit

\* The timers of the client's process fire; nothing is assumed of the agent.
AcpFairness == \A i \in AcpIds : WF_acpVars(RequestTimeout(i))

AcpSpec == AcpInit /\ [][AcpNext]_acpVars /\ AcpFairness

-----------------------------------------------------------------------------
AcpTypeOK ==
    /\ alive \in BOOLEAN /\ exited \in BOOLEAN /\ closed \in BOOLEAN
    /\ stdoutLines \in Seq(Lines) /\ Len(stdoutLines) <= MaxLines
    /\ written \in 0 .. MaxWritten /\ told \in Nat
    /\ reader \in {"awaiting", "resumed", "ended"} /\ line \in Lines
    /\ nextId \in 1 .. MaxAcpId + 1
    /\ pending \subseteq AcpIds
    /\ outcome \in [AcpIds -> {"unused", "waiting", "answered", "timed out", "rejected"}]

(***************************************************************************)
(* _pending holds exactly the requests whose promise is open, and none once *)
(* the client is closed: whatever order exit, close, timers and late or     *)
(* repeated answers come in, no caller is left with a promise that nothing  *)
(* will settle.                                                             *)
(***************************************************************************)
AcpRequestsAccounted ==
    /\ pending = {i \in AcpIds : outcome[i] = "waiting"}
    /\ closed => pending = {}

(***************************************************************************)
(* After close() or the exit of the process no handler hears of a           *)
(* notification, even one the reader had been woken for before.             *)
(***************************************************************************)
SilentAfterClose == [][closed => told' = told]_acpVars

(***************************************************************************)
(* The two ways close() and exit could leave a caller wrong: a promise that *)
(* nothing settles, and a notification heard after the end.                 *)
(***************************************************************************)
ClientIsAccounted == [](AcpTypeOK /\ AcpRequestsAccounted) /\ SilentAfterClose

(***************************************************************************)
(* Every request is settled, if only by its timer, though the process       *)
(* hangs or the reader has ended on a handler's exception.                  *)
(***************************************************************************)
AcpRequestsSettle == \A i \in AcpIds : (outcome[i] = "waiting") ~> (outcome[i] # "waiting")

\* What the port says of a request.
AcpCall(i) ==
    CASE outcome[i] = "unused"   -> "unused"
      [] outcome[i] = "waiting"  -> "waiting"
      [] outcome[i] = "answered" -> "resolved"
      [] OTHER                   -> "rejected"

AcpPort ==
    INSTANCE RpcPort WITH
        CallIds <- AcpIds,
        available <- ~closed,
        call <- [i \in AcpIds |-> AcpCall(i)]

(***************************************************************************)
(* The client is a request port: a request starts only while the client is  *)
(* open and is settled at most once, by an answer or by an error.           *)
(***************************************************************************)
AcpImplementsPort == AcpPort!PortSpec
=============================================================================
