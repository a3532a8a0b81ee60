------------------------------ MODULE RingBuffer ------------------------------
(***************************************************************************)
(* The shared-memory pipe of the posix package                             *)
(* (agent-os/packages/posix/src/ring-buffer.ts): one RingBufferWriter and  *)
(* one RingBufferReader, in two Workers, over one SharedArrayBuffer.       *)
(*                                                                         *)
(* A step is one access to memory the other Worker can see: a load or a    *)
(* store of a header word, Atomics.wait, Atomics.notify, or the copy of    *)
(* one byte.  A thread's load of the word only it stores (writePos by the  *)
(* writer, readPos by the reader) is not a step.  A byte is its index in   *)
(* the stream, so that a lost, repeated or swapped byte shows.             *)
(*                                                                         *)
(* The callers: write(buf) any number of times and then close(); read(buf) *)
(* any number of times, also after an EOF.                                 *)
(***************************************************************************)
EXTENDS Integers, Sequences

CONSTANTS
    CAPACITY,      \* bytes of the data part
    MAX_RETRIES,   \* timed-out waits after which the peer is taken for dead
    MaxBytes,      \* bound: bytes passed to write() in all
    MaxLen,        \* bound: bytes of one write() or read()
    INT_LIMIT      \* 2^31: the header words are Int32, -INT_LIMIT..INT_LIMIT-1

ASSUME RingConstants ==
    /\ CAPACITY \in Nat \ {0} /\ MAX_RETRIES \in Nat \ {0}
    /\ MaxBytes \in Nat /\ MaxLen \in Nat \ {0} /\ INT_LIMIT \in Nat \ {0}
    /\ MaxLen < INT_LIMIT

VARIABLES
    writePos, readPos, closed,      \* the header words
    data,                           \* the payload
    wpc, seenRead, len, written, wi, wtries,   \* write(): its locals
    rpc, seenWrite, maxLen, ri, rtries,        \* read(): its locals
    sent, taken,    \* bytes published and bytes released, never wrapped
    got             \* the bytes copied out by read(), in order

header == <<writePos, readPos, closed>>
wvars == <<wpc, seenRead, len, written, wi, wtries>>
rvars == <<rpc, seenWrite, maxLen, ri, rtries>>
vars == <<header, data, wvars, rvars, sent, taken, got>>

-----------------------------------------------------------------------------
Zero == 0                        \* what an unwritten cell holds
Int32 == -INT_LIMIT .. INT_LIMIT - 1

\* What Atomics.store leaves in an Int32Array element.
ToInt32(x) == IF x < INT_LIMIT THEN x ELSE x - 2 * INT_LIMIT

\* JavaScript's p % CAPACITY: the remainder has the sign of p.
Slot(p) == IF p >= 0 THEN p % CAPACITY ELSE -((-p) % CAPACITY)

min(a, b) == IF a <= b THEN a ELSE b

\* mutant: one byte too much room
OneByteTooMuch(seen) == CAPACITY + 1 - (writePos - seen)
\* mutant: the whole request whatever the room
WholeRequest == len - written

\* write(): the room there is if readPos is `seen`, and the part it will fill.
Room(seen) == CAPACITY - (writePos - seen)
WChunk == min(len - written, Room(seenRead))

\* read(): the bytes taken for unread, and the part of them it will copy.
Unread(seen) == seen - readPos
RChunk == min(maxLen, Unread(seenWrite))

Init ==
    /\ writePos = 0 /\ readPos = 0 /\ closed = 0
    /\ data = [s \in 0 .. CAPACITY - 1 |-> Zero]
    /\ wpc = "idle" /\ seenRead = 0 /\ len = 0 /\ written = 0 /\ wi = 0 /\ wtries = 0
    /\ rpc = "idle" /\ seenWrite = 0 /\ maxLen = 0 /\ ri = 0 /\ rtries = 0
    /\ sent = 0 /\ taken = 0 /\ got = <<>>

-----------------------------------------------------------------------------
(* RingBufferWriter *)

StartWrite(n) ==
    /\ wpc = "idle"
    /\ sent + n <= MaxBytes
    /\ wpc' = "load" /\ len' = n /\ written' = 0 /\ wtries' = 0
    /\ UNCHANGED <<header, data, seenRead, wi, rvars, sent, taken, got>>

\* Load readPos and decide: return, wait for room, or copy.
WLoad ==
    /\ wpc = "load"
    /\ IF written < len
       THEN /\ seenRead' = readPos
            /\ wi' = 0
            /\ IF Room(readPos) <= 0
               THEN wpc' = "wait" /\ UNCHANGED wtries
               ELSE wpc' = "copy" /\ wtries' = 0
       ELSE wpc' = "idle" /\ UNCHANGED <<seenRead, wi, wtries>>
    /\ UNCHANGED <<header, data, len, written, rvars, sent, taken, got>>

\* Atomics.wait on readPos: at once "not-equal", or asleep.
WWait ==
    /\ wpc = "wait"
    /\ IF readPos # seenRead
       THEN wpc' = "load" /\ wtries' = 0
       ELSE wpc' = "asleep" /\ UNCHANGED wtries
    /\ UNCHANGED <<header, data, seenRead, len, written, wi, rvars, sent, taken, got>>

\* The wait timed out: try again, or take the reader for dead and close.
WTimeout ==
    /\ wpc = "asleep"
    /\ wtries' = wtries + 1
    /\ wpc' = IF wtries' >= MAX_RETRIES THEN "giveUp" ELSE "load"
    /\ UNCHANGED <<header, data, seenRead, len, written, wi, rvars, sent, taken, got>>

WCopy ==
    /\ wpc = "copy"
    /\ wi < WChunk
    /\ LET s == Slot(writePos + wi)
       IN data' = [x \in DOMAIN data |-> IF x = s THEN sent + wi ELSE data[x]]
    /\ wi' = wi + 1
    /\ UNCHANGED <<header, wpc, seenRead, len, written, wtries, rvars, sent, taken, got>>

\* Mutant: writePos advances by the request, not by the chunk copied.
StoreWholeRequest ==
    /\ wpc = "copy"
    /\ wi = WChunk
    /\ writePos' = ToInt32(writePos + (len - written))
    /\ sent' = sent + (len - written)
    /\ written' = len
    /\ wi' = 0
    /\ wpc' = "notify"
    /\ UNCHANGED <<readPos, closed, data, seenRead, len, wtries, rvars, taken, got>>

WStore ==
    /\ wpc = "copy"
    /\ wi = WChunk
    /\ writePos' = ToInt32(writePos + wi)
    /\ sent' = sent + wi
    /\ written' = written + wi
    /\ wi' = 0
    /\ wpc' = "notify"
    /\ UNCHANGED <<readPos, closed, data, seenRead, len, wtries, rvars, taken, got>>

\* Atomics.notify on writePos: a sleeping reader's wait returns "ok".
WakeReader ==
    IF rpc = "asleep"
    THEN rpc' = "load" /\ rtries' = 0
    ELSE UNCHANGED <<rpc, rtries>>

WNotify ==
    /\ wpc = "notify"
    /\ wpc' = "load"
    /\ WakeReader
    /\ UNCHANGED <<header, data, seenRead, len, written, wi, wtries,
                   seenWrite, maxLen, ri, sent, taken, got>>

\* close(): called by the writer's owner, or by write() when it gives up.
WClose ==
    /\ wpc \in {"idle", "giveUp"}
    /\ closed' = 1
    /\ wpc' = IF wpc = "idle" THEN "endNotify" ELSE "giveUpNotify"
    /\ UNCHANGED <<writePos, readPos, data, seenRead, len, written, wi, wtries,
                   rvars, sent, taken, got>>

\* After its own close() the owner writes no more; after a write() that gave
\* up nothing in the code keeps it from writing again.
WCloseNotify ==
    /\ wpc \in {"endNotify", "giveUpNotify"}
    /\ wpc' = IF wpc = "endNotify" THEN "ended" ELSE "idle"
    /\ WakeReader
    /\ UNCHANGED <<header, data, seenRead, len, written, wi, wtries,
                   seenWrite, maxLen, ri, sent, taken, got>>

-----------------------------------------------------------------------------
(* RingBufferReader *)

StartRead(n) ==
    /\ rpc \in {"idle", "eof"}
    /\ rpc' = "load" /\ maxLen' = n /\ rtries' = 0
    /\ UNCHANGED <<header, data, wvars, seenWrite, ri, sent, taken, got>>

RLoad ==
    /\ rpc = "load"
    /\ seenWrite' = writePos
    /\ ri' = 0
    /\ rpc' = IF Unread(writePos) > 0 THEN "copy" ELSE "check"
    /\ UNCHANGED <<header, data, wvars, maxLen, rtries, sent, taken, got>>

\* Outside the payload (a negative index) the read gives undefined, stored as 0.
RCopy ==
    /\ rpc = "copy"
    /\ ri < RChunk
    /\ LET s == Slot(readPos + ri)
       IN got' = Append(got, IF s \in DOMAIN data THEN data[s] ELSE Zero)
    /\ ri' = ri + 1
    /\ UNCHANGED <<header, data, wvars, rpc, seenWrite, maxLen, rtries, sent, taken>>

RStore ==
    /\ rpc = "copy"
    /\ ri = RChunk
    /\ readPos' = ToInt32(readPos + ri)
    /\ taken' = taken + ri
    /\ ri' = 0
    /\ rpc' = "notify"
    /\ UNCHANGED <<writePos, closed, data, wvars, seenWrite, maxLen, rtries, sent, got>>

\* Atomics.notify on readPos, and read() returns the chunk.
RNotify ==
    /\ rpc = "notify"
    /\ rpc' = "idle"
    /\ IF wpc = "asleep"
       THEN wpc' = "load" /\ wtries' = 0
       ELSE UNCHANGED <<wpc, wtries>>
    /\ UNCHANGED <<header, data, seenRead, len, written, wi,
                   seenWrite, maxLen, ri, rtries, sent, taken, got>>

\* Nothing unread at the load: EOF if closed now.
RCheckClosed ==
    /\ rpc = "check"
    /\ rpc' = IF closed = 1 THEN "eof" ELSE "wait"
    /\ UNCHANGED <<header, data, wvars, seenWrite, maxLen, ri, rtries, sent, taken, got>>

RWait ==
    /\ rpc = "wait"
    /\ IF writePos # seenWrite
       THEN rpc' = "load" /\ rtries' = 0
       ELSE rpc' = "asleep" /\ UNCHANGED rtries
    /\ UNCHANGED <<header, data, wvars, seenWrite, maxLen, ri, sent, taken, got>>

\* Mutant: a timed-out wait starts again with the retries reset.
RRetryForever ==
    /\ rpc = "asleep"
    /\ rpc' = "load" /\ rtries' = 0
    /\ UNCHANGED <<header, data, wvars, seenWrite, maxLen, ri, sent, taken, got>>

RTimeout ==
    /\ rpc = "asleep"
    /\ rtries' = rtries + 1
    /\ rpc' = IF rtries' >= MAX_RETRIES THEN "giveUp" ELSE "load"
    /\ UNCHANGED <<header, data, wvars, seenWrite, maxLen, ri, sent, taken, got>>

\* The writer is taken for dead: close the buffer and return 0.  (The notify
\* on writePos that follows could only wake the reader itself.)
RGiveUp ==
    /\ rpc = "giveUp"
    /\ closed' = 1
    /\ rpc' = "eof"
    /\ UNCHANGED <<writePos, readPos, data, wvars, seenWrite, maxLen, ri, rtries,
                   sent, taken, got>>

-----------------------------------------------------------------------------
WriterStep ==
    \/ WLoad \/ WWait \/ WTimeout \/ WCopy \/ WStore \/ WNotify \/ WCloseNotify
    \/ wpc = "giveUp" /\ WClose

ReaderStep ==
    \/ RLoad \/ RCopy \/ RStore \/ RNotify \/ RCheckClosed \/ RWait \/ RTimeout \/ RGiveUp

Next ==
    \/ \E n \in 1 .. MaxLen : StartWrite(n) \/ StartRead(n)
    \/ wpc = "idle" /\ WClose
    \/ WriterStep
    \/ ReaderStep

Spec == Init /\ [][Next]_vars

\* A Worker inside write() or read() keeps running, and a wait times out; no
\* one is obliged to call write(), read() or close().
FairSpec == Spec /\ WF_vars(WriterStep) /\ WF_vars(ReaderStep)

-----------------------------------------------------------------------------
(* Properties *)

TypeOK ==
    /\ writePos \in Int32 /\ readPos \in Int32 /\ closed \in {0, 1}
    /\ data \in [0 .. CAPACITY - 1 -> Nat]
    /\ wpc \in {"idle", "load", "wait", "asleep", "copy", "notify", "giveUp",
                "giveUpNotify", "endNotify", "ended"}
    /\ seenRead \in Int32 /\ len \in 0 .. MaxLen /\ written \in 0 .. len
    /\ wi \in 0 .. MaxLen /\ wtries \in 0 .. MAX_RETRIES
    /\ rpc \in {"idle", "load", "copy", "notify", "check", "wait", "asleep",
                "giveUp", "eof"}
    /\ seenWrite \in Int32 /\ maxLen \in 0 .. MaxLen
    /\ ri \in 0 .. MaxLen /\ rtries \in 0 .. MAX_RETRIES
    /\ sent \in 0 .. MaxBytes /\ taken \in 0 .. MaxBytes
    /\ got \in Seq(Nat)

\* The writer blocks when the buffer is full (ring-buffer.ts line 12): at no
\* time are more than CAPACITY bytes published and not yet released.
BlocksWhenFull == taken <= sent /\ sent - taken <= CAPACITY

\* The cells write() may be storing into and the cells read() may be loading
\* from, while both are inside their copy loops, are disjoint: the plain
\* (non-atomic) accesses of lines 102 and 161 never race.
NoDataRace ==
    wpc = "copy" /\ rpc = "copy" =>
        {Slot(writePos + i) : i \in 0 .. WChunk - 1}
            \cap {Slot(readPos + i) : i \in 0 .. RChunk - 1} = {}

\* The bytes read() hands out are the bytes given to write(), in order, each
\* once, whatever the two copy loops, wrap-arounds, waits and timeouts do.
BytesInOrder == \A k \in DOMAIN got : got[k] = k - 1

\* write() returns even if no one reads any more: a blocked writer gives up
\* after MAX_RETRIES timeouts (lines 84 to 90).
EveryWriteReturns == wpc \notin {"idle", "ended"} ~> wpc \in {"idle", "ended"}

\* read() returns even if the writer is gone (lines 177 to 184), and although
\* a close() between its test of closed and its wait wakes no one.
EveryReadReturns == rpc \notin {"idle", "eof"} ~> rpc \in {"idle", "eof"}

\* What line 14 says: "reader returns 0 when empty+closed".  A read() that
\* finds the buffer closed by its owner and returns 0 leaves no byte behind.
EofOnlyWhenDrained ==
    [][RCheckClosed /\ rpc' = "eof" => taken = sent]_vars

\* Neither side blocks for ever, although each may lose the other's notify.
BothSidesReturn == EveryWriteReturns /\ EveryReadReturns
=============================================================================
