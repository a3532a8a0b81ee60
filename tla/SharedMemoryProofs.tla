------------------------- MODULE SharedMemoryProofs -------------------------
(***************************************************************************)
(* The two protocols by which Workers share memory: the pipe, and the      *)
(* buffer of the system calls.                                             *)
(*                                                                         *)
(* The pipe, for every capacity, every request size and every interleaving *)
(* of the two Workers, as long as fewer than 2^31 bytes pass through it.   *)
(* The argument: two stream positions less than CAPACITY apart land in     *)
(* different cells (SlotsDiffer), and the positions in use at any time,    *)
(* from readPos to the byte being copied in, always are.                   *)
(*                                                                         *)
(* The system calls, for any number of calls, signals and nested handlers: *)
(* a call of a Worker returns the answer to itself and the program's       *)
(* handler sees every signal once and in order, until a call has timed out *)
(* or was woken by the notify of another answer.  One buffer serves all    *)
(* activations of rpcCall, so the invariant says whose the buffer is: only *)
(* the innermost activation waits or loads, every outer one has copied its *)
(* answer before its signal handler made a call, and the request of the    *)
(* innermost one is in exactly one place: in the inbox, with the kernel,   *)
(* being written, or ready.                                                *)
(***************************************************************************)
EXTENDS RingBuffer, SyscallRpc, TLAPS

-----------------------------------------------------------------------------
\* The pipe (RingBuffer).

\* Division with remainder by the capacity.
LEMMA DivMod ==
    ASSUME NEW p \in Nat
    PROVE  /\ p \div CAPACITY \in Int
           /\ p % CAPACITY \in 0 .. CAPACITY - 1
           /\ p = CAPACITY * (p \div CAPACITY) + (p % CAPACITY)
<1> CAPACITY \in Nat /\ CAPACITY > 0
  BY RingConstants
<1>1. p \div CAPACITY \in Int
  OBVIOUS
<1>2. p % CAPACITY \in 0 .. CAPACITY - 1
  OBVIOUS
<1>3. p = CAPACITY * (p \div CAPACITY) + (p % CAPACITY)
  OBVIOUS
<1> QED BY <1>1, <1>2, <1>3

\* A positive multiple of the capacity is at least the capacity.
LEMMA TimesAtLeast ==
    ASSUME NEW a \in Int, a >= 1
    PROVE  CAPACITY * a >= CAPACITY
  BY RingConstants

\* Stream positions less than a capacity apart land in different cells.
LEMMA SlotsDiffer ==
    ASSUME NEW p \in Nat, NEW q \in Nat, p < q, q < p + CAPACITY
    PROVE  Slot(p) # Slot(q)
<1> DEFINE a == p \div CAPACITY
           b == q \div CAPACITY
           d == b - a
<1> CAPACITY \in Nat /\ CAPACITY > 0
  BY RingConstants
<1>1. /\ a \in Int /\ b \in Int /\ d \in Int
      /\ p % CAPACITY \in Int /\ q % CAPACITY \in Int
      /\ p = CAPACITY * a + (p % CAPACITY)
      /\ q = CAPACITY * b + (q % CAPACITY)
  BY DivMod
<1>2. CAPACITY * d = CAPACITY * b - CAPACITY * a
  BY <1>1, RingConstants
<1> HIDE DEF a, b
<1> SUFFICES ASSUME p % CAPACITY = q % CAPACITY PROVE FALSE
  BY DEF Slot
<1>3. q - p = CAPACITY * d
  <2> DEFINE x == CAPACITY * a
             y == CAPACITY * b
             z == CAPACITY * d
  <2>1. x \in Int /\ y \in Int /\ z = y - x /\ p = x + (p % CAPACITY) /\ q = y + (p % CAPACITY)
    BY <1>1, <1>2
  <2> HIDE DEF x, y, z
  <2>2. q - p = z
    BY <2>1, <1>1
  <2> QED BY <2>2 DEF z
<1> HIDE DEF d
<1>4. CASE d >= 1
  <2>1. CAPACITY * d >= CAPACITY BY <1>1, <1>4, TimesAtLeast
  <2>2. CAPACITY * d \in Int BY <1>1, RingConstants
  <2> QED BY <1>3, <2>1, <2>2, RingConstants
<1>5. CASE d <= 0
  <2>1. CAPACITY * d <= 0 BY <1>1, <1>5, RingConstants
  <2>2. CAPACITY * d \in Int BY <1>1, RingConstants
  <2> QED BY <1>3, <2>1, <2>2
<1> QED BY <1>1, <1>4, <1>5

-----------------------------------------------------------------------------
(* The inductive invariant *)

\* Below 2^31 bytes the header words are the true counts.
Positions ==
    /\ writePos = sent /\ readPos = taken
    /\ taken <= sent /\ sent <= taken + CAPACITY

\* The writer's view of readPos may be old but never ahead, so the room it
\* fills is free.
WriterLocals ==
    /\ sent + (len - written) <= MaxBytes
    /\ seenRead >= 0
    /\ wpc = "copy" =>
         seenRead <= readPos /\ Room(seenRead) > 0 /\ written < len /\ wi <= WChunk
    /\ wpc # "copy" => wi = 0
    /\ wpc \in {"load", "wait", "asleep", "copy", "notify"} => wtries < MAX_RETRIES

\* The reader's view of writePos may be old but never ahead, so the bytes it
\* copies are published.
ReaderLocals ==
    /\ rpc = "copy" => seenWrite <= writePos /\ Unread(seenWrite) > 0 /\ ri <= RChunk
    /\ rpc # "copy" => ri = 0
    /\ rpc \in {"load", "check", "wait", "asleep"} => rtries < MAX_RETRIES

\* Every byte published and not released, and every byte copied by the
\* writer so far, is in its cell.
Contents ==
    \A p \in Nat : readPos <= p /\ p < writePos + wi => data[Slot(p)] = p

Delivered ==
    /\ Len(got) = readPos + ri
    /\ BytesInOrder

IInv == TypeOK /\ Positions /\ WriterLocals /\ ReaderLocals /\ Contents /\ Delivered

-----------------------------------------------------------------------------
\* A cell of the payload is where a stream position lands.
LEMMA SlotType ==
    ASSUME NEW p \in Nat
    PROVE  Slot(p) \in 0 .. CAPACITY - 1
  BY DivMod DEF Slot

\* Steps that move no position and touch neither the payload nor the bytes
\* read keep what is said of them.
LEMMA QuietStep ==
    ASSUME Contents, Delivered,
           UNCHANGED <<writePos, readPos, data, got>>, wi' = wi, ri' = ri
    PROVE  Contents' /\ Delivered'
  BY DEF Contents, Delivered, BytesInOrder, Slot

\* The empty pipe satisfies the invariant.
LEMMA InitIInv == Init => IInv
<1> SUFFICES ASSUME Init PROVE IInv
  OBVIOUS
<1> USE RingConstants DEF Init
<1>1. TypeOK
  BY DEF TypeOK, Int32, Zero
<1>2. Positions /\ WriterLocals /\ ReaderLocals
  BY DEF Positions, WriterLocals, ReaderLocals
<1>3. Contents /\ Delivered
  BY DEF Contents, Delivered, BytesInOrder
<1> QED BY <1>1, <1>2, <1>3 DEF IInv

\* A call of write() takes a request that fits the bound and moves nothing.
LEMMA StartWriteInv ==
    ASSUME MaxBytes < INT_LIMIT, IInv, NEW n \in 1 .. MaxLen, StartWrite(n)
    PROVE  IInv'
<1> USE RingConstants DEF IInv, StartWrite
<1>1. TypeOK'
  BY DEF TypeOK, Int32, header, wvars, rvars, WriterLocals, ReaderLocals
<1>2. Positions'
  BY DEF TypeOK, Int32, Positions, header
<1>3. WriterLocals'
  BY DEF TypeOK, Int32, Positions, WriterLocals, header, wvars, Room, WChunk, min
<1>4. ReaderLocals'
  BY DEF TypeOK, Int32, Positions, ReaderLocals, header, rvars, Unread, RChunk, min
<1>5. Contents' /\ Delivered'
  BY QuietStep DEF header, wvars, rvars, WriterLocals, ReaderLocals
<1> QED BY <1>1, <1>2, <1>3, <1>4, <1>5

\* The readPos the writer loads is at most as new as the real one.
LEMMA WLoadInv ==
    ASSUME MaxBytes < INT_LIMIT, IInv, WLoad
    PROVE  IInv'
<1> USE RingConstants DEF IInv, WLoad
<1>1. TypeOK'
  BY DEF TypeOK, Int32, header, wvars, rvars, WriterLocals, ReaderLocals
<1>2. Positions'
  BY DEF TypeOK, Int32, Positions, header
<1>3. WriterLocals'
  BY DEF TypeOK, Int32, Positions, WriterLocals, header, wvars, Room, WChunk, min
<1>4. ReaderLocals'
  BY DEF TypeOK, Int32, Positions, ReaderLocals, header, rvars, Unread, RChunk, min
<1>5. Contents' /\ Delivered'
  BY QuietStep DEF header, wvars, rvars, WriterLocals, ReaderLocals
<1> QED BY <1>1, <1>2, <1>3, <1>4, <1>5

\* The writer's wait moves nothing.
LEMMA WWaitInv ==
    ASSUME MaxBytes < INT_LIMIT, IInv, WWait
    PROVE  IInv'
<1> USE RingConstants DEF IInv, WWait
<1>1. TypeOK'
  BY DEF TypeOK, Int32, header, wvars, rvars, WriterLocals, ReaderLocals
<1>2. Positions'
  BY DEF TypeOK, Int32, Positions, header
<1>3. WriterLocals'
  BY DEF TypeOK, Int32, Positions, WriterLocals, header, wvars, Room, WChunk, min
<1>4. ReaderLocals'
  BY DEF TypeOK, Int32, Positions, ReaderLocals, header, rvars, Unread, RChunk, min
<1>5. Contents' /\ Delivered'
  BY QuietStep DEF header, wvars, rvars, WriterLocals, ReaderLocals
<1> QED BY <1>1, <1>2, <1>3, <1>4, <1>5

\* A timed-out wait is counted, at most MAX_RETRIES times.
LEMMA WTimeoutInv ==
    ASSUME MaxBytes < INT_LIMIT, IInv, WTimeout
    PROVE  IInv'
<1> USE RingConstants DEF IInv, WTimeout
<1>1. TypeOK'
  BY DEF TypeOK, Int32, header, wvars, rvars, WriterLocals, ReaderLocals
<1>2. Positions'
  BY DEF TypeOK, Int32, Positions, header
<1>3. WriterLocals'
  BY DEF TypeOK, Int32, Positions, WriterLocals, header, wvars, Room, WChunk, min
<1>4. ReaderLocals'
  BY DEF TypeOK, Int32, Positions, ReaderLocals, header, rvars, Unread, RChunk, min
<1>5. Contents' /\ Delivered'
  BY QuietStep DEF header, wvars, rvars, WriterLocals, ReaderLocals
<1> QED BY <1>1, <1>2, <1>3, <1>4, <1>5

\* The notify after a write moves nothing; a reader it wakes loads again.
LEMMA WNotifyInv ==
    ASSUME MaxBytes < INT_LIMIT, IInv, WNotify
    PROVE  IInv'
<1> USE RingConstants DEF IInv, WNotify
<1>1. TypeOK'
  BY DEF TypeOK, Int32, header, wvars, rvars, WriterLocals, ReaderLocals, WakeReader
<1>2. Positions'
  BY DEF TypeOK, Int32, Positions, header
<1>3. WriterLocals'
  BY DEF TypeOK, Int32, Positions, WriterLocals, header, wvars, Room, WChunk, min, WakeReader
<1>4. ReaderLocals'
  BY DEF TypeOK, Int32, Positions, ReaderLocals, header, rvars, Unread, RChunk, min, WakeReader
<1>5. Contents' /\ Delivered'
  BY QuietStep DEF header, wvars, rvars, WriterLocals, ReaderLocals
<1> QED BY <1>1, <1>2, <1>3, <1>4, <1>5

\* The notify of close() likewise.
LEMMA WCloseNotifyInv ==
    ASSUME MaxBytes < INT_LIMIT, IInv, WCloseNotify
    PROVE  IInv'
<1> USE RingConstants DEF IInv, WCloseNotify
<1>1. TypeOK'
  BY DEF TypeOK, Int32, header, wvars, rvars, WriterLocals, ReaderLocals, WakeReader
<1>2. Positions'
  BY DEF TypeOK, Int32, Positions, header
<1>3. WriterLocals'
  BY DEF TypeOK, Int32, Positions, WriterLocals, header, wvars, Room, WChunk, min, WakeReader
<1>4. ReaderLocals'
  BY DEF TypeOK, Int32, Positions, ReaderLocals, header, rvars, Unread, RChunk, min, WakeReader
<1>5. Contents' /\ Delivered'
  BY QuietStep DEF header, wvars, rvars, WriterLocals, ReaderLocals
<1> QED BY <1>1, <1>2, <1>3, <1>4, <1>5

\* close() sets one flag.
LEMMA WCloseInv ==
    ASSUME MaxBytes < INT_LIMIT, IInv, WClose
    PROVE  IInv'
<1> USE RingConstants DEF IInv, WClose
<1>1. TypeOK'
  BY DEF TypeOK, Int32, header, wvars, rvars, WriterLocals, ReaderLocals
<1>2. Positions'
  BY DEF TypeOK, Int32, Positions, header
<1>3. WriterLocals'
  BY DEF TypeOK, Int32, Positions, WriterLocals, header, wvars, Room, WChunk, min
<1>4. ReaderLocals'
  BY DEF TypeOK, Int32, Positions, ReaderLocals, header, rvars, Unread, RChunk, min
<1>5. Contents' /\ Delivered'
  BY QuietStep DEF header, wvars, rvars, WriterLocals, ReaderLocals
<1> QED BY <1>1, <1>2, <1>3, <1>4, <1>5

\* A call of read() moves nothing.
LEMMA StartReadInv ==
    ASSUME MaxBytes < INT_LIMIT, IInv, NEW n \in 1 .. MaxLen, StartRead(n)
    PROVE  IInv'
<1> USE RingConstants DEF IInv, StartRead
<1>1. TypeOK'
  BY DEF TypeOK, Int32, header, wvars, rvars, WriterLocals, ReaderLocals
<1>2. Positions'
  BY DEF TypeOK, Int32, Positions, header
<1>3. WriterLocals'
  BY DEF TypeOK, Int32, Positions, WriterLocals, header, wvars, Room, WChunk, min
<1>4. ReaderLocals'
  BY DEF TypeOK, Int32, Positions, ReaderLocals, header, rvars, Unread, RChunk, min
<1>5. Contents' /\ Delivered'
  BY QuietStep DEF header, wvars, rvars, WriterLocals, ReaderLocals
<1> QED BY <1>1, <1>2, <1>3, <1>4, <1>5

\* The writePos the reader loads is at most as new as the real one.
LEMMA RLoadInv ==
    ASSUME MaxBytes < INT_LIMIT, IInv, RLoad
    PROVE  IInv'
<1> USE RingConstants DEF IInv, RLoad
<1>1. TypeOK'
  BY DEF TypeOK, Int32, header, wvars, rvars, WriterLocals, ReaderLocals
<1>2. Positions'
  BY DEF TypeOK, Int32, Positions, header
<1>3. WriterLocals'
  BY DEF TypeOK, Int32, Positions, WriterLocals, header, wvars, Room, WChunk, min
<1>4. ReaderLocals'
  BY DEF TypeOK, Int32, Positions, ReaderLocals, header, rvars, Unread, RChunk, min
<1>5. Contents' /\ Delivered'
  BY QuietStep DEF header, wvars, rvars, WriterLocals, ReaderLocals
<1> QED BY <1>1, <1>2, <1>3, <1>4, <1>5

\* The notify after a read moves nothing; a writer it wakes loads again.
LEMMA RNotifyInv ==
    ASSUME MaxBytes < INT_LIMIT, IInv, RNotify
    PROVE  IInv'
<1> USE RingConstants DEF IInv, RNotify
<1>1. TypeOK'
  BY DEF TypeOK, Int32, header, wvars, rvars, WriterLocals, ReaderLocals
<1>2. Positions'
  BY DEF TypeOK, Int32, Positions, header
<1>3. WriterLocals'
  BY DEF TypeOK, Int32, Positions, WriterLocals, header, wvars, Room, WChunk, min
<1>4. ReaderLocals'
  BY DEF TypeOK, Int32, Positions, ReaderLocals, header, rvars, Unread, RChunk, min
<1>5. Contents' /\ Delivered'
  BY QuietStep DEF header, wvars, rvars, WriterLocals, ReaderLocals
<1> QED BY <1>1, <1>2, <1>3, <1>4, <1>5

\* The reader's test of the closed flag moves nothing.
LEMMA RCheckClosedInv ==
    ASSUME MaxBytes < INT_LIMIT, IInv, RCheckClosed
    PROVE  IInv'
<1> USE RingConstants DEF IInv, RCheckClosed
<1>1. TypeOK'
  BY DEF TypeOK, Int32, header, wvars, rvars, WriterLocals, ReaderLocals
<1>2. Positions'
  BY DEF TypeOK, Int32, Positions, header
<1>3. WriterLocals'
  BY DEF TypeOK, Int32, Positions, WriterLocals, header, wvars, Room, WChunk, min
<1>4. ReaderLocals'
  BY DEF TypeOK, Int32, Positions, ReaderLocals, header, rvars, Unread, RChunk, min
<1>5. Contents' /\ Delivered'
  BY QuietStep DEF header, wvars, rvars, WriterLocals, ReaderLocals
<1> QED BY <1>1, <1>2, <1>3, <1>4, <1>5

\* The reader's wait moves nothing.
LEMMA RWaitInv ==
    ASSUME MaxBytes < INT_LIMIT, IInv, RWait
    PROVE  IInv'
<1> USE RingConstants DEF IInv, RWait
<1>1. TypeOK'
  BY DEF TypeOK, Int32, header, wvars, rvars, WriterLocals, ReaderLocals
<1>2. Positions'
  BY DEF TypeOK, Int32, Positions, header
<1>3. WriterLocals'
  BY DEF TypeOK, Int32, Positions, WriterLocals, header, wvars, Room, WChunk, min
<1>4. ReaderLocals'
  BY DEF TypeOK, Int32, Positions, ReaderLocals, header, rvars, Unread, RChunk, min
<1>5. Contents' /\ Delivered'
  BY QuietStep DEF header, wvars, rvars, WriterLocals, ReaderLocals
<1> QED BY <1>1, <1>2, <1>3, <1>4, <1>5

\* A timed-out wait is counted, at most MAX_RETRIES times.
LEMMA RTimeoutInv ==
    ASSUME MaxBytes < INT_LIMIT, IInv, RTimeout
    PROVE  IInv'
<1> USE RingConstants DEF IInv, RTimeout
<1>1. TypeOK'
  BY DEF TypeOK, Int32, header, wvars, rvars, WriterLocals, ReaderLocals
<1>2. Positions'
  BY DEF TypeOK, Int32, Positions, header
<1>3. WriterLocals'
  BY DEF TypeOK, Int32, Positions, WriterLocals, header, wvars, Room, WChunk, min
<1>4. ReaderLocals'
  BY DEF TypeOK, Int32, Positions, ReaderLocals, header, rvars, Unread, RChunk, min
<1>5. Contents' /\ Delivered'
  BY QuietStep DEF header, wvars, rvars, WriterLocals, ReaderLocals
<1> QED BY <1>1, <1>2, <1>3, <1>4, <1>5

\* A reader that gives up sets the closed flag and leaves the data alone.
LEMMA RGiveUpInv ==
    ASSUME MaxBytes < INT_LIMIT, IInv, RGiveUp
    PROVE  IInv'
<1> USE RingConstants DEF IInv, RGiveUp
<1>1. TypeOK'
  BY DEF TypeOK, Int32, header, wvars, rvars, WriterLocals, ReaderLocals
<1>2. Positions'
  BY DEF TypeOK, Int32, Positions, header
<1>3. WriterLocals'
  BY DEF TypeOK, Int32, Positions, WriterLocals, header, wvars, Room, WChunk, min
<1>4. ReaderLocals'
  BY DEF TypeOK, Int32, Positions, ReaderLocals, header, rvars, Unread, RChunk, min
<1>5. Contents' /\ Delivered'
  BY QuietStep DEF header, wvars, rvars, WriterLocals, ReaderLocals
<1> QED BY <1>1, <1>2, <1>3, <1>4, <1>5

\* The byte lands in a free cell: no other byte in flight has that slot.
LEMMA WCopyInv ==
    ASSUME MaxBytes < INT_LIMIT, IInv, WCopy
    PROVE  IInv'
<1> USE RingConstants DEF IInv
<1>0. /\ writePos \in Nat /\ readPos \in Nat /\ wi \in Nat
      /\ writePos = sent /\ readPos <= writePos
      /\ writePos + wi < readPos + CAPACITY
      /\ Slot(writePos + wi) \in 0 .. CAPACITY - 1
  <2>1. writePos \in Nat /\ readPos \in Nat /\ wi \in Nat
        /\ writePos = sent /\ readPos <= writePos
    BY DEF TypeOK, Positions, Int32
  <2>2. seenRead \in Int /\ seenRead <= readPos /\ wi < WChunk
    BY DEF WCopy, WriterLocals, TypeOK, Int32
  <2>3. WChunk <= Room(seenRead) /\ Room(seenRead) \in Int /\ WChunk \in Int
    BY <2>1, <2>2 DEF WChunk, Room, min, TypeOK
  <2>4. writePos + wi < readPos + CAPACITY
    BY <2>1, <2>2, <2>3 DEF Room
  <2> QED BY <2>1, <2>4, SlotType
<1>1. TypeOK'
  BY <1>0 DEF TypeOK, Int32, header, rvars, WCopy, WChunk, min, WriterLocals, Room, Positions
<1>2. Positions'
  BY DEF Positions, header, WCopy
<1>3. WriterLocals'
  BY DEF TypeOK, Int32, Positions, WriterLocals, header, Room, WChunk, min, WCopy
<1>4. ReaderLocals'
  BY DEF ReaderLocals, header, rvars, Unread, RChunk, min, WCopy
<1>5. Contents'
  <2> SUFFICES ASSUME NEW p \in Nat, readPos <= p, p < writePos + wi + 1
               PROVE  data'[Slot(p)] = p
    <3>1. writePos' = writePos /\ readPos' = readPos /\ wi' = wi + 1
      BY DEF WCopy, header
    <3> QED BY <1>0, <3>1 DEF Contents
  <2>1. Slot(p) \in DOMAIN data
    BY SlotType DEF TypeOK
  <2>2. CASE p = writePos + wi
    BY <2>1, <2>2, <1>0 DEF WCopy
  <2>3. CASE p < writePos + wi
    <3>1. data[Slot(p)] = p
      BY <2>3 DEF Contents
    <3>2. writePos + wi \in Nat /\ writePos + wi < p + CAPACITY
      BY <1>0
    <3>3. Slot(p) # Slot(writePos + wi)
      BY <2>3, <3>2, SlotsDiffer
    <3> QED BY <2>1, <3>1, <3>3 DEF WCopy
  <2> QED BY <2>2, <2>3, <1>0
<1>6. Delivered'
  BY DEF Delivered, BytesInOrder, WCopy, header, rvars
<1> QED BY <1>1, <1>2, <1>3, <1>4, <1>5, <1>6

\* Publishing a chunk: the bytes copied become readable, all of them.
LEMMA WStoreInv ==
    ASSUME MaxBytes < INT_LIMIT, IInv, WStore
    PROVE  IInv'
<1> USE RingConstants DEF IInv
<1>0. /\ writePos \in Nat /\ readPos \in Nat /\ wi \in Nat /\ seenRead \in Nat
      /\ writePos = sent /\ readPos = taken /\ readPos <= writePos
      /\ len \in Nat /\ written \in Nat
      /\ wi <= len - written /\ writePos + wi <= seenRead + CAPACITY
      /\ seenRead <= readPos /\ writePos + wi <= MaxBytes
      /\ writePos' = writePos + wi /\ wi' = 0
  <2>1. /\ writePos \in Nat /\ readPos \in Nat /\ wi \in Nat /\ seenRead \in Nat
        /\ writePos = sent /\ readPos = taken /\ readPos <= writePos
        /\ len \in Nat /\ written \in Nat /\ seenRead <= readPos
        /\ sent + (len - written) <= MaxBytes
    BY DEF TypeOK, Positions, Int32, WriterLocals, WStore
  <2>2. wi <= len - written /\ wi <= CAPACITY - (writePos - seenRead)
    BY <2>1 DEF WStore, WChunk, Room, min
  <2>3. writePos + wi < INT_LIMIT /\ writePos + wi <= MaxBytes
    BY <2>1, <2>2
  <2> QED BY <2>1, <2>2, <2>3 DEF WStore, ToInt32
<1>1. TypeOK'
  BY <1>0 DEF TypeOK, Int32, rvars, WStore
<1>2. Positions'
  BY <1>0 DEF Positions, WStore
<1>3. WriterLocals'
  BY <1>0 DEF WriterLocals, WStore
<1>4. ReaderLocals'
  BY <1>0 DEF TypeOK, Int32, ReaderLocals, rvars, Unread, RChunk, min, WStore
<1>5. Contents'
  BY <1>0 DEF Contents, Slot, WStore
<1>6. Delivered'
  BY DEF Delivered, BytesInOrder, WStore, rvars
<1> QED BY <1>1, <1>2, <1>3, <1>4, <1>5, <1>6

\* The byte copied out is the next one of the stream.
LEMMA RCopyInv ==
    ASSUME MaxBytes < INT_LIMIT, IInv, RCopy
    PROVE  IInv'
<1> USE RingConstants DEF IInv
<1>0. /\ writePos \in Nat /\ readPos \in Nat /\ wi \in Nat /\ ri \in Nat
      /\ readPos + ri < writePos
      /\ Slot(readPos + ri) \in DOMAIN data
      /\ data[Slot(readPos + ri)] = readPos + ri
  <2>1. writePos \in Nat /\ readPos \in Nat /\ wi \in Nat /\ ri \in Nat
    BY DEF TypeOK, Positions, Int32
  <2>2. readPos + ri < writePos
    BY <2>1 DEF RCopy, RChunk, Unread, min, ReaderLocals, TypeOK, Int32
  <2>3. Slot(readPos + ri) \in DOMAIN data
    <3>1. readPos + ri \in Nat /\ DOMAIN data = 0 .. CAPACITY - 1
      BY <2>1 DEF TypeOK
    <3> QED BY <3>1, SlotType
  <2> QED BY <2>1, <2>2, <2>3 DEF Contents
<1>1. got' = Append(got, readPos + ri) /\ got \in Seq(Nat)
  BY <1>0 DEF RCopy, TypeOK
<1>2. TypeOK'
  <2>1. ri + 1 \in 0 .. MaxLen
    BY <1>0 DEF RCopy, RChunk, Unread, min, ReaderLocals, TypeOK, Int32
  <2> QED BY <1>0, <1>1, <2>1 DEF TypeOK, header, wvars, RCopy
<1>3. Positions' /\ WriterLocals'
  BY DEF Positions, WriterLocals, header, wvars, Room, WChunk, min, RCopy
<1>4. ReaderLocals'
  BY DEF TypeOK, Int32, ReaderLocals, header, Unread, RChunk, min, RCopy
<1>5. Contents'
  BY DEF Contents, Slot, RCopy, header, wvars
<1>6. Delivered'
  <2>1. Len(got) = readPos + ri /\ \A k \in 1 .. Len(got) : got[k] = k - 1
    <3>1. Len(got) = readPos + ri
      BY DEF Delivered
    <3>2. DOMAIN got = 1 .. Len(got)
      BY <1>1
    <3>3. \A k \in DOMAIN got : got[k] = k - 1
      BY DEF Delivered, BytesInOrder
    <3> QED BY <3>1, <3>2, <3>3
  <2>2. Len(got') = readPos + ri + 1 /\ DOMAIN got' = 1 .. readPos + ri + 1
    BY <1>0, <1>1, <2>1
  <2>3. \A k \in 1 .. readPos + ri + 1 : got'[k] = k - 1
    BY <1>0, <1>1, <2>1
  <2> QED BY <1>0, <2>2, <2>3 DEF Delivered, BytesInOrder, RCopy, header
<1> QED BY <1>1, <1>2, <1>3, <1>4, <1>5, <1>6

\* Releasing a chunk: the cells just copied out become free.
LEMMA RStoreInv ==
    ASSUME MaxBytes < INT_LIMIT, IInv, RStore
    PROVE  IInv'
<1> USE RingConstants DEF IInv
<1>0. /\ writePos \in Nat /\ readPos \in Nat /\ wi \in Nat /\ ri \in Nat
      /\ writePos = sent /\ readPos = taken /\ sent <= MaxBytes
      /\ readPos + ri <= writePos
      /\ readPos' = readPos + ri /\ ri' = 0
  <2>1. /\ writePos \in Nat /\ readPos \in Nat /\ wi \in Nat /\ ri \in Nat
        /\ writePos = sent /\ readPos = taken /\ sent <= MaxBytes
    BY DEF TypeOK, Positions, Int32
  <2>2. readPos + ri <= writePos
    BY <2>1 DEF RStore, RChunk, Unread, min, ReaderLocals, TypeOK, Int32
  <2> QED BY <2>1, <2>2 DEF RStore, ToInt32
<1>1. TypeOK'
  BY <1>0 DEF TypeOK, Int32, wvars, RStore
<1>2. Positions'
  BY <1>0 DEF Positions, RStore
<1>3. WriterLocals'
  BY <1>0 DEF TypeOK, Int32, WriterLocals, wvars, Room, WChunk, min, RStore
<1>4. ReaderLocals'
  BY <1>0 DEF ReaderLocals, RStore
<1>5. Contents'
  BY <1>0 DEF Contents, Slot, RStore, wvars
<1>6. Delivered'
  BY <1>0 DEF Delivered, BytesInOrder, RStore
<1> QED BY <1>1, <1>2, <1>3, <1>4, <1>5, <1>6

\* Every step keeps the invariant.
LEMMA NextIInv ==
    ASSUME MaxBytes < INT_LIMIT, IInv, [Next]_vars
    PROVE  IInv'
<1>1. CASE Next
  <2>1. ASSUME NEW n \in 1 .. MaxLen, StartWrite(n) \/ StartRead(n) PROVE IInv'
    BY <2>1, StartWriteInv, StartReadInv
  <2>2. CASE WClose
    BY <2>2, WCloseInv
  <2>3. CASE WriterStep
    BY <2>3, WLoadInv, WWaitInv, WTimeoutInv, WCopyInv, WStoreInv, WNotifyInv,
       WCloseNotifyInv, WCloseInv DEF WriterStep
  <2>4. CASE ReaderStep
    BY <2>4, RLoadInv, RCopyInv, RStoreInv, RNotifyInv, RCheckClosedInv, RWaitInv,
       RTimeoutInv, RGiveUpInv DEF ReaderStep
  <2> QED BY <1>1, <2>1, <2>2, <2>3, <2>4 DEF Next
<1>2. CASE UNCHANGED vars
  <2>1. TypeOK' /\ Positions' /\ WriterLocals' /\ ReaderLocals'
    BY <1>2 DEF IInv, vars, header, wvars, rvars, TypeOK, Positions, WriterLocals,
       ReaderLocals, Room, Unread, WChunk, RChunk, min
  <2>2. Contents' /\ Delivered'
    BY <1>2, QuietStep DEF IInv, vars, header, wvars, rvars
  <2> QED BY <2>1, <2>2 DEF IInv
<1> QED BY <1>1, <1>2

\* The invariant holds of every behaviour in which fewer than 2^31 bytes pass.
THEOREM RingInvariance ==
    ASSUME MaxBytes < INT_LIMIT
    PROVE  Spec => []IInv
<1>1. IInv /\ [Next]_vars => IInv'
  BY NextIInv
<1> QED BY InitIInv, <1>1, PTL DEF Spec

\* The locals, positions and payload of the pipe keep their types, no header
\* word wraps and no retry count exceeds MAX_RETRIES.
THEOREM RingTypeCorrect ==
    ASSUME MaxBytes < INT_LIMIT
    PROVE  Spec => []TypeOK
<1>1. IInv => TypeOK
  BY DEF IInv
<1> QED BY RingInvariance, <1>1, PTL

\* For every capacity, request size and interleaving of the two Workers,
\* write() never publishes over bytes read() has not released.
THEOREM NeverOverfull ==
    ASSUME MaxBytes < INT_LIMIT
    PROVE  Spec => []BlocksWhenFull
<1>1. IInv => BlocksWhenFull
  BY RingConstants DEF IInv, Positions, BlocksWhenFull, TypeOK
<1> QED BY RingInvariance, <1>1, PTL

\* For every capacity, request size and interleaving of the two Workers,
\* read() hands out the bytes of write() in order, each once.
THEOREM InOrder ==
    ASSUME MaxBytes < INT_LIMIT
    PROVE  Spec => []BytesInOrder
<1>1. IInv => BytesInOrder
  BY DEF IInv, Delivered
<1> QED BY RingInvariance, <1>1, PTL

\* The two copy loops never touch the same cell.
THEOREM RaceFree ==
    ASSUME MaxBytes < INT_LIMIT
    PROVE  Spec => []NoDataRace
<1>1. IInv => NoDataRace
  <2> SUFFICES ASSUME IInv, wpc = "copy", rpc = "copy",
                      NEW i \in 0 .. WChunk - 1, NEW j \in 0 .. RChunk - 1
               PROVE  Slot(writePos + i) # Slot(readPos + j)
    BY DEF NoDataRace
  <2> USE RingConstants DEF IInv
  <2>1. /\ writePos \in Nat /\ readPos \in Nat /\ seenRead \in Nat
        /\ WChunk \in Int /\ RChunk \in Int
        /\ WChunk <= CAPACITY - (writePos - seenRead) /\ seenRead <= readPos
        /\ RChunk <= seenWrite - readPos /\ seenWrite <= writePos /\ seenWrite \in Int
    BY DEF TypeOK, Int32, Positions, WriterLocals, ReaderLocals, WChunk, RChunk, Room,
       Unread, min
  <2>2. /\ readPos + j \in Nat /\ writePos + i \in Nat
        /\ readPos + j < writePos + i /\ writePos + i < readPos + j + CAPACITY
    BY <2>1
  <2> QED BY <2>2, SlotsDiffer
<1> QED BY RingInvariance, <1>1, PTL

-----------------------------------------------------------------------------
\* The system calls (SyscallRpc).

Pcs == {"post", "wait", "asleep", "load result", "load len", "load data",
        "load signal", "handler", "reset"}
Stores == {"data", "len", "result", "signal", "state", "notify"}
Frames == [call : CallNos, pc : Pcs, endless : BOOLEAN, got : [Fields -> 0 .. MaxCalls]]
Undisturbed == ~late /\ ~stray

\* The answer to call c, as the words of the buffer.
AnswerTo(c) == [f \in Fields |-> c]

\* Types.  Whatever is disturbed, an answer belongs to a call that was made.
RpcTypes ==
    /\ state \in BOOLEAN /\ late \in BOOLEAN /\ stray \in BOOLEAN
    /\ words \in [Fields -> 0 .. MaxCalls]
    /\ stack \in Seq(Frames) /\ Len(stack) <= MaxDepth
    /\ calls \in 0 .. MaxCalls
    /\ inbox \in Seq(CallNos)
    /\ serving \subseteq CallNos
    /\ answering \in [call : 0 .. MaxCalls, next : Stores]
    /\ answering = Idle \/ answering.call \in CallNos
    /\ returned \in [CallNos -> [Fields -> -1 .. MaxCalls]]

SignalTypes ==
    /\ sigWord \in 0 .. MaxSignals
    /\ signalled \in 0 .. MaxSignals
    /\ pendingSigs \in Seq(1 .. MaxSignals)
    /\ delivered \in Seq(1 .. MaxSignals)

\* No call is numbered before it is made.
MadeCalls == \A k \in DOMAIN stack : stack[k].call <= calls

\* The main thread has nothing to do but the notify of an answer that was
\* taken over already.
NothingAsked == inbox = <<>> /\ serving = {}
OnlyNotify == answering = Idle \/ answering.next = "notify"

\* The places of the request of the innermost activation, while that waits.
Waiting == At("wait") \/ At("asleep")

Posted ==
    /\ inbox = <<Frame.call>> /\ serving = {} /\ ~state
    /\ answering = Idle \/ (answering.next = "notify" /\ answering.call # Frame.call)

Served == inbox = <<>> /\ serving = {Frame.call} /\ ~state /\ answering = Idle

StoredBefore(next) ==
    CASE next = "data" -> {}
      [] next = "len" -> {"data"}
      [] next = "result" -> {"data", "len"}
      [] OTHER -> Fields

Writing ==
    /\ NothingAsked /\ ~state
    /\ answering.call = Frame.call /\ answering.next # "notify"
    /\ \A f \in StoredBefore(answering.next) : words[f] = Frame.call

Ready ==
    /\ NothingAsked /\ state /\ words = AnswerTo(Frame.call)
    /\ \/ answering = Idle /\ At("wait")
       \/ answering.next = "notify" /\ answering.call = Frame.call

\* While the answer is loaded the buffer does not change; what is loaded is
\* of this call.
LoadedBefore(pc) ==
    CASE pc = "load result" -> {}
      [] pc = "load len" -> {"result"}
      [] pc = "load data" -> {"result", "len"}
      [] OTHER -> Fields

Loading == stack # <<>> /\ Frame.pc \in {"load result", "load len", "load data", "load signal"}

Taken ==
    /\ NothingAsked /\ state /\ words = AnswerTo(Frame.call)
    /\ answering = Idle \/ (answering.next = "notify" /\ answering.call = Frame.call)
    /\ \A f \in LoadedBefore(Frame.pc) : Frame.got[f] = Frame.call

\* An activation that is done with the buffer holds its own answer; every one
\* but the innermost is, and its signal handler runs.
OuterDone ==
    \A k \in DOMAIN stack :
        /\ k < Len(stack) => stack[k].pc = "handler"
        /\ stack[k].pc \in {"handler", "reset"} => stack[k].got = AnswerTo(stack[k].call)

\* Whose the buffer is.
Owner ==
    /\ stack = <<>> \/ At("handler") \/ At("reset") => NothingAsked /\ OnlyNotify
    /\ At("post") => /\ NothingAsked /\ ~state
                     /\ answering = Idle \/ (answering.next = "notify" /\ answering.call # Frame.call)
    /\ Waiting => Posted \/ Served \/ Writing \/ Ready
    /\ Loading => Taken

BufferInv == OuterDone /\ answering.call <= calls /\ Owner /\ OwnAnswer

\* The signal word carries a signal that nobody has seen yet.
Fresh ==
    /\ sigWord # 0
    /\ \/ Loading
       \/ Waiting /\ state
       \/ Waiting /\ answering.call = Frame.call /\ answering.next = "state"

\* Every signal sent was delivered, is in the signal word or is queued, in
\* this order.
Seen == IF Fresh THEN Len(delivered) + 1 ELSE Len(delivered)

SignalInv ==
    /\ Fresh => sigWord = Len(delivered) + 1
    /\ signalled = Seen + Len(pendingSigs)
    /\ \A k \in DOMAIN pendingSigs : pendingSigs[k] = Seen + k
    /\ \A k \in DOMAIN delivered : delivered[k] = k

\* The inductive invariant.
RpcInv ==
    /\ RpcTypes /\ SignalTypes /\ MadeCalls
    /\ Undisturbed => BufferInv /\ SignalInv

-----------------------------------------------------------------------------
(* The stack of activations. *)

\* The rest of a non-empty stack.
LEMMA CallerFacts ==
    ASSUME stack \in Seq(Frames), stack # <<>>
    PROVE  /\ Caller \in Seq(Frames) /\ Len(Caller) = Len(stack) - 1
           /\ \A k \in 1 .. Len(stack) - 1 : Caller[k] = stack[k]
           /\ Len(stack) \in Nat \ {0} /\ DOMAIN stack = 1 .. Len(stack)
           /\ Frame \in Frames
  <1>1. Len(stack) \in Nat \ {0} /\ DOMAIN stack = 1 .. Len(stack)
    OBVIOUS
  <1>2. Len(stack) - 1 \in Nat /\ \A k \in 1 .. Len(stack) - 1 : stack[k] \in Frames
    BY <1>1
  <1>3. Frame \in Frames
    BY <1>1 DEF Frame
  <1>4. Caller = [k \in 1 .. Len(stack) - 1 |-> stack[k]]
    BY <1>1 DEF Caller
  <1> QED
    BY <1>1, <1>2, <1>3, <1>4

\* GoOn and the loads replace the innermost activation.
LEMMA TopReplaced ==
    ASSUME stack \in Seq(Frames), stack # <<>>, NEW f \in Frames, Become(f)
    PROVE  /\ stack' \in Seq(Frames) /\ stack' # <<>> /\ Len(stack') = Len(stack)
           /\ Frame' = f
           /\ DOMAIN stack' = DOMAIN stack /\ DOMAIN stack = 1 .. Len(stack)
           /\ \A k \in DOMAIN stack : k < Len(stack) => stack'[k] = stack[k]
           /\ stack'[Len(stack)] = f
  <1> DEFINE c == Caller  n == Len(stack) - 1  t == Append(c, f)
  <1>1. /\ c \in Seq(Frames) /\ Len(c) = n /\ (\A k \in 1 .. n : c[k] = stack[k])
        /\ n \in Nat /\ Len(stack) = n + 1 /\ DOMAIN stack = 1 .. n + 1
    BY CallerFacts
  <1>2. stack' = t
    BY DEF Become
  <1> HIDE DEF c, n
  <1>3. /\ t \in Seq(Frames) /\ Len(t) = n + 1 /\ DOMAIN t = 1 .. n + 1
        /\ t[n + 1] = f /\ \A k \in 1 .. n : t[k] = stack[k]
    BY <1>1
  <1> HIDE DEF t
  <1>4. t # <<>>
    BY <1>1, <1>3
  <1>5. Frame' = f
    BY <1>2, <1>3 DEF Frame
  <1>6. \A k \in 1 .. n + 1 : k < n + 1 => k \in 1 .. n
    BY <1>1
  <1> QED
    BY <1>1, <1>2, <1>3, <1>4, <1>5, <1>6

\* A call ends: the activation below is the innermost one again.
LEMMA TopPopped ==
    ASSUME stack \in Seq(Frames), stack # <<>>, stack' = Caller
    PROVE  /\ stack' \in Seq(Frames) /\ Len(stack') = Len(stack) - 1
           /\ DOMAIN stack' \subseteq DOMAIN stack
           /\ \A k \in DOMAIN stack' : k < Len(stack) /\ stack'[k] = stack[k]
           /\ stack' # <<>> => Frame' = stack[Len(stack')] /\ Len(stack') \in DOMAIN stack'
  BY CallerFacts DEF Frame

\* A signal handler makes a call: the activation that runs it stays below.
LEMMA TopPushed ==
    ASSUME stack \in Seq(Frames), stack # <<>>, NEW g \in Frames, stack' = Append(stack, g)
    PROVE  /\ stack' \in Seq(Frames) /\ stack' # <<>> /\ Len(stack') = Len(stack) + 1
           /\ Frame' = g
           /\ DOMAIN stack' = 1 .. Len(stack) + 1 /\ DOMAIN stack = 1 .. Len(stack)
           /\ \A k \in DOMAIN stack : stack'[k] = stack[k]
           /\ stack'[Len(stack) + 1] = g
  <1> DEFINE n == Len(stack)  t == Append(stack, g)
  <1>1. n \in Nat /\ DOMAIN stack = 1 .. n
    BY CallerFacts
  <1>2. /\ t \in Seq(Frames) /\ Len(t) = n + 1 /\ DOMAIN t = 1 .. n + 1
        /\ t[n + 1] = g /\ \A k \in 1 .. n : t[k] = stack[k]
    BY <1>1
  <1>3. stack' = t
    OBVIOUS
  <1> HIDE DEF n, t
  <1>4. t # <<>>
    BY <1>1, <1>2
  <1>5. Frame' = g
    BY <1>2, <1>3 DEF Frame
  <1> QED
    BY <1>1, <1>2, <1>3, <1>4, <1>5 DEF n

-----------------------------------------------------------------------------
(* Types and numbers of calls, which nothing disturbs. *)

\* Numbers of calls are naturals.
LEMMA CallNumbers ==
    ASSUME RpcTypes
    PROVE  /\ calls \in Nat /\ answering.call \in Nat
           /\ \A c \in CallNos : c \in Nat
  <1>1. calls \in 0 .. MaxCalls /\ answering.call \in 0 .. MaxCalls
    BY DEF RpcTypes
  <1> QED
    BY <1>1, RpcConstants DEF CallNos

LEMMA NewFrameType ==
    ASSUME RpcTypes, calls < MaxCalls, NEW endless \in BOOLEAN
    PROVE  NewFrame(endless) \in Frames
  <1>1. calls + 1 \in CallNos
    BY RpcConstants DEF RpcTypes, CallNos
  <1>2. NoAnswer \in [Fields -> 0 .. MaxCalls]
    BY RpcConstants DEF NoAnswer
  <1> QED
    BY <1>1, <1>2 DEF NewFrame, Frames, Pcs

LEMMA RpcInitInv == RpcInit => RpcInv
  <1> SUFFICES ASSUME RpcInit PROVE RpcInv
    OBVIOUS
  <1> USE RpcConstants DEF RpcInit
  <1>1. RpcTypes
    <2>1. NoAnswer \in [Fields -> 0 .. MaxCalls] /\ NoAnswer \in [Fields -> -1 .. MaxCalls]
      BY DEF NoAnswer
    <2>2. Idle \in [call : 0 .. MaxCalls, next : Stores]
      BY DEF Idle, Stores
    <2>3. stack \in Seq(Frames) /\ Len(stack) <= MaxDepth /\ inbox \in Seq(CallNos)
      OBVIOUS
    <2>4. calls \in 0 .. MaxCalls /\ serving \subseteq CallNos
      OBVIOUS
    <2>5. returned \in [CallNos -> [Fields -> -1 .. MaxCalls]]
      BY <2>1
    <2> QED
      BY <2>1, <2>2, <2>3, <2>4, <2>5 DEF RpcTypes
  <1>2. SignalTypes
    BY DEF SignalTypes
  <1>3. MadeCalls
    BY DEF MadeCalls
  <1>4. BufferInv
    BY DEF BufferInv, OuterDone, Owner, At, NothingAsked, OnlyNotify, Waiting, Loading,
       OwnAnswer, Idle
  <1>5. SignalInv
    BY DEF SignalInv, Seen, Fresh, Loading, Waiting, At
  <1> QED
    BY <1>1, <1>2, <1>3, <1>4, <1>5 DEF RpcInv

\* A step of the Worker that only moves the innermost activation on.
LEMMA MovedTypes ==
    ASSUME RpcTypes, MadeCalls, stack # <<>>, NEW f \in Frames, Become(f),
           f.call = Frame.call,
           UNCHANGED <<state, words, calls, serving, answering, returned, late>>,
           inbox' \in Seq(CallNos), stray' \in BOOLEAN
    PROVE  RpcTypes' /\ MadeCalls'
  <1>1. stack \in Seq(Frames)
    BY DEF RpcTypes
  <1>2. RpcTypes'
    BY <1>1, TopReplaced DEF RpcTypes
  <1>3. Len(stack) \in DOMAIN stack /\ Frame.call <= calls
    BY <1>1, CallerFacts DEF MadeCalls, Frame
  <1>4. MadeCalls'
    <2>1. \A k \in DOMAIN stack : k < Len(stack) \/ k = Len(stack)
      BY <1>1, CallerFacts
    <2>2. DOMAIN stack' = DOMAIN stack /\ stack'[Len(stack)] = f
          /\ \A k \in DOMAIN stack : k < Len(stack) => stack'[k] = stack[k]
      BY <1>1, TopReplaced
    <2> QED
      BY <1>3, <2>1, <2>2 DEF MadeCalls
  <1> QED
    BY <1>2, <1>4

LEMMA BeginCallTypes ==
    ASSUME RpcTypes, MadeCalls, BeginCall
    PROVE  RpcTypes' /\ MadeCalls'
  <1> USE RpcConstants DEF BeginCall, Drivers
  <1>1. PICK endless \in BOOLEAN : stack' = <<NewFrame(endless)>>
    OBVIOUS
  <1>2. NewFrame(endless) \in Frames
    BY NewFrameType
  <1>3. stack' \in Seq(Frames) /\ Len(stack') = 1 /\ DOMAIN stack' = {1}
        /\ stack'[1] = NewFrame(endless)
    BY <1>1, <1>2
  <1>4. RpcTypes'
    <2>1. Len(stack') <= MaxDepth /\ calls' \in 0 .. MaxCalls
      BY <1>3 DEF RpcTypes
    <2> QED
      BY <1>3, <2>1 DEF RpcTypes
  <1>5. MadeCalls'
    BY <1>3 DEF RpcTypes, MadeCalls, NewFrame
  <1> QED
    BY <1>4, <1>5

LEMMA PostRequestTypes ==
    ASSUME RpcTypes, MadeCalls, PostRequest
    PROVE  RpcTypes' /\ MadeCalls'
  <1> DEFINE f == [Frame EXCEPT !.pc = "wait"]
  <1>1. stack # <<>> /\ Frame \in Frames /\ Become(f)
    BY CallerFacts DEF RpcTypes, PostRequest, At, GoOn
  <1>2. f \in Frames /\ f.call = Frame.call
    BY <1>1 DEF Frames, Pcs
  <1>3. inbox' \in Seq(CallNos)
    BY <1>1 DEF PostRequest, RpcTypes, Frames
  <1> HIDE DEF f
  <1> QED
    BY <1>1, <1>2, <1>3, MovedTypes DEF PostRequest, RpcTypes

LEMMA WaitTypes ==
    ASSUME RpcTypes, MadeCalls, WaitForAnswer
    PROVE  RpcTypes' /\ MadeCalls'
  <1> DEFINE f == [Frame EXCEPT !.pc = IF state THEN "load result" ELSE "asleep"]
  <1>1. stack # <<>> /\ Frame \in Frames /\ Become(f)
    BY CallerFacts DEF RpcTypes, WaitForAnswer, At, GoOn
  <1>2. f \in Frames /\ f.call = Frame.call
    BY <1>1 DEF Frames, Pcs
  <1> HIDE DEF f
  <1> QED
    BY <1>1, <1>2, MovedTypes DEF WaitForAnswer, RpcTypes, Drivers

LEMMA LoadTypes ==
    ASSUME RpcTypes, MadeCalls, NEW field \in Fields, Load(field)
    PROVE  RpcTypes' /\ MadeCalls'
  <1> DEFINE f == [Frame EXCEPT !.got[field] = words[field], !.pc = After(field)]
  <1>1. stack # <<>> /\ Frame \in Frames /\ Become(f)
    BY CallerFacts DEF RpcTypes, Load, At
  <1>2. After(field) \in Pcs
    BY DEF After, Pcs, Fields
  <1>3. f \in Frames /\ f.call = Frame.call
    BY <1>1, <1>2 DEF Frames, RpcTypes
  <1> HIDE DEF f
  <1> QED
    BY <1>1, <1>3, MovedTypes DEF Load, RpcTypes, Drivers

LEMMA TimeoutTypes ==
    ASSUME RpcTypes, MadeCalls, Timeout
    PROVE  RpcTypes' /\ MadeCalls'
  <1> DEFINE f == [Frame EXCEPT !.pc = "wait"]
  <1>1. stack # <<>> /\ stack \in Seq(Frames) /\ Frame \in Frames
    BY CallerFacts DEF RpcTypes, Timeout, At
  <1>2. f \in Frames /\ f.call = Frame.call
    BY <1>1 DEF Frames, Pcs
  <1>3. CASE Frame.endless
    <2>1. Become(f) /\ UNCHANGED <<returned, late>>
      BY <1>3 DEF Timeout, GoOn
    <2> HIDE DEF f
    <2> QED
      BY <1>1, <1>2, <2>1, MovedTypes DEF Timeout, RpcTypes, Drivers
  <1>4. CASE ~Frame.endless
    <2>1. stack' = Caller /\ late' = TRUE /\ returned' = [returned EXCEPT ![Frame.call] = EIO]
      BY <1>4 DEF Timeout
    <2>2. Len(stack) \in Nat /\ Len(stack') <= MaxDepth
      BY <1>1, <2>1, CallerFacts, TopPopped, RpcConstants DEF RpcTypes
    <2>3. EIO \in [Fields -> -1 .. MaxCalls]
      BY RpcConstants DEF EIO
    <2>4. RpcTypes'
      BY <1>1, <2>1, <2>2, <2>3, TopPopped DEF RpcTypes, Timeout, Drivers
    <2>5. MadeCalls'
      BY <1>1, <2>1, TopPopped DEF MadeCalls, Timeout, Drivers
    <2> QED
      BY <2>4, <2>5
  <1> QED
    BY <1>3, <1>4

LEMMA LoadSignalTypes ==
    ASSUME RpcTypes, MadeCalls, LoadSignal
    PROVE  RpcTypes' /\ MadeCalls'
  <1>1. stack # <<>> /\ Frame \in Frames
    BY CallerFacts DEF RpcTypes, LoadSignal, At
  <1>2. PICK pc \in {"handler", "reset"} : Become([Frame EXCEPT !.pc = pc])
    BY DEF LoadSignal, RunTrampoline, GoOn
  <1> DEFINE f == [Frame EXCEPT !.pc = pc]
  <1>3. f \in Frames /\ f.call = Frame.call /\ Become(f)
    BY <1>1, <1>2 DEF Frames, Pcs
  <1> HIDE DEF f
  <1> QED
    BY <1>1, <1>3, MovedTypes DEF LoadSignal, RpcTypes, Drivers

LEMMA HandlerReturnsTypes ==
    ASSUME RpcTypes, MadeCalls, HandlerReturns
    PROVE  RpcTypes' /\ MadeCalls'
  <1> DEFINE f == [Frame EXCEPT !.pc = "reset"]
  <1>1. stack # <<>> /\ Frame \in Frames /\ Become(f)
    BY CallerFacts DEF RpcTypes, HandlerReturns, At, GoOn
  <1>2. f \in Frames /\ f.call = Frame.call
    BY <1>1 DEF Frames, Pcs
  <1> HIDE DEF f
  <1> QED
    BY <1>1, <1>2, MovedTypes DEF HandlerReturns, RpcTypes, Drivers

LEMMA HandlerCallTypes ==
    ASSUME RpcTypes, MadeCalls, HandlerCall
    PROVE  RpcTypes' /\ MadeCalls'
  <1>1. stack # <<>> /\ stack \in Seq(Frames) /\ Len(stack) \in Nat
    BY CallerFacts DEF RpcTypes, HandlerCall, At
  <1>2. PICK endless \in BOOLEAN : stack' = Append(stack, NewFrame(endless))
    BY DEF HandlerCall
  <1> DEFINE g == NewFrame(endless)
  <1>3. g \in Frames /\ g.call = calls + 1 /\ stack' = Append(stack, g)
    BY <1>2, NewFrameType DEF NewFrame, HandlerCall
  <1>4. calls < MaxCalls /\ Len(stack) < MaxDepth /\ calls' = calls + 1
    BY DEF HandlerCall
  <1>5. UNCHANGED <<words, inbox, serving, answering, returned, late, stray>> /\ state' = FALSE
    BY DEF HandlerCall, Drivers
  <1> HIDE DEF g
  <1>6. /\ stack' \in Seq(Frames) /\ Len(stack') = Len(stack) + 1
        /\ DOMAIN stack' = 1 .. Len(stack) + 1 /\ DOMAIN stack = 1 .. Len(stack)
        /\ \A k \in DOMAIN stack : stack'[k] = stack[k]
        /\ stack'[Len(stack) + 1] = g
    BY <1>1, <1>3, TopPushed
  <1>7. Len(stack') <= MaxDepth /\ calls' \in 0 .. MaxCalls
    BY <1>1, <1>4, <1>6, CallNumbers, RpcConstants
  <1>8. RpcTypes'
    BY <1>5, <1>6, <1>7 DEF RpcTypes
  <1>9. \A k \in DOMAIN stack' : stack'[k].call <= calls'
    <2> SUFFICES ASSUME NEW k \in DOMAIN stack' PROVE stack'[k].call <= calls'
      OBVIOUS
    <2>1. k \in DOMAIN stack \/ k = Len(stack) + 1
      BY <1>1, <1>6
    <2>2. stack'[k] \in Frames
      BY <1>6
    <2>3. stack'[k].call \in Nat
      BY <2>2, CallNumbers DEF Frames
    <2>4. stack'[k].call <= calls \/ stack'[k].call = calls + 1
      BY <1>3, <1>6, <2>1 DEF MadeCalls
    <2> QED
      BY <1>4, <2>3, <2>4, CallNumbers
  <1> QED
    BY <1>8, <1>9 DEF MadeCalls

LEMMA ReturnTypes ==
    ASSUME RpcTypes, MadeCalls, Return
    PROVE  RpcTypes' /\ MadeCalls'
  <1>1. stack # <<>> /\ stack \in Seq(Frames) /\ Frame \in Frames /\ stack' = Caller
    BY CallerFacts DEF RpcTypes, Return, At
  <1>2. Len(stack) \in Nat /\ Len(stack') <= MaxDepth
    BY <1>1, CallerFacts, TopPopped, RpcConstants DEF RpcTypes
  <1>3. Frame.got \in [Fields -> -1 .. MaxCalls] /\ Frame.call \in CallNos
    BY <1>1, RpcConstants DEF Frames
  <1>4. RpcTypes'
    BY <1>1, <1>2, <1>3, TopPopped DEF RpcTypes, Return, Drivers
  <1>5. MadeCalls'
    BY <1>1, TopPopped DEF MadeCalls, Return, Drivers
  <1> QED
    BY <1>4, <1>5

\* The steps of the main thread leave the activations alone, but for the
\* notify.
LEMMA ReceiveTypes ==
    ASSUME RpcTypes, MadeCalls, Receive
    PROVE  RpcTypes' /\ MadeCalls'
  <1>1. inbox \in Seq(CallNos) /\ inbox # <<>>
    BY DEF Receive, RpcTypes
  <1>2. Head(inbox) \in CallNos /\ Tail(inbox) \in Seq(CallNos)
    BY <1>1
  <1>3. serving' \subseteq CallNos /\ inbox' \in Seq(CallNos)
    BY <1>2 DEF Receive, RpcTypes
  <1> QED
    BY <1>3 DEF Receive, RpcTypes, MadeCalls, Workers

\* An answer in hand is that of a call the handler was given, which was made.
LEMMA AnsweringTypes ==
    ASSUME RpcTypes, MadeCalls, UNCHANGED <<stack, calls, delivered, returned, late, stray>>,
           UNCHANGED inbox, serving' \subseteq serving, state' \in BOOLEAN,
           words' \in [Fields -> 0 .. MaxCalls],
           answering' = Idle \/ answering' \in [call : CallNos, next : Stores]
    PROVE  RpcTypes' /\ MadeCalls'
  <1>1. answering' \in [call : 0 .. MaxCalls, next : Stores]
        /\ (answering' = Idle \/ answering'.call \in CallNos)
    BY RpcConstants, CallNumbers DEF Idle, Stores, CallNos
  <1> QED
    BY <1>1 DEF RpcTypes, MadeCalls

LEMMA StoreWordTypes ==
    ASSUME RpcTypes, MadeCalls, NEW field \in Fields, NEW next \in Stores, StoreWord(field, next)
    PROVE  RpcTypes' /\ MadeCalls'
  <1>1. answering.call \in CallNos
    BY DEF StoreWord, RpcTypes, MadeCalls
  <1>2. answering' \in [call : CallNos, next : Stores]
    BY <1>1 DEF StoreWord, RpcTypes
  <1>3. words' \in [Fields -> 0 .. MaxCalls]
    BY DEF StoreWord, RpcTypes
  <1> QED
    BY <1>1, <1>2, <1>3, AnsweringTypes DEF StoreWord, Workers, RpcTypes

LEMMA StoreSignalTypes ==
    ASSUME RpcTypes, MadeCalls, StoreSignal
    PROVE  RpcTypes' /\ MadeCalls'
  <1>1. answering.call \in CallNos
    BY DEF StoreSignal, RpcTypes, MadeCalls
  <1>2. answering' \in [call : CallNos, next : Stores]
    BY <1>1 DEF StoreSignal, RpcTypes, Stores
  <1> QED
    BY <1>1, <1>2, AnsweringTypes DEF StoreSignal, Workers, RpcTypes

LEMMA StoreReadyTypes ==
    ASSUME RpcTypes, MadeCalls, StoreReady
    PROVE  RpcTypes' /\ MadeCalls'
  <1>1. answering.call \in CallNos
    BY DEF StoreReady, RpcTypes, MadeCalls
  <1>2. answering' \in [call : CallNos, next : Stores]
    BY <1>1 DEF StoreReady, RpcTypes, Stores
  <1> QED
    BY <1>1, <1>2, AnsweringTypes DEF StoreReady, Workers, RpcTypes

LEMMA NotifyTypes ==
    ASSUME RpcTypes, MadeCalls, Notify
    PROVE  RpcTypes' /\ MadeCalls'
  <1>1. Idle \in [call : 0 .. MaxCalls, next : Stores]
    BY RpcConstants, CallNumbers DEF Idle, Stores
  <1>2. stray' \in BOOLEAN
    BY DEF Notify
  <1>3. CASE At("asleep")
    <2> DEFINE f == [Frame EXCEPT !.pc = "load result"]
    <2>1. stack # <<>> /\ stack \in Seq(Frames) /\ Frame \in Frames
      BY <1>3, CallerFacts DEF RpcTypes, At
    <2>0. Become(f)
      BY <1>3 DEF Notify, GoOn
    <2>2. f \in Frames /\ f.call = Frame.call
      BY <2>1 DEF Frames, Pcs
    <2>3. Frame.call <= calls
      BY <2>1, CallerFacts DEF MadeCalls, Frame
    <2> HIDE DEF f
    <2>4. RpcTypes'
      BY <1>1, <1>2, <2>0, <2>1, <2>2, TopReplaced DEF RpcTypes, Notify
    <2>5. MadeCalls'
      <3>1. \A k \in DOMAIN stack : k < Len(stack) \/ k = Len(stack)
        BY <2>1, CallerFacts
      <3>2. DOMAIN stack' = DOMAIN stack /\ stack'[Len(stack)] = f
            /\ \A k \in DOMAIN stack : k < Len(stack) => stack'[k] = stack[k]
        BY <2>0, <2>1, <2>2, TopReplaced
      <3>3. calls' = calls
        BY DEF Notify
      <3> QED
        BY <2>2, <2>3, <3>1, <3>2, <3>3 DEF MadeCalls
    <2> QED
      BY <2>4, <2>5
  <1>4. CASE ~At("asleep")
    BY <1>1, <1>2, <1>4 DEF Notify, RpcTypes, MadeCalls
  <1> QED
    BY <1>3, <1>4

LEMMA SendSignalTypes ==
    ASSUME RpcTypes, MadeCalls, SendSignal
    PROVE  RpcTypes' /\ MadeCalls'
  BY DEF SendSignal, RpcTypes, MadeCalls, Workers

LEMMA KernelDoneTypes ==
    ASSUME RpcTypes, MadeCalls, NEW c \in CallNos, KernelDone(c)
    PROVE  RpcTypes' /\ MadeCalls'
  <1>1. answering' \in [call : CallNos, next : Stores]
    BY DEF KernelDone, Stores
  <1> QED
    BY <1>1, AnsweringTypes DEF KernelDone, Workers, RpcTypes

LEMMA RpcTypesKept ==
    ASSUME RpcTypes, SignalTypes, MadeCalls, [RpcNext]_rpcVars
    PROVE  RpcTypes' /\ MadeCalls'
  <1>1. CASE UNCHANGED rpcVars
    BY <1>1 DEF rpcVars, RpcTypes, MadeCalls
  <1>2. CASE AnswerStep
    <2>1. {"data", "len", "result"} \subseteq Fields /\ {"len", "result", "signal"} \subseteq Stores
      BY DEF Fields, Stores
    <2> QED
      BY <1>2, <2>1, StoreWordTypes, StoreSignalTypes, StoreReadyTypes, NotifyTypes DEF AnswerStep
  <1>3. CASE WorkerStep
    BY <1>3, PostRequestTypes, WaitTypes, TimeoutTypes, LoadSignalTypes, HandlerReturnsTypes,
       ReturnTypes, LoadTypes
    DEF WorkerStep
  <1> QED
    BY <1>1, <1>2, <1>3, BeginCallTypes, HandlerCallTypes, ReceiveTypes, SendSignalTypes, KernelDoneTypes
    DEF RpcNext

\* The signal words keep their types.
LEMMA SignalTypesKept ==
    ASSUME SignalTypes, [RpcNext]_rpcVars
    PROVE  SignalTypes'
  <1> USE RpcConstants DEF SignalTypes, Drivers, Workers
  <1>1. CASE UNCHANGED rpcVars
    BY <1>1 DEF rpcVars
  <1>2. CASE StoreSignal
    <2>1. pendingSigs = <<>> \/ (Head(pendingSigs) \in 1 .. MaxSignals /\ Tail(pendingSigs) \in Seq(1 .. MaxSignals))
      OBVIOUS
    <2> QED
      <3>1. CASE pendingSigs = <<>>
        BY <1>2, <3>1 DEF StoreSignal
      <3>2. CASE pendingSigs # <<>>
        BY <1>2, <2>1, <3>2 DEF StoreSignal
      <3> QED
        BY <3>1, <3>2
  <1>3. CASE SendSignal
    <2>1. signalled + 1 \in 1 .. MaxSignals
      BY <1>3 DEF SendSignal
    <2> QED
      BY <1>3, <2>1 DEF SendSignal
  <1>4. CASE LoadSignal
    <2>1. sigWord # 0 => sigWord \in 1 .. MaxSignals
      OBVIOUS
    <2>2. delivered' = delivered \/ (sigWord # 0 /\ delivered' = Append(delivered, sigWord))
      BY <1>4 DEF LoadSignal, RunTrampoline
    <2>3. delivered' \in Seq(1 .. MaxSignals)
      <3>1. ASSUME sigWord # 0 PROVE Append(delivered, sigWord) \in Seq(1 .. MaxSignals)
        BY <2>1, <3>1
      <3> QED
        BY <2>2, <3>1
    <2>4. UNCHANGED <<sigWord, signalled, pendingSigs>>
      BY <1>4 DEF LoadSignal
    <2> QED
      BY <2>3, <2>4
  <1>5. ASSUME RpcNext, ~StoreSignal, ~SendSignal, ~LoadSignal
        PROVE  UNCHANGED <<sigWord, signalled, pendingSigs, delivered>>
    BY <1>5 DEF RpcNext, WorkerStep, AnswerStep, BeginCall, HandlerCall, HandlerReturns,
       PostRequest, WaitForAnswer, Timeout, Load, Return, Receive, KernelDone, StoreWord, StoreReady, Notify
  <1> QED
    BY <1>1, <1>2, <1>3, <1>4, <1>5

-----------------------------------------------------------------------------
(* The buffer and the signals, while nothing has been disturbed. *)

\* What the steps below start from.
Good == RpcTypes /\ SignalTypes /\ MadeCalls /\ BufferInv /\ SignalInv /\ Undisturbed

\* The innermost activation goes on: the outer ones are done as before.
LEMMA OuterMoved ==
    ASSUME Good, stack # <<>>, NEW f \in Frames, Become(f),
           f.pc \in {"handler", "reset"} => f.got = AnswerTo(f.call)
    PROVE  OuterDone'
  <1>1. stack \in Seq(Frames) /\ OuterDone
    BY DEF Good, RpcTypes, BufferInv
  <1>2. \A k \in DOMAIN stack : k < Len(stack) \/ k = Len(stack)
    BY <1>1, CallerFacts
  <1>3. DOMAIN stack' = DOMAIN stack /\ stack'[Len(stack)] = f /\ Len(stack') = Len(stack)
        /\ \A k \in DOMAIN stack : k < Len(stack) => stack'[k] = stack[k]
    BY <1>1, TopReplaced
  <1>4. Len(stack) \in Nat
    BY <1>1
  <1> QED
    <2> SUFFICES ASSUME NEW k \in DOMAIN stack'
                 PROVE  /\ k < Len(stack') => stack'[k].pc = "handler"
                        /\ stack'[k].pc \in {"handler", "reset"} => stack'[k].got = AnswerTo(stack'[k].call)
      BY DEF OuterDone, AnswerTo
    <2>1. CASE k < Len(stack)
      BY <1>1, <1>3, <2>1 DEF OuterDone
    <2>2. CASE k = Len(stack)
      BY <1>3, <1>4, <2>2
    <2> QED
      BY <1>2, <1>3, <2>1, <2>2

\* Signals: a step that touches neither the signal word nor the queue keeps
\* the books if it does not change whether the word is fresh.
LEMMA SignalsStay ==
    ASSUME SignalInv, UNCHANGED <<sigWord, signalled, pendingSigs, delivered>>, Fresh' <=> Fresh
    PROVE  SignalInv'
  <1>1. Seen' = Seen
    BY DEF Seen
  <1> QED
    BY <1>1 DEF SignalInv

LEMMA BeginCallGood ==
    ASSUME Good, BeginCall
    PROVE  BufferInv' /\ SignalInv'
  <1> USE DEF BeginCall, Drivers
  <1>1. PICK endless \in BOOLEAN : stack' = <<NewFrame(endless)>>
    OBVIOUS
  <1> DEFINE g == NewFrame(endless)
  <1>2. g.pc = "post" /\ g.call = calls + 1
    BY DEF NewFrame
  <1>3. stack = <<>> /\ stack' = <<g>> /\ Frame' = g /\ Len(stack') = 1 /\ DOMAIN stack' = {1}
        /\ stack'[1] = g
    BY <1>1 DEF Frame
  <1> HIDE DEF g
  <1>4. OuterDone'
    BY <1>2, <1>3 DEF OuterDone
  <1>5. NothingAsked /\ OnlyNotify /\ answering.call <= calls /\ OwnAnswer
    BY <1>3 DEF Good, BufferInv, Owner
  <1>6. calls \in Nat /\ answering.call \in Nat /\ answering' = answering /\ calls' = calls + 1
    BY CallNumbers DEF Good
  <1>7. answering'.call <= calls' /\ answering'.call # g.call
    BY <1>2, <1>5, <1>6
  <1>8. Owner'
    BY <1>2, <1>3, <1>5, <1>7
    DEF Owner, At, Waiting, Loading, NothingAsked, OnlyNotify
  <1>9. OwnAnswer'
    BY <1>5 DEF OwnAnswer
  <1>10. ~Fresh /\ ~Fresh'
    BY <1>2, <1>3 DEF Fresh, Loading, Waiting, At
  <1>11. SignalInv'
    BY <1>10, SignalsStay DEF Good
  <1> QED
    BY <1>4, <1>7, <1>8, <1>9, <1>11 DEF BufferInv

LEMMA PostRequestGood ==
    ASSUME Good, PostRequest
    PROVE  BufferInv' /\ SignalInv'
  <1> DEFINE f == [Frame EXCEPT !.pc = "wait"]
  <1>1. stack # <<>> /\ stack \in Seq(Frames) /\ Frame \in Frames /\ Frame.pc = "post"
    BY CallerFacts DEF Good, RpcTypes, PostRequest, At
  <1>2. f \in Frames /\ f.call = Frame.call /\ f.pc = "wait"
    BY <1>1 DEF Frames, Pcs
  <1>3. Become(f)
    BY DEF PostRequest, GoOn
  <1> HIDE DEF f
  <1>4. stack' # <<>> /\ Frame' = f
    BY <1>1, <1>2, <1>3, TopReplaced
  <1>5. OuterDone'
    BY <1>1, <1>2, <1>3, OuterMoved
  <1>6. NothingAsked /\ ~state /\ (answering = Idle \/ (answering.next = "notify" /\ answering.call # Frame.call))
    BY <1>1 DEF Good, BufferInv, Owner, At
  <1>7. inbox' = <<Frame.call>> /\ UNCHANGED <<state, serving, answering, calls, returned, late, stray>>
    BY <1>6 DEF PostRequest, NothingAsked
  <1>8. Posted'
    BY <1>2, <1>4, <1>6, <1>7 DEF Posted, NothingAsked
  <1>9. Owner'
    BY <1>2, <1>4, <1>8 DEF Owner, At, Waiting, Loading
  <1>10. answering'.call <= calls' /\ OwnAnswer'
    BY <1>7 DEF Good, BufferInv, OwnAnswer
  <1>11. ~Fresh
    BY <1>1 DEF Fresh, Loading, Waiting, At
  <1>12. answering'.next # "state" /\ ~state'
    BY <1>6, <1>7 DEF Idle
  <1>13. ~Fresh'
    BY <1>2, <1>4, <1>12 DEF Fresh, Loading, Waiting, At
  <1>14. SignalInv'
    BY <1>11, <1>13, SignalsStay DEF Good, PostRequest
  <1> QED
    BY <1>5, <1>9, <1>10, <1>14 DEF BufferInv

LEMMA WaitGood ==
    ASSUME Good, WaitForAnswer
    PROVE  BufferInv' /\ SignalInv'
  <1> DEFINE f == [Frame EXCEPT !.pc = IF state THEN "load result" ELSE "asleep"]
  <1>1. stack # <<>> /\ stack \in Seq(Frames) /\ Frame \in Frames /\ Frame.pc = "wait"
    BY CallerFacts DEF Good, RpcTypes, WaitForAnswer, At
  <1>2. f \in Frames /\ f.call = Frame.call /\ f.pc = IF state THEN "load result" ELSE "asleep"
    BY <1>1 DEF Frames, Pcs
  <1>3. Become(f)
    BY DEF WaitForAnswer, GoOn
  <1> HIDE DEF f
  <1>4. stack' # <<>> /\ Frame' = f
    BY <1>1, <1>2, <1>3, TopReplaced
  <1>5. OuterDone'
    BY <1>1, <1>2, <1>3, OuterMoved
  <1>6. UNCHANGED <<state, words, inbox, serving, answering, calls, returned, late, stray>>
    BY DEF WaitForAnswer, Drivers
  <1>7. Posted \/ Served \/ Writing \/ Ready
    BY <1>1 DEF Good, BufferInv, Owner, Waiting, At
  <1>8. Owner'
    <2>1. CASE state
      <3>1. Ready
        BY <1>7, <2>1 DEF Posted, Served, Writing
      <3>2. Taken'
        BY <1>2, <1>4, <1>6, <2>1, <3>1
        DEF Ready, Taken, NothingAsked, AnswerTo, LoadedBefore
      <3> QED
        BY <1>2, <1>4, <2>1, <3>2 DEF Owner, At, Waiting, Loading
    <2>2. CASE ~state
      <3>1. Posted \/ Served \/ Writing
        BY <1>7, <2>2 DEF Ready
      <3>2. Posted' \/ Served' \/ Writing'
        BY <1>2, <1>4, <1>6, <3>1 DEF Posted, Served, Writing, NothingAsked, StoredBefore
      <3> QED
        BY <1>2, <1>4, <2>2, <3>2 DEF Owner, At, Waiting, Loading
    <2> QED
      BY <2>1, <2>2
  <1>9. answering'.call <= calls' /\ OwnAnswer'
    BY <1>6 DEF Good, BufferInv, OwnAnswer
  <1>10. sigWord' = sigWord
    BY DEF WaitForAnswer
  <1>11. Fresh' <=> Fresh
    <2>1. CASE state
      BY <1>1, <1>2, <1>4, <1>6, <1>10, <2>1 DEF Fresh, Loading, Waiting, At
    <2>2. CASE ~state
      BY <1>1, <1>2, <1>4, <1>6, <1>10, <2>2 DEF Fresh, Loading, Waiting, At
    <2> QED
      BY <2>1, <2>2
  <1>12. SignalInv'
    BY <1>11, SignalsStay DEF Good, WaitForAnswer, Drivers
  <1> QED
    BY <1>5, <1>8, <1>9, <1>12 DEF BufferInv

\* A wait without a time limit starts again; any other leaves the undisturbed
\* behaviours.
LEMMA TimeoutGood ==
    ASSUME Good, Timeout, Undisturbed'
    PROVE  BufferInv' /\ SignalInv'
  <1> DEFINE f == [Frame EXCEPT !.pc = "wait"]
  <1>1. stack # <<>> /\ stack \in Seq(Frames) /\ Frame \in Frames /\ Frame.pc = "asleep"
    BY CallerFacts DEF Good, RpcTypes, Timeout, At
  <1>2. f \in Frames /\ f.call = Frame.call /\ f.pc = "wait"
    BY <1>1 DEF Frames, Pcs
  <1>3. Become(f) /\ UNCHANGED <<returned, late>>
    BY DEF Timeout, GoOn, Undisturbed
  <1> HIDE DEF f
  <1>4. stack' # <<>> /\ Frame' = f
    BY <1>1, <1>2, <1>3, TopReplaced
  <1>5. OuterDone'
    BY <1>1, <1>2, <1>3, OuterMoved
  <1>6. UNCHANGED <<state, words, inbox, serving, answering, calls, returned, late, stray>>
    BY <1>3 DEF Timeout, Drivers
  <1>7. Posted \/ Served \/ Writing \/ Ready
    BY <1>1 DEF Good, BufferInv, Owner, Waiting, At
  <1>8. Posted' \/ Served' \/ Writing' \/ Ready'
    BY <1>1, <1>2, <1>4, <1>6, <1>7
    DEF Posted, Served, Writing, Ready, NothingAsked, StoredBefore, AnswerTo, At
  <1>9. Owner'
    BY <1>2, <1>4, <1>8 DEF Owner, At, Waiting, Loading
  <1>10. answering'.call <= calls' /\ OwnAnswer'
    BY <1>6 DEF Good, BufferInv, OwnAnswer
  <1>11. UNCHANGED <<sigWord, signalled, pendingSigs, delivered>>
    BY DEF Timeout, Drivers
  <1>12. Fresh' <=> Fresh
    BY <1>1, <1>2, <1>4, <1>6, <1>11 DEF Fresh, Loading, Waiting, At
  <1>13. SignalInv'
    BY <1>11, <1>12, SignalsStay DEF Good
  <1> QED
    BY <1>5, <1>9, <1>10, <1>13 DEF BufferInv

LEMMA LoadGood ==
    ASSUME Good, NEW field \in Fields, Load(field)
    PROVE  BufferInv' /\ SignalInv'
  <1> DEFINE f == [Frame EXCEPT !.got[field] = words[field], !.pc = After(field)]
  <1>1. stack # <<>> /\ stack \in Seq(Frames) /\ Frame \in Frames
    BY CallerFacts DEF Good, RpcTypes, Load, At
  <1>2. After(field) \in {"load len", "load data", "load signal"}
    BY DEF After, Fields
  <1>3. f \in Frames /\ f.call = Frame.call /\ f.pc = After(field)
        /\ f.got = [Frame.got EXCEPT ![field] = words[field]]
    BY <1>1, <1>2 DEF Frames, Pcs, Good, RpcTypes
  <1>4. Become(f)
    BY DEF Load
  <1>5. Frame.pc = CASE field = "result" -> "load result"
                     [] field = "len"    -> "load len"
                     [] field = "data"   -> "load data"
    BY DEF Load, At
  <1> HIDE DEF f
  <1>6. stack' # <<>> /\ Frame' = f
    BY <1>1, <1>3, <1>4, TopReplaced
  <1>7. OuterDone'
    BY <1>1, <1>2, <1>3, <1>4, OuterMoved
  <1>8. UNCHANGED <<state, words, inbox, serving, answering, calls, returned, late, stray>>
    BY DEF Load, Drivers
  <1>9. Loading /\ Taken
    BY <1>1, <1>5 DEF Good, BufferInv, Owner, Loading, Fields
  <1>10. \A g \in LoadedBefore(f.pc) : f.got[g] = f.call
    <2>1. LoadedBefore(f.pc) \subseteq LoadedBefore(Frame.pc) \cup {field}
      BY <1>3, <1>5 DEF LoadedBefore, After, Fields
    <2>2. words[field] = Frame.call /\ \A g \in LoadedBefore(Frame.pc) : Frame.got[g] = Frame.call
      BY <1>9 DEF Taken, AnswerTo
    <2>3. LoadedBefore(f.pc) \subseteq Fields /\ Frame.got \in [Fields -> 0 .. MaxCalls]
      BY <1>1, <1>3, <1>2 DEF LoadedBefore, Fields, Frames
    <2> QED
      BY <1>3, <2>1, <2>2, <2>3
  <1>11. Taken'
    BY <1>3, <1>6, <1>8, <1>9, <1>10 DEF Taken, NothingAsked, AnswerTo
  <1>12. Owner'
    BY <1>2, <1>3, <1>6, <1>11 DEF Owner, At, Waiting
  <1>13. answering'.call <= calls' /\ OwnAnswer'
    BY <1>8 DEF Good, BufferInv, OwnAnswer
  <1>14. UNCHANGED <<sigWord, signalled, pendingSigs, delivered>>
    BY DEF Load, Drivers
  <1>15. Loading'
    BY <1>2, <1>3, <1>6 DEF Loading
  <1>16. Fresh' <=> Fresh
    BY <1>9, <1>14, <1>15 DEF Fresh
  <1>17. SignalInv'
    BY <1>14, <1>16, SignalsStay DEF Good
  <1> QED
    BY <1>7, <1>12, <1>13, <1>17 DEF BufferInv

LEMMA ReturnGood ==
    ASSUME Good, Return
    PROVE  BufferInv' /\ SignalInv'
  <1>1. stack # <<>> /\ stack \in Seq(Frames) /\ Frame \in Frames /\ Frame.pc = "reset"
        /\ stack' = Caller
    BY CallerFacts DEF Good, RpcTypes, Return, At
  <1>2. NothingAsked /\ OnlyNotify /\ OuterDone /\ answering.call <= calls /\ OwnAnswer
    BY <1>1 DEF Good, BufferInv, Owner, At
  <1>3. Frame.got = AnswerTo(Frame.call)
    BY <1>1, <1>2, CallerFacts DEF OuterDone, Frame
  <1>4. /\ Len(stack') = Len(stack) - 1 /\ DOMAIN stack' \subseteq DOMAIN stack
        /\ \A k \in DOMAIN stack' : k < Len(stack) /\ stack'[k] = stack[k]
    BY <1>1, TopPopped
  <1>5. OuterDone'
    BY <1>2, <1>4 DEF OuterDone, AnswerTo
  <1>6. stack' = <<>> \/ (stack' # <<>> /\ Frame'.pc = "handler")
    BY <1>1, <1>2, <1>4, TopPopped DEF OuterDone
  <1>7. UNCHANGED <<inbox, serving, answering, calls, late, stray>>
        /\ returned' = [returned EXCEPT ![Frame.call] = Frame.got]
    BY DEF Return, Drivers
  <1>8. Owner'
    BY <1>2, <1>6, <1>7 DEF Owner, At, Waiting, Loading, NothingAsked, OnlyNotify
  <1>9. OwnAnswer'
    BY <1>2, <1>3, <1>7 DEF OwnAnswer, Good, RpcTypes, AnswerTo
  <1>10. ~Fresh /\ ~Fresh'
    BY <1>1, <1>6 DEF Fresh, Loading, Waiting, At
  <1>11. SignalInv'
    BY <1>10, SignalsStay DEF Good, Return, Drivers
  <1> QED
    BY <1>2, <1>5, <1>7, <1>8, <1>9, <1>11 DEF BufferInv

\* The signal is handed to the program.
LEMMA LoadSignalGood ==
    ASSUME Good, LoadSignal
    PROVE  BufferInv' /\ SignalInv'
  <1>1. stack # <<>> /\ stack \in Seq(Frames) /\ Frame \in Frames /\ Frame.pc = "load signal"
    BY CallerFacts DEF Good, RpcTypes, LoadSignal, At
  <1>2. PICK pc \in {"handler", "reset"} : Become([Frame EXCEPT !.pc = pc])
    BY DEF LoadSignal, RunTrampoline, GoOn
  <1> DEFINE f == [Frame EXCEPT !.pc = pc]
  <1>3. f \in Frames /\ f.call = Frame.call /\ f.pc \in {"handler", "reset"} /\ f.got = Frame.got
        /\ Become(f)
    BY <1>1, <1>2 DEF Frames, Pcs
  <1>4. Loading /\ Taken
    BY <1>1 DEF Good, BufferInv, Owner, Loading
  <1>5. Frame.got = AnswerTo(Frame.call)
    <2>1. \A g \in Fields : Frame.got[g] = Frame.call
      BY <1>1, <1>4 DEF Taken, LoadedBefore
    <2>2. Frame.got \in [Fields -> 0 .. MaxCalls]
      BY <1>1 DEF Frames
    <2> QED
      BY <2>1, <2>2 DEF AnswerTo
  <1> HIDE DEF f
  <1>6. NothingAsked /\ answering.call <= calls /\ OwnAnswer
        /\ (answering = Idle \/ (answering.next = "notify" /\ answering.call = Frame.call))
    BY <1>4 DEF Taken, Good, BufferInv
  <1>7. UNCHANGED <<state, words, sigWord, calls, inbox, serving, answering, pendingSigs, signalled,
                    returned, late, stray>>
    BY DEF LoadSignal, Drivers
  <1>8. OwnAnswer'
    BY <1>6, <1>7 DEF OwnAnswer
  <1>9. IF sigWord = 0 THEN delivered' = delivered ELSE delivered' = Append(delivered, sigWord)
    BY DEF LoadSignal, RunTrampoline
  <1>10. OuterDone' /\ answering'.call <= calls' /\ Owner' /\ ~Fresh'
    <2>1. stack' # <<>> /\ Frame' = f
      BY <1>1, <1>3, TopReplaced
    <2>2. OuterDone'
      <3>1. f.got = AnswerTo(f.call)
        BY <1>3, <1>5
      <3> QED
        BY <1>1, <1>3, <3>1, OuterMoved
    <2>3. Owner'
      BY <1>3, <1>6, <1>7, <2>1
      DEF Owner, At, Waiting, Loading, NothingAsked, OnlyNotify
    <2>4. ~Fresh'
      BY <1>3, <2>1 DEF Fresh, Loading, Waiting, At
    <2> QED
      BY <1>6, <1>7, <2>2, <2>3, <2>4
  <1>11. SignalInv'
    <2>1. Seen' = Len(delivered')
      BY <1>10 DEF Seen
    <2>2. CASE sigWord = 0
      <3>1. delivered' = delivered /\ Seen = Len(delivered)
        BY <1>9, <2>2 DEF Seen, Fresh
      <3> QED
        BY <1>7, <1>10, <2>1, <3>1 DEF SignalInv, Good
    <2>3. CASE sigWord # 0
      <3>1. Fresh
        BY <1>4, <2>3 DEF Fresh
      <3>2. Seen = Len(delivered) + 1 /\ sigWord = Len(delivered) + 1
        BY <3>1 DEF Seen, Good, SignalInv
      <3>3. delivered' = Append(delivered, sigWord) /\ delivered \in Seq(1 .. MaxSignals)
        BY <1>9, <2>3 DEF Good, SignalTypes
      <3>4. Len(delivered') = Len(delivered) + 1 /\ Len(delivered) \in Nat
            /\ DOMAIN delivered' = 1 .. Len(delivered) + 1 /\ DOMAIN delivered = 1 .. Len(delivered)
        BY <3>3
      <3>5. \A k \in DOMAIN delivered' : delivered'[k] = k
        BY <3>2, <3>3, <3>4 DEF Good, SignalInv
      <3> QED
        BY <1>7, <1>10, <2>1, <3>2, <3>4, <3>5 DEF SignalInv, Good
    <2> QED
      BY <2>2, <2>3
  <1> QED
    BY <1>8, <1>10, <1>11 DEF BufferInv

\* The handler's call takes the buffer over from an activation that has copied
\* its answer.
LEMMA HandlerCallGood ==
    ASSUME Good, HandlerCall
    PROVE  BufferInv' /\ SignalInv'
  <1>1. stack # <<>> /\ stack \in Seq(Frames) /\ Frame \in Frames /\ Frame.pc = "handler"
        /\ Frame = stack[Len(stack)] /\ Len(stack) \in DOMAIN stack /\ Len(stack) \in Nat
    BY CallerFacts DEF Good, RpcTypes, HandlerCall, At, Frame
  <1>2. NothingAsked /\ OnlyNotify /\ OuterDone /\ answering.call <= calls /\ OwnAnswer
    BY <1>1 DEF Good, BufferInv, Owner, At
  <1>3. PICK endless \in BOOLEAN : stack' = Append(stack, NewFrame(endless))
    BY DEF HandlerCall
  <1> DEFINE g == NewFrame(endless)
  <1>4. g \in Frames
    BY NewFrameType DEF Good, HandlerCall
  <1>5. g.call = calls + 1 /\ g.pc = "post" /\ stack' = Append(stack, g)
    BY <1>3 DEF NewFrame
  <1>6. UNCHANGED <<words, sigWord, inbox, serving, answering, pendingSigs, signalled, delivered,
                    returned, late, stray>>
        /\ calls' = calls + 1 /\ state' = FALSE
    BY DEF HandlerCall, Drivers
  <1> HIDE DEF g
  <1>7. /\ stack' # <<>> /\ Len(stack') = Len(stack) + 1 /\ Frame' = g
        /\ DOMAIN stack' = 1 .. Len(stack) + 1 /\ DOMAIN stack = 1 .. Len(stack)
        /\ \A k \in DOMAIN stack : stack'[k] = stack[k]
        /\ stack'[Len(stack) + 1] = g
    BY <1>1, <1>4, <1>5, TopPushed
  <1>8. OuterDone'
    <2> SUFFICES ASSUME NEW k \in DOMAIN stack'
                 PROVE  /\ k < Len(stack') => stack'[k].pc = "handler"
                        /\ stack'[k].pc \in {"handler", "reset"} => stack'[k].got = AnswerTo(stack'[k].call)
      BY DEF OuterDone, AnswerTo
    <2>1. \/ k \in DOMAIN stack /\ k < Len(stack)
          \/ k \in DOMAIN stack /\ k = Len(stack)
          \/ k = Len(stack) + 1
      BY <1>1, <1>7
    <2>2. CASE k \in DOMAIN stack /\ k < Len(stack)
      BY <1>2, <1>7, <2>2 DEF OuterDone
    <2>3. CASE k = Len(stack)
      BY <1>1, <1>2, <1>7, <2>3 DEF OuterDone
    <2>4. CASE k = Len(stack) + 1
      <3>1. stack'[k].pc = "post" /\ ~(k < Len(stack'))
        BY <1>1, <1>5, <1>7, <2>4
      <3> QED
        BY <3>1
    <2> QED
      BY <2>1, <2>2, <2>3, <2>4
  <1>9. answering'.call <= calls' /\ answering'.call # g.call
    <2>1. calls \in Nat /\ answering.call \in Nat /\ answering' = answering /\ answering.call <= calls
      BY <1>2, <1>6, CallNumbers DEF Good
    <2> QED
      BY <1>5, <1>6, <2>1
  <1>10. Owner'
    BY <1>2, <1>5, <1>6, <1>7, <1>9
    DEF Owner, At, Waiting, Loading, NothingAsked, OnlyNotify
  <1>11. OwnAnswer'
    BY <1>2, <1>6 DEF OwnAnswer
  <1>12. ~Fresh /\ ~Fresh'
    BY <1>1, <1>5, <1>7 DEF Fresh, Loading, Waiting, At
  <1>13. SignalInv'
    BY <1>6, <1>12, SignalsStay DEF Good
  <1> QED
    BY <1>8, <1>9, <1>10, <1>11, <1>13 DEF BufferInv

\* A handler that is back leaves the buffer to the activation it ran in.
LEMMA HandlerReturnsGood ==
    ASSUME Good, HandlerReturns
    PROVE  BufferInv' /\ SignalInv'
  <1> DEFINE f == [Frame EXCEPT !.pc = "reset"]
  <1>1. stack # <<>> /\ stack \in Seq(Frames) /\ Frame \in Frames /\ Frame.pc = "handler"
        /\ Frame = stack[Len(stack)] /\ Len(stack) \in DOMAIN stack
    BY CallerFacts DEF Good, RpcTypes, HandlerReturns, At, Frame
  <1>2. f \in Frames /\ f.call = Frame.call /\ f.pc = "reset" /\ f.got = Frame.got
    BY <1>1 DEF Frames, Pcs
  <1>3. Become(f)
    BY DEF HandlerReturns, GoOn
  <1> HIDE DEF f
  <1>4. NothingAsked /\ OnlyNotify /\ OuterDone /\ answering.call <= calls /\ OwnAnswer
    BY <1>1 DEF Good, BufferInv, Owner, At
  <1>5. f.got = AnswerTo(f.call)
    BY <1>1, <1>2, <1>4 DEF OuterDone
  <1>6. stack' # <<>> /\ Frame' = f
    BY <1>1, <1>2, <1>3, TopReplaced
  <1>7. OuterDone'
    BY <1>1, <1>2, <1>3, <1>5, OuterMoved
  <1>8. UNCHANGED <<state, words, sigWord, calls, inbox, serving, answering, pendingSigs, signalled,
                    delivered, returned, late, stray>>
    BY DEF HandlerReturns, Drivers
  <1>9. Owner'
    BY <1>2, <1>4, <1>6, <1>8
    DEF Owner, At, Waiting, Loading, NothingAsked, OnlyNotify
  <1>10. OwnAnswer'
    BY <1>4, <1>8 DEF OwnAnswer
  <1>11. ~Fresh /\ ~Fresh'
    BY <1>1, <1>2, <1>6 DEF Fresh, Loading, Waiting, At
  <1>12. SignalInv'
    BY <1>8, <1>11, SignalsStay DEF Good
  <1> QED
    BY <1>4, <1>7, <1>8, <1>9, <1>10, <1>12 DEF BufferInv

-----------------------------------------------------------------------------
\* The main thread writes an answer only while its call waits.
LEMMA OnlyWriting ==
    ASSUME Good, answering # Idle, answering.next # "notify"
    PROVE  /\ stack # <<>> /\ stack \in Seq(Frames) /\ Frame \in Frames
           /\ Waiting /\ Writing
  <1>1. stack # <<>> /\ ~At("reset") /\ ~At("post") /\ ~At("handler")
    BY DEF Good, BufferInv, Owner, OnlyNotify
  <1>2. stack \in Seq(Frames) /\ Frame \in Frames
    BY <1>1, CallerFacts DEF Good, RpcTypes
  <1>3. ~Loading
    BY DEF Good, BufferInv, Owner, Taken
  <1>4. Waiting
    BY <1>1, <1>2, <1>3 DEF Waiting, Loading, At, Frames, Pcs
  <1>5. Writing
    BY <1>4 DEF Good, BufferInv, Owner, Posted, Served, Ready
  <1> QED
    BY <1>1, <1>2, <1>4, <1>5

\* A step of the main thread that leaves the activations and their answers.
LEMMA MainStep ==
    ASSUME Good, UNCHANGED <<stack, calls, returned, late, stray>>
    PROVE  OuterDone' /\ OwnAnswer' /\ Frame' = Frame
  BY DEF Good, BufferInv, OuterDone, OwnAnswer, Frame, AnswerTo

LEMMA ReceiveGood ==
    ASSUME Good, Receive
    PROVE  BufferInv' /\ SignalInv'
  <1> USE DEF Workers
  <1>1. OuterDone' /\ OwnAnswer' /\ Frame' = Frame /\ stack' = stack
    BY MainStep DEF Receive
  <1>2. answering = Idle /\ inbox # <<>> /\ UNCHANGED <<state, answering, calls>>
    BY DEF Receive
  <1>3. stack # <<>> /\ Waiting /\ ~Loading
    <2>1. stack # <<>> /\ ~At("reset") /\ ~At("post") /\ ~At("handler") /\ ~Loading
      BY <1>2 DEF Good, BufferInv, Owner, NothingAsked, Taken
    <2>2. Frame \in Frames
      BY <2>1, CallerFacts DEF Good, RpcTypes
    <2> QED
      BY <2>1, <2>2 DEF Waiting, Loading, At, Frames, Pcs
  <1>4. Posted
    BY <1>2, <1>3 DEF Good, BufferInv, Owner, Served, Writing, Ready, NothingAsked
  <1>5. inbox' = <<>> /\ serving' = {Frame.call}
    BY <1>4 DEF Posted, Receive
  <1>6. Served'
    BY <1>1, <1>2, <1>4, <1>5 DEF Served, Posted
  <1>7. Owner'
    BY <1>1, <1>3, <1>6 DEF Owner, At, Waiting, Loading
  <1>8. UNCHANGED <<sigWord, signalled, pendingSigs, delivered>>
    BY DEF Receive
  <1>9. Fresh' <=> Fresh
    BY <1>1, <1>2, <1>8 DEF Fresh, Loading, Waiting, At
  <1>10. SignalInv'
    BY <1>8, <1>9, SignalsStay DEF Good
  <1>11. answering'.call <= calls'
    BY <1>2 DEF Good, BufferInv
  <1> QED
    BY <1>1, <1>7, <1>10, <1>11 DEF BufferInv

LEMMA KernelDoneGood ==
    ASSUME Good, NEW c \in CallNos, KernelDone(c)
    PROVE  BufferInv' /\ SignalInv'
  <1> USE DEF Workers
  <1>1. OuterDone' /\ OwnAnswer' /\ Frame' = Frame /\ stack' = stack
    BY MainStep DEF KernelDone
  <1>2. answering = Idle /\ c \in serving /\ UNCHANGED <<state, words, inbox, calls>>
        /\ answering' = [call |-> c, next |-> "data"] /\ serving' = serving \ {c}
    BY DEF KernelDone
  <1>3. stack # <<>> /\ Waiting /\ ~Loading /\ Len(stack) \in DOMAIN stack
    <2>1. stack # <<>> /\ ~At("reset") /\ ~At("post") /\ ~At("handler") /\ ~Loading
      BY <1>2 DEF Good, BufferInv, Owner, NothingAsked, Taken
    <2>2. Frame \in Frames /\ Len(stack) \in DOMAIN stack
      BY <2>1, CallerFacts DEF Good, RpcTypes
    <2> QED
      BY <2>1, <2>2 DEF Waiting, Loading, At, Frames, Pcs
  <1>4. Served
    BY <1>2, <1>3 DEF Good, BufferInv, Owner, Posted, Writing, Ready, NothingAsked
  <1>5. c = Frame.call /\ serving' = {}
    BY <1>2, <1>4 DEF Served
  <1>6. Writing'
    BY <1>1, <1>2, <1>4, <1>5 DEF Served, Writing, NothingAsked, StoredBefore
  <1>7. Owner'
    BY <1>1, <1>3, <1>6 DEF Owner, At, Waiting, Loading
  <1>8. UNCHANGED <<sigWord, signalled, pendingSigs, delivered>>
    BY DEF KernelDone
  <1>9. ~state
    BY <1>4 DEF Served
  <1>10. ~Fresh
    BY <1>2, <1>3, <1>9 DEF Fresh, Idle
  <1>11. ~Fresh'
    BY <1>1, <1>2, <1>3, <1>9 DEF Fresh, Loading, Waiting, At
  <1>12. SignalInv'
    BY <1>8, <1>10, <1>11, SignalsStay DEF Good
  <1>13. answering'.call <= calls'
    BY <1>2, <1>3, <1>5 DEF Good, MadeCalls, Frame
  <1> QED
    BY <1>1, <1>7, <1>12, <1>13 DEF BufferInv

LEMMA StoreWordGood ==
    ASSUME Good, NEW field \in Fields, NEW next \in {"len", "result", "signal"},
           StoreWord(field, next),
           StoredBefore(next) = StoredBefore(field) \cup {field}
    PROVE  BufferInv' /\ SignalInv'
  <1> USE DEF Workers
  <1>1. OuterDone' /\ OwnAnswer' /\ Frame' = Frame /\ stack' = stack
    BY MainStep DEF StoreWord
  <1>2. answering # Idle /\ answering.next = field /\ UNCHANGED <<state, inbox, serving, calls>>
        /\ words' = [words EXCEPT ![field] = answering.call]
        /\ answering' = [answering EXCEPT !.next = next]
    BY DEF StoreWord
  <1>3. field # "notify" /\ field # "state"
    BY DEF Fields
  <1>4. stack # <<>> /\ Waiting /\ Writing /\ Frame \in Frames
    BY <1>2, <1>3, OnlyWriting
  <1>5. answering'.call = answering.call /\ answering'.next = next /\ words \in [Fields -> 0 .. MaxCalls]
    BY <1>2 DEF Good, RpcTypes
  <1>6. \A g \in StoredBefore(next) : words'[g] = Frame.call
    <2>1. answering.call = Frame.call /\ \A g \in StoredBefore(field) : words[g] = Frame.call
      BY <1>2, <1>4 DEF Writing
    <2>2. StoredBefore(next) \subseteq Fields
      BY DEF StoredBefore, Fields
    <2> QED
      BY <1>2, <1>5, <2>1, <2>2
  <1>7. Writing'
    BY <1>1, <1>2, <1>4, <1>5, <1>6 DEF Writing, NothingAsked
  <1>8. Owner'
    BY <1>1, <1>4, <1>7 DEF Owner, At, Waiting, Loading
  <1>9. UNCHANGED <<sigWord, signalled, pendingSigs, delivered>>
    BY DEF StoreWord
  <1>10. ~state /\ ~Loading
    BY <1>4 DEF Writing, Waiting, Loading, At
  <1>11. ~Fresh
    BY <1>2, <1>3, <1>10 DEF Fresh
  <1>12. ~Fresh'
    BY <1>1, <1>2, <1>5, <1>10 DEF Fresh, Loading, Waiting, At
  <1>13. SignalInv'
    BY <1>9, <1>11, <1>12, SignalsStay DEF Good
  <1>14. answering'.call <= calls'
    BY <1>2, <1>5 DEF Good, BufferInv
  <1> QED
    BY <1>1, <1>8, <1>13, <1>14 DEF BufferInv

\* The oldest queued signal moves into the word, or the word is cleared.
LEMMA StoreSignalGood ==
    ASSUME Good, StoreSignal
    PROVE  BufferInv' /\ SignalInv'
  <1> USE DEF Workers
  <1>1. OuterDone' /\ OwnAnswer' /\ Frame' = Frame /\ stack' = stack
    BY MainStep DEF StoreSignal
  <1>2. answering # Idle /\ answering.next = "signal"
        /\ UNCHANGED <<state, words, inbox, serving, calls, signalled, delivered>>
        /\ answering' = [answering EXCEPT !.next = "state"]
    BY DEF StoreSignal
  <1>3. stack # <<>> /\ Waiting /\ Writing /\ Frame \in Frames
    BY <1>2, OnlyWriting
  <1>4. answering'.call = answering.call /\ answering'.next = "state"
    BY <1>2 DEF Good, RpcTypes
  <1>5. Writing'
    BY <1>1, <1>2, <1>3, <1>4 DEF Writing, NothingAsked, StoredBefore
  <1>6. Owner'
    BY <1>1, <1>3, <1>5 DEF Owner, At, Waiting, Loading
  <1>7. ~state /\ ~Loading /\ answering.call = Frame.call
    BY <1>3 DEF Writing, Waiting, Loading, At
  <1>8. ~Fresh
    BY <1>2, <1>7 DEF Fresh
  <1>9. Fresh' <=> sigWord' # 0
    BY <1>1, <1>2, <1>3, <1>4, <1>7 DEF Fresh, Loading, Waiting, At
  <1>10. /\ signalled = Len(delivered) + Len(pendingSigs)
         /\ \A k \in DOMAIN pendingSigs : pendingSigs[k] = Len(delivered) + k
         /\ \A k \in DOMAIN delivered : delivered[k] = k
    BY <1>8 DEF Good, SignalInv, Seen
  <1>11. pendingSigs \in Seq(1 .. MaxSignals) /\ Len(delivered) \in Nat
    BY DEF Good, SignalTypes
  <1>12. SignalInv'
    <2>1. CASE pendingSigs = <<>>
      <3>1. sigWord' = 0 /\ pendingSigs' = <<>>
        BY <2>1 DEF StoreSignal
      <3> QED
        BY <1>2, <1>9, <1>10, <2>1, <3>1 DEF SignalInv, Seen
    <2>2. CASE pendingSigs # <<>>
      <3>1. sigWord' = Head(pendingSigs) /\ pendingSigs' = Tail(pendingSigs)
        BY <2>2 DEF StoreSignal
      <3>2. Head(pendingSigs) = pendingSigs[1] /\ 1 \in DOMAIN pendingSigs
        BY <1>11, <2>2
      <3>3. sigWord' = Len(delivered) + 1
        BY <1>10, <3>1, <3>2
      <3>4. Len(pendingSigs') = Len(pendingSigs) - 1 /\ Len(pendingSigs) \in Nat \ {0}
            /\ DOMAIN pendingSigs' = 1 .. Len(pendingSigs) - 1 /\ DOMAIN pendingSigs = 1 .. Len(pendingSigs)
            /\ \A k \in DOMAIN pendingSigs' : pendingSigs'[k] = pendingSigs[k + 1]
        BY <1>11, <2>2, <3>1
      <3>5. Fresh' /\ Seen' = Len(delivered) + 1
        BY <1>2, <1>9, <1>11, <3>3 DEF Seen
      <3>6. \A k \in DOMAIN pendingSigs' : pendingSigs'[k] = Seen' + k
        <4> SUFFICES ASSUME NEW k \in DOMAIN pendingSigs' PROVE pendingSigs'[k] = Seen' + k
          OBVIOUS
        <4>1. k + 1 \in DOMAIN pendingSigs /\ pendingSigs'[k] = pendingSigs[k + 1] /\ k \in Nat
          BY <3>4
        <4> QED
          BY <1>10, <1>11, <3>5, <4>1
      <3>7. signalled' = Seen' + Len(pendingSigs')
        BY <1>2, <1>10, <1>11, <3>4, <3>5
      <3> QED
        BY <1>2, <1>10, <3>3, <3>5, <3>6, <3>7 DEF SignalInv
    <2> QED
      BY <2>1, <2>2
  <1>13. answering'.call <= calls'
    BY <1>2, <1>4 DEF Good, BufferInv
  <1> QED
    BY <1>1, <1>6, <1>12, <1>13 DEF BufferInv

LEMMA StoreReadyGood ==
    ASSUME Good, StoreReady
    PROVE  BufferInv' /\ SignalInv'
  <1> USE DEF Workers
  <1>1. OuterDone' /\ OwnAnswer' /\ Frame' = Frame /\ stack' = stack
    BY MainStep DEF StoreReady
  <1>2. answering # Idle /\ answering.next = "state" /\ state' = TRUE
        /\ UNCHANGED <<words, inbox, serving, calls>>
        /\ answering' = [answering EXCEPT !.next = "notify"]
    BY DEF StoreReady
  <1>3. stack # <<>> /\ Waiting /\ Writing /\ Frame \in Frames
    BY <1>2, OnlyWriting
  <1>4. answering'.call = answering.call /\ answering'.next = "notify"
        /\ words \in [Fields -> 0 .. MaxCalls]
    BY <1>2 DEF Good, RpcTypes
  <1>5. answering.call = Frame.call /\ \A g \in Fields : words[g] = Frame.call
    BY <1>2, <1>3 DEF Writing, StoredBefore
  <1>6. words = AnswerTo(Frame.call)
    BY <1>4, <1>5 DEF AnswerTo
  <1>7. Ready'
    BY <1>1, <1>2, <1>3, <1>4, <1>5, <1>6 DEF Ready, Writing, NothingAsked, AnswerTo
  <1>8. Owner'
    BY <1>1, <1>3, <1>7 DEF Owner, At, Waiting, Loading
  <1>9. UNCHANGED <<sigWord, signalled, pendingSigs, delivered>>
    BY DEF StoreReady
  <1>10. Fresh <=> sigWord # 0
    BY <1>2, <1>3, <1>5 DEF Fresh
  <1>11. Fresh' <=> sigWord # 0
    BY <1>1, <1>2, <1>3, <1>9 DEF Fresh, Waiting, At
  <1>12. SignalInv'
    BY <1>9, <1>10, <1>11, SignalsStay DEF Good
  <1>13. answering'.call <= calls'
    BY <1>2, <1>4 DEF Good, BufferInv
  <1> QED
    BY <1>1, <1>8, <1>12, <1>13 DEF BufferInv

\* The notify wakes the call whose answer was stored, or nobody.
LEMMA NotifyGood ==
    ASSUME Good, Notify, Undisturbed'
    PROVE  BufferInv' /\ SignalInv'
  <1>1. answering # Idle /\ answering.next = "notify" /\ answering' = Idle
        /\ UNCHANGED <<state, words, sigWord, calls, delivered, returned, late, inbox, serving,
                       pendingSigs, signalled>>
    BY DEF Notify
  <1>2. stray' = stray
    <2>1. stray = FALSE
      BY DEF Undisturbed, Good, RpcTypes
    <2>2. stray' = FALSE
      <3>1. stray' \in BOOLEAN
        BY DEF Notify
      <3> QED
        BY <3>1 DEF Undisturbed
    <2> QED
      BY <2>1, <2>2
  <1>3. OwnAnswer'
    BY <1>1, <1>2 DEF Good, BufferInv, OwnAnswer
  <1>4. answering'.call <= calls'
    BY <1>1, CallNumbers DEF Good, Idle
  <1>5. CASE At("asleep")
    <2> DEFINE f == [Frame EXCEPT !.pc = "load result"]
    <2>1. stack # <<>> /\ stack \in Seq(Frames) /\ Frame \in Frames /\ Frame.pc = "asleep"
      BY <1>5, CallerFacts DEF Good, RpcTypes, At
    <2>2. f \in Frames /\ f.call = Frame.call /\ f.pc = "load result"
      BY <2>1 DEF Frames, Pcs
    <2>3. Become(f)
      BY <1>5 DEF Notify, GoOn
    <2>4. Frame.call = answering.call
      BY <1>5 DEF Notify, Undisturbed
    <2> HIDE DEF f
    <2>5. stack' # <<>> /\ Frame' = f
      BY <2>1, <2>2, <2>3, TopReplaced
    <2>6. OuterDone'
      BY <2>1, <2>2, <2>3, OuterMoved
    <2>7. Ready
      BY <1>1, <1>5, <2>4 DEF Good, BufferInv, Owner, Waiting, Posted, Served, Writing
    <2>8. Taken'
      BY <1>1, <2>2, <2>5, <2>7 DEF Ready, Taken, NothingAsked, AnswerTo, LoadedBefore
    <2>9. Owner'
      BY <2>2, <2>5, <2>8 DEF Owner, At, Waiting, Loading
    <2>10. Fresh <=> sigWord # 0
      BY <1>5, <2>7 DEF Fresh, Ready, Waiting
    <2>11. Fresh' <=> sigWord # 0
      BY <1>1, <2>2, <2>5 DEF Fresh, Loading
    <2>12. SignalInv'
      BY <1>1, <2>10, <2>11, SignalsStay DEF Good
    <2> QED
      BY <1>3, <1>4, <2>6, <2>9, <2>12 DEF BufferInv
  <1>6. CASE ~At("asleep")
    <2>1. stack' = stack
      BY <1>6 DEF Notify
    <2>2. OuterDone' /\ Frame' = Frame
      BY <1>1, <1>2, <2>1, MainStep
    <2>3. Waiting => Posted' \/ Ready'
      <3> SUFFICES ASSUME Waiting PROVE Posted' \/ Ready'
        OBVIOUS
      <3>1. At("wait") /\ (Posted \/ Ready)
        BY <1>1, <1>6 DEF Waiting, Good, BufferInv, Owner, Served, Writing
      <3> QED
        BY <1>1, <2>1, <2>2, <3>1 DEF Posted, Ready, At, NothingAsked, AnswerTo
    <2>4. Loading => Taken'
      BY <1>1, <2>1, <2>2 DEF Good, BufferInv, Owner, Taken, NothingAsked, AnswerTo
    <2>5. Owner'
      BY <1>1, <2>1, <2>2, <2>3, <2>4
      DEF Good, BufferInv, Owner, At, Waiting, Loading, NothingAsked, OnlyNotify
    <2>6. Fresh' <=> Fresh
      BY <1>1, <2>1, <2>2 DEF Fresh, Loading, Waiting, At, Idle
    <2>7. SignalInv'
      BY <1>1, <2>6, SignalsStay DEF Good
    <2> QED
      BY <1>3, <1>4, <2>2, <2>5, <2>7 DEF BufferInv
  <1> QED
    BY <1>5, <1>6

LEMMA SendSignalGood ==
    ASSUME Good, SendSignal
    PROVE  BufferInv' /\ SignalInv'
  <1> USE DEF Workers
  <1>1. UNCHANGED <<state, words, sigWord, stack, calls, delivered, returned, late, stray,
                    inbox, serving, answering>>
        /\ signalled' = signalled + 1 /\ pendingSigs' = Append(pendingSigs, signalled + 1)
    BY DEF SendSignal
  <1>2. BufferInv'
    <2>1. OuterDone' /\ OwnAnswer' /\ Frame' = Frame
      BY <1>1, MainStep
    <2>2. Owner'
      BY <1>1, <2>1 DEF Good, BufferInv, Owner, At, Waiting, Loading, NothingAsked, OnlyNotify,
         Posted, Served, Writing, Ready, Taken, StoredBefore, LoadedBefore, AnswerTo
    <2> QED
      BY <1>1, <2>1, <2>2 DEF Good, BufferInv
  <1>3. Fresh' = Fresh /\ Seen' = Seen
    BY <1>1 DEF Fresh, Seen, Loading, Waiting, At, Frame
  <1>4. pendingSigs \in Seq(1 .. MaxSignals) /\ Len(delivered) \in Nat /\ Seen \in Nat
    BY DEF Good, SignalTypes, Seen
  <1>5. Len(pendingSigs') = Len(pendingSigs) + 1 /\ Len(pendingSigs) \in Nat
        /\ DOMAIN pendingSigs' = 1 .. Len(pendingSigs) + 1 /\ DOMAIN pendingSigs = 1 .. Len(pendingSigs)
        /\ pendingSigs'[Len(pendingSigs) + 1] = signalled + 1
        /\ \A k \in DOMAIN pendingSigs : pendingSigs'[k] = pendingSigs[k]
    BY <1>1, <1>4
  <1>6. signalled = Seen + Len(pendingSigs) /\ \A k \in DOMAIN pendingSigs : pendingSigs[k] = Seen + k
    BY DEF Good, SignalInv
  <1>7. \A k \in DOMAIN pendingSigs' : pendingSigs'[k] = Seen' + k
    <2> SUFFICES ASSUME NEW k \in DOMAIN pendingSigs' PROVE pendingSigs'[k] = Seen' + k
      OBVIOUS
    <2>1. CASE k \in DOMAIN pendingSigs
      BY <1>3, <1>5, <1>6, <2>1
    <2>2. CASE k = Len(pendingSigs) + 1
      BY <1>3, <1>4, <1>5, <1>6, <2>2
    <2> QED
      BY <1>5, <2>1, <2>2
  <1>8. signalled' = Seen' + Len(pendingSigs')
    BY <1>1, <1>3, <1>4, <1>5, <1>6
  <1>9. SignalInv'
    BY <1>1, <1>3, <1>7, <1>8 DEF Good, SignalInv
  <1> QED
    BY <1>2, <1>9

-----------------------------------------------------------------------------
LEMMA RpcStep ==
    ASSUME RpcInv, [RpcNext]_rpcVars
    PROVE  RpcInv'
  <1>1. RpcTypes' /\ SignalTypes' /\ MadeCalls'
    BY RpcTypesKept, SignalTypesKept DEF RpcInv
  <1>2. ASSUME Undisturbed' PROVE BufferInv' /\ SignalInv'
    <2>1. CASE UNCHANGED rpcVars
      <3>1. BufferInv /\ SignalInv
        BY <1>2, <2>1 DEF rpcVars, Undisturbed, RpcInv
      <3> QED
        <4>1. /\ state' = state /\ words' = words /\ sigWord' = sigWord /\ stack' = stack
              /\ calls' = calls /\ inbox' = inbox /\ serving' = serving /\ answering' = answering
              /\ pendingSigs' = pendingSigs /\ signalled' = signalled /\ delivered' = delivered
              /\ returned' = returned /\ late' = late /\ stray' = stray
          BY <2>1 DEF rpcVars
        <4>2. OuterDone'
          BY <3>1, <4>1 DEF BufferInv, OuterDone
        <4>3. OwnAnswer'
          BY <3>1, <4>1 DEF BufferInv, OwnAnswer
        <4>4. Frame' = Frame
          BY <4>1 DEF Frame
        <4>5. (Waiting' <=> Waiting) /\ (Loading' <=> Loading)
          BY <4>1, <4>4 DEF Waiting, Loading, At
        <4>6. /\ (At("reset")' <=> At("reset")) /\ (At("post")' <=> At("post"))
              /\ (At("handler")' <=> At("handler"))
          BY <4>1, <4>4 DEF At
        <4>7. (Posted' <=> Posted) /\ (Served' <=> Served)
          BY <4>1, <4>4 DEF Posted, Served
        <4>8. Writing' <=> Writing
          BY <4>1, <4>4 DEF Writing, NothingAsked, StoredBefore
        <4>9. Ready' <=> Ready
          BY <4>1, <4>4 DEF Ready, NothingAsked, AnswerTo, At
        <4>10. Taken' <=> Taken
          BY <4>1, <4>4 DEF Taken, NothingAsked, AnswerTo, LoadedBefore
        <4>11. Owner'
          BY <3>1, <4>1, <4>4, <4>5, <4>6, <4>7, <4>8, <4>9, <4>10
             DEF BufferInv, Owner, NothingAsked, OnlyNotify
        <4>12. BufferInv'
          BY <3>1, <4>1, <4>2, <4>3, <4>11 DEF BufferInv
        <4>13. Seen' = Seen /\ (Fresh' <=> Fresh)
          BY <4>1, <4>4, <4>5 DEF Seen, Fresh
        <4>14. SignalInv'
          BY <3>1, <4>1, <4>13 DEF SignalInv
        <4> QED
          BY <4>12, <4>14
    <2>2. CASE RpcNext
      <3>1. Good
        <4>1. Undisturbed
          <5>1. CASE Timeout
            BY <1>2, <5>1 DEF Timeout, Undisturbed
          <5>2. CASE Notify
            BY <1>2, <5>2 DEF Notify, Undisturbed
          <5>3. ASSUME ~Timeout, ~Notify PROVE UNCHANGED <<late, stray>>
            BY <2>2, <5>3 DEF RpcNext, WorkerStep, AnswerStep, BeginCall, HandlerCall,
               HandlerReturns, PostRequest, WaitForAnswer, Load, LoadSignal, Return, Receive, KernelDone, StoreWord,
               StoreSignal, StoreReady, SendSignal, Workers
          <5> QED
            BY <1>2, <5>1, <5>2, <5>3 DEF Undisturbed
        <4> QED
          BY <4>1 DEF RpcInv, Good
      <3>2. CASE WorkerStep
        BY <1>2, <3>1, <3>2, PostRequestGood, WaitGood, TimeoutGood, LoadSignalGood,
           HandlerReturnsGood, ReturnGood, LoadGood
        DEF WorkerStep
      <3>3. CASE AnswerStep
        <4>1. /\ StoredBefore("len") = StoredBefore("data") \cup {"data"}
              /\ StoredBefore("result") = StoredBefore("len") \cup {"len"}
              /\ StoredBefore("signal") = StoredBefore("result") \cup {"result"}
          BY DEF StoredBefore, Fields
        <4>2. {"data", "len", "result"} \subseteq Fields
          BY DEF Fields
        <4> QED
          BY <1>2, <3>1, <3>3, <4>1, <4>2, StoreWordGood, StoreSignalGood, StoreReadyGood, NotifyGood
          DEF AnswerStep
      <3> QED
        BY <2>2, <3>1, <3>2, <3>3, BeginCallGood, HandlerCallGood, ReceiveGood, KernelDoneGood, SendSignalGood
        DEF RpcNext
    <2> QED
      BY <2>1, <2>2
  <1> QED
    BY <1>1, <1>2 DEF RpcInv

(***************************************************************************)
(* The inductive invariant of rpcCall and _handleSyscall: whose the shared  *)
(* buffer is, and where every signal is, until a call times out or a notify *)
(* wakes another call.                                                      *)
(***************************************************************************)
THEOREM RpcInvariance == RpcSpec => []RpcInv
  BY RpcInitInv, RpcStep, PTL DEF RpcSpec

\* The words, the activations and the calls keep their types (rpcCall).
THEOREM RpcTypeCorrect == RpcSpec => []RpcTypeOK
  <1>1. RpcInv => RpcTypeOK
    <2> SUFFICES ASSUME RpcInv PROVE RpcTypeOK
      OBVIOUS
    <2>1. RpcTypes /\ SignalTypes
      BY DEF RpcInv
    <2>2. \A k \in DOMAIN stack : stack[k] \in Frames
      BY <2>1 DEF RpcTypes
    <2> QED
      BY <2>1, <2>2 DEF RpcTypeOK, RpcTypes, SignalTypes, Frames
  <1> QED
    BY <1>1, RpcInvariance, PTL

(***************************************************************************)
(* A system call returns its own answer and signals are handled once and in *)
(* order (kernel-worker.ts, driver.ts), for any number of calls, signals    *)
(* and nested handlers, until a call times out or a stray notify wakes it.  *)
(***************************************************************************)
THEOREM OwnAnswersAndSignals == RpcSpec => []CallsGetTheirOwn
  <1>1. RpcInv => OwnAnswer /\ SignalsOnceInOrder
    <2> SUFFICES ASSUME RpcInv PROVE OwnAnswer /\ SignalsOnceInOrder
      OBVIOUS
    <2>1. OwnAnswer
      BY DEF RpcInv, BufferInv, OwnAnswer, Undisturbed
    <2>2. ASSUME Undisturbed PROVE delivered = [k \in 1 .. Len(delivered) |-> k]
      <3>1. delivered \in Seq(1 .. MaxSignals) /\ \A k \in DOMAIN delivered : delivered[k] = k
        BY <2>2 DEF RpcInv, SignalTypes, SignalInv
      <3> QED
        BY <3>1
    <2> QED
      BY <2>1, <2>2 DEF SignalsOnceInOrder, Undisturbed
  <1> QED
    BY <1>1, RpcInvariance, RpcTypeCorrect, PTL DEF CallsGetTheirOwn
=============================================================================
