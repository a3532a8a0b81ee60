----------------------------- MODULE SystemCalls ----------------------------
(***************************************************************************)
(* Two functions of the shared library that loop over system calls whose   *)
(* outcomes the kernel decides.                                            *)
(***************************************************************************)
EXTENDS Integers, Sequences, SequencesExt, FiniteSetsExt

(***************************************************************************)
(* copy_stream of the shared library (buf_copy, pipes): everything from    *)
(* one descriptor to another, through a pipe with splice where the kernel  *)
(* can, with read and write where it cannot. Each system call is a step    *)
(* that moves as much as it likes or fails.                                *)
(*                                                                         *)
(* A copy c has the bytes still to read, those in the intermediate pipe    *)
(* and those that arrived; chunk is what the last splice took from the     *)
(* source, left what is still to move of it; buf, read and written are     *)
(* copy_exact's; bytes and result are the counts.                          *)
(***************************************************************************)

CONSTANTS SPLICE_SIZE,   \* the most one splice from the source is asked to move
          PipeSize,      \* what the intermediate pipe holds
          BUF_SIZE       \* copy_exact's buffer

ASSUME CopySizes == SPLICE_SIZE > 0 /\ PipeSize > 0 /\ BUF_SIZE > 0

Beyond(s, n) == SubSeq(s, n + 1, Len(s))

\* a copy on Linux begins with splices, elsewhere with std::io::copy
NewCopy(data, linux) ==
    [src |-> data, pipe |-> <<>>, dest |-> <<>>, chunk |-> 0, left |-> 0, buf |-> <<>>, read |-> 0, written |-> 0,
     bytes |-> 0, copied |-> 0, result |-> 0, pc |-> IF linux THEN "splice" ELSE "io_copy"]

Done(c, n) == [c EXCEPT !.pc = "done", !.result = n]

\* splice_write: from the source into the pipe
splice_in(c) ==
    IF c.src = <<>> THEN {Done(c, c.bytes)}
    ELSE {[c EXCEPT !.src = Beyond(@, n), !.pipe = @ \o SubSeq(c.src, 1, n), !.chunk = n, !.left = n, !.pc = "splice_exact"] :
             n \in 1 .. Min({SPLICE_SIZE, PipeSize - Len(c.pipe), Len(c.src)})}
         \cup {[c EXCEPT !.pc = "io_copy"]}

MovedOn(c, n) == [c EXCEPT !.pipe = Beyond(@, n), !.dest = @ \o SubSeq(c.pipe, 1, n), !.left = @ - n]
NextChunk(c) == [c EXCEPT !.bytes = @ + c.chunk, !.pc = "splice"]

\* mutant: one splice to the destination is taken for all of them
SplicesOnce(c) ==
    {NextChunk(MovedOn(c, n)) : n \in 1 .. c.left} \cup {[c EXCEPT !.left = c.chunk, !.written = 0, !.pc = "read"]}

\* splice_exact: from the pipe to the destination, until all of the chunk moved;
\* a failure leaves the rest to copy_exact, which is given the whole chunk
splice_exact(c) ==
    IF c.left = 0 THEN {NextChunk(c)}
    ELSE {MovedOn(c, n) : n \in 1 .. c.left} \cup {[c EXCEPT !.left = c.chunk, !.written = 0, !.pc = "read"]}

\* copy_exact reads what the pipe has; an empty pipe, whose other end is open,
\* keeps it waiting
copy_exact_read(c) ==
    LET n == Min({BUF_SIZE, Len(c.pipe)}) IN
    CASE c.left = 0 -> {[c EXCEPT !.pc = "io_copy"]}
      [] c.left > 0 /\ c.pipe # <<>> -> {[c EXCEPT !.buf = SubSeq(c.pipe, 1, n), !.pipe = Beyond(@, n), !.read = n, !.pc = "write"]}
      [] OTHER -> {}

\* and writes what it read from where the last write stopped; written is not
\* reset for the next buffer
copy_exact_write(c) ==
    IF c.written >= c.read THEN {[c EXCEPT !.left = @ - c.read, !.pc = "read"]}
    ELSE {[c EXCEPT !.dest = @ \o SubSeq(c.buf, c.written + 1, c.written + n), !.written = @ + n] : n \in 1 .. c.read - c.written}
         \cup {[c EXCEPT !.pc = "error"]}

\* std::io::copy and the flush after it
io_copy(c) ==
    IF c.src = <<>> THEN {Done(c, c.copied)}
    ELSE {[c EXCEPT !.src = Beyond(@, n), !.dest = @ \o SubSeq(c.src, 1, n), !.copied = @ + n] : n \in 1 .. Len(c.src)}
         \cup {[c EXCEPT !.pc = "error"]}

\* copy_stream: the step that comes next
copy_stream(c) ==
    CASE c.pc = "splice" -> splice_in(c)
      [] c.pc = "splice_exact" -> splice_exact(c)
      [] c.pc = "read" -> copy_exact_read(c)
      [] c.pc = "write" -> copy_exact_write(c)
      [] c.pc = "io_copy" -> io_copy(c)
      [] OTHER -> {}

-----------------------------------------------------------------------------
(***************************************************************************)
(* wait_or_timeout of the shared library (process.rs): a child is polled   *)
(* until it has ended, the time is up or a signal handler has set a flag.  *)
(* Time is counted in units of which Poll make one sleep between polls.    *)
(* The child, the clock and the handler act between any two of its steps.  *)
(*                                                                         *)
(* A wait w has the clock's time now since it began, when the child ended  *)
(* (0: it runs) and the handler's flag was set (0: it is not), when the    *)
(* sleep ends, and the result.                                             *)
(***************************************************************************)

CONSTANT Poll            \* one sleep between two polls

ASSUME PollLasts == Poll > 0

NewWait(timeout) ==
    [now |-> 1, timeout |-> timeout, ended |-> 0, flagged |-> 0, wakes |-> 0, result |-> "none",
     pc |-> IF timeout = 0 THEN "wait" ELSE "try_wait"]

\* what goes on outside: time passes, but not beyond the end of a sleep (the
\* scheduler is prompt); the child ends; the handler runs
Outside(w) ==
    (IF w.pc \in {"sleep", "wait"} /\ (w.pc = "sleep" => w.now < w.wakes) THEN {[w EXCEPT !.now = @ + 1]} ELSE {})
    \cup (IF w.ended = 0 THEN {[w EXCEPT !.ended = w.now]} ELSE {})
    \cup (IF w.flagged = 0 THEN {[w EXCEPT !.flagged = w.now]} ELSE {})

HasStatus(w) == [w EXCEPT !.result = "status", !.pc = "done"]

\* self.wait(): a timeout of zero is none
wait(w) == IF w.ended > 0 THEN {HasStatus(w)} ELSE {}
try_wait(w) == IF w.ended > 0 THEN {HasStatus(w)} ELSE {[w EXCEPT !.pc = "check"]}

\* the clock began at 1
TimeIsUp(w) == w.now - 1 >= w.timeout \/ w.flagged > 0

check(w) ==
    IF TimeIsUp(w) THEN {[w EXCEPT !.result = "timeout", !.pc = "done"]}
    ELSE {[w EXCEPT !.wakes = w.now + Poll, !.pc = "sleep"]}

sleep(w) == IF w.now < w.wakes THEN {} ELSE {[w EXCEPT !.pc = "try_wait"]}

wait_or_timeout(w) ==
    CASE w.pc = "wait" -> wait(w)
      [] w.pc = "try_wait" -> try_wait(w)
      [] w.pc = "check" -> check(w)
      [] w.pc = "sleep" -> sleep(w)
      [] OTHER -> {}
=============================================================================
