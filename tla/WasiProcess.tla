---------------------------- MODULE WasiProcess ----------------------------
(***************************************************************************)
(* Child processes of the VM's commands: the pipe-capturing handle of      *)
(* wasi-spawn, the terminal handle of wasi-pty and the timeout command.    *)
(* One parent uses one child in one of the ways of Kinds; the child and    *)
(* the kernel's pipes and terminals are the environment.                   *)
(***************************************************************************)
EXTENDS Integers, Sequences, FiniteSets, SequencesExt

CONSTANTS Programs,   \* what a child may do: sequences over {"out", "err", "sleep"}
          Cap,        \* what a pipe or a terminal holds, in writes
          ReadSize,   \* the most one read returns (4096 bytes in the code)
          Durations,  \* durations given to timeout, in ticks
          MaxTime,    \* the clock stops here
          MaxFaults   \* host calls that may fail in one use

ASSUME WasiProcessAssumption ==
    /\ Programs \subseteq Seq({"out", "err", "sleep"})
    /\ Cap \in Nat \ {0} /\ ReadSize \in Nat \ {0}
    /\ MaxTime \in Nat /\ Durations \subseteq 0 .. MaxTime
    /\ MaxFaults \in Nat

VARIABLES kind,    \* how the parent uses the child
          pc,      \* where the parent is
          ends,    \* the parent's descriptors: "none", "open", "closed", "twice"
          child,   \* "none", "running", "zombie", "reaped"
          prog, pos, code,      \* the child's program, its next step, its status
          pipe,    \* what is written and not yet read, per stream
          got,     \* what consume_output has collected, per stream
          exited,  \* WasiChild.exited, WasiPtyChild.exited
          result,  \* what the last call returned: <<"ok", status>> or <<"err", reason>>
          now, duration, killed, faults

processVars == <<kind, pc, ends, child, prog, pos, code, pipe, got, exited, result,
          now, duration, killed, faults>>

childVars == <<child, prog, pos, code>>

Streams == {"out", "err", "pty"}

\* consume: spawn_child and consume_output; kill: spawn_child, terminate, wait;
\* inherit: spawn_child_inherit and wait; pty: spawn_session and consume_output;
\* bare_pty: open_pty; timeout: the timeout command.
Kinds == {"consume", "kill", "inherit", "pty", "bare_pty", "timeout"}

ReadEnds(k) == CASE k \in {"consume", "kill"} -> {"stdout_read", "stderr_read"}
                 [] k \in {"pty", "bare_pty"} -> {"master"}
                 [] OTHER -> {}

\* the ends the parent gives to the child and closes once it is spawned
WriteEnds(k) == CASE k \in {"consume", "kill"} -> {"stdout_write", "stderr_write"}
                  [] k = "pty" -> {"slave"}
                  [] OTHER -> {}

End == {"stdout_read", "stdout_write", "stderr_read", "stderr_write", "master", "slave"}

\* A descriptor closed again may by then be somebody else's: "twice" is kept.
fd_close(e, S) ==
    [x \in End |-> IF x \notin S THEN e[x]
                   ELSE IF e[x] = "open" THEN "closed" ELSE "twice"]

Opened(S) == [x \in End |-> IF x \in S THEN "open" ELSE ends[x]]

Fault == Cardinality(faults) < MaxFaults

\* The wrappers of wasi-ext: what the host wrote when its errno is 0, else the errno.
Wrapped(errno, value) == IF errno = 0 THEN <<"ok", value>> ELSE <<"err", "errno">>

Failed == Wrapped(1, 0)

Return(r) == /\ result' = r
             /\ pc' = "returned"

-----------------------------------------------------------------------------
\* spawn_child, spawn_child_inherit, spawn_session, open_pty

EmptyArgv == /\ pc = "start"
             /\ kind \in {"consume", "kill", "inherit", "pty"}
             /\ result' = <<"err", "empty argv">>
             /\ pc' = "dropped"
             /\ UNCHANGED <<kind, ends, childVars, pipe, got, exited, now, duration, killed, faults>>

\* no operand, one operand only, or a duration that is no number
TimeoutUsage == /\ pc = "start" /\ kind = "timeout"
                /\ result' = <<"err", "125">>
                /\ pc' = "dropped"
                /\ UNCHANGED <<kind, ends, childVars, pipe, got, exited, now, duration, killed, faults>>

StdoutPipe ==
    /\ pc = "start" /\ kind \in {"consume", "kill"}
    /\ \/ /\ ends' = Opened({"stdout_read", "stdout_write"})
          /\ pc' = "second_pipe"
          /\ UNCHANGED <<faults, result>>
       \/ /\ Fault
          /\ faults' = faults \cup {"pipe"}
          /\ result' = Failed
          /\ pc' = "dropped"
          /\ UNCHANGED ends
    /\ UNCHANGED <<kind, childVars, pipe, got, exited, now, duration, killed>>

\* mutant: the first pipe is forgotten when the second cannot be made
FirstPipeForgotten == ends

UndoStdoutPipe == fd_close(ends, {"stdout_read", "stdout_write"})

StderrPipe ==
    /\ pc = "second_pipe"
    /\ \/ /\ ends' = Opened({"stderr_read", "stderr_write"})
          /\ pc' = "spawn"
          /\ UNCHANGED <<faults, result>>
       \/ /\ Fault
          /\ faults' = faults \cup {"pipe"}
          /\ ends' = UndoStdoutPipe
          /\ result' = Failed
          /\ pc' = "dropped"
    /\ UNCHANGED <<kind, childVars, pipe, got, exited, now, duration, killed>>

OpenPty ==
    /\ pc = "start" /\ kind \in {"pty", "bare_pty"}
    /\ \/ /\ ends' = Opened({"master", "slave"})
          /\ pc' = IF kind = "pty" THEN "spawn" ELSE "returned"
          /\ UNCHANGED <<faults, result>>
       \/ /\ Fault
          /\ faults' = faults \cup {"pipe"}
          /\ result' = Failed
          /\ pc' = "dropped"
          /\ UNCHANGED ends
    /\ UNCHANGED <<kind, childVars, pipe, got, exited, now, duration, killed>>

\* The child has its own references to the ends it was given from here on.
Spawn ==
    /\ \/ pc = "spawn"
       \/ pc = "start" /\ kind \in {"inherit", "timeout"}
    /\ pc' = "close_after_fork"
    /\ \/ /\ child' = "running"
          /\ UNCHANGED <<faults, result>>
       \/ /\ Fault
          /\ faults' = faults \cup {"spawn"}
          /\ result' = IF kind = "timeout" THEN <<"err", "127">> ELSE Failed
          /\ UNCHANGED child
    /\ UNCHANGED <<kind, ends, prog, pos, code, pipe, got, exited, now, duration, killed>>

AfterSpawn(k) == CASE k = "consume" -> "read_stdout"
                   [] k = "kill" -> "terminate"
                   [] k = "pty" -> "read_pty"
                   [] k = "inherit" -> "wait"
                   [] k = "timeout" -> "try_wait"

CloseAfterFork ==
    /\ pc = "close_after_fork"
    /\ IF child = "none"
       THEN /\ ends' = fd_close(ends, ReadEnds(kind) \cup WriteEnds(kind))
            /\ pc' = "dropped"
       ELSE /\ ends' = fd_close(ends, WriteEnds(kind))
            /\ pc' = AfterSpawn(kind)
    /\ UNCHANGED <<kind, childVars, pipe, got, exited, result, now, duration, killed, faults>>

-----------------------------------------------------------------------------
\* WasiChild and WasiPtyChild

WriterOf(s) == CASE s = "out" -> "stdout_write" [] s = "err" -> "stderr_write" [] s = "pty" -> "slave"

AtEof(s) == pipe[s] = <<>> /\ child # "running" /\ ends[WriterOf(s)] # "open"

Collect(s, n) == [got EXCEPT ![s] = @ \o SubSeq(pipe[s], 1, n)]

\* One pass of a reading loop of consume_output on stream s; next is where it
\* goes at the end of the stream. A broken pipe counts as the end.
ReadLoop(s, next) ==
    /\ \/ \E n \in 1 .. ReadSize :
             /\ n <= Len(pipe[s])
             /\ got' = Collect(s, n)
             /\ pipe' = [pipe EXCEPT ![s] = SubSeq(@, n + 1, Len(@))]
             /\ UNCHANGED <<pc, result, faults>>
       \/ /\ AtEof(s)
          /\ pc' = next
          /\ UNCHANGED <<pipe, got, result, faults>>
       \/ /\ Fault /\ child # "running"
          /\ faults' = faults \cup {"broken"}
          /\ pc' = next
          /\ UNCHANGED <<pipe, got, result>>
       \/ /\ Fault
          /\ faults' = faults \cup {"read"}
          /\ Return(Failed)
          /\ UNCHANGED <<pipe, got>>
    /\ UNCHANGED <<kind, ends, childVars, exited, now, duration, killed>>

read_stdout == pc = "read_stdout" /\ ReadLoop("out", "read_stderr")
read_stderr == pc = "read_stderr" /\ ReadLoop("err", "wait")
read_output == pc = "read_pty" /\ ReadLoop("pty", "wait")

\* SIGTERM. The kernel may refuse a signal to a process that is gone.
terminate ==
    /\ pc = "terminate"
    /\ \/ /\ child' = IF child = "running" THEN "zombie" ELSE child
          /\ code' = IF child = "running" THEN 143 ELSE code
          /\ pc' = "wait"
          /\ UNCHANGED result
       \/ /\ child # "running"
          /\ Return(Failed)
          /\ UNCHANGED <<child, code>>
    /\ UNCHANGED <<kind, ends, prog, pos, pipe, got, exited, now, duration, killed, faults>>

wait ==
    /\ pc = "wait"
    /\ \/ /\ exited
          /\ Return(<<"err", "already waited">>)
          /\ UNCHANGED <<child, exited, faults>>
       \/ /\ ~exited /\ child = "zombie"
          /\ child' = "reaped"
          /\ exited' = TRUE
          /\ Return(Wrapped(0, code))
          /\ UNCHANGED faults
       \/ /\ ~exited /\ Fault
          /\ faults' = faults \cup {"wait"}
          /\ Return(Failed)
          /\ UNCHANGED <<child, exited>>
    /\ UNCHANGED <<kind, ends, prog, pos, code, pipe, got, now, duration, killed>>

\* The caller may call wait again on the handle, after an error or a status.
WaitAgain ==
    /\ pc = "returned" /\ kind \in {"consume", "kill", "pty", "inherit"}
    /\ result # <<"err", "already waited">>
    /\ pc' = "wait"
    /\ UNCHANGED <<kind, ends, childVars, pipe, got, exited, result, now, duration, killed, faults>>

drop ==
    /\ pc = "returned"
    /\ ends' = fd_close(ends, ReadEnds(kind))
    /\ pc' = "dropped"
    /\ UNCHANGED <<kind, childVars, pipe, got, exited, result, now, duration, killed, faults>>

-----------------------------------------------------------------------------
\* timeout: the loop after the child is spawned

\* mutant: the deadline counts whatever the child's state is
OverdueAnyway == now >= duration

Overdue == child = "running" /\ now >= duration

TryWait ==
    /\ pc = "try_wait"
    /\ \/ /\ child = "zombie"
          /\ child' = "reaped"
          /\ Return(Wrapped(0, code))
          /\ UNCHANGED <<faults>>
       \/ /\ Overdue
          /\ pc' = "kill"
          /\ UNCHANGED <<child, result, faults>>
       \/ /\ Fault
          /\ faults' = faults \cup {"wait"}
          /\ Return(<<"err", "125">>)
          /\ UNCHANGED <<child>>
    /\ UNCHANGED <<kind, ends, prog, pos, code, pipe, got, exited, now, duration, killed>>

\* The child may end by itself before the signal reaches it.
TimeoutKill ==
    /\ pc = "kill"
    /\ killed' = (child = "running")
    /\ child' = "zombie"
    /\ code' = IF child = "running" THEN 137 ELSE code
    /\ pc' = "reap"
    /\ UNCHANGED <<kind, ends, prog, pos, pipe, got, exited, result, now, duration, faults>>

\* The outcome of this wait is ignored.
TimeoutReap ==
    /\ pc = "reap"
    /\ \/ child' = "reaped" /\ UNCHANGED faults
       \/ Fault /\ faults' = faults \cup {"wait"} /\ UNCHANGED child
    /\ Return(<<"ok", 124>>)
    /\ UNCHANGED <<kind, ends, prog, pos, code, pipe, got, exited, now, duration, killed>>

Tick == /\ pc = "try_wait" /\ now < MaxTime
        /\ now' = now + 1
        /\ UNCHANGED <<kind, pc, ends, childVars, pipe, got, exited, result, duration, killed, faults>>

-----------------------------------------------------------------------------
\* the child, and the stream it writes to

StreamOf(s) == IF kind = "pty" THEN "pty" ELSE s

ReaderOf(s) == CASE s = "out" -> "stdout_read" [] s = "err" -> "stderr_read" [] s = "pty" -> "master"

Captured == kind \in {"consume", "kill", "pty"}

ChildWrite ==
    /\ child = "running" /\ pos <= Len(prog) /\ prog[pos] # "sleep"
    /\ LET s == StreamOf(prog[pos]) IN
       IF ~Captured
       THEN pos' = pos + 1 /\ UNCHANGED <<pipe, child, code>>
       ELSE IF ends[ReaderOf(s)] # "open"
       THEN child' = "zombie" /\ code' = 141 /\ UNCHANGED <<pipe, pos>>
       ELSE /\ Len(pipe[s]) < Cap
            /\ pipe' = [pipe EXCEPT ![s] = Append(@, pos)]
            /\ pos' = pos + 1
            /\ UNCHANGED <<child, code>>
    /\ UNCHANGED <<kind, pc, ends, prog, got, exited, result, now, duration, killed, faults>>

ChildExit ==
    /\ child = "running" /\ pos > Len(prog)
    /\ child' = "zombie"
    /\ UNCHANGED <<kind, pc, ends, prog, pos, code, pipe, got, exited, result, now, duration, killed, faults>>

\* A child that sleeps does so for longer than the model looks.
Asleep == child = "running" /\ pos <= Len(prog) /\ prog[pos] = "sleep"

\* The child waits for room in a pipe and the parent for something else: for
\* the end of stdout, or, after a failed read, for the child to exit. Nobody
\* moves again.
FullPipe == /\ child = "running" /\ Captured /\ pos <= Len(prog) /\ prog[pos] # "sleep"
            /\ Len(pipe[StreamOf(prog[pos])]) = Cap
            /\ \/ pc = "read_stdout" /\ prog[pos] = "err"
               \/ pc = "wait"

Rest == /\ pc = "dropped" \/ FullPipe \/ (Asleep /\ kind # "timeout")
        /\ UNCHANGED processVars

-----------------------------------------------------------------------------
ProcessInit ==
    /\ kind \in Kinds /\ pc = "start"
    /\ ends = [e \in End |-> "none"]
    /\ child = "none" /\ prog \in Programs /\ pos = 1 /\ code = 7
    /\ pipe = [s \in Streams |-> <<>>] /\ got = pipe
    /\ exited = FALSE /\ result = <<"ok", 0>>
    /\ now = 0 /\ killed = FALSE /\ faults = {}
    /\ duration \in (IF kind = "timeout" THEN Durations ELSE {0})

Parent == \/ StdoutPipe \/ StderrPipe \/ OpenPty \/ Spawn \/ CloseAfterFork
          \/ read_stdout \/ read_stderr \/ read_output
          \/ terminate \/ wait \/ drop
          \/ TryWait \/ TimeoutKill \/ TimeoutReap

ChildStep == ChildWrite \/ ChildExit

ProcessNext == Parent \/ EmptyArgv \/ TimeoutUsage \/ WaitAgain \/ Tick \/ ChildStep \/ Rest

ProcessSpec == ProcessInit /\ [][ProcessNext]_processVars

-----------------------------------------------------------------------------
Places == {"start", "second_pipe", "spawn", "close_after_fork", "read_stdout", "read_stderr", "read_pty",
           "terminate", "wait", "try_wait", "kill", "reap", "returned", "dropped"}

ProcessTypeOK ==
    /\ kind \in Kinds
    /\ pc \in Places
    /\ ends \in [End -> {"none", "open", "closed", "twice"}]
    /\ child \in {"none", "running", "zombie", "reaped"}
    /\ prog \in Programs /\ pos \in 1 .. Len(prog) + 1 /\ code \in {7, 137, 141, 143}
    /\ pipe \in [Streams -> Seq(Nat)] /\ got \in [Streams -> Seq(Nat)]
    /\ \A s \in Streams : Len(pipe[s]) <= Cap
    /\ exited \in BOOLEAN /\ killed \in BOOLEAN
    /\ now \in 0 .. MaxTime /\ duration \in 0 .. MaxTime
    /\ IsFiniteSet(faults) /\ Cardinality(faults) <= MaxFaults

\* Whatever call fails (a pipe, the spawn, a read, the wait), when the handle is
\* gone every descriptor spawn_child or spawn_session opened has been closed
\* exactly once; open_pty leaves the slave to its caller.
EndsClosedOnce ==
    /\ \A e \in End : ends[e] # "twice"
    /\ pc = "dropped" =>
         \A e \in End : ends[e] = "open" => kind = "bare_pty" /\ e = "slave"

Rising(q) == \A i, j \in DOMAIN q : i < j => q[i] < q[j]
Steps(s, upto) == {i \in 1 .. upto : StreamOf(prog[i]) = s}

\* When consume_output returns a status, stdout and stderr hold what the child
\* wrote to each, in order and to its end, unless a read met a broken pipe.
CapturedIsWritten ==
    (pc = "returned" /\ kind \in {"consume", "pty"} /\ result[1] = "ok" /\ faults \cap {"broken", "read"} = {})
        => \A s \in Streams : Rising(got[s]) /\ Range(got[s]) = Steps(s, Len(prog))

\* A status is only ever reported for a child that was reaped: after an error of
\* waitpid the caller may wait again and gets the status, and a second wait
\* after a status is an error.
StatusMeansReaped ==
    /\ (pc = "returned" /\ kind \notin {"bare_pty"} /\ result[1] = "ok" /\ "wait" \notin faults) => child = "reaped"
    /\ (result = <<"err", "already waited">>) => child = "reaped"

\* A child started by wasi-spawn or by timeout keeps its pipe ends, its output
\* and its status straight, whichever call fails on the way.
ProcessesAreKept == ProcessTypeOK /\ EndsClosedOnce /\ CapturedIsWritten /\ StatusMeansReaped

\* timeout kills only a child that is still running at the deadline, and it
\* reports the child's own status for one that its loop found ended, however
\* late it looked.
TimeoutExact ==
    [](kind = "timeout" =>
         /\ killed => now >= duration /\ code = 137
         /\ (pc = "returned" /\ result = <<"ok", 124>>) => child # "running" /\ now >= duration
         /\ (pc = "try_wait" /\ child = "zombie") => [](result # <<"ok", 124>>))

\* A use of a child comes to its end when the child does not sleep and writes no
\* more to stderr than the pipe holds (the code reads stderr after stdout); the
\* timeout command ends even for a child that sleeps. (A caller that waits after
\* a failed read may wait for ever.)
UseEnds ==
    LET Fits == /\ \A i \in 1 .. Len(prog) : prog[i] # "sleep"
                /\ kind = "consume" => Cardinality({i \in 1 .. Len(prog) : prog[i] = "err"}) <= Cap
    IN  (pc # "start" /\ (Fits \/ kind = "timeout")) ~> (pc = "dropped" \/ "read" \in faults)
=============================================================================
