------------------------------ MODULE WasiProofs ------------------------------
(***************************************************************************)
(* Proofs about WasiProcess and WasiHttp.                                  *)
(*                                                                         *)
(* WasiProcess, for every set of programs, size of a pipe and of a read,   *)
(* and number of failing calls: the descriptors, the output and the status *)
(* of a child are kept straight, and timeout reports 124 only for a child  *)
(* it found running at the deadline.                                       *)
(*                                                                         *)
(* WasiHttp, for every set of URLs and replies and every size of buffer:   *)
(* a body and the events of a stream are what the server sent (but for a   *)
(* stream that is chunked or goes on past its length), however recv cuts   *)
(* it, the Host header names the server, the headers stay within           *)
(* their limit and no socket is left open but for the known failures.      *)
(***************************************************************************)
EXTENDS WasiHttp, WasiProcess, FiniteSetTheorems, SequenceTheorems, WellFoundedInduction, TLAPS

-----------------------------------------------------------------------------
\* The inductive invariant.

Reading == {"read_stdout", "read_stderr", "read_pty"}
Using == Reading \cup {"terminate", "wait", "try_wait", "kill", "reap"}
InUse == pc \in Using \/ (pc = "returned" /\ kind # "bare_pty")

\* where each kind of use can be
KindsInv ==
    /\ pc = "second_pipe" => kind \in {"consume", "kill"}
    /\ pc = "spawn" => kind \in {"consume", "kill", "pty"}
    /\ pc = "close_after_fork" => kind # "bare_pty"
    /\ pc \in {"read_stdout", "read_stderr"} => kind = "consume"
    /\ pc = "read_pty" => kind = "pty"
    /\ pc = "terminate" => kind = "kill"
    /\ pc = "wait" => kind \in {"consume", "kill", "pty", "inherit"}
    /\ pc \in {"try_wait", "kill", "reap"} => kind = "timeout"

\* which descriptors the parent holds there: all others were never opened
Holds(open, closed) ==
    \A e \in End : ends[e] = IF e \in open THEN "open" ELSE IF e \in closed THEN "closed" ELSE "none"
NothingHeld == Holds({}, {})
FirstHeld == Holds({"stdout_read", "stdout_write"}, {})
AllHeld == Holds(ReadEnds(kind) \cup WriteEnds(kind), {})
ReadersHeld == Holds(ReadEnds(kind), WriteEnds(kind))
PtyHeld == Holds({"master", "slave"}, {})
GivenBack == \A e \in End : ends[e] \in {"none", "closed"} \/ (kind = "bare_pty" /\ e = "slave" /\ ends[e] = "open")

EndsInv ==
    /\ pc = "start" => NothingHeld
    /\ pc = "second_pipe" => FirstHeld
    /\ pc \in {"spawn", "close_after_fork"} => AllHeld
    /\ InUse => ReadersHeld
    /\ pc = "returned" /\ kind = "bare_pty" => PtyHeld
    /\ pc = "dropped" => GivenBack

\* a child exists from the spawn on, and is reaped exactly by the wait that says so
ChildInv ==
    /\ pc \in {"start", "second_pipe", "spawn"} => child = "none"
    /\ InUse => child # "none"
    /\ kind # "timeout" => (exited <=> child = "reaped")
    /\ pc = "close_after_fork" => child \in {"none", "running", "zombie"}
    /\ pc = "try_wait" => child \in {"running", "zombie"}
    /\ pc = "kill" => child \in {"running", "zombie"}
    /\ pc = "reap" => child = "zombie"

\* what is collected and what is in the pipe is what the child has written, in order
DataInv ==
    \A s \in Streams :
        /\ Rising(got[s]) /\ Rising(pipe[s])
        /\ \A x \in Range(got[s]), y \in Range(pipe[s]) : x < y
        /\ \A x \in Range(got[s]) \cup Range(pipe[s]) : x < pos
        /\ Captured => Range(got[s]) \cup Range(pipe[s]) = Steps(s, pos - 1)

\* a stream that was read to its end stays empty
Drained(s) == pipe[s] = <<>> /\ child \in {"zombie", "reaped"}
DrainInv ==
    faults \cap {"broken", "read"} = {} =>
        /\ kind = "consume" /\ pc \in {"read_stderr", "wait", "returned"} => Drained("out")
        /\ kind = "consume" /\ pc \in {"wait", "returned"} => Drained("err")
        /\ kind = "pty" /\ pc \in {"wait", "returned"} => Drained("pty")

\* while its output is wanted a child ends at the end of its program only
EndInv == (kind \in {"consume", "pty"} /\ pc # "dropped" /\ child \in {"zombie", "reaped"}) => pos = Len(prog) + 1

\* the loop of timeout
TimeoutInv ==
    kind = "timeout" =>
        /\ pc \in {"start", "try_wait", "kill", "reap"} => result = <<"ok", 0>>
        /\ pc = "close_after_fork" => result = <<"ok", 0>> \/ child = "none"
        /\ pc \in {"kill", "reap"} => now >= duration
        /\ killed => now >= duration /\ code = 137 /\ child \in {"zombie", "reaped"} /\ pc \in {"reap", "returned", "dropped"}
        /\ result = <<"ok", 124>> => now >= duration /\ child \in {"zombie", "reaped"} /\ pc \in {"returned", "dropped"}

ProcessInv ==
    /\ ProcessTypeOK /\ KindsInv /\ EndsInv /\ ChildInv /\ DataInv /\ DrainInv /\ EndInv /\ TimeoutInv
    /\ StatusMeansReaped
-----------------------------------------------------------------------------
\* Facts about the parts of the steps that several invariants need

\* one pass of one of the three reading loops
Reads == read_stdout \/ read_stderr \/ read_output
AfterReading == IF pc = "read_stdout" THEN "read_stderr" ELSE "wait"

\* what the calls return, told apart
LEMMA Verdicts ==
    /\ Failed = <<"err", "errno">> /\ Failed[1] = "err" /\ Failed # <<"err", "already waited">>
    /\ \A r \in {"already waited", "125", "127", "empty argv"} : <<"err", r>>[1] = "err" /\ <<"err", r>> # <<"ok", 124>>
    /\ \A r \in {"125", "127", "empty argv"} : <<"err", r>> # <<"err", "already waited">>
    /\ Failed # <<"ok", 124>>
    /\ \A c \in Int : /\ Wrapped(0, c) = <<"ok", c>> /\ <<"ok", c>>[1] = "ok"
                      /\ <<"ok", c>> # <<"err", "already waited">>
                      /\ <<"ok", c>> = <<"ok", 124>> => c = 124
BY DEF Failed, Wrapped

\* the statements about the descriptors, in a step that leaves them alone
LEMMA SameEnds ==
    ASSUME ends' = ends, kind' = kind
    PROVE  /\ NothingHeld' = NothingHeld /\ FirstHeld' = FirstHeld /\ AllHeld' = AllHeld
           /\ ReadersHeld' = ReadersHeld /\ PtyHeld' = PtyHeld /\ GivenBack' = GivenBack
BY DEF NothingHeld, FirstHeld, AllHeld, ReadersHeld, PtyHeld, GivenBack, Holds

\* where no descriptor is opened there is none to give back
LEMMA FromNothing ==
    NothingHeld => GivenBack /\ (kind \in {"inherit", "timeout"} => AllHeld)
BY DEF NothingHeld, GivenBack, AllHeld, Holds, ReadEnds, WriteEnds

\* what a pass of a reading loop leaves alone, and where it goes
LEMMA ReadControl ==
    ASSUME Reads
    PROVE  /\ kind' = kind /\ ends' = ends /\ child' = child /\ prog' = prog /\ pos' = pos /\ code' = code
           /\ exited' = exited /\ now' = now /\ duration' = duration /\ killed' = killed
           /\ pc \in Reading
           /\ \/ pc' = pc /\ result' = result /\ faults' = faults
              \/ pc' = AfterReading /\ result' = result /\ faults' = faults
              \/ pc' = AfterReading /\ result' = result /\ faults' = faults \cup {"broken"} /\ Fault
              \/ pc' = "returned" /\ result' = Failed /\ faults' = faults \cup {"read"} /\ Fault
BY DEF Reads, read_stdout, read_stderr, read_output, ReadLoop, Return, childVars, Reading, AfterReading

\* every use stays on its own path
LEMMA KindsKept ==
    ASSUME kind \in Kinds, KindsInv, [ProcessNext]_processVars
    PROVE  KindsInv'
<1> USE DEF KindsInv, Kinds, Reading
<1>0. CASE UNCHANGED processVars
    BY <1>0 DEF processVars
<1>1. CASE StdoutPipe
    BY <1>1 DEF StdoutPipe
<1>2. CASE StderrPipe
    BY <1>2 DEF StderrPipe
<1>3. CASE OpenPty
    BY <1>3 DEF OpenPty
<1>4. CASE Spawn
    BY <1>4 DEF Spawn
<1>5. CASE CloseAfterFork
    BY <1>5 DEF CloseAfterFork, AfterSpawn
<1>6. CASE Reads
    BY <1>6, ReadControl DEF AfterReading
<1>7. CASE terminate
    BY <1>7 DEF terminate, Return
<1>8. CASE wait
    BY <1>8 DEF wait, Return
<1>9. CASE drop
    BY <1>9 DEF drop
<1>10. CASE TryWait
    BY <1>10 DEF TryWait, Return
<1>11. CASE TimeoutKill
    BY <1>11 DEF TimeoutKill
<1>12. CASE TimeoutReap
    BY <1>12 DEF TimeoutReap, Return
<1>13. CASE EmptyArgv
    BY <1>13 DEF EmptyArgv
<1>14. CASE TimeoutUsage
    BY <1>14 DEF TimeoutUsage
<1>15. CASE WaitAgain
    BY <1>15 DEF WaitAgain
<1>16. CASE Tick
    BY <1>16 DEF Tick
<1>17. CASE ChildWrite
    BY <1>17 DEF ChildWrite
<1>18. CASE ChildExit
    BY <1>18 DEF ChildExit
<1>19. CASE Rest
    BY <1>19 DEF Rest, processVars
<1> QED
  BY <1>0, <1>1, <1>2, <1>3, <1>4, <1>5, <1>6, <1>7, <1>8, <1>9, <1>10, <1>11, <1>12, <1>13,
     <1>14, <1>15, <1>16, <1>17, <1>18, <1>19 DEF ProcessNext, Parent, Reads, ChildStep

\* each place hands the descriptors it holds on to the next one, or closes them
LEMMA EndsKept ==
    ASSUME kind \in Kinds, KindsInv, EndsInv, ChildInv, [ProcessNext]_processVars
    PROVE  EndsInv'
<1> USE DEF KindsInv, EndsInv, ChildInv, Kinds, InUse, Using, Reading
<1>0. CASE UNCHANGED processVars
    BY <1>0, SameEnds DEF processVars
<1>1. CASE StdoutPipe
    BY <1>1 DEF StdoutPipe, Opened, NothingHeld, FirstHeld, GivenBack, Holds
<1>2. CASE StderrPipe
    BY <1>2 DEF StderrPipe, Opened, UndoStdoutPipe, fd_close, FirstHeld, AllHeld, GivenBack,
       Holds, ReadEnds, WriteEnds
<1>3. CASE OpenPty
    BY <1>3 DEF OpenPty, Opened, NothingHeld, AllHeld, PtyHeld, GivenBack, Holds, ReadEnds,
       WriteEnds
<1>4. CASE Spawn
    BY <1>4, SameEnds, FromNothing DEF Spawn
<1>5. CASE CloseAfterFork
    BY <1>5 DEF CloseAfterFork, fd_close, AfterSpawn, AllHeld, ReadersHeld, GivenBack, Holds,
       ReadEnds, WriteEnds
<1>6. CASE Reads
    BY <1>6, SameEnds, ReadControl DEF AfterReading
<1>7. CASE terminate
    BY <1>7, SameEnds DEF terminate, Return
<1>8. CASE wait
    BY <1>8, SameEnds DEF wait, Return
<1>9. CASE drop
    BY <1>9 DEF drop, fd_close, ReadersHeld, PtyHeld, GivenBack, Holds, ReadEnds
<1>10. CASE TryWait
    BY <1>10, SameEnds DEF TryWait, Return
<1>11. CASE TimeoutKill
    BY <1>11, SameEnds DEF TimeoutKill
<1>12. CASE TimeoutReap
    BY <1>12, SameEnds DEF TimeoutReap, Return
<1>13. CASE EmptyArgv
    BY <1>13, SameEnds, FromNothing DEF EmptyArgv
<1>14. CASE TimeoutUsage
    BY <1>14, SameEnds, FromNothing DEF TimeoutUsage
<1>15. CASE WaitAgain
    BY <1>15, SameEnds DEF WaitAgain
<1>16. CASE Tick
    BY <1>16, SameEnds DEF Tick
<1>17. CASE ChildWrite
    BY <1>17, SameEnds DEF ChildWrite
<1>18. CASE ChildExit
    BY <1>18, SameEnds DEF ChildExit
<1>19. CASE Rest
    BY <1>19, SameEnds DEF Rest, processVars
<1> QED
  BY <1>0, <1>1, <1>2, <1>3, <1>4, <1>5, <1>6, <1>7, <1>8, <1>9, <1>10, <1>11, <1>12, <1>13,
     <1>14, <1>15, <1>16, <1>17, <1>18, <1>19 DEF ProcessNext, Parent, Reads, ChildStep

\* the handle says that the child was waited for exactly when it was
LEMMA ChildKept ==
    ASSUME kind \in Kinds, child \in {"none", "running", "zombie", "reaped"}, exited \in
           BOOLEAN, KindsInv, ChildInv, [ProcessNext]_processVars
    PROVE  ChildInv'
<1> USE DEF KindsInv, ChildInv, Kinds, InUse, Using, Reading
<1>0. CASE UNCHANGED processVars
    BY <1>0 DEF processVars
<1>1. CASE StdoutPipe
    BY <1>1 DEF StdoutPipe, childVars
<1>2. CASE StderrPipe
    BY <1>2 DEF StderrPipe, childVars
<1>3. CASE OpenPty
    BY <1>3 DEF OpenPty, childVars
<1>4. CASE Spawn
    BY <1>4 DEF Spawn
<1>5. CASE CloseAfterFork
    BY <1>5 DEF CloseAfterFork, AfterSpawn, childVars
<1>6. CASE Reads
    BY <1>6, ReadControl DEF AfterReading
<1>7. CASE terminate
    BY <1>7 DEF terminate, Return
<1>8. CASE wait
<2>1. pc = "wait" /\ pc' = "returned" /\ kind' = kind  BY <1>8 DEF wait, Return
<2>2. CASE exited /\ UNCHANGED <<child, exited>>  BY <2>1, <2>2
<2>3. CASE child = "zombie" /\ child' = "reaped" /\ exited' = TRUE  BY <2>1, <2>3
<2>4. CASE UNCHANGED <<child, exited>>  BY <2>1, <2>4
<2> QED  BY <1>8, <2>2, <2>3, <2>4 DEF wait
<1>9. CASE drop
    BY <1>9 DEF drop, childVars
<1>10. CASE TryWait
    BY <1>10 DEF TryWait, Return
<1>11. CASE TimeoutKill
    BY <1>11 DEF TimeoutKill
<1>12. CASE TimeoutReap
    BY <1>12 DEF TimeoutReap, Return
<1>13. CASE EmptyArgv
    BY <1>13 DEF EmptyArgv, childVars
<1>14. CASE TimeoutUsage
    BY <1>14 DEF TimeoutUsage
<1>15. CASE WaitAgain
    BY <1>15 DEF WaitAgain, childVars
<1>16. CASE Tick
    BY <1>16 DEF Tick, childVars
<1>17. CASE ChildWrite
    BY <1>17 DEF ChildWrite
<1>18. CASE ChildExit
    BY <1>18 DEF ChildExit
<1>19. CASE Rest
    BY <1>19 DEF Rest, processVars
<1> QED
  BY <1>0, <1>1, <1>2, <1>3, <1>4, <1>5, <1>6, <1>7, <1>8, <1>9, <1>10, <1>11, <1>12, <1>13,
     <1>14, <1>15, <1>16, <1>17, <1>18, <1>19 DEF ProcessNext, Parent, Reads, ChildStep

\* a status is returned by the wait that reaps, and by no other
LEMMA StatusKept ==
    ASSUME kind \in Kinds, child \in {"none", "running", "zombie", "reaped"}, exited \in
           BOOLEAN, code \in {7, 137, 141, 143}, KindsInv, ChildInv, StatusMeansReaped,
           [ProcessNext]_processVars
    PROVE  StatusMeansReaped'
<1> USE DEF KindsInv, ChildInv, StatusMeansReaped, Kinds, InUse, Using, Reading
<1>0. CASE UNCHANGED processVars
    BY <1>0 DEF processVars
<1>1. CASE StdoutPipe
    BY <1>1, Verdicts DEF StdoutPipe
<1>2. CASE StderrPipe
    BY <1>2, Verdicts DEF StderrPipe
<1>3. CASE OpenPty
    BY <1>3, Verdicts DEF OpenPty
<1>4. CASE Spawn
    BY <1>4, Verdicts DEF Spawn
<1>5. CASE CloseAfterFork
    BY <1>5 DEF CloseAfterFork, AfterSpawn
<1>6. CASE Reads
    BY <1>6, Verdicts, ReadControl DEF AfterReading
<1>7. CASE terminate
    BY <1>7, Verdicts DEF terminate, Return
<1>8. CASE wait
    BY <1>8, Verdicts DEF wait, Return
<1>9. CASE drop
    BY <1>9 DEF drop, childVars
<1>10. CASE TryWait
    BY <1>10, Verdicts DEF TryWait, Return
<1>11. CASE TimeoutKill
    BY <1>11 DEF TimeoutKill
<1>12. CASE TimeoutReap
    BY <1>12 DEF TimeoutReap, Return
<1>13. CASE EmptyArgv
    BY <1>13 DEF EmptyArgv
<1>14. CASE TimeoutUsage
    BY <1>14 DEF TimeoutUsage
<1>15. CASE WaitAgain
    BY <1>15 DEF WaitAgain
<1>16. CASE Tick
    BY <1>16 DEF Tick
<1>17. CASE ChildWrite
    BY <1>17 DEF ChildWrite
<1>18. CASE ChildExit
    BY <1>18 DEF ChildExit
<1>19. CASE Rest
    BY <1>19 DEF Rest, processVars
<1> QED
  BY <1>0, <1>1, <1>2, <1>3, <1>4, <1>5, <1>6, <1>7, <1>8, <1>9, <1>10, <1>11, <1>12, <1>13,
     <1>14, <1>15, <1>16, <1>17, <1>18, <1>19 DEF ProcessNext, Parent, Reads, ChildStep

\* the loop of timeout kills, and answers 124, only after the deadline
LEMMA TimeoutKept ==
    ASSUME kind \in Kinds, child \in {"none", "running", "zombie", "reaped"}, code \in {7, 137,
           141, 143}, now \in Nat, duration \in Nat, KindsInv, ChildInv, TimeoutInv,
           [ProcessNext]_processVars
    PROVE  TimeoutInv'
<1> USE DEF KindsInv, ChildInv, TimeoutInv, Kinds, Reading
<1>0. CASE UNCHANGED processVars
    BY <1>0 DEF processVars
<1>1. CASE StdoutPipe
    BY <1>1 DEF StdoutPipe
<1>2. CASE StderrPipe
    BY <1>2 DEF StderrPipe
<1>3. CASE OpenPty
    BY <1>3 DEF OpenPty
<1>4. CASE Spawn
    BY <1>4 DEF Spawn
<1>5. CASE CloseAfterFork
    BY <1>5 DEF CloseAfterFork, AfterSpawn
<1>6. CASE Reads
    BY <1>6, ReadControl
<1>7. CASE terminate
    BY <1>7 DEF terminate
<1>8. CASE wait
    BY <1>8 DEF wait
<1>9. CASE drop
    BY <1>9 DEF drop, childVars
<1>10. CASE TryWait
    BY <1>10, Verdicts DEF TryWait, Overdue, Return
<1>11. CASE TimeoutKill
    BY <1>11 DEF TimeoutKill
<1>12. CASE TimeoutReap
    BY <1>12 DEF TimeoutReap, Return
<1>13. CASE EmptyArgv
    BY <1>13 DEF EmptyArgv
<1>14. CASE TimeoutUsage
    BY <1>14 DEF TimeoutUsage
<1>15. CASE WaitAgain
    BY <1>15 DEF WaitAgain
<1>16. CASE Tick
    BY <1>16 DEF Tick
<1>17. CASE ChildWrite
    BY <1>17 DEF ChildWrite
<1>18. CASE ChildExit
    BY <1>18 DEF ChildExit
<1>19. CASE Rest
    BY <1>19 DEF Rest, processVars
<1> QED
  BY <1>0, <1>1, <1>2, <1>3, <1>4, <1>5, <1>6, <1>7, <1>8, <1>9, <1>10, <1>11, <1>12, <1>13,
     <1>14, <1>15, <1>16, <1>17, <1>18, <1>19 DEF ProcessNext, Parent, Reads, ChildStep

-----------------------------------------------------------------------------
\* The output of the child

\* n entries of the pipe of stream s are read
Moved(s, n) == /\ got' = [got EXCEPT ![s] = @ \o SubSeq(pipe[s], 1, n)]
               /\ pipe' = [pipe EXCEPT ![s] = SubSeq(@, n + 1, Len(@))]

BeingRead == CASE pc = "read_stdout" -> "out" [] pc = "read_stderr" -> "err" [] OTHER -> "pty"

\* what a pass of a reading loop takes, and where it goes when it takes nothing
LEMMA ReadData ==
    ASSUME Reads
    PROVE  \/ /\ \E n \in 1 .. ReadSize : n <= Len(pipe[BeingRead]) /\ Moved(BeingRead, n)
              /\ pc' = pc /\ faults' = faults
           \/ /\ pipe' = pipe /\ got' = got
              /\ \/ pc' = AfterReading /\ faults' = faults /\ AtEof(BeingRead)
                 \/ faults' = faults \cup {"broken"}
                 \/ faults' = faults \cup {"read"}
BY DEF Reads, read_stdout, read_stderr, read_output, ReadLoop, Collect, BeingRead, AfterReading, Moved

\* ranges and orders of sequences of numbers, by their indices
LEMMA Ranges == \A q \in Seq(Nat) : /\ \A x : x \in Range(q) <=> \E i \in 1 .. Len(q) : x = q[i]
                                    /\ Rising(q) <=> \A i, j \in 1 .. Len(q) : i < j => q[i] < q[j]
<1> SUFFICES ASSUME NEW q \in Seq(Nat)
             PROVE /\ \A x : x \in Range(q) <=> \E i \in 1 .. Len(q) : x = q[i]
                   /\ Rising(q) <=> \A i, j \in 1 .. Len(q) : i < j => q[i] < q[j]
    OBVIOUS
<1>1. DOMAIN q = 1 .. Len(q)  OBVIOUS
<1>2. \A x : x \in Range(q) <=> \E i \in 1 .. Len(q) : x = q[i]  BY <1>1 DEF Range
<1>3. Rising(q) <=> \A i, j \in 1 .. Len(q) : i < j => q[i] < q[j]  BY <1>1 DEF Rising
<1> QED  BY <1>2, <1>3

\* a greater number at the end keeps the order
LEMMA Appended ==
    ASSUME NEW q \in Seq(Nat), NEW p \in Nat, Rising(q), \A x \in Range(q) : x < p
    PROVE  Rising(Append(q, p)) /\ Range(Append(q, p)) = Range(q) \cup {p}
<1>1. Append(q, p) \in Seq(Nat) /\ Len(Append(q, p)) = Len(q) + 1  OBVIOUS
<1>2. \A i \in 1 .. Len(q) : Append(q, p)[i] = q[i] /\ q[i] < p  BY DEF Range
<1>3. Append(q, p)[Len(q) + 1] = p  OBVIOUS
<1>4. Rising(Append(q, p))  BY <1>1, <1>2, <1>3 DEF Rising
<1>5. Range(Append(q, p)) = Range(q) \cup {p}
    <2> DEFINE a == Append(q, p)  n == Len(q)
    <2>1. a \in Seq(Nat) /\ n \in Nat /\ Len(a) = n + 1 /\ a[n + 1] = p  BY <1>1, <1>3
    <2>2. \A i \in 1 .. n : a[i] = q[i]  BY <1>2
    <2>4. \A x : x \in Range(q) <=> \E i \in 1 .. n : x = q[i]  BY Ranges
    <2> HIDE DEF a, n
    <2>3. \A x : x \in Range(a) <=> \E i \in 1 .. n + 1 : x = a[i]
        <3>1. \A x : x \in Range(a) <=> \E i \in 1 .. Len(a) : x = a[i]  BY <2>1, Ranges
        <3> QED  BY <2>1, <3>1
    <2>5. ASSUME NEW x \in Range(a)  PROVE x \in Range(q) \/ x = p
        <3>1. PICK i \in 1 .. n + 1 : x = a[i]  BY <2>3
        <3>2. i \in 1 .. n \/ i = n + 1  BY <2>1
        <3> QED  BY <2>1, <2>2, <2>4, <3>1, <3>2
    <2>6. ASSUME NEW x \in Range(q)  PROVE x \in Range(a)
        <3>1. PICK i \in 1 .. n : x = q[i]  BY <2>4
        <3>2. i \in 1 .. n + 1  BY <2>1
        <3> QED  BY <2>2, <2>3, <3>1, <3>2
    <2>7. p \in Range(a)
        <3>1. n + 1 \in 1 .. n + 1  BY <2>1
        <3> QED  BY <2>1, <2>3, <3>1
    <2>8. Range(a) = Range(q) \cup {p}  BY <2>5, <2>6, <2>7
    <2> QED  BY <2>8 DEF a
<1> QED  BY <1>4, <1>5

Grown(g, q, n) == g \o SubSeq(q, 1, n)
Left(q, n) == SubSeq(q, n + 1, Len(q))

\* what a read moves from a pipe to what is collected keeps the order
LEMMA Taken ==
    ASSUME NEW g \in Seq(Nat), NEW q \in Seq(Nat), NEW n \in 1 .. Len(q), Rising(g), Rising(q),
           \A x \in Range(g), y \in Range(q) : x < y
    PROVE  /\ Grown(g, q, n) \in Seq(Nat) /\ Left(q, n) \in Seq(Nat) /\ Len(Left(q, n)) <= Len(q)
           /\ Rising(Grown(g, q, n)) /\ Rising(Left(q, n))
           /\ \A x \in Range(Grown(g, q, n)), y \in Range(Left(q, n)) : x < y
           /\ Range(Grown(g, q, n)) \cup Range(Left(q, n)) = Range(g) \cup Range(q)
<1> DEFINE a == SubSeq(q, 1, n)
           t == SubSeq(q, n + 1, Len(q))
           h == g \o a
           G == Len(g)
           Q == Len(q)
<1>1. a \in Seq(Nat) /\ Len(a) = n /\ \A i \in 1 .. n : a[i] = q[i]  OBVIOUS
<1>2. t \in Seq(Nat) /\ Len(t) = Len(q) - n /\ \A i \in 1 .. Len(q) - n : t[i] = q[n + i]  OBVIOUS
<1>3. h \in Seq(Nat) /\ Len(h) = Len(g) + n  BY <1>1
<1>4. \A i \in 1 .. Len(g) : h[i] = g[i]  BY <1>1
<1>5. \A i \in 1 .. n : h[Len(g) + i] = q[i]  BY <1>1
<1>6. G \in Nat /\ Q \in Nat /\ n \in 1 .. Q  OBVIOUS
<1>7. \A i \in 1 .. G : g[i] \in Nat  OBVIOUS
<1>8. \A i \in 1 .. Q : q[i] \in Nat  OBVIOUS
<1>9. \A i, j \in 1 .. G : i < j => g[i] < g[j]  BY Ranges
<1>10. \A i, j \in 1 .. Q : i < j => q[i] < q[j]  BY Ranges
<1>11. \A i \in 1 .. G, j \in 1 .. Q : g[i] < q[j]  BY Ranges
<1>12. \A x : x \in Range(g) <=> \E i \in 1 .. G : x = g[i]  BY Ranges
<1>13. \A x : x \in Range(q) <=> \E i \in 1 .. Q : x = q[i]  BY Ranges
<1>14. \A x : x \in Range(h) <=> \E i \in 1 .. G + n : x = h[i]  BY Ranges, <1>3
<1> HIDE DEF a, t, h, G, Q
<1>28. \A i \in 1 .. G : h[i] = g[i]  BY <1>4 DEF G
<1>29. \A i \in 1 .. n : h[G + i] = q[i]  BY <1>5 DEF G
<1>30. Len(t) = Q - n /\ \A i \in 1 .. Q - n : t[i] = q[n + i]  BY <1>2 DEF Q
<1>15. \A x : x \in Range(t) <=> \E i \in 1 .. Q - n : x = t[i]  BY Ranges, <1>2, <1>30
<1>16. \A i \in 1 .. G + n : \/ i \in 1 .. G /\ h[i] = g[i]
                             \/ i - G \in 1 .. n /\ i - G \in 1 .. Q /\ h[i] = q[i - G]
    <2> TAKE i \in 1 .. G + n
    <2>1. CASE i <= G  BY <1>28, <1>6, <2>1
    <2>2. CASE i > G
        <3>1. i - G \in 1 .. n /\ i - G \in 1 .. Q /\ G + (i - G) = i  BY <1>6, <2>2
        <3> QED  BY <1>29, <3>1
    <2> QED  BY <1>6, <2>1, <2>2
<1>17. \A i \in 1 .. Q - n : n + i \in 1 .. Q /\ t[i] = q[n + i]  BY <1>30, <1>6
<1>18. \A i, j \in 1 .. G + n : i < j => h[i] < h[j]
    <2> SUFFICES ASSUME NEW i \in 1 .. G + n, NEW j \in 1 .. G + n, i < j  PROVE h[i] < h[j]  OBVIOUS
    <2>1. CASE i \in 1 .. G /\ h[i] = g[i]  BY <1>6, <1>9, <1>11, <1>16, <2>1
    <2>2. CASE i - G \in 1 .. n /\ i - G \in 1 .. Q /\ h[i] = q[i - G]
        <3>1. j - G \in 1 .. n /\ j - G \in 1 .. Q /\ h[j] = q[j - G] /\ i - G < j - G  BY <1>6, <1>16, <2>2
        <3> QED  BY <1>10, <2>2, <3>1
    <2> QED  BY <1>16, <2>1, <2>2
<1>19. \A i, j \in 1 .. Q - n : i < j => t[i] < t[j]
    <2> SUFFICES ASSUME NEW i \in 1 .. Q - n, NEW j \in 1 .. Q - n, i < j  PROVE t[i] < t[j]  OBVIOUS
    <2>1. n + i < n + j  BY <1>6
    <2> QED  BY <1>10, <1>17, <2>1
<1>20. \A i \in 1 .. G + n, j \in 1 .. Q - n : h[i] < t[j]
    <2> TAKE i \in 1 .. G + n, j \in 1 .. Q - n
    <2>1. t[j] = q[n + j] /\ n + j \in 1 .. Q  BY <1>17
    <2>2. CASE i \in 1 .. G /\ h[i] = g[i]  BY <1>11, <2>1, <2>2
    <2>3. CASE i - G \in 1 .. n /\ i - G \in 1 .. Q /\ h[i] = q[i - G]
        <3>1. i - G < n + j  BY <1>6, <2>3
        <3> QED  BY <1>10, <2>1, <2>3, <3>1
    <2> QED  BY <1>16, <2>2, <2>3
<1>21. \A x \in Range(h), y \in Range(t) : x < y
    <2> TAKE x \in Range(h), y \in Range(t)
    <2>1. PICK i \in 1 .. G + n : x = h[i]  BY <1>14
    <2>2. PICK j \in 1 .. Q - n : y = t[j]  BY <1>15
    <2> QED  BY <1>20, <2>1, <2>2
<1>22. Range(h) \subseteq Range(g) \cup Range(q)
    <2> SUFFICES ASSUME NEW x \in Range(h)  PROVE x \in Range(g) \/ x \in Range(q)  OBVIOUS
    <2>1. PICK i \in 1 .. G + n : x = h[i]  BY <1>14
    <2>2. CASE i \in 1 .. G /\ h[i] = g[i]  BY <1>12, <2>1, <2>2
    <2>3. CASE i - G \in 1 .. n /\ i - G \in 1 .. Q /\ h[i] = q[i - G]  BY <1>13, <2>1, <2>3
    <2> QED  BY <1>16, <2>2, <2>3
<1>23. Range(t) \subseteq Range(q)  BY <1>13, <1>15, <1>17
<1>24. Range(g) \subseteq Range(h)
    <2> SUFFICES ASSUME NEW i \in 1 .. G  PROVE g[i] \in Range(h)  BY <1>12
    <2>1. i \in 1 .. G + n  BY <1>6
    <2> QED  BY <1>28, <1>14, <2>1
<1>25. Range(q) \subseteq Range(h) \cup Range(t)
    <2> SUFFICES ASSUME NEW i \in 1 .. Q  PROVE q[i] \in Range(h) \cup Range(t)  BY <1>13
    <2>1. CASE i <= n
        <3>1. i \in 1 .. n /\ G + i \in 1 .. G + n  BY <1>6, <2>1
        <3> QED  BY <1>29, <1>14, <3>1
    <2>2. CASE i > n
        <3>1. i - n \in 1 .. Q - n /\ n + (i - n) = i  BY <1>6, <2>2
        <3> QED  BY <1>15, <1>17, <3>1
    <2> QED  BY <1>6, <2>1, <2>2
<1>26. Rising(h) /\ Rising(t)  BY Ranges, <1>2, <1>3, <1>18, <1>19 DEF G, Q
<1>27. Len(t) <= Len(q)  BY <1>2, <1>6 DEF Q
<1>31. Range(h) \cup Range(t) = Range(g) \cup Range(q)  BY <1>22, <1>23, <1>24, <1>25
<1> QED  BY <1>2, <1>3, <1>21, <1>26, <1>27, <1>31 DEF a, t, h, Grown, Left

\* one more failing call stays within the bound
LEMMA FaultCounted ==
    ASSUME IsFiniteSet(faults), Fault, NEW what
    PROVE  IsFiniteSet(faults \cup {what}) /\ Cardinality(faults \cup {what}) <= MaxFaults
<1>1. Cardinality(faults) \in Nat  BY FS_CardinalityType
<1>2. MaxFaults \in Nat /\ Cardinality(faults) < MaxFaults  BY WasiProcessAssumption DEF Fault
<1>3. /\ IsFiniteSet(faults \cup {what})
      /\ Cardinality(faults \cup {what}) = Cardinality(faults) \/ Cardinality(faults \cup {what}) = Cardinality(faults) + 1
      BY FS_AddElement
<1> QED  BY <1>1, <1>2, <1>3

\* a step that neither reads nor writes
LEMMA SameData ==
    ASSUME DataInv, got' = got, pipe' = pipe, pos' = pos, kind' = kind, prog' = prog
    PROVE  DataInv'
BY DEF DataInv, Captured, Steps, StreamOf

\* a read moves the front of a pipe behind what was collected
LEMMA DataMoved ==
    ASSUME pipe \in [Streams -> Seq(Nat)], got \in [Streams -> Seq(Nat)], DataInv,
           NEW s \in Streams, NEW n \in 1 .. Len(pipe[s]), pos' = pos, kind' = kind, prog' = prog,
           Moved(s, n)
    PROVE  DataInv' /\ pipe' \in [Streams -> Seq(Nat)] /\ got' \in [Streams -> Seq(Nat)] /\ Len(pipe'[s]) <= Len(pipe[s])
<1>1. got'[s] = Grown(got[s], pipe[s], n) /\ pipe'[s] = Left(pipe[s], n)  BY DEF Moved, Grown, Left
<1>2. \A r \in Streams \ {s} : got'[r] = got[r] /\ pipe'[r] = pipe[r]  BY DEF Moved
<1>3. /\ Rising(got[s]) /\ Rising(pipe[s]) /\ \A x \in Range(got[s]), y \in Range(pipe[s]) : x < y
    BY DEF DataInv
<1>4. got[s] \in Seq(Nat) /\ pipe[s] \in Seq(Nat)  OBVIOUS
<1>5. /\ got'[s] \in Seq(Nat) /\ pipe'[s] \in Seq(Nat) /\ Len(pipe'[s]) <= Len(pipe[s])
      /\ Rising(got'[s]) /\ Rising(pipe'[s]) /\ \A x \in Range(got'[s]), y \in Range(pipe'[s]) : x < y
      /\ Range(got'[s]) \cup Range(pipe'[s]) = Range(got[s]) \cup Range(pipe[s])
    BY <1>1, <1>3, <1>4, Taken
<1>6. Captured' = Captured /\ \A r : Steps(r, pos - 1)' = Steps(r, pos - 1)  BY DEF Captured, Steps, StreamOf
<1>7. SUFFICES ASSUME NEW r \in Streams
               PROVE  /\ Rising(got'[r]) /\ Rising(pipe'[r])
                      /\ \A x \in Range(got'[r]), y \in Range(pipe'[r]) : x < y
                      /\ \A x \in Range(got'[r]) \cup Range(pipe'[r]) : x < pos
                      /\ Captured => Range(got'[r]) \cup Range(pipe'[r]) = Steps(r, pos - 1)
    BY <1>5, <1>6 DEF DataInv, Moved
<1>8. /\ Rising(got[r]) /\ Rising(pipe[r]) /\ \A x \in Range(got[r]), y \in Range(pipe[r]) : x < y
      /\ \A x \in Range(got[r]) \cup Range(pipe[r]) : x < pos
      /\ Captured => Range(got[r]) \cup Range(pipe[r]) = Steps(r, pos - 1)
    BY DEF DataInv
<1>9. CASE r = s  BY <1>5, <1>8, <1>9
<1>10. CASE r # s  BY <1>2, <1>8, <1>10
<1> QED  BY <1>9, <1>10

\* the child writes the step it is at
LEMMA DataWritten ==
    ASSUME prog \in Seq({"out", "err", "sleep"}), pos \in 1 .. Len(prog),
           pipe \in [Streams -> Seq(Nat)], got \in [Streams -> Seq(Nat)], DataInv,
           NEW s \in Streams, s = StreamOf(prog[pos]), pos' = pos + 1, kind' = kind, prog' = prog, got' = got,
           pipe' = [pipe EXCEPT ![s] = Append(@, pos)]
    PROVE  DataInv' /\ pipe' \in [Streams -> Seq(Nat)] /\ Len(pipe'[s]) = Len(pipe[s]) + 1
<1>1. pipe'[s] = Append(pipe[s], pos)  OBVIOUS
<1>2. \A r \in Streams \ {s} : pipe'[r] = pipe[r]  OBVIOUS
<1>3. Rising(pipe[s]) /\ (\A x \in Range(pipe[s]) : x < pos) /\ pipe[s] \in Seq(Nat) /\ pos \in Nat
    BY DEF DataInv
<1>4. Rising(pipe'[s]) /\ Range(pipe'[s]) = Range(pipe[s]) \cup {pos}  BY <1>1, <1>3, Appended
<1>5. pipe'[s] \in Seq(Nat) /\ Len(pipe'[s]) = Len(pipe[s]) + 1  BY <1>1, <1>3
<1>6. Captured' = Captured /\ \A r : Steps(r, pos - 1)' = Steps(r, pos)  BY DEF Captured, Steps, StreamOf
<1>7. \A r : Steps(r, pos) = IF r = s THEN Steps(r, pos - 1) \cup {pos} ELSE Steps(r, pos - 1)  BY DEF Steps
<1>8. SUFFICES ASSUME NEW r \in Streams
               PROVE  /\ Rising(got[r]) /\ Rising(pipe'[r])
                      /\ \A x \in Range(got[r]), y \in Range(pipe'[r]) : x < y
                      /\ \A x \in Range(got[r]) \cup Range(pipe'[r]) : x < pos + 1
                      /\ Captured => Range(got[r]) \cup Range(pipe'[r]) = Steps(r, pos)
    BY <1>5, <1>6 DEF DataInv
<1>9. /\ Rising(got[r]) /\ Rising(pipe[r]) /\ \A x \in Range(got[r]), y \in Range(pipe[r]) : x < y
      /\ \A x \in Range(got[r]) \cup Range(pipe[r]) : x < pos
      /\ Captured => Range(got[r]) \cup Range(pipe[r]) = Steps(r, pos - 1)
    BY DEF DataInv
<1>10. Range(got[r]) \subseteq Nat /\ Range(pipe[r]) \subseteq Nat
    <2>1. got[r] \in Seq(Nat) /\ pipe[r] \in Seq(Nat)  OBVIOUS
    <2>2. ASSUME NEW q \in Seq(Nat), NEW x \in Range(q)  PROVE x \in Nat
        <3>1. PICK i \in 1 .. Len(q) : x = q[i]  BY Ranges
        <3> QED  BY <3>1
    <2> QED  BY <2>1, <2>2
<1>11. CASE r = s
    <2>1. Rising(pipe'[r]) /\ Range(pipe'[r]) = Range(pipe[r]) \cup {pos}  BY <1>4, <1>11
    <2>5. pos < pos + 1 /\ \A x \in Nat : x < pos => x < pos + 1  BY <1>3
    <2>6. \A x \in Range(got[r]) \cup Range(pipe[r]) : x < pos + 1  BY <1>9, <1>10, <2>5
    <2>2. \A x \in Range(got[r]) \cup Range(pipe'[r]) : x < pos + 1  BY <2>1, <2>5, <2>6
    <2>3. \A x \in Range(got[r]), y \in Range(pipe'[r]) : x < y  BY <1>9, <2>1
    <2>4. Captured => Range(got[r]) \cup Range(pipe'[r]) = Steps(r, pos)  BY <1>7, <1>9, <1>11, <2>1
    <2> QED  BY <1>9, <2>1, <2>2, <2>3, <2>4
<1>12. CASE r # s  BY <1>2, <1>7, <1>9, <1>10, <1>12
<1> QED  BY <1>11, <1>12

\* and one that nobody reads
LEMMA DataIgnored ==
    ASSUME pos \in Nat, got \in [Streams -> Seq(Nat)], pipe \in [Streams -> Seq(Nat)], DataInv, ~Captured,
           pos' = pos + 1, kind' = kind, got' = got, pipe' = pipe
    PROVE  DataInv'
<1>1. ~Captured'  BY DEF Captured
<1>2. \A s \in Streams : Range(got[s]) \subseteq Nat /\ Range(pipe[s]) \subseteq Nat  BY DEF Range
<1> QED  BY <1>1, <1>2 DEF DataInv

\* the three ways a step of the child goes
LEMMA WriteData ==
    ASSUME ChildWrite, prog \in Seq({"out", "err", "sleep"}), pos \in 1 .. Len(prog) + 1
    PROVE  /\ prog' = prog /\ kind' = kind /\ got' = got /\ pos \in 1 .. Len(prog)
           /\ StreamOf(prog[pos]) \in Streams
           /\ \/ ~Captured /\ pos' = pos + 1 /\ pipe' = pipe
              \/ Captured /\ pos' = pos /\ pipe' = pipe /\ ends[ReaderOf(StreamOf(prog[pos]))] # "open"
              \/ /\ Captured /\ pos' = pos + 1 /\ Len(pipe[StreamOf(prog[pos])]) < Cap
                 /\ pipe' = [pipe EXCEPT ![StreamOf(prog[pos])] = Append(@, pos)]
BY DEF ChildWrite, StreamOf, Streams

\* nothing is lost, doubled or reordered between the child and the caller
LEMMA DataKept ==
    ASSUME kind \in Kinds, child \in {"none", "running", "zombie", "reaped"}, prog \in
           Seq({"out", "err", "sleep"}), pos \in 1 .. Len(prog) + 1,
           pipe \in [Streams -> Seq(Nat)], got \in [Streams -> Seq(Nat)],
           DataInv, [ProcessNext]_processVars
    PROVE  DataInv'
<1> USE DEF Kinds
<1>0. CASE UNCHANGED processVars
    BY <1>0, SameData DEF processVars
<1>1. CASE StdoutPipe
    BY <1>1, SameData DEF StdoutPipe, childVars
<1>2. CASE StderrPipe
    BY <1>2, SameData DEF StderrPipe, childVars
<1>3. CASE OpenPty
    BY <1>3, SameData DEF OpenPty, childVars
<1>4. CASE Spawn
    BY <1>4, SameData DEF Spawn
<1>5. CASE CloseAfterFork
    BY <1>5, SameData DEF CloseAfterFork, childVars
<1>6. CASE Reads
    <2>1. BeingRead \in Streams  BY DEF BeingRead, Streams
    <2>2. pos' = pos /\ kind' = kind /\ prog' = prog  BY <1>6, ReadControl
    <2>3. CASE got' = got /\ pipe' = pipe  BY <2>2, <2>3, SameData
    <2>4. CASE ~(got' = got /\ pipe' = pipe)
        <3>1. PICK n \in 1 .. ReadSize : n <= Len(pipe[BeingRead]) /\ Moved(BeingRead, n)
            BY <1>6, <2>4, ReadData
        <3>2. n \in 1 .. Len(pipe[BeingRead])  BY <2>1, <3>1, WasiProcessAssumption
        <3> QED  BY <2>1, <2>2, <3>1, <3>2, DataMoved
    <2> QED  BY <2>3, <2>4
<1>7. CASE terminate
    BY <1>7, SameData DEF terminate
<1>8. CASE wait
    BY <1>8, SameData DEF wait
<1>9. CASE drop
    BY <1>9, SameData DEF drop, childVars
<1>10. CASE TryWait
    BY <1>10, SameData DEF TryWait
<1>11. CASE TimeoutKill
    BY <1>11, SameData DEF TimeoutKill
<1>12. CASE TimeoutReap
    BY <1>12, SameData DEF TimeoutReap
<1>13. CASE EmptyArgv
    BY <1>13, SameData DEF EmptyArgv, childVars
<1>14. CASE TimeoutUsage
    BY <1>14, SameData DEF TimeoutUsage, childVars
<1>15. CASE WaitAgain
    BY <1>15, SameData DEF WaitAgain, childVars
<1>16. CASE Tick
    BY <1>16, SameData DEF Tick, childVars
<1>17. CASE ChildWrite
    BY <1>17, WriteData, SameData, DataWritten, DataIgnored
<1>18. CASE ChildExit
    BY <1>18, SameData DEF ChildExit
<1>19. CASE Rest
    BY <1>19, SameData DEF Rest, processVars
<1> QED
  BY <1>0, <1>1, <1>2, <1>3, <1>4, <1>5, <1>6, <1>7, <1>8, <1>9, <1>10, <1>11, <1>12, <1>13,
     <1>14, <1>15, <1>16, <1>17, <1>18, <1>19 DEF ProcessNext, Parent, Reads, ChildStep

-----------------------------------------------------------------------------
\* The end of the streams and of the child

\* a stream at its end stays there while nothing is written
LEMMA SameDrain ==
    ASSUME pipe' = pipe, child \in {"zombie", "reaped"} => child' \in {"zombie", "reaped"}
    PROVE  \A s \in Streams : Drained(s) => Drained(s)'
BY DEF Drained

\* a stream ends with its child
LEMMA DrainedEnded == \A s : Drained(s) => child \in {"zombie", "reaped"}
BY DEF Drained

\* without a broken pipe a loop is left at the end of its stream only
LEMMA DrainKept ==
    ASSUME kind \in Kinds, child \in {"none", "running", "zombie", "reaped"}, prog \in
           Seq({"out", "err", "sleep"}), pos \in 1 .. Len(prog) + 1,
           pipe \in [Streams -> Seq(Nat)], got \in [Streams -> Seq(Nat)],
           KindsInv, ChildInv, DrainInv, [ProcessNext]_processVars
    PROVE  DrainInv'
<1> USE DEF KindsInv, ChildInv, DrainInv, Kinds, InUse, Using, Reading, Streams
<1>0. CASE UNCHANGED processVars
    BY <1>0, SameDrain DEF processVars
<1>1. CASE StdoutPipe
    BY <1>1 DEF StdoutPipe
<1>2. CASE StderrPipe
    BY <1>2 DEF StderrPipe
<1>3. CASE OpenPty
    BY <1>3 DEF OpenPty
<1>4. CASE Spawn
    BY <1>4 DEF Spawn
<1>5. CASE CloseAfterFork
    BY <1>5 DEF CloseAfterFork, AfterSpawn
<1>6. CASE Reads
    <2>1. child' = child /\ kind' = kind /\ pc \in Reading  BY <1>6, ReadControl
    <2>2. ASSUME NEW s \in Streams, Drained(s), s # BeingRead, pipe' = pipe \/ \E n : Moved(BeingRead, n)
          PROVE  Drained(s)'
        BY <2>1, <2>2 DEF Drained, Moved
    <2>3. CASE \E n \in 1 .. ReadSize : Moved(BeingRead, n) /\ pc' = pc /\ faults' = faults
        BY <2>1, <2>2, <2>3 DEF BeingRead, Reading, Streams
    <2>4. CASE pipe' = pipe /\ pc' = AfterReading /\ faults' = faults /\ AtEof(BeingRead)
        <3>1. PICK r \in Streams : r = BeingRead  BY DEF Streams, BeingRead
        <3>2. Drained(r)'  BY <2>1, <2>4, <3>1 DEF Drained, AtEof, InUse, Using
        <3>3. pc = "read_stderr" /\ Drained("out") => Drained("out")'  BY <2>1, <2>4, SameDrain DEF Streams
        <3>4. CASE pc = "read_stdout"  BY <2>1, <2>4, <3>1, <3>2, <3>4 DEF AfterReading, BeingRead
        <3>5. CASE pc = "read_stderr"  BY <2>1, <2>4, <3>1, <3>2, <3>3, <3>5 DEF AfterReading, BeingRead
        <3>6. CASE pc = "read_pty"  BY <2>1, <2>4, <3>1, <3>2, <3>6 DEF AfterReading, BeingRead
        <3> QED  BY <2>1, <3>4, <3>5, <3>6 DEF Reading
    <2>5. CASE faults' = faults \cup {"broken"} \/ faults' = faults \cup {"read"}
        BY <2>5
    <2> QED  BY <1>6, <2>3, <2>4, <2>5, ReadData
<1>7. CASE terminate
    BY <1>7 DEF terminate
<1>8. CASE wait
    BY <1>8, SameDrain DEF wait
<1>9. CASE drop
    BY <1>9 DEF drop
<1>10. CASE TryWait
    BY <1>10 DEF TryWait
<1>11. CASE TimeoutKill
    BY <1>11 DEF TimeoutKill
<1>12. CASE TimeoutReap
    BY <1>12 DEF TimeoutReap
<1>13. CASE EmptyArgv
    BY <1>13 DEF EmptyArgv
<1>14. CASE TimeoutUsage
    BY <1>14 DEF TimeoutUsage
<1>15. CASE WaitAgain
    BY <1>15, SameDrain DEF WaitAgain, childVars
<1>16. CASE Tick
    BY <1>16 DEF Tick
<1>17. CASE ChildWrite
    BY <1>17, DrainedEnded DEF ChildWrite
<1>18. CASE ChildExit
    BY <1>18, DrainedEnded DEF ChildExit
<1>19. CASE Rest
    BY <1>19, SameDrain DEF Rest, processVars
<1> QED
  BY <1>0, <1>1, <1>2, <1>3, <1>4, <1>5, <1>6, <1>7, <1>8, <1>9, <1>10, <1>11, <1>12, <1>13,
     <1>14, <1>15, <1>16, <1>17, <1>18, <1>19 DEF ProcessNext, Parent, Reads, ChildStep

\* a child whose output is wanted is neither killed nor ended by a closed pipe
LEMMA EndKept ==
    ASSUME kind \in Kinds, child \in {"none", "running", "zombie", "reaped"}, prog \in
           Seq({"out", "err", "sleep"}), pos \in 1 .. Len(prog) + 1,
           pipe \in [Streams -> Seq(Nat)], got \in [Streams -> Seq(Nat)], pc \in Places,
           KindsInv, EndsInv, ChildInv, EndInv, [ProcessNext]_processVars
    PROVE  EndInv'
<1> USE DEF KindsInv, EndsInv, ChildInv, EndInv, Kinds, InUse, Using, Reading
<1>0. CASE UNCHANGED processVars
    BY <1>0 DEF processVars
<1>1. CASE StdoutPipe
    BY <1>1 DEF StdoutPipe, childVars
<1>2. CASE StderrPipe
    BY <1>2 DEF StderrPipe, childVars
<1>3. CASE OpenPty
    BY <1>3 DEF OpenPty, childVars
<1>4. CASE Spawn
    BY <1>4 DEF Spawn
<1>5. CASE CloseAfterFork
    BY <1>5 DEF CloseAfterFork, childVars
<1>6. CASE Reads
    BY <1>6, ReadControl
<1>7. CASE terminate
    BY <1>7 DEF terminate
<1>8. CASE wait
    BY <1>8 DEF wait
<1>9. CASE drop
    BY <1>9 DEF drop
<1>10. CASE TryWait
    BY <1>10 DEF TryWait
<1>11. CASE TimeoutKill
    BY <1>11 DEF TimeoutKill
<1>12. CASE TimeoutReap
    BY <1>12 DEF TimeoutReap
<1>13. CASE EmptyArgv
    BY <1>13 DEF EmptyArgv
<1>14. CASE TimeoutUsage
    BY <1>14 DEF TimeoutUsage
<1>15. CASE WaitAgain
    BY <1>15 DEF WaitAgain, childVars
<1>16. CASE Tick
    BY <1>16 DEF Tick
<1>17. CASE ChildWrite
    <2>1. CASE ~(Captured /\ ends[ReaderOf(StreamOf(prog[pos]))] # "open")
        BY <2>1, <1>17 DEF ChildWrite
    <2>2. ASSUME Captured, ends[ReaderOf(StreamOf(prog[pos]))] # "open", kind \in {"consume", "pty"}, pc # "dropped"
          PROVE  FALSE
        <3>1. pos \in 1 .. Len(prog) /\ prog[pos] # "sleep" /\ child = "running"  BY <1>17 DEF ChildWrite
        <3>2. prog[pos] \in {"out", "err"}  BY <3>1
        <3>3. ReaderOf(StreamOf(prog[pos])) \in ReadEnds(kind) \cap End
            BY <2>2, <3>2 DEF ReaderOf, StreamOf, ReadEnds, End
        <3>4. AllHeld \/ ReadersHeld  BY <2>2, <3>1 DEF Places
        <3> QED  BY <2>2, <3>3, <3>4 DEF AllHeld, ReadersHeld, Holds
    <2> QED  BY <1>17, <2>1, <2>2 DEF ChildWrite
<1>18. CASE ChildExit
    BY <1>18 DEF ChildExit
<1>19. CASE Rest
    BY <1>19 DEF Rest, processVars
<1> QED
  BY <1>0, <1>1, <1>2, <1>3, <1>4, <1>5, <1>6, <1>7, <1>8, <1>9, <1>10, <1>11, <1>12, <1>13,
     <1>14, <1>15, <1>16, <1>17, <1>18, <1>19 DEF ProcessNext, Parent, Reads, ChildStep

-----------------------------------------------------------------------------
\* The types

\* at most one more call fails in a step, and only while it may
OneFault == faults' = faults \/ (Fault /\ \E what \in {"pipe", "spawn", "broken", "read", "wait"} : faults' = faults \cup {what})

\* the bound on failing calls
LEMMA FaultsBounded ==
    ASSUME IsFiniteSet(faults), Cardinality(faults) <= MaxFaults, OneFault
    PROVE  IsFiniteSet(faults') /\ Cardinality(faults') <= MaxFaults
<1>1. CASE faults' = faults  BY <1>1
<1>2. CASE Fault /\ \E what \in {"pipe", "spawn", "broken", "read", "wait"} : faults' = faults \cup {what}
    <2>1. PICK what : faults' = faults \cup {what}  BY <1>2
    <2> QED  BY <1>2, <2>1, FaultCounted
<1> QED  BY <1>1, <1>2 DEF OneFault

\* the types of the streams, in a read
LEMMA ReadTypes ==
    ASSUME pipe \in [Streams -> Seq(Nat)], got \in [Streams -> Seq(Nat)], \A s \in Streams :
           Len(pipe[s]) <= Cap, DataInv, Reads
    PROVE  pipe' \in [Streams -> Seq(Nat)] /\ got' \in [Streams -> Seq(Nat)] /\ \A s \in Streams : Len(pipe'[s]) <= Cap
<1>1. pos' = pos /\ kind' = kind /\ prog' = prog  BY ReadControl
<1>2. CASE got' = got /\ pipe' = pipe  BY <1>2
<1>3. CASE ~(got' = got /\ pipe' = pipe)
    <2>1. PICK n \in 1 .. ReadSize : n <= Len(pipe[BeingRead]) /\ Moved(BeingRead, n)  BY <1>3, ReadData
    <2>2. PICK r \in Streams : r = BeingRead  BY DEF Streams, BeingRead
    <2>3. n \in 1 .. Len(pipe[r]) /\ Moved(r, n)  BY <2>1, <2>2, WasiProcessAssumption
    <2>4. /\ pipe' \in [Streams -> Seq(Nat)] /\ got' \in [Streams -> Seq(Nat)] /\ Len(pipe'[r]) <= Len(pipe[r])
        BY <1>1, <2>3, DataMoved
    <2>5. \A s \in Streams \ {r} : pipe'[s] = pipe[s]  BY <2>3 DEF Moved
    <2>6. Len(pipe[r]) \in Nat /\ Len(pipe'[r]) \in Nat /\ Cap \in Nat /\ Len(pipe[r]) <= Cap
        BY <2>4, WasiProcessAssumption
    <2>7. Len(pipe'[r]) <= Cap  BY <2>4, <2>6
    <2> QED  BY <2>4, <2>5, <2>7
<1> QED  BY <1>2, <1>3

\* and in a write
LEMMA WriteTypes ==
    ASSUME pipe \in [Streams -> Seq(Nat)], got \in [Streams -> Seq(Nat)], \A s \in Streams :
           Len(pipe[s]) <= Cap, DataInv,
           prog \in Seq({"out", "err", "sleep"}), pos \in 1 .. Len(prog) + 1, ChildWrite
    PROVE  pipe' \in [Streams -> Seq(Nat)] /\ pos' \in 1 .. Len(prog) + 1 /\ \A s \in Streams : Len(pipe'[s]) <= Cap
<1>1. pos \in 1 .. Len(prog) /\ Len(prog) \in Nat /\ kind' = kind /\ prog' = prog /\ got' = got /\ StreamOf(prog[pos]) \in Streams
    BY WriteData
<1>2. CASE pipe' = pipe /\ (pos' = pos \/ pos' = pos + 1)  BY <1>1, <1>2
<1>3. CASE /\ pos' = pos + 1 /\ Len(pipe[StreamOf(prog[pos])]) < Cap
           /\ pipe' = [pipe EXCEPT ![StreamOf(prog[pos])] = Append(@, pos)]
    <2>1. PICK r \in Streams : r = StreamOf(prog[pos])  BY <1>1
    <2>2. Len(pipe[r]) < Cap /\ pipe' = [pipe EXCEPT ![r] = Append(@, pos)]  BY <1>3, <2>1
    <2>3. pipe' \in [Streams -> Seq(Nat)] /\ Len(pipe'[r]) = Len(pipe[r]) + 1
        BY <1>1, <1>3, <2>1, <2>2, DataWritten
    <2>4. \A s \in Streams \ {r} : pipe'[s] = pipe[s]  BY <2>2
    <2>5. Len(pipe[r]) \in Nat /\ Cap \in Nat  BY WasiProcessAssumption
    <2>6. Len(pipe'[r]) <= Cap  BY <2>2, <2>3, <2>5
    <2> QED  BY <1>1, <1>3, <2>3, <2>4, <2>6
<1> QED  BY <1>2, <1>3, WriteData

\* no step makes two calls fail
LEMMA FaultsKept ==
    ASSUME [ProcessNext]_processVars
    PROVE  OneFault
<1> USE DEF OneFault
<1>0. CASE UNCHANGED processVars
    BY <1>0 DEF processVars
<1>1. CASE StdoutPipe
    BY <1>1 DEF StdoutPipe
<1>2. CASE StderrPipe
    BY <1>2 DEF StderrPipe
<1>3. CASE OpenPty
    BY <1>3 DEF OpenPty
<1>4. CASE Spawn
    BY <1>4 DEF Spawn
<1>5. CASE CloseAfterFork
    BY <1>5 DEF CloseAfterFork
<1>6. CASE Reads
    BY <1>6, ReadControl
<1>7. CASE terminate
    BY <1>7 DEF terminate
<1>8. CASE wait
    BY <1>8 DEF wait
<1>9. CASE drop
    BY <1>9 DEF drop
<1>10. CASE TryWait
    BY <1>10 DEF TryWait
<1>11. CASE TimeoutKill
    BY <1>11 DEF TimeoutKill
<1>12. CASE TimeoutReap
    BY <1>12 DEF TimeoutReap
<1>13. CASE EmptyArgv
    BY <1>13 DEF EmptyArgv
<1>14. CASE TimeoutUsage
    BY <1>14 DEF TimeoutUsage
<1>15. CASE WaitAgain
    BY <1>15 DEF WaitAgain
<1>16. CASE Tick
    BY <1>16 DEF Tick
<1>17. CASE ChildWrite
    BY <1>17 DEF ChildWrite
<1>18. CASE ChildExit
    BY <1>18 DEF ChildExit
<1>19. CASE Rest
    BY <1>19 DEF Rest, processVars
<1> QED
  BY <1>0, <1>1, <1>2, <1>3, <1>4, <1>5, <1>6, <1>7, <1>8, <1>9, <1>10, <1>11, <1>12, <1>13,
     <1>14, <1>15, <1>16, <1>17, <1>18, <1>19 DEF ProcessNext, Parent, Reads, ChildStep

\* the type invariant
LEMMA TypesKept ==
    ASSUME ProcessTypeOK, DataInv, KindsInv, [ProcessNext]_processVars
    PROVE  ProcessTypeOK'
<1>a. IsFiniteSet(faults') /\ Cardinality(faults') <= MaxFaults
    BY FaultsKept, FaultsBounded DEF ProcessTypeOK
<1> USE DEF ProcessTypeOK, Kinds, Places
<1>0. CASE UNCHANGED processVars
    BY <1>0, <1>a DEF processVars
<1>1. CASE StdoutPipe
    BY <1>1, <1>a DEF StdoutPipe, Opened, childVars
<1>2. CASE StderrPipe
    <2>1. ends' \in [End -> {"none", "open", "closed", "twice"}]
        BY <1>2 DEF StderrPipe, Opened, UndoStdoutPipe, fd_close
    <2> QED  BY <1>a, <1>2, <2>1 DEF StderrPipe, childVars
<1>3. CASE OpenPty
    BY <1>3, <1>a DEF OpenPty, Opened, childVars
<1>4. CASE Spawn
    BY <1>4, <1>a DEF Spawn
<1>5. CASE CloseAfterFork
    <2>1. pc' \in Places  BY <1>5 DEF CloseAfterFork, AfterSpawn, KindsInv
    <2>2. ends' \in [End -> {"none", "open", "closed", "twice"}]  BY <1>5 DEF CloseAfterFork, fd_close
    <2> QED  BY <1>a, <1>5, <2>1, <2>2 DEF CloseAfterFork, childVars
<1>6. CASE Reads
    <2>1. /\ kind' = kind /\ ends' = ends /\ child' = child /\ prog' = prog /\ pos' = pos /\ code' = code
          /\ exited' = exited /\ now' = now /\ duration' = duration /\ killed' = killed
        BY <1>6, ReadControl
    <2>2. pc' \in Places  BY <1>6, ReadControl DEF AfterReading
    <2>3. pipe' \in [Streams -> Seq(Nat)] /\ got' \in [Streams -> Seq(Nat)] /\ \A s \in Streams : Len(pipe'[s]) <= Cap
        BY <1>6, ReadTypes
    <2> QED  BY <1>a, <2>1, <2>2, <2>3
<1>7. CASE terminate
    BY <1>7, <1>a DEF terminate, Return
<1>8. CASE wait
    <2>1. /\ kind' = kind /\ ends' = ends /\ prog' = prog /\ pos' = pos /\ code' = code /\ pipe' = pipe
          /\ got' = got /\ now' = now /\ duration' = duration /\ killed' = killed
        BY <1>8 DEF wait
    <2>2. child' \in {"none", "running", "zombie", "reaped"}  BY <1>8 DEF wait
    <2>3. exited' \in BOOLEAN  BY <1>8 DEF wait
    <2>4. pc' = "returned"  BY <1>8 DEF wait, Return
    <2> QED  BY <1>a, <2>1, <2>2, <2>3, <2>4
<1>9. CASE drop
    BY <1>9, <1>a DEF drop, fd_close, childVars
<1>10. CASE TryWait
    BY <1>10, <1>a DEF TryWait, Return
<1>11. CASE TimeoutKill
    BY <1>11, <1>a DEF TimeoutKill
<1>12. CASE TimeoutReap
    BY <1>12, <1>a DEF TimeoutReap, Return
<1>13. CASE EmptyArgv
    BY <1>13, <1>a DEF EmptyArgv, childVars
<1>14. CASE TimeoutUsage
    BY <1>14, <1>a DEF TimeoutUsage, childVars
<1>15. CASE WaitAgain
    BY <1>15, <1>a DEF WaitAgain, childVars
<1>16. CASE Tick
    <2>1. now + 1 \in 0 .. MaxTime  BY <1>16, WasiProcessAssumption DEF Tick
    <2> QED  BY <1>a, <1>16, <2>1 DEF Tick, childVars
<1>17. CASE ChildWrite
    <2>1. prog \in Seq({"out", "err", "sleep"})  BY WasiProcessAssumption
    <2>2. /\ kind' = kind /\ pc' = pc /\ ends' = ends /\ prog' = prog /\ got' = got /\ exited' = exited /\ now' = now
          /\ duration' = duration /\ killed' = killed /\ faults' = faults
          /\ child' \in {"none", "running", "zombie", "reaped"} /\ code' \in {7, 137, 141, 143}
        BY <1>17 DEF ChildWrite
    <2>3. pipe' \in [Streams -> Seq(Nat)] /\ pos' \in 1 .. Len(prog) + 1 /\ \A s \in Streams : Len(pipe'[s]) <= Cap
        BY <1>17, <2>1, WriteTypes
    <2> QED  BY <1>a, <2>2, <2>3
<1>18. CASE ChildExit
    BY <1>18, <1>a DEF ChildExit
<1>19. CASE Rest
    BY <1>19, <1>a DEF Rest, processVars
<1> QED
  BY <1>0, <1>1, <1>2, <1>3, <1>4, <1>5, <1>6, <1>7, <1>8, <1>9, <1>10, <1>11, <1>12, <1>13,
     <1>14, <1>15, <1>16, <1>17, <1>18, <1>19 DEF ProcessNext, Parent, Reads, ChildStep

-----------------------------------------------------------------------------
(***************************************************************************)
(* Whatever call fails and however parent and child interleave: the        *)
(* invariant holds.                                                        *)
(***************************************************************************)
THEOREM ProcessInvariance == ProcessSpec => []ProcessInv
<1>1. ProcessInit => ProcessInv
    <2> SUFFICES ASSUME ProcessInit  PROVE ProcessInv  OBVIOUS
    <2> USE DEF ProcessInit
    <2>1. prog \in Seq({"out", "err", "sleep"}) /\ Len(prog) \in Nat  BY WasiProcessAssumption
    <2>2. \A s \in Streams : pipe[s] = <<>> /\ got[s] = <<>>  OBVIOUS
    <2>3. IsFiniteSet(faults) /\ Cardinality(faults) = 0  BY FS_EmptySet
    <2>4. duration \in 0 .. MaxTime /\ now \in 0 .. MaxTime /\ Cap \in Nat /\ MaxFaults \in Nat
        BY WasiProcessAssumption
    <2>5. ProcessTypeOK
        <3>1. pipe \in [Streams -> Seq(Nat)] /\ got \in [Streams -> Seq(Nat)] /\ \A s \in Streams : Len(pipe[s]) <= Cap
            BY <2>2, <2>4
        <3>2. ends \in [End -> {"none", "open", "closed", "twice"}] /\ prog \in Programs /\ pos \in 1 .. Len(prog) + 1
            BY <2>1
        <3>3. Cardinality(faults) <= MaxFaults  BY <2>3, <2>4
        <3> QED  BY <2>3, <2>4, <3>1, <3>2, <3>3 DEF ProcessTypeOK, Places
    <2>6. KindsInv /\ ChildInv /\ EndInv /\ TimeoutInv /\ StatusMeansReaped
        BY DEF KindsInv, ChildInv, EndInv, TimeoutInv, StatusMeansReaped, InUse, Using, Reading
    <2>7. EndsInv  BY DEF EndsInv, NothingHeld, Holds, InUse, Using, Reading
    <2>8. DataInv
        <3>1. \A s : Steps(s, pos - 1) = {}  BY DEF Steps
        <3>2. \A s \in Streams : Range(pipe[s]) = {} /\ Range(got[s]) = {} /\ Rising(pipe[s]) /\ Rising(got[s])
            BY <2>2 DEF Range, Rising
        <3> QED  BY <3>1, <3>2 DEF DataInv
    <2>9. DrainInv  BY DEF DrainInv
    <2> QED  BY <2>5, <2>6, <2>7, <2>8, <2>9 DEF ProcessInv
<1>2. ProcessInv /\ [ProcessNext]_processVars => ProcessInv'
    <2> SUFFICES ASSUME ProcessInv, [ProcessNext]_processVars  PROVE ProcessInv'  OBVIOUS
    <2>1. /\ kind \in Kinds /\ child \in {"none", "running", "zombie", "reaped"} /\ exited \in BOOLEAN
          /\ code \in {7, 137, 141, 143} /\ now \in Nat /\ duration \in Nat /\ pc \in Places
          /\ pos \in 1 .. Len(prog) + 1 /\ pipe \in [Streams -> Seq(Nat)] /\ got \in [Streams -> Seq(Nat)]
        BY WasiProcessAssumption DEF ProcessInv, ProcessTypeOK
    <2>2. prog \in Seq({"out", "err", "sleep"})  BY WasiProcessAssumption DEF ProcessInv, ProcessTypeOK
    <2>3. /\ ProcessTypeOK /\ KindsInv /\ EndsInv /\ ChildInv /\ DataInv /\ DrainInv /\ EndInv /\ TimeoutInv
          /\ StatusMeansReaped
        BY DEF ProcessInv
    <2>4. KindsInv' /\ EndsInv' /\ ChildInv' /\ StatusMeansReaped'
        BY <2>1, <2>3, KindsKept, EndsKept, ChildKept, StatusKept
    <2>5. TimeoutInv'  BY <2>1, <2>3, TimeoutKept
    <2>6. DataInv' /\ DrainInv' /\ EndInv'  BY <2>1, <2>2, <2>3, DataKept, DrainKept, EndKept
    <2>7. ProcessTypeOK'  BY <2>3, TypesKept
    <2> QED  BY <2>4, <2>5, <2>6, <2>7 DEF ProcessInv
<1> QED  BY <1>1, <1>2, PTL DEF ProcessSpec

\* the parts of the property, each from its part of the invariant
LEMMA KeptFromInv == ProcessInv => ProcessesAreKept
<1> SUFFICES ASSUME ProcessInv  PROVE ProcessesAreKept  OBVIOUS
<1>1. ProcessTypeOK /\ StatusMeansReaped  BY DEF ProcessInv
<1>2. EndsClosedOnce
    <2>1. NothingHeld \/ FirstHeld \/ AllHeld \/ ReadersHeld \/ PtyHeld \/ GivenBack
        BY DEF ProcessInv, EndsInv, ProcessTypeOK, Places, InUse, Using, Reading
    <2>2. \A e \in End : ends[e] # "twice"
        BY <2>1 DEF NothingHeld, FirstHeld, AllHeld, ReadersHeld, PtyHeld, GivenBack, Holds
    <2>3. pc = "dropped" => \A e \in End : ends[e] = "open" => kind = "bare_pty" /\ e = "slave"
        BY DEF ProcessInv, EndsInv, GivenBack
    <2> QED  BY <2>2, <2>3 DEF EndsClosedOnce
<1>3. CapturedIsWritten
    <2> SUFFICES ASSUME pc = "returned", kind \in {"consume", "pty"}, faults \cap {"broken", "read"} = {}, NEW s \in Streams
                 PROVE  Rising(got[s]) /\ Range(got[s]) = Steps(s, Len(prog))
        BY DEF CapturedIsWritten
    <2>1. prog \in Seq({"out", "err", "sleep"}) /\ Len(prog) \in Nat
        BY WasiProcessAssumption DEF ProcessInv, ProcessTypeOK
    <2>2. IF kind = "pty" THEN Drained("pty") ELSE Drained("out") /\ Drained("err")
        BY DEF ProcessInv, DrainInv
    <2>3. pos - 1 = Len(prog)  BY <2>1, <2>2 DEF ProcessInv, EndInv, Drained
    <2>4. Rising(got[s]) /\ Range(got[s]) \cup Range(pipe[s]) = Steps(s, Len(prog))
        BY <2>3 DEF ProcessInv, DataInv, Captured
    <2>5. CASE pipe[s] = <<>>  BY <2>4, <2>5 DEF Range
    <2>6. CASE pipe[s] # <<>>
        <3>1. s # StreamOf("out") /\ s # StreamOf("err")  BY <2>2, <2>6 DEF Drained, StreamOf
        <3>2. kind = "pty" => \A i \in 1 .. Len(prog) : StreamOf(prog[i]) = "pty"  BY DEF StreamOf
        <3>3. kind = "consume" => \A i \in 1 .. Len(prog) : StreamOf(prog[i]) \in {"out", "err", "sleep"}
            BY <2>1 DEF StreamOf
        <3>4. Steps(s, Len(prog)) = {}  BY <3>1, <3>2, <3>3 DEF Steps, StreamOf, Streams
        <3> QED  BY <2>4, <3>4
    <2> QED  BY <2>5, <2>6
<1> QED  BY <1>1, <1>2, <1>3 DEF ProcessesAreKept

(***************************************************************************)
(* When the handle is gone every descriptor has been closed once; what was *)
(* collected is what the child wrote; a status means a reaped child.       *)
(***************************************************************************)
THEOREM KeptProcesses == ProcessSpec => []ProcessesAreKept
BY ProcessInvariance, KeptFromInv, PTL

-----------------------------------------------------------------------------
\* Once the loop of timeout has a child that ended, its status is the answer.

EndedInTime ==
    /\ kind = "timeout" /\ child \in {"zombie", "reaped"} /\ pc \in {"try_wait", "returned", "dropped"}
    /\ result # <<"ok", 124>>

\* and stays the answer: the deadline is looked at for a running child only
LEMMA EndedStays ==
    ASSUME ProcessInv, EndedInTime, [ProcessNext]_processVars
    PROVE  EndedInTime'
<1>1. code \in Int  BY DEF ProcessInv, ProcessTypeOK
<1>2. code # 124  BY DEF ProcessInv, ProcessTypeOK
<1> USE DEF EndedInTime
<1>4. CASE UNCHANGED processVars
    BY <1>4 DEF processVars
<1>5. CASE StdoutPipe
    BY <1>5 DEF StdoutPipe
<1>6. CASE StderrPipe
    BY <1>6 DEF StderrPipe
<1>7. CASE OpenPty
    BY <1>7 DEF OpenPty
<1>8. CASE Spawn
    BY <1>8 DEF Spawn
<1>9. CASE CloseAfterFork
    BY <1>9 DEF CloseAfterFork
<1>10. CASE Reads
    BY <1>10 DEF Reads, read_stdout, read_stderr, read_output
<1>11. CASE terminate
    BY <1>11 DEF terminate
<1>12. CASE wait
    BY <1>12 DEF wait
<1>13. CASE drop
    BY <1>13 DEF drop, childVars
<1>14. CASE TryWait
    BY <1>14, <1>1, <1>2, Verdicts DEF TryWait, Overdue, Return
<1>15. CASE TimeoutKill
    BY <1>15 DEF TimeoutKill
<1>16. CASE TimeoutReap
    BY <1>16 DEF TimeoutReap
<1>17. CASE EmptyArgv
    BY <1>17 DEF EmptyArgv
<1>18. CASE TimeoutUsage
    BY <1>18 DEF TimeoutUsage
<1>19. CASE WaitAgain
    BY <1>19 DEF WaitAgain
<1>20. CASE Tick
    BY <1>20 DEF Tick, childVars
<1>21. CASE ChildWrite
    BY <1>21 DEF ChildWrite
<1>22. CASE ChildExit
    BY <1>22 DEF ChildExit
<1>23. CASE Rest
    BY <1>23 DEF Rest, processVars
<1> QED
  BY <1>4, <1>5, <1>6, <1>7, <1>8, <1>9, <1>10, <1>11, <1>12, <1>13, <1>14, <1>15, <1>16, <1>17,
     <1>18, <1>19, <1>20, <1>21, <1>22, <1>23 DEF ProcessNext, Parent, ChildStep, Reads

\* the two parts of TimeoutExact that hold in every state
DeadlineKept ==
    kind = "timeout" =>
        /\ killed => now >= duration /\ code = 137
        /\ (pc = "returned" /\ result = <<"ok", 124>>) => child # "running" /\ now >= duration

FoundEnded == kind = "timeout" /\ pc = "try_wait" /\ child = "zombie"

(***************************************************************************)
(* timeout kills only at the deadline, and never answers 124 for a child   *)
(* its loop could have found ended.                                        *)
(***************************************************************************)
THEOREM TimeoutIsExact == ProcessSpec => TimeoutExact
<1>1. ProcessInv => DeadlineKept  BY DEF ProcessInv, TimeoutInv, DeadlineKept
<1>2. ProcessInv /\ FoundEnded => EndedInTime
    <2>1. <<"ok", 0>> # <<"ok", 124>>  OBVIOUS
    <2> QED  BY <2>1 DEF ProcessInv, TimeoutInv, FoundEnded, EndedInTime
<1>3. ProcessInv /\ EndedInTime /\ [ProcessNext]_processVars => EndedInTime'  BY EndedStays
<1>4. EndedInTime => result # <<"ok", 124>>  BY DEF EndedInTime
<1>5. ProcessSpec => [](DeadlineKept /\ (FoundEnded => [](result # <<"ok", 124>>)))
    BY <1>1, <1>2, <1>3, <1>4, ProcessInvariance, PTL DEF ProcessSpec
<1> QED  BY <1>5, PTL DEF TimeoutExact, DeadlineKept, FoundEnded

-----------------------------------------------------------------------------
(* wasi-http: the exchange                                                 *)

-----------------------------------------------------------------------------
(* wasi-http: sequences and numbers                                        *)

\* A set of natural numbers that is not empty has a least element.
LEMMA Least ==
  ASSUME NEW T \in SUBSET Nat, T # {}
  PROVE  \E m \in T : \A k \in T : m <= k
<1> DEFINE R == OpToRel(<, Nat)
<1>1. IsWellFoundedOn(R, Nat)
  BY NatLessThanWellFounded
<1>2. PICK m \in T : \A k \in T : ~(<<k, m>> \in R)
  BY <1>1, WFMin
<1>3. \A k \in T : k < m => <<k, m>> \in R
  BY DEF OpToRel
<1> HIDE DEF R
<1>4. \A k \in T : k \in Nat /\ m \in Nat
  OBVIOUS
<1>5. \A k \in T : ~(k < m)
  BY <1>2, <1>3
<1>6. \A k \in T : m <= k
  BY <1>4, <1>5
<1> QED BY <1>6

\* Induction over the natural numbers, with the claim given as a set.
LEMMA Induction ==
  ASSUME NEW T, 0 \in T, \A n \in Nat : n \in T => n + 1 \in T
  PROVE  Nat \subseteq T
<1> SUFFICES ASSUME Nat \ T # {} PROVE FALSE
  OBVIOUS
<1>1. PICK m \in Nat \ T : \A k \in Nat \ T : m <= k
  BY Least
<1>2. m # 0 /\ m - 1 \in Nat /\ m - 1 \in T
  BY <1>1
<1> QED BY <1>2


\* What is sent and received.
Token == STRING \cup {"CR", "LF", "status", "nostatus", "chunked", "x", "y", "more"}

\* The two parts of a sequence that is cut.
LEMMA Parts ==
  ASSUME NEW V, NEW s \in Seq(V), NEW n \in 0 .. Len(s)
  PROVE  /\ Upto(s, n) \in Seq(V) /\ Len(Upto(s, n)) = n
         /\ \A i \in 1 .. n : Upto(s, n)[i] = s[i]
         /\ From(s, n + 1) \in Seq(V) /\ Len(From(s, n + 1)) = Len(s) - n
         /\ \A i \in 1 .. Len(s) - n : From(s, n + 1)[i] = s[n + i]
<1>1. Len(s) \in Nat /\ n \in Nat /\ \A i \in 1 .. Len(s) : s[i] \in V
  OBVIOUS
<1>2. /\ Upto(s, n) \in Seq(V) /\ Len(Upto(s, n)) = n
      /\ \A i \in 1 .. n : Upto(s, n)[i] = s[i]
  <2>1. \A i \in 1 .. n : s[i] \in V
    BY <1>1
  <2>2. /\ Upto(s, n) \in Seq(V)
        /\ Len(Upto(s, n)) = IF 1 <= n THEN n - 1 + 1 ELSE 0
        /\ \A i \in 1 .. n - 1 + 1 : Upto(s, n)[i] = s[1 + i - 1]
    BY <1>1, <2>1, SubSeqProperties DEF Upto
  <2> HIDE DEF Upto
  <2>3. \A i \in 1 .. n : i \in 1 .. n - 1 + 1 /\ 1 + i - 1 = i
    BY <1>1
  <2> QED BY <1>1, <2>2, <2>3
<1>3. /\ From(s, n + 1) \in Seq(V) /\ Len(From(s, n + 1)) = Len(s) - n
      /\ \A i \in 1 .. Len(s) - n : From(s, n + 1)[i] = s[n + i]
  <2>1. \A i \in n + 1 .. Len(s) : s[i] \in V
    BY <1>1
  <2>2. /\ From(s, n + 1) \in Seq(V)
        /\ Len(From(s, n + 1)) = IF n + 1 <= Len(s) THEN Len(s) - (n + 1) + 1 ELSE 0
        /\ \A i \in 1 .. Len(s) - (n + 1) + 1 : From(s, n + 1)[i] = s[n + 1 + i - 1]
    BY <1>1, <2>1, SubSeqProperties DEF From
  <2>3. /\ Len(s) - (n + 1) + 1 = Len(s) - n
        /\ \A i \in 1 .. Len(s) - n : n + 1 + i - 1 = n + i
    BY <1>1
  <2> DEFINE f == From(s, n + 1)
  <2>4. f \in Seq(V) /\ \A i \in 1 .. Len(s) - n : f[i] = s[n + i]
    BY <2>2, <2>3
  <2>5. Len(f) = Len(s) - n
    <3> DEFINE k == Len(f)
    <3>1. k = IF n + 1 <= Len(s) THEN Len(s) - (n + 1) + 1 ELSE 0
      BY <2>2
    <3> HIDE DEF k
    <3>2. k = Len(s) - n
      BY <1>1, <3>1
    <3> QED BY <3>2 DEF k
  <2> QED BY <2>4, <2>5
<1> QED BY <1>2, <1>3

\* The first part alone.
LEMMA FirstPart ==
  ASSUME NEW V, NEW s \in Seq(V), NEW n \in 0 .. Len(s)
  PROVE  /\ Upto(s, n) \in Seq(V) /\ Len(Upto(s, n)) = n
         /\ \A i \in 1 .. n : Upto(s, n)[i] = s[i]
BY Parts

\* The elements of a concatenation.
LEMMA Joins ==
  ASSUME NEW V, NEW s \in Seq(V), NEW t \in Seq(V)
  PROVE  /\ s \o t \in Seq(V) /\ Len(s \o t) = Len(s) + Len(t)
         /\ \A i \in 1 .. Len(s) : (s \o t)[i] = s[i]
         /\ \A i \in 1 .. Len(t) : (s \o t)[Len(s) + i] = t[i]
OBVIOUS

\* Two sequences with the same elements are the same.
LEMMA SameElements ==
  ASSUME NEW V, NEW s \in Seq(V), NEW t \in Seq(V), Len(s) = Len(t),
         \A i \in 1 .. Len(s) : s[i] = t[i]
  PROVE  s = t
OBVIOUS

\* The second part of a concatenation.
LEMMA SecondPart ==
  ASSUME NEW V, NEW s \in Seq(V), NEW t \in Seq(V)
  PROVE  From(s \o t, Len(s) + 1) = t /\ Upto(s \o t, Len(s)) = s
<1>1. Len(s) \in Nat /\ Len(t) \in Nat /\ Len(s) \in 0 .. Len(s \o t)
  BY Joins
<1>2. From(s \o t, Len(s) + 1) = t
  <2> DEFINE u == s \o t  f == From(u, Len(s) + 1)
  <2>1. u \in Seq(V) /\ Len(u) = Len(s) + Len(t)
    BY Joins
  <2>2. f \in Seq(V) /\ Len(f) = Len(u) - Len(s) /\ \A i \in 1 .. Len(u) - Len(s) : f[i] = u[Len(s) + i]
    BY <1>1, <2>1, Parts
  <2>3. Len(u) - Len(s) = Len(t) /\ \A i \in 1 .. Len(t) : u[Len(s) + i] = t[i]
    BY <1>1, <2>1, Joins
  <2> HIDE DEF u, f
  <2>4. f = t
    BY <2>2, <2>3, SameElements
  <2> QED BY <2>4 DEF f, u
<1>3. Upto(s \o t, Len(s)) = s
  <2> DEFINE u == s \o t  f == Upto(u, Len(s))
  <2>1. u \in Seq(V) /\ Len(u) = Len(s) + Len(t) /\ \A i \in 1 .. Len(s) : u[i] = s[i]
    BY Joins
  <2>2. f \in Seq(V) /\ Len(f) = Len(s) /\ \A i \in 1 .. Len(s) : f[i] = u[i]
    BY <1>1, <2>1, Parts
  <2> HIDE DEF u, f
  <2>3. f = s
    BY <2>1, <2>2, SameElements
  <2> QED BY <2>3 DEF f, u
<1> QED BY <1>2, <1>3

\* b and then w are y without its last c tokens.
Ahead(b, w, y, c) ==
  /\ b \in Seq(Token) /\ w \in Seq(Token) /\ y \in Seq(Token) /\ c \in Nat
  /\ Len(b) + Len(w) + c = Len(y)
  /\ \A i \in 1 .. Len(b) : b[i] = y[i]
  /\ \A i \in 1 .. Len(w) : w[i] = y[Len(b) + i]

\* A receive moves tokens from the wire to the buffer.
LEMMA AheadReceived ==
  ASSUME NEW b, NEW w, NEW y, NEW c, Ahead(b, w, y, c), NEW n \in 0 .. Len(w)
  PROVE  Ahead(b \o Upto(w, n), From(w, n + 1), y, c) /\ Len(b \o Upto(w, n)) = Len(b) + n
<1> DEFINE u == Upto(w, n)  v == From(w, n + 1)  d == b \o u
<1>1. b \in Seq(Token) /\ w \in Seq(Token) /\ y \in Seq(Token) /\ Len(b) \in Nat /\ Len(w) \in Nat
  BY DEF Ahead
<1>2. /\ u \in Seq(Token) /\ Len(u) = n /\ \A i \in 1 .. n : u[i] = w[i]
      /\ v \in Seq(Token) /\ Len(v) = Len(w) - n /\ \A i \in 1 .. Len(w) - n : v[i] = w[n + i]
  BY <1>1, Parts
<1> HIDE DEF u, v
<1>3. /\ d \in Seq(Token) /\ Len(d) = Len(b) + n
      /\ \A i \in 1 .. Len(b) : d[i] = b[i]
      /\ \A i \in 1 .. n : d[Len(b) + i] = w[i]
  <2>1. /\ d \in Seq(Token) /\ Len(d) = Len(b) + Len(u)
        /\ \A i \in 1 .. Len(b) : d[i] = b[i]
        /\ \A i \in 1 .. Len(u) : d[Len(b) + i] = u[i]
    BY <1>1, <1>2, Joins
  <2> HIDE DEF d
  <2> QED BY <1>2, <2>1
<1> HIDE DEF d
<1>4. ASSUME NEW i \in 1 .. Len(d) PROVE d[i] = y[i]
  <2>1. CASE i <= Len(b)
    BY <1>1, <1>3, <2>1 DEF Ahead
  <2>2. CASE i > Len(b)
    <3>1. i - Len(b) \in 1 .. n /\ i - Len(b) \in 1 .. Len(w) /\ Len(b) + (i - Len(b)) = i
      BY <1>1, <1>3, <2>2
    <3> QED BY <1>3, <3>1 DEF Ahead
  <2> QED BY <1>1, <1>3, <2>1, <2>2
<1>5. ASSUME NEW i \in 1 .. Len(v) PROVE v[i] = y[Len(d) + i]
  <2>1. n + i \in 1 .. Len(w) /\ Len(d) + i = Len(b) + (n + i) /\ i \in 1 .. Len(w) - n
    BY <1>1, <1>2, <1>3
  <2> QED BY <1>2, <2>1 DEF Ahead
<1>6. Len(d) + Len(v) + c = Len(y) /\ c \in Nat
  <2>1. c \in Nat /\ Len(y) = Len(b) + Len(w) + c
    BY DEF Ahead
  <2>2. Len(d) = Len(b) + n /\ Len(v) = Len(w) - n /\ n \in Int
    BY <1>2, <1>3
  <2> QED BY <1>1, <2>1, <2>2
<1>7. Ahead(d, v, y, c)
  BY <1>1, <1>2, <1>3, <1>4, <1>5, <1>6 DEF Ahead
<1> QED BY <1>3, <1>7 DEF d, u, v

\* Tokens are taken from the front of the buffer.
LEMMA AheadTaken ==
  ASSUME NEW b, NEW w, NEW y, NEW c, Ahead(b, w, y, c), NEW p \in 0 .. Len(b)
  PROVE  Ahead(From(b, p + 1), w, From(y, p + 1), c)
<1> DEFINE f == From(b, p + 1)  g == From(y, p + 1)
<1>1. /\ b \in Seq(Token) /\ w \in Seq(Token) /\ y \in Seq(Token) /\ c \in Nat
      /\ Len(b) \in Nat /\ Len(w) \in Nat /\ Len(y) \in Nat /\ Len(b) + Len(w) + c = Len(y)
  BY DEF Ahead
<1>2. p \in 0 .. Len(y)
  BY <1>1
<1>3. /\ f \in Seq(Token) /\ Len(f) = Len(b) - p /\ \A i \in 1 .. Len(b) - p : f[i] = b[p + i]
      /\ g \in Seq(Token) /\ Len(g) = Len(y) - p /\ \A i \in 1 .. Len(y) - p : g[i] = y[p + i]
  BY <1>1, <1>2, Parts
<1> HIDE DEF f, g
<1>4. ASSUME NEW i \in 1 .. Len(f) PROVE f[i] = g[i]
  <2>1. i \in 1 .. Len(b) - p /\ i \in 1 .. Len(y) - p /\ p + i \in 1 .. Len(b)
    BY <1>1, <1>3
  <2> QED BY <1>3, <2>1 DEF Ahead
<1>5. ASSUME NEW i \in 1 .. Len(w) PROVE w[i] = g[Len(f) + i]
  <2>1. Len(f) + i \in 1 .. Len(y) - p /\ p + (Len(f) + i) = Len(b) + i
    BY <1>1, <1>3
  <2> QED BY <1>3, <2>1 DEF Ahead
<1>6. Len(f) + Len(w) + c = Len(g)
  BY <1>1, <1>3
<1>7. Ahead(f, w, g, c)
  BY <1>1, <1>3, <1>4, <1>5, <1>6 DEF Ahead
<1> QED BY <1>7 DEF f, g

-----------------------------------------------------------------------------
(* What the server sends                                                   *)

\* The kind of body a framing announces.
KindOf(r) == CASE r.framing \in {"length", "overrun"} -> "length"
               [] r.framing = "chunked" -> "chunked"
               [] r.framing = "garbage" -> "error"
               [] OTHER -> "close"

EndAt(s, i) == s[i] = "CR" /\ s[i + 1] = "LF" /\ s[i + 2] = "CR" /\ s[i + 3] = "LF"

\* Headers with one, two and three lines.
One(a) == <<a, "CR", "LF", "CR", "LF">>
Two(a, l) == <<a, "CR", "LF", l, "CR", "LF", "CR", "LF">>
Three(a, l, m) == <<a, "CR", "LF", l, "CR", "LF", m, "CR", "LF", "CR", "LF">>

\* Their end is the first blank line.
Ends(h) ==
  /\ h \in Seq(Token) /\ Len(h) >= 5
  /\ EndAt(h, Len(h) - 3) /\ \A i \in 1 .. Len(h) - 4 : ~EndAt(h, i)

\* Such headers end at their first blank line.
LEMMA HeadersEnd ==
  ASSUME NEW a \in Token \ {"CR", "LF"}, NEW l \in Token \ {"CR", "LF"},
         NEW m \in Token \ {"CR", "LF"}
  PROVE  Ends(One(a)) /\ Ends(Two(a, l)) /\ Ends(Three(a, l, m))
<1>1. "CR" \in Token /\ "LF" \in Token
  BY DEF Token
<1>2. Ends(One(a))
  <2> DEFINE h == One(a)
  <2>1. /\ h \in Seq(Token) /\ Len(h) = 5
        /\ h[1] = a /\ h[2] = "CR" /\ h[3] = "LF" /\ h[4] = "CR" /\ h[5] = "LF"
    BY <1>1 DEF One
  <2>2. \A i \in 1 .. 1 : i = 1
    OBVIOUS
  <2> HIDE DEF h
  <2>3. Ends(h)
    BY <2>1, <2>2 DEF Ends, EndAt
  <2> QED BY <2>3 DEF h
<1>3. Ends(Two(a, l))
  <2> DEFINE h == Two(a, l)
  <2>1. /\ h \in Seq(Token) /\ Len(h) = 8
        /\ h[1] = a /\ h[2] = "CR" /\ h[3] = "LF" /\ h[4] = l
        /\ h[5] = "CR" /\ h[6] = "LF" /\ h[7] = "CR" /\ h[8] = "LF"
    BY <1>1 DEF Two
  <2>2. \A i \in 1 .. 4 : i \in {1, 2, 3, 4}
    OBVIOUS
  <2> HIDE DEF h
  <2>3. Ends(h)
    BY <2>1, <2>2 DEF Ends, EndAt
  <2> QED BY <2>3 DEF h
<1>4. Ends(Three(a, l, m))
  <2> DEFINE h == Three(a, l, m)
  <2>1. /\ h \in Seq(Token) /\ Len(h) = 11
        /\ h[1] = a /\ h[2] = "CR" /\ h[3] = "LF" /\ h[4] = l
        /\ h[5] = "CR" /\ h[6] = "LF" /\ h[7] = m /\ h[8] = "CR" /\ h[9] = "LF"
        /\ h[10] = "CR" /\ h[11] = "LF"
    BY <1>1 DEF Three
  <2>2. \A i \in 1 .. 7 : i \in {1, 2, 3, 4, 5, 6, 7}
    OBVIOUS
  <2> HIDE DEF h
  <2>3. Ends(h)
    BY <2>1, <2>2 DEF Ends, EndAt
  <2> QED BY <2>3 DEF h
<1> QED BY <1>2, <1>3, <1>4

\* What is in front of it.
LEMMA HeadersBefore ==
  ASSUME NEW a \in Token, NEW l \in Token, NEW m \in Token
  PROVE  /\ Upto(One(a), 1) = <<a>>
         /\ Upto(Two(a, l), 4) = <<a, "CR", "LF", l>>
         /\ Upto(Three(a, l, m), 7) = <<a, "CR", "LF", l, "CR", "LF", m>>
<1>1. "CR" \in Token /\ "LF" \in Token
  BY DEF Token
<1>2. /\ One(a) \in Seq(Token) /\ Len(One(a)) = 5 /\ One(a)[1] = a
      /\ Two(a, l) \in Seq(Token) /\ Len(Two(a, l)) = 8
      /\ Two(a, l)[1] = a /\ Two(a, l)[2] = "CR" /\ Two(a, l)[3] = "LF" /\ Two(a, l)[4] = l
      /\ Three(a, l, m) \in Seq(Token) /\ Len(Three(a, l, m)) = 11
      /\ Three(a, l, m)[1] = a /\ Three(a, l, m)[2] = "CR" /\ Three(a, l, m)[3] = "LF"
      /\ Three(a, l, m)[4] = l /\ Three(a, l, m)[5] = "CR" /\ Three(a, l, m)[6] = "LF"
      /\ Three(a, l, m)[7] = m
  BY <1>1 DEF One, Two, Three
<1> DEFINE o == One(a)  w == Two(a, l)  t == Three(a, l, m)
<1> HIDE DEF o, w, t
<1>3. Upto(o, 1) = <<a>>
  <2> DEFINE u == Upto(o, 1)
  <2>1. 1 \in 0 .. Len(o) /\ o \in Seq(Token)
    BY <1>2 DEF o
  <2>2. u \in Seq(Token) /\ Len(u) = 1 /\ \A i \in 1 .. 1 : u[i] = o[i]
    BY <2>1, Parts
  <2> HIDE DEF u
  <2>3. u[1] = a
    BY <1>2, <2>2 DEF o
  <2>4. u = <<a>>
    BY <2>2, <2>3
  <2> QED BY <2>4 DEF u
<1>4. Upto(w, 4) = <<a, "CR", "LF", l>>
  <2> DEFINE u == Upto(w, 4)
  <2>1. 4 \in 0 .. Len(w) /\ w \in Seq(Token)
    BY <1>2 DEF w
  <2>2. u \in Seq(Token) /\ Len(u) = 4 /\ \A i \in 1 .. 4 : u[i] = w[i]
    BY <2>1, Parts
  <2> HIDE DEF u
  <2>3. u[1] = a /\ u[2] = "CR" /\ u[3] = "LF" /\ u[4] = l
    BY <1>2, <2>2 DEF w
  <2>4. u = <<a, "CR", "LF", l>>
    BY <2>2, <2>3
  <2> QED BY <2>4 DEF u
<1>5. Upto(t, 7) = <<a, "CR", "LF", l, "CR", "LF", m>>
  <2> DEFINE u == Upto(t, 7)
  <2>1. 7 \in 0 .. Len(t) /\ t \in Seq(Token)
    BY <1>2 DEF t
  <2>2. u \in Seq(Token) /\ Len(u) = 7 /\ \A i \in 1 .. 7 : u[i] = t[i]
    BY <2>1, Parts
  <2> HIDE DEF u
  <2>3. u[1] = a /\ u[2] = "CR" /\ u[3] = "LF" /\ u[4] = l /\ u[5] = "CR" /\ u[6] = "LF" /\ u[7] = m
    BY <1>2, <2>2 DEF t
  <2>4. u = <<a, "CR", "LF", l, "CR", "LF", m>>
    BY <2>2, <2>3
  <2> QED BY <2>4 DEF u
<1> QED BY <1>3, <1>4, <1>5 DEF o, w, t

\* What a concatenation is, element by element.
LEMMA Fits ==
  ASSUME NEW V, NEW s \in Seq(V), NEW t \in Seq(V), NEW u \in Seq(V), Len(u) = Len(s) + Len(t),
         \A i \in 1 .. Len(s) : u[i] = s[i],
         \A i \in 1 .. Len(t) : u[Len(s) + i] = t[i]
  PROVE  u = s \o t
<1>1. /\ s \o t \in Seq(V) /\ Len(s \o t) = Len(s) + Len(t) /\ Len(s) \in Nat /\ Len(t) \in Nat
      /\ \A i \in 1 .. Len(s) : (s \o t)[i] = s[i]
      /\ \A i \in 1 .. Len(t) : (s \o t)[Len(s) + i] = t[i]
  BY Joins
<1> DEFINE v == s \o t
<1> HIDE DEF v
<1>2. ASSUME NEW i \in 1 .. Len(u) PROVE u[i] = v[i]
  <2>1. CASE i <= Len(s)
    BY <1>1, <2>1 DEF v
  <2>2. CASE i > Len(s)
    <3>1. i - Len(s) \in 1 .. Len(t) /\ Len(s) + (i - Len(s)) = i
      BY <1>1, <2>2
    <3> QED BY <1>1, <3>1 DEF v
  <2> QED BY <1>1, <2>1, <2>2
<1>3. u = v
  BY <1>1, <1>2, SameElements DEF v
<1> QED BY <1>3 DEF v

\* Lines with their ends make headers.
LEMMA LinesJoin ==
  ASSUME NEW a \in Token, NEW l \in Token, NEW m \in Token
  PROVE  /\ <<a>> \o CRLF \o <<>> \o CRLF = One(a)
         /\ <<a>> \o CRLF \o (<<l>> \o CRLF) \o CRLF = Two(a, l)
         /\ <<a>> \o CRLF \o (<<l>> \o CRLF \o <<m>> \o CRLF) \o CRLF = Three(a, l, m)
<1>1. "CR" \in Token /\ "LF" \in Token
  BY DEF Token
<1>2. <<a>> \o <<"CR", "LF">> = <<a, "CR", "LF">>
  <2> DEFINE s == <<a>>  t == <<"CR", "LF">>  u == <<a, "CR", "LF">>
  <2>1. /\ s \in Seq(Token) /\ t \in Seq(Token) /\ u \in Seq(Token)
        /\ Len(s) = 1 /\ Len(t) = 2 /\ Len(u) = 3
    BY <1>1
  <2>2. /\ u[1] = s[1]
        /\ u[1 + 1] = t[1] /\ u[1 + 2] = t[2]
    OBVIOUS
  <2> HIDE DEF s, t, u
  <2>3. /\ \A i \in 1 .. 1 : i \in {1}
        /\ \A i \in 1 .. 2 : i \in {1, 2}
    OBVIOUS
  <2>4. /\ Len(u) = Len(s) + Len(t)
        /\ \A i \in 1 .. Len(s) : u[i] = s[i]
        /\ \A i \in 1 .. Len(t) : u[Len(s) + i] = t[i]
    BY <2>1, <2>2, <2>3
  <2>5. u = s \o t
    BY <2>1, <2>4, Fits
  <2> QED BY <2>5 DEF s, t, u
<1>3. <<l>> \o <<"CR", "LF">> = <<l, "CR", "LF">>
  <2> DEFINE s == <<l>>  t == <<"CR", "LF">>  u == <<l, "CR", "LF">>
  <2>1. /\ s \in Seq(Token) /\ t \in Seq(Token) /\ u \in Seq(Token)
        /\ Len(s) = 1 /\ Len(t) = 2 /\ Len(u) = 3
    BY <1>1
  <2>2. /\ u[1] = s[1]
        /\ u[1 + 1] = t[1] /\ u[1 + 2] = t[2]
    OBVIOUS
  <2> HIDE DEF s, t, u
  <2>3. /\ \A i \in 1 .. 1 : i \in {1}
        /\ \A i \in 1 .. 2 : i \in {1, 2}
    OBVIOUS
  <2>4. /\ Len(u) = Len(s) + Len(t)
        /\ \A i \in 1 .. Len(s) : u[i] = s[i]
        /\ \A i \in 1 .. Len(t) : u[Len(s) + i] = t[i]
    BY <2>1, <2>2, <2>3
  <2>5. u = s \o t
    BY <2>1, <2>4, Fits
  <2> QED BY <2>5 DEF s, t, u
<1>4. <<a, "CR", "LF">> \o <<"CR", "LF">> = <<a, "CR", "LF", "CR", "LF">>
  <2> DEFINE s == <<a, "CR", "LF">>  t == <<"CR", "LF">>  u == <<a, "CR", "LF", "CR", "LF">>
  <2>1. /\ s \in Seq(Token) /\ t \in Seq(Token) /\ u \in Seq(Token)
        /\ Len(s) = 3 /\ Len(t) = 2 /\ Len(u) = 5
    BY <1>1
  <2>2. /\ u[1] = s[1] /\ u[2] = s[2] /\ u[3] = s[3]
        /\ u[3 + 1] = t[1] /\ u[3 + 2] = t[2]
    OBVIOUS
  <2> HIDE DEF s, t, u
  <2>3. /\ \A i \in 1 .. 3 : i \in {1, 2, 3}
        /\ \A i \in 1 .. 2 : i \in {1, 2}
    OBVIOUS
  <2>4. /\ Len(u) = Len(s) + Len(t)
        /\ \A i \in 1 .. Len(s) : u[i] = s[i]
        /\ \A i \in 1 .. Len(t) : u[Len(s) + i] = t[i]
    BY <2>1, <2>2, <2>3
  <2>5. u = s \o t
    BY <2>1, <2>4, Fits
  <2> QED BY <2>5 DEF s, t, u
<1>5. <<a, "CR", "LF">> \o <<l, "CR", "LF">> = <<a, "CR", "LF", l, "CR", "LF">>
  <2> DEFINE s == <<a, "CR", "LF">>  t == <<l, "CR", "LF">>  u == <<a, "CR", "LF", l, "CR", "LF">>
  <2>1. /\ s \in Seq(Token) /\ t \in Seq(Token) /\ u \in Seq(Token)
        /\ Len(s) = 3 /\ Len(t) = 3 /\ Len(u) = 6
    BY <1>1
  <2>2. /\ u[1] = s[1] /\ u[2] = s[2] /\ u[3] = s[3]
        /\ u[3 + 1] = t[1] /\ u[3 + 2] = t[2] /\ u[3 + 3] = t[3]
    OBVIOUS
  <2> HIDE DEF s, t, u
  <2>3. /\ \A i \in 1 .. 3 : i \in {1, 2, 3}
        /\ \A i \in 1 .. 3 : i \in {1, 2, 3}
    OBVIOUS
  <2>4. /\ Len(u) = Len(s) + Len(t)
        /\ \A i \in 1 .. Len(s) : u[i] = s[i]
        /\ \A i \in 1 .. Len(t) : u[Len(s) + i] = t[i]
    BY <2>1, <2>2, <2>3
  <2>5. u = s \o t
    BY <2>1, <2>4, Fits
  <2> QED BY <2>5 DEF s, t, u
<1>6. <<a, "CR", "LF", l, "CR", "LF">> \o <<"CR", "LF">> = <<a, "CR", "LF", l, "CR", "LF", "CR", "LF">>
  <2> DEFINE s == <<a, "CR", "LF", l, "CR", "LF">>
             t == <<"CR", "LF">>
             u == <<a, "CR", "LF", l, "CR", "LF", "CR", "LF">>
  <2>1. /\ s \in Seq(Token) /\ t \in Seq(Token) /\ u \in Seq(Token)
        /\ Len(s) = 6 /\ Len(t) = 2 /\ Len(u) = 8
    BY <1>1
  <2>2. /\ u[1] = s[1] /\ u[2] = s[2] /\ u[3] = s[3] /\ u[4] = s[4] /\ u[5] = s[5] /\ u[6] = s[6]
        /\ u[6 + 1] = t[1] /\ u[6 + 2] = t[2]
    OBVIOUS
  <2> HIDE DEF s, t, u
  <2>3. /\ \A i \in 1 .. 6 : i \in {1, 2, 3, 4, 5, 6}
        /\ \A i \in 1 .. 2 : i \in {1, 2}
    OBVIOUS
  <2>4. /\ Len(u) = Len(s) + Len(t)
        /\ \A i \in 1 .. Len(s) : u[i] = s[i]
        /\ \A i \in 1 .. Len(t) : u[Len(s) + i] = t[i]
    BY <2>1, <2>2, <2>3
  <2>5. u = s \o t
    BY <2>1, <2>4, Fits
  <2> QED BY <2>5 DEF s, t, u
<1>7. <<l, "CR", "LF">> \o <<m>> = <<l, "CR", "LF", m>>
  <2> DEFINE s == <<l, "CR", "LF">>  t == <<m>>  u == <<l, "CR", "LF", m>>
  <2>1. /\ s \in Seq(Token) /\ t \in Seq(Token) /\ u \in Seq(Token)
        /\ Len(s) = 3 /\ Len(t) = 1 /\ Len(u) = 4
    BY <1>1
  <2>2. /\ u[1] = s[1] /\ u[2] = s[2] /\ u[3] = s[3]
        /\ u[3 + 1] = t[1]
    OBVIOUS
  <2> HIDE DEF s, t, u
  <2>3. /\ \A i \in 1 .. 3 : i \in {1, 2, 3}
        /\ \A i \in 1 .. 1 : i \in {1}
    OBVIOUS
  <2>4. /\ Len(u) = Len(s) + Len(t)
        /\ \A i \in 1 .. Len(s) : u[i] = s[i]
        /\ \A i \in 1 .. Len(t) : u[Len(s) + i] = t[i]
    BY <2>1, <2>2, <2>3
  <2>5. u = s \o t
    BY <2>1, <2>4, Fits
  <2> QED BY <2>5 DEF s, t, u
<1>8. <<l, "CR", "LF", m>> \o <<"CR", "LF">> = <<l, "CR", "LF", m, "CR", "LF">>
  <2> DEFINE s == <<l, "CR", "LF", m>>  t == <<"CR", "LF">>  u == <<l, "CR", "LF", m, "CR", "LF">>
  <2>1. /\ s \in Seq(Token) /\ t \in Seq(Token) /\ u \in Seq(Token)
        /\ Len(s) = 4 /\ Len(t) = 2 /\ Len(u) = 6
    BY <1>1
  <2>2. /\ u[1] = s[1] /\ u[2] = s[2] /\ u[3] = s[3] /\ u[4] = s[4]
        /\ u[4 + 1] = t[1] /\ u[4 + 2] = t[2]
    OBVIOUS
  <2> HIDE DEF s, t, u
  <2>3. /\ \A i \in 1 .. 4 : i \in {1, 2, 3, 4}
        /\ \A i \in 1 .. 2 : i \in {1, 2}
    OBVIOUS
  <2>4. /\ Len(u) = Len(s) + Len(t)
        /\ \A i \in 1 .. Len(s) : u[i] = s[i]
        /\ \A i \in 1 .. Len(t) : u[Len(s) + i] = t[i]
    BY <2>1, <2>2, <2>3
  <2>5. u = s \o t
    BY <2>1, <2>4, Fits
  <2> QED BY <2>5 DEF s, t, u
<1>9. <<a, "CR", "LF">> \o <<l, "CR", "LF", m, "CR", "LF">>
        = <<a, "CR", "LF", l, "CR", "LF", m, "CR", "LF">>
  <2> DEFINE s == <<a, "CR", "LF">>
             t == <<l, "CR", "LF", m, "CR", "LF">>
             u == <<a, "CR", "LF", l, "CR", "LF", m, "CR", "LF">>
  <2>1. /\ s \in Seq(Token) /\ t \in Seq(Token) /\ u \in Seq(Token)
        /\ Len(s) = 3 /\ Len(t) = 6 /\ Len(u) = 9
    BY <1>1
  <2>2. /\ u[1] = s[1] /\ u[2] = s[2] /\ u[3] = s[3]
        /\ u[3 + 1] = t[1] /\ u[3 + 2] = t[2] /\ u[3 + 3] = t[3]
        /\ u[3 + 4] = t[4] /\ u[3 + 5] = t[5] /\ u[3 + 6] = t[6]
    OBVIOUS
  <2> HIDE DEF s, t, u
  <2>3. /\ \A i \in 1 .. 3 : i \in {1, 2, 3}
        /\ \A i \in 1 .. 6 : i \in {1, 2, 3, 4, 5, 6}
    OBVIOUS
  <2>4. /\ Len(u) = Len(s) + Len(t)
        /\ \A i \in 1 .. Len(s) : u[i] = s[i]
        /\ \A i \in 1 .. Len(t) : u[Len(s) + i] = t[i]
    BY <2>1, <2>2, <2>3
  <2>5. u = s \o t
    BY <2>1, <2>4, Fits
  <2> QED BY <2>5 DEF s, t, u
<1>10. <<a, "CR", "LF", l, "CR", "LF", m, "CR", "LF">> \o <<"CR", "LF">>
         = <<a, "CR", "LF", l, "CR", "LF", m, "CR", "LF", "CR", "LF">>
  <2> DEFINE s == <<a, "CR", "LF", l, "CR", "LF", m, "CR", "LF">>
             t == <<"CR", "LF">>
             u == <<a, "CR", "LF", l, "CR", "LF", m, "CR", "LF", "CR", "LF">>
  <2>1. /\ s \in Seq(Token) /\ t \in Seq(Token) /\ u \in Seq(Token)
        /\ Len(s) = 9 /\ Len(t) = 2 /\ Len(u) = 11
    BY <1>1
  <2>2. /\ u[1] = s[1] /\ u[2] = s[2] /\ u[3] = s[3] /\ u[4] = s[4] /\ u[5] = s[5]
        /\ u[6] = s[6] /\ u[7] = s[7] /\ u[8] = s[8] /\ u[9] = s[9]
        /\ u[9 + 1] = t[1] /\ u[9 + 2] = t[2]
    OBVIOUS
  <2> HIDE DEF s, t, u
  <2>3. /\ \A i \in 1 .. 9 : i \in {1, 2, 3, 4, 5, 6, 7, 8, 9}
        /\ \A i \in 1 .. 2 : i \in {1, 2}
    OBVIOUS
  <2>4. /\ Len(u) = Len(s) + Len(t)
        /\ \A i \in 1 .. Len(s) : u[i] = s[i]
        /\ \A i \in 1 .. Len(t) : u[Len(s) + i] = t[i]
    BY <2>1, <2>2, <2>3
  <2>5. u = s \o t
    BY <2>1, <2>4, Fits
  <2> QED BY <2>5 DEF s, t, u
<1>11. <<a, "CR", "LF">> \o <<>> = <<a, "CR", "LF">>
  BY <1>1
<1>12. <<a>> \o CRLF \o <<>> \o CRLF = One(a)
  BY <1>2, <1>4, <1>11 DEF One, CRLF
<1>13. <<a>> \o CRLF \o (<<l>> \o CRLF) \o CRLF = Two(a, l)
  BY <1>2, <1>3, <1>5, <1>6 DEF Two, CRLF
<1>14. <<a>> \o CRLF \o (<<l>> \o CRLF \o <<m>> \o CRLF) \o CRLF = Three(a, l, m)
  BY <1>2, <1>3, <1>7, <1>8, <1>9, <1>10 DEF Three, CRLF
<1> QED BY <1>12, <1>13, <1>14

\* The headers of a reply, line by line.
LEMMA HeadersAre ==
  ASSUME NEW r \in Replies
  PROVE  /\ KindOf(r) = "length" => StatusAndHeaders(r) = Two("status", LengthLine[Len(r.body)])
         /\ KindOf(r) = "chunked" => StatusAndHeaders(r) = Two("status", "chunked")
         /\ KindOf(r) = "error" => StatusAndHeaders(r) = One("nostatus")
         /\ KindOf(r) = "close" => StatusAndHeaders(r) \in {One("status"), Three("status", "x", "y")}
<1>1. r.framing \in {"length", "chunked", "overrun", "close", "big", "garbage"}
  BY Lines
<1> DEFINE L == LengthLine[Len(r.body)]
<1>7. /\ L \in Token
      /\ \A t \in {"status", "nostatus", "chunked", "x", "y"} : t \in Token
  BY Lines DEF Token
<1> HIDE DEF L
<1>2. CASE r.framing \in {"length", "overrun"}
  <2>1. StatusAndHeaders(r) = <<"status">> \o CRLF \o (<<L>> \o CRLF) \o CRLF
    BY <1>2 DEF StatusAndHeaders, L
  <2>2. <<"status">> \o CRLF \o (<<L>> \o CRLF) \o CRLF = Two("status", L)
    BY <1>7, LinesJoin
  <2> QED BY <1>2, <2>1, <2>2 DEF KindOf, L
<1>3. CASE r.framing = "chunked"
  <2>1. StatusAndHeaders(r) = <<"status">> \o CRLF \o (<<"chunked">> \o CRLF) \o CRLF
    BY <1>3 DEF StatusAndHeaders
  <2>2. <<"status">> \o CRLF \o (<<"chunked">> \o CRLF) \o CRLF = Two("status", "chunked")
    BY <1>7, LinesJoin
  <2> QED BY <1>3, <2>1, <2>2 DEF KindOf
<1>4. CASE r.framing = "big"
  <2>1. StatusAndHeaders(r)
          = <<"status">> \o CRLF \o (<<"x">> \o CRLF \o <<"y">> \o CRLF) \o CRLF
    BY <1>4 DEF StatusAndHeaders
  <2>2. <<"status">> \o CRLF \o (<<"x">> \o CRLF \o <<"y">> \o CRLF) \o CRLF
          = Three("status", "x", "y")
    BY <1>7, LinesJoin
  <2> QED BY <1>4, <2>1, <2>2 DEF KindOf
<1>5. CASE r.framing = "garbage"
  <2>1. StatusAndHeaders(r) = <<"nostatus">> \o CRLF \o <<>> \o CRLF
    BY <1>5 DEF StatusAndHeaders
  <2>2. <<"nostatus">> \o CRLF \o <<>> \o CRLF = One("nostatus")
    BY <1>7, LinesJoin
  <2> QED BY <1>5, <2>1, <2>2 DEF KindOf
<1>6. CASE r.framing = "close"
  <2>1. StatusAndHeaders(r) = <<"status">> \o CRLF \o <<>> \o CRLF
    BY <1>6 DEF StatusAndHeaders
  <2>2. <<"status">> \o CRLF \o <<>> \o CRLF = One("status")
    BY <1>7, LinesJoin
  <2> QED BY <1>6, <2>1, <2>2 DEF KindOf
<1> QED BY <1>1, <1>2, <1>3, <1>4, <1>5, <1>6

\* read_response finds in the headers the kind of body the server announced.
LEMMA HeadersSay ==
  ASSUME NEW r \in Replies
  PROVE  LET s == StatusAndHeaders(r)
             h == Upto(s, Len(s) - 4)
         IN  /\ Ends(s)
             /\ parse_response_headers(h) = KindOf(r)
             /\ KindOf(r) = "length" => content_length(h) = Len(r.body)
<1> DEFINE L == LengthLine[Len(r.body)]
           s == StatusAndHeaders(r)
           h == Upto(s, Len(s) - 4)
           Plain == {"status", "nostatus", "chunked", "x", "y"}
<1>1. /\ Len(r.body) \in DOMAIN LengthLine
      /\ \A n \in DOMAIN LengthLine : LengthLine[n] \notin Plain \cup {"CR", "LF"}
      /\ \A n, k \in DOMAIN LengthLine : LengthLine[k] = LengthLine[n] => k = n
  BY Lines
<1>2. L \in Token \ {"CR", "LF"} /\ L \notin Plain /\ \A t \in Plain : t \in Token \ {"CR", "LF"}
  BY Lines DEF Token
<1>9. /\ L \in Token
      /\ "status" \in Token /\ "nostatus" \in Token /\ "chunked" \in Token
      /\ "x" \in Token /\ "y" \in Token
  BY <1>2
<1> HIDE DEF L
<1>10. \A t, u \in {L, "status", "nostatus", "chunked"} : Ends(One(t)) /\ Ends(Two(t, u))
  BY <1>2, HeadersEnd
<1>11. Ends(Three("status", "x", "y"))
  BY <1>2, HeadersEnd
<1>12. /\ Upto(Two("status", L), 4) = <<"status", "CR", "LF", L>>
       /\ Upto(Two("status", "chunked"), 4) = <<"status", "CR", "LF", "chunked">>
       /\ Upto(One("nostatus"), 1) = <<"nostatus">> /\ Upto(One("status"), 1) = <<"status">>
       /\ Upto(Three("status", "x", "y"), 7) = <<"status", "CR", "LF", "x", "CR", "LF", "y">>
  BY <1>9, HeadersBefore
<1>3. \A t, u, v, w, x, y, z :
        /\ Range(<<t>>) = {t}
        /\ Range(<<t, u, v, w>>) = {t, u, v, w}
        /\ Range(<<t, u, v, w, x, y, z>>) = {t, u, v, w, x, y, z}
  <2> SUFFICES ASSUME NEW t, NEW u, NEW v, NEW w, NEW x, NEW y, NEW z
               PROVE  /\ Range(<<t>>) = {t}
                      /\ Range(<<t, u, v, w>>) = {t, u, v, w}
                      /\ Range(<<t, u, v, w, x, y, z>>) = {t, u, v, w, x, y, z}
    OBVIOUS
  <2>1. 1 .. 1 = {1} /\ 1 .. 4 = {1, 2, 3, 4} /\ 1 .. 7 = {1, 2, 3, 4, 5, 6, 7}
    OBVIOUS
  <2> QED BY <2>1 DEF Range
<1>4. CASE KindOf(r) = "length"
  <2>1. s = Two("status", L)
    BY <1>4, HeadersAre DEF L
  <2>2. s \in Seq(Token) /\ Len(s) = 8
    BY <1>2, <2>1 DEF Two, Token
  <2>3. h = <<"status", "CR", "LF", L>>
    <3>1. Len(s) - 4 = 4
      BY <2>2
    <3> QED BY <1>12, <2>1, <2>2, <3>1
  <2>4. Range(h) = {"status", "CR", "LF", L} /\ h[1] = "status"
    BY <1>3, <2>3
  <2>5. Ends(s)
    BY <1>10, <2>1
  <2> HIDE DEF h, s
  <2>6. \A n \in DOMAIN LengthLine : LengthLine[n] \in Range(h) <=> n = Len(r.body)
    BY <1>1, <2>4 DEF L
  <2>7. parse_response_headers(h) = "length"
    BY <1>1, <1>2, <2>4, <2>6 DEF parse_response_headers
  <2>8. content_length(h) = Len(r.body)
    BY <1>1, <2>6 DEF content_length
  <2> QED BY <1>4, <2>2, <2>5, <2>7, <2>8 DEF h, s
<1>5. CASE KindOf(r) = "chunked"
  <2>1. s = Two("status", "chunked")
    BY <1>5, HeadersAre
  <2>2. s \in Seq(Token) /\ Len(s) = 8
    BY <1>2, <2>1 DEF Two, Token
  <2>3. h = <<"status", "CR", "LF", "chunked">>
    <3>1. Len(s) - 4 = 4
      BY <2>2
    <3> QED BY <1>12, <2>1, <2>2, <3>1
  <2>4. Range(h) = {"status", "CR", "LF", "chunked"} /\ h[1] = "status"
    BY <1>3, <2>3
  <2>5. Ends(s)
    BY <1>10, <2>1
  <2> HIDE DEF h, s
  <2>7. parse_response_headers(h) = "chunked"
    BY <2>4 DEF parse_response_headers
  <2> QED BY <1>5, <2>2, <2>5, <2>7 DEF h, s
<1>6. CASE KindOf(r) = "error"
  <2>1. s = One("nostatus")
    BY <1>6, HeadersAre
  <2>2. s \in Seq(Token) /\ Len(s) = 5
    BY <1>2, <2>1 DEF One, Token
  <2>3. h = <<"nostatus">>
    <3>1. Len(s) - 4 = 1
      BY <2>2
    <3> QED BY <1>12, <2>1, <2>2, <3>1
  <2>5. Ends(s)
    BY <1>10, <2>1
  <2>7. parse_response_headers(h) = "error"
    BY <2>3 DEF parse_response_headers
  <2> QED BY <1>6, <2>2, <2>5, <2>7
<1>7. CASE KindOf(r) = "close"
  <2>1. s = One("status") \/ s = Three("status", "x", "y")
    BY <1>7, HeadersAre
  <2>2. CASE s = One("status")
    <3>1. s \in Seq(Token) /\ Len(s) = 5
      BY <1>2, <2>2 DEF One, Token
    <3>2. h = <<"status">>
      <4>1. Len(s) - 4 = 1
        BY <3>1
      <4> QED BY <1>12, <2>2, <3>1, <4>1
    <3>3. Range(h) = {"status"} /\ h[1] = "status"
      BY <1>3, <3>2
    <3>4. Ends(s)
      BY <1>10, <2>2
    <3> HIDE DEF h, s
    <3>5. parse_response_headers(h) = "close"
      BY <1>1, <3>3 DEF parse_response_headers
    <3> QED BY <1>7, <3>1, <3>4, <3>5 DEF h, s
  <2>3. CASE s = Three("status", "x", "y")
    <3>1. s \in Seq(Token) /\ Len(s) = 11
      BY <1>2, <2>3 DEF Three, Token
    <3>2. h = <<"status", "CR", "LF", "x", "CR", "LF", "y">>
      <4>1. Len(s) - 4 = 7
        BY <3>1
      <4> QED BY <1>12, <2>3, <3>1, <4>1
    <3>3. Range(h) = {"status", "CR", "LF", "x", "y"} /\ h[1] = "status"
      BY <1>3, <3>2
    <3>4. Ends(s)
      BY <1>11, <2>3
    <3> HIDE DEF h, s
    <3>5. parse_response_headers(h) = "close"
      BY <1>1, <3>3 DEF parse_response_headers
    <3> QED BY <1>7, <3>1, <3>4, <3>5 DEF h, s
  <2> QED BY <2>1, <2>2, <2>3
<1>8. KindOf(r) \in {"length", "chunked", "error", "close"}
  BY DEF KindOf
<1> QED BY <1>4, <1>5, <1>6, <1>7, <1>8

-----------------------------------------------------------------------------
(* Searching a buffer                                                      *)

\* The first of some numbers.
LEMMA LeastIs ==
  ASSUME NEW S \in SUBSET Nat, S # {}
  PROVE  LeastOf(S) \in S /\ \A i \in S : LeastOf(S) <= i
BY Least DEF LeastOf

\* A separator of two tokens, token by token.
LEMMA OccursTwo ==
  ASSUME NEW b \in Seq(Token), NEW x \in Token, NEW y \in Token, NEW i \in 1 .. Len(b)
  PROVE  i \in Occurs(<<x, y>>, b) <=> i + 1 <= Len(b) /\ b[i] = x /\ b[i + 1] = y
<1> DEFINE sep == <<x, y>>
<1>1. Len(b) \in Nat /\ i + Len(sep) - 1 = i + 1 /\ i \in DOMAIN b
  <2>1. Len(sep) = 2
    OBVIOUS
  <2> QED BY <2>1
<1>2. CASE i + 1 <= Len(b)
  <2> DEFINE s == SubSeq(b, i, i + 1)
  <2>1. s \in Seq(Token) /\ Len(s) = 2 /\ s[1] = b[i] /\ s[2] = b[i + 1]
    <3>1. i \in Int /\ i + 1 \in Int /\ \A j \in i .. i + 1 : b[j] \in Token
      BY <1>1, <1>2
    <3>2. /\ s \in Seq(Token) /\ Len(s) = IF i <= i + 1 THEN (i + 1) - i + 1 ELSE 0
          /\ \A j \in 1 .. (i + 1) - i + 1 : s[j] = b[i + j - 1]
      BY <3>1, SubSeqProperties
    <3>3. (i + 1) - i + 1 = 2 /\ i + 1 - 1 = i /\ i + 2 - 1 = i + 1
      BY <1>1
    <3> HIDE DEF s
    <3> QED BY <3>2, <3>3
  <2> HIDE DEF s
  <2>2. s = sep <=> s[1] = x /\ s[2] = y
    BY <2>1
  <2>3. i \in Occurs(sep, b) <=> s = sep
    BY <1>1, <1>2 DEF Occurs, s
  <2> HIDE DEF sep
  <2>4. i \in Occurs(sep, b) <=> b[i] = x /\ b[i + 1] = y
    BY <2>1, <2>2, <2>3
  <2> QED BY <1>2, <2>4 DEF sep
<1>3. CASE ~(i + 1 <= Len(b))
  BY <1>1, <1>3 DEF Occurs
<1> QED BY <1>2, <1>3

\* The end of the headers, token by token.
LEMMA OccursFour ==
  ASSUME NEW b \in Seq(Token), NEW i \in 1 .. Len(b)
  PROVE  i \in find_header_end(b) <=> i + 3 <= Len(b) /\ EndAt(b, i)
<1> DEFINE sep == <<"CR", "LF", "CR", "LF">>
<1>1. Len(b) \in Nat /\ i + Len(sep) - 1 = i + 3 /\ i \in DOMAIN b
  <2>1. Len(sep) = 4
    OBVIOUS
  <2> QED BY <2>1
<1>4. CRLF \o CRLF = sep
  <2>1. "CR" \in Token /\ "LF" \in Token
    BY DEF Token
  <2> DEFINE c == <<"CR", "LF">>
  <2>2. /\ c \in Seq(Token) /\ sep \in Seq(Token) /\ Len(c) = 2 /\ Len(sep) = 4
        /\ sep[1] = c[1] /\ sep[2] = c[2] /\ sep[2 + 1] = c[1] /\ sep[2 + 2] = c[2]
    BY <2>1
  <2> HIDE DEF c, sep
  <2>3. \A j \in 1 .. 2 : j \in {1, 2}
    OBVIOUS
  <2>4. /\ Len(sep) = Len(c) + Len(c)
        /\ \A j \in 1 .. Len(c) : sep[j] = c[j]
        /\ \A j \in 1 .. Len(c) : sep[Len(c) + j] = c[j]
    BY <2>2, <2>3
  <2>5. sep = c \o c
    BY <2>2, <2>4, Fits
  <2> QED BY <2>5 DEF c, CRLF
<1>2. CASE i + 3 <= Len(b)
  <2> DEFINE s == SubSeq(b, i, i + 3)
  <2>1. /\ s \in Seq(Token) /\ Len(s) = 4
        /\ s[1] = b[i] /\ s[2] = b[i + 1] /\ s[3] = b[i + 2] /\ s[4] = b[i + 3]
    <3>1. i \in Int /\ i + 3 \in Int /\ \A j \in i .. i + 3 : b[j] \in Token
      BY <1>1, <1>2
    <3>2. /\ s \in Seq(Token) /\ Len(s) = IF i <= i + 3 THEN (i + 3) - i + 1 ELSE 0
          /\ \A j \in 1 .. (i + 3) - i + 1 : s[j] = b[i + j - 1]
      BY <3>1, SubSeqProperties
    <3>3. /\ (i + 3) - i + 1 = 4
          /\ i + 1 - 1 = i /\ i + 2 - 1 = i + 1 /\ i + 3 - 1 = i + 2 /\ i + 4 - 1 = i + 3
      BY <1>1
    <3> HIDE DEF s
    <3> QED BY <3>2, <3>3
  <2> HIDE DEF s
  <2>2. s = sep <=> s[1] = "CR" /\ s[2] = "LF" /\ s[3] = "CR" /\ s[4] = "LF"
    BY <2>1
  <2>3. i \in find_header_end(b) <=> s = sep
    BY <1>1, <1>2, <1>4 DEF find_header_end, Occurs, s
  <2> HIDE DEF sep
  <2>4. i \in find_header_end(b) <=> EndAt(b, i)
    BY <2>1, <2>2, <2>3 DEF EndAt
  <2> QED BY <1>2, <2>4
<1>3. CASE ~(i + 3 <= Len(b))
  BY <1>1, <1>3, <1>4 DEF find_header_end, Occurs
<1> QED BY <1>2, <1>3

\* read_headers finds the end of the headers as soon as it has arrived, and
\* what follows it is the beginning of the body.
LEMMA HeadersFound ==
  ASSUME NEW s, Ends(s), NEW t \in Seq(Token), NEW b, NEW w, NEW c, Ahead(b, w, s \o t, c),
         find_header_end(b) # {}
  PROVE  LET p == LeastOf(find_header_end(b))
         IN  Upto(b, p - 1) = Upto(s, Len(s) - 4) /\ Ahead(From(b, p + 4), w, t, c)
<1> DEFINE y == s \o t
           found == find_header_end(b)
           e == Len(s) - 3
<1>1. /\ s \in Seq(Token) /\ Len(s) \in Nat /\ Len(s) >= 5 /\ Len(b) \in Nat /\ Len(w) \in Nat
      /\ b \in Seq(Token) /\ c \in Nat /\ Len(b) + Len(w) + c = Len(y)
      /\ \A i \in 1 .. Len(b) : b[i] = y[i]
  BY DEF Ahead, Ends
<1>2. \A i \in 1 .. Len(s) : y[i] = s[i]
  BY <1>1, Joins
<1> HIDE DEF y
<1>3. \A i \in 1 .. Len(b) : i \in found <=> i + 3 <= Len(b) /\ EndAt(b, i)
  BY <1>1, OccursFour
<1>4. found \subseteq 1 .. Len(b)
  <2>1. found \subseteq DOMAIN b
    BY DEF find_header_end, Occurs
  <2> QED BY <1>1, <2>1
<1> HIDE DEF found
<1>5. ASSUME NEW i \in found PROVE i >= e
  <2> SUFFICES ASSUME i < e PROVE FALSE
    BY <1>1, <1>4
  <2>1. i \in 1 .. Len(b) /\ i + 3 <= Len(b) /\ EndAt(b, i)
    BY <1>3, <1>4
  <2>2. i \in 1 .. Len(s) - 4 /\ \A j \in 0 .. 3 : i + j \in 1 .. Len(s) /\ i + j \in 1 .. Len(b)
    BY <1>1, <2>1
  <2>3. \A j \in 0 .. 3 : b[i + j] = s[i + j]
    BY <1>1, <1>2, <2>2
  <2>4. b[i + 0] = s[i + 0] /\ b[i + 1] = s[i + 1] /\ b[i + 2] = s[i + 2] /\ b[i + 3] = s[i + 3]
    BY <2>3
  <2>5. b[i] = s[i]
    BY <2>1, <2>4
  <2>6. EndAt(s, i)
    BY <2>1, <2>4, <2>5 DEF EndAt
  <2> QED BY <2>2, <2>6 DEF Ends
<1>6. PICK k \in found : TRUE
  BY DEF found
<1>7. Len(s) <= Len(b)
  <2>1. k >= e /\ k + 3 <= Len(b) /\ k \in Int
    BY <1>3, <1>4, <1>5, <1>6
  <2> QED BY <1>1, <2>1
<1>8. e \in found
  <2>1. e \in 1 .. Len(b) /\ e + 3 = Len(s)
        /\ \A j \in 0 .. 3 : e + j \in 1 .. Len(s) /\ e + j \in 1 .. Len(b)
    BY <1>1, <1>7
  <2>2. \A j \in 0 .. 3 : b[e + j] = s[e + j]
    BY <1>1, <1>2, <2>1
  <2>3. e \in Int /\ EndAt(s, e)
    BY <1>1 DEF Ends
  <2> HIDE DEF e
  <2>4. b[e + 0] = s[e + 0] /\ b[e + 1] = s[e + 1] /\ b[e + 2] = s[e + 2] /\ b[e + 3] = s[e + 3]
    BY <2>2
  <2>5. EndAt(b, e)
    BY <2>3, <2>4 DEF EndAt
  <2> QED BY <1>3, <1>7, <2>1, <2>5
<1>9. LeastOf(found) = e
  <2>1. found \in SUBSET Nat /\ found # {}
    BY <1>4, <1>8
  <2>2. LeastOf(found) \in found /\ LeastOf(found) <= e
    BY <1>8, <2>1, LeastIs
  <2>3. LeastOf(found) >= e /\ LeastOf(found) \in Int
    <3> DEFINE m == LeastOf(found)
    <3> HIDE DEF m
    <3>1. m \in found
      BY <2>2 DEF m
    <3>2. m >= e /\ m \in Int
      BY <1>4, <1>5, <3>1
    <3> QED BY <3>2 DEF m
  <2> QED BY <1>1, <2>2, <2>3
<1>10. Upto(b, e - 1) = Upto(s, Len(s) - 4)
  <2>1. e - 1 = Len(s) - 4 /\ e - 1 \in 0 .. Len(b) /\ e - 1 \in 0 .. Len(s)
    BY <1>1, <1>7
  <2> DEFINE n == e - 1  u == Upto(b, n)  v == Upto(s, n)
  <2>2. /\ u \in Seq(Token) /\ Len(u) = n /\ \A i \in 1 .. n : u[i] = b[i]
        /\ v \in Seq(Token) /\ Len(v) = n /\ \A i \in 1 .. n : v[i] = s[i]
    <3>1. n \in 0 .. Len(b) /\ n \in 0 .. Len(s)
      BY <2>1
    <3> HIDE DEF n
    <3> QED BY <1>1, <3>1, Parts
  <2>3. \A i \in 1 .. n : b[i] = s[i]
    BY <1>1, <1>2, <2>1
  <2> HIDE DEF u, v
  <2>4. u = v
    BY <2>2, <2>3, SameElements
  <2> QED BY <2>1, <2>4 DEF u, v
<1>11. Ahead(From(b, e + 4), w, t, c)
  <2>1. Ahead(From(b, Len(s) + 1), w, From(y, Len(s) + 1), c)
    BY <1>1, <1>7, AheadTaken DEF y
  <2>2. From(y, Len(s) + 1) = t
    BY <1>1, SecondPart DEF y
  <2>3. e + 4 = Len(s) + 1
    BY <1>1
  <2> HIDE DEF e
  <2> QED BY <2>1, <2>2, <2>3
<1>12. LeastOf(find_header_end(b)) = e
  BY <1>9 DEF found
<1> HIDE DEF e
<1> QED BY <1>10, <1>11, <1>12

-----------------------------------------------------------------------------
(* Recursive functions                                                     *)

\* A function on 0 .. n whose value at i is made from the one at before[i].
Makers(S, n) == [1 .. n -> [S -> S]]
Jumps(n) == {before \in [1 .. n -> Nat] : \A i \in 1 .. n : before[i] < i}
Follows(f, n, e, G, before) ==
  f[0] = e /\ \A i \in 1 .. n : f[i] = G[i][f[before[i]]]

\* There is such a function.
LEMMA Recursion ==
  ASSUME NEW S, NEW n \in Nat, NEW e \in S, NEW G \in Makers(S, n), NEW before \in Jumps(n)
  PROVE  \E f \in [0 .. n -> S] : Follows(f, n, e, G, before)
<1> DEFINE T == {k \in Nat : k <= n => \E f \in [0 .. k -> S] : Follows(f, k, e, G, before)}
<1>1. 0 \in T
  <2> DEFINE f == [i \in 0 .. 0 |-> e]
  <2>1. f \in [0 .. 0 -> S] /\ f[0] = e
    OBVIOUS
  <2>2. \A i \in 1 .. 0 : FALSE
    OBVIOUS
  <2> HIDE DEF f
  <2>3. Follows(f, 0, e, G, before)
    BY <2>1, <2>2 DEF Follows
  <2> QED BY <2>1, <2>3
<1>2. ASSUME NEW k \in Nat, k \in T, k + 1 <= n
      PROVE  \E f \in [0 .. k + 1 -> S] : Follows(f, k + 1, e, G, before)
  <2>1. PICK f \in [0 .. k -> S] : Follows(f, k, e, G, before)
    BY <1>2
  <2> DEFINE j == before[k + 1]
             g == [i \in 0 .. k + 1 |-> IF i <= k THEN f[i] ELSE G[k + 1][f[j]]]
  <2>2. k + 1 \in 1 .. n /\ \A i \in 1 .. k + 1 : before[i] \in Nat /\ before[i] < i
    BY <1>2 DEF Jumps
  <2>3. j \in 0 .. k /\ G[k + 1] \in [S -> S]
    BY <2>2 DEF Makers
  <2>4. G[k + 1][f[j]] \in S
    BY <2>3
  <2>5. g \in [0 .. k + 1 -> S]
    <3>1. \A i \in 0 .. k + 1 : i <= k => f[i] \in S
      OBVIOUS
    <3> QED BY <2>4, <3>1
  <2>6. /\ \A i \in 0 .. k : g[i] = f[i]
        /\ g[k + 1] = G[k + 1][f[j]]
    OBVIOUS
  <2> HIDE DEF g
  <2>7. ASSUME NEW i \in 1 .. k + 1 PROVE g[i] = G[i][g[before[i]]]
    <3>1. before[i] \in 0 .. k
      BY <2>2
    <3>2. CASE i <= k
      <4>1. i \in 1 .. k /\ i \in 0 .. k
        BY <3>2
      <4> QED BY <2>1, <2>6, <3>1, <4>1 DEF Follows
    <3>3. CASE i = k + 1
      BY <2>6, <3>1, <3>3
    <3> QED BY <3>2, <3>3
  <2>8. g[0] = e
    BY <2>1, <2>6 DEF Follows
  <2>9. Follows(g, k + 1, e, G, before)
    BY <2>7, <2>8 DEF Follows
  <2> QED BY <2>5, <2>9
<1>3. n \in T
  <2>1. \A k \in Nat : k \in T => k + 1 \in T
    BY <1>2
  <2> HIDE DEF T
  <2> QED BY <1>1, <2>1, Induction
<1> QED BY <1>3

\* Every such function has its values in S.
LEMMA Values ==
  ASSUME NEW S, NEW n \in Nat, NEW e \in S, NEW G \in Makers(S, n), NEW before \in Jumps(n),
         NEW f, Follows(f, n, e, G, before)
  PROVE  \A i \in 0 .. n : f[i] \in S
<1> DEFINE T == {k \in Nat : \A i \in 0 .. n : i <= k => f[i] \in S}
<1>1. 0 \in T
  BY DEF Follows
<1>2. ASSUME NEW k \in Nat, k \in T PROVE k + 1 \in T
  <2> SUFFICES ASSUME NEW i \in 0 .. n, i = k + 1 PROVE f[i] \in S
    BY <1>2
  <2>1. i \in 1 .. n /\ before[i] \in Nat /\ before[i] < i /\ G[i] \in [S -> S]
    BY DEF Jumps, Makers
  <2>2. before[i] \in 0 .. n /\ before[i] <= k
    BY <2>1
  <2>3. f[before[i]] \in S
    BY <1>2, <2>2
  <2> QED BY <2>1, <2>3 DEF Follows
<1>3. n \in T
  <2> HIDE DEF T
  <2> QED BY <1>1, <1>2, Induction
<1> QED BY <1>3

-----------------------------------------------------------------------------
(* Chunks                                                                  *)

\* Concatenation is associative.
LEMMA Regrouped ==
  ASSUME NEW V, NEW s \in Seq(V), NEW t \in Seq(V), NEW u \in Seq(V)
  PROVE  (s \o t) \o u = s \o (t \o u)
OBVIOUS

\* The same of tokens.
LEMMA TokensRegrouped ==
  \A s, t, u \in Seq(Token) : (s \o t) \o u = s \o (t \o u)
BY Regrouped

\* The chunk that begins when n tokens are left, and what is sent from there on.
SizeOf(n) == IF n < MaxChunk THEN n ELSE MaxChunk
Data(s, n) == SubSeq(s, Len(s) - n + 1, Len(s) - n + SizeOf(n))
SizeLineOf(k) == <<SizeLine[k], "CR", "LF">>
IsRest(s, f) ==
  /\ f[0] = SizeLineOf(0) \o CRLF
  /\ \A n \in 1 .. Len(s) : f[n] = SizeLineOf(SizeOf(n)) \o (Data(s, n) \o CRLF \o f[n - SizeOf(n)])
  /\ \A n \in 0 .. Len(s) : f[n] \in Seq(Token)
  /\ Chunks(s) = f[Len(s)]

\* Sizes of chunks.
LEMMA Sized ==
  ASSUME NEW n \in Nat, n > 0
  PROVE  SizeOf(n) \in 1 .. n /\ SizeOf(n) \in 1 .. MaxChunk
BY Lines DEF SizeOf

\* A size line and the CR LF behind it, token by token.
LEMMA SizeLineIs ==
  ASSUME NEW k \in 0 .. MaxChunk
  PROVE  /\ <<SizeLine[k]>> \o CRLF = SizeLineOf(k)
         /\ SizeLineOf(k) \in Seq(Token) /\ Len(SizeLineOf(k)) = 3 /\ CRLF \in Seq(Token)
         /\ Len(CRLF) = 2 /\ CRLF[1] = "CR" /\ CRLF[2] = "LF"
         /\ SizeLineOf(k)[1] = SizeLine[k] /\ SizeLine[k] # "CR" /\ SizeLineOf(k)[2] = "CR"
         /\ SizeLineOf(k)[3] = "LF"
<1>1. /\ SizeLine[k] \in Token /\ "CR" \in Token /\ "LF" \in Token /\ SizeLine[k] # "CR"
  BY Lines DEF Token
<1> DEFINE a == SizeLine[k]
<1> HIDE DEF a
<1>2. /\ a \in Token /\ SizeLineOf(k) = <<a, "CR", "LF">>
  BY <1>1 DEF SizeLineOf, a
<1>3. <<a>> \o CRLF = <<a, "CR", "LF">>
  <2> DEFINE s == <<a>>  t == <<"CR", "LF">>  u == <<a, "CR", "LF">>
  <2>1. /\ s \in Seq(Token) /\ t \in Seq(Token) /\ u \in Seq(Token)
        /\ Len(s) = 1 /\ Len(t) = 2 /\ Len(u) = 3
    BY <1>1, <1>2
  <2>2. u[1] = s[1] /\ u[1 + 1] = t[1] /\ u[1 + 2] = t[2]
    OBVIOUS
  <2> HIDE DEF s, t, u
  <2>3. /\ \A i \in 1 .. 1 : i \in {1}
        /\ \A i \in 1 .. 2 : i \in {1, 2}
    OBVIOUS
  <2>4. /\ Len(u) = Len(s) + Len(t)
        /\ \A i \in 1 .. Len(s) : u[i] = s[i]
        /\ \A i \in 1 .. Len(t) : u[Len(s) + i] = t[i]
    BY <2>1, <2>2, <2>3
  <2>5. u = s \o t
    BY <2>1, <2>4, Fits
  <2> QED BY <2>5 DEF s, t, u, CRLF
<1>4. CRLF \in Seq(Token) /\ Len(CRLF) = 2 /\ CRLF[1] = "CR" /\ CRLF[2] = "LF"
  BY <1>1 DEF CRLF
<1>5. /\ SizeLineOf(k) \in Seq(Token) /\ Len(SizeLineOf(k)) = 3
      /\ SizeLineOf(k)[1] = a /\ SizeLineOf(k)[2] = "CR" /\ SizeLineOf(k)[3] = "LF"
  BY <1>1, <1>2
<1>6. <<SizeLine[k]>> \o CRLF = SizeLineOf(k)
  BY <1>2, <1>3 DEF a
<1> QED BY <1>1, <1>4, <1>5, <1>6 DEF a

\* The data of a chunk.
LEMMA DataIs ==
  ASSUME NEW s \in Seq(STRING), NEW n \in 1 .. Len(s)
  PROVE  /\ Data(s, n) \in Seq(Token) /\ Len(Data(s, n)) = SizeOf(n)
         /\ \A i \in 1 .. SizeOf(n) : Data(s, n)[i] = s[Len(s) - n + i]
<1>1. Len(s) \in Nat /\ \A i \in 1 .. Len(s) : s[i] \in Token
  BY DEF Token
<1>2. SizeOf(n) \in 1 .. n
  BY Sized
<1> DEFINE k == SizeOf(n)  a == Len(s) - n + 1  z == Len(s) - n + k  d == Data(s, n)
<1> HIDE DEF k
<1>3. /\ k \in 1 .. n /\ a \in Int /\ z \in Int /\ a <= z /\ z - a + 1 = k
      /\ \A i \in a .. z : i \in 1 .. Len(s)
      /\ \A i \in 1 .. k : a + i - 1 = Len(s) - n + i
  BY <1>1, <1>2 DEF k
<1>4. d = SubSeq(s, a, z)
  BY DEF Data, k
<1> HIDE DEF a, z, d
<1>5. \A i \in a .. z : s[i] \in Token
  BY <1>1, <1>3
<1>6. /\ d \in Seq(Token) /\ Len(d) = IF a <= z THEN z - a + 1 ELSE 0
      /\ \A i \in 1 .. z - a + 1 : d[i] = s[a + i - 1]
  BY <1>3, <1>4, <1>5, SubSeqProperties
<1>7. d \in Seq(Token) /\ Len(d) = k /\ \A i \in 1 .. k : d[i] = s[Len(s) - n + i]
  BY <1>3, <1>6
<1> QED BY <1>7 DEF d, k

\* The recursive function of Chunks, unfolded.
LEMMA ChunksAre ==
  ASSUME NEW s \in Seq(STRING)
  PROVE  \E f : IsRest(s, f)
<1> DEFINE N == Len(s)
           S == Seq(Token)
           front(n) == SizeLineOf(SizeOf(n)) \o Data(s, n) \o CRLF
           e == SizeLineOf(0) \o CRLF
           G == [n \in 1 .. N |-> [r \in S |-> front(n) \o r]]
           before == [n \in 1 .. N |-> n - SizeOf(n)]
           E(f, n) == IF n = 0 THEN <<SizeLine[0]>> \o CRLF \o CRLF
                      ELSE <<SizeLine[SizeOf(n)]>> \o CRLF \o Data(s, n) \o CRLF \o f[n - SizeOf(n)]
           W == CHOOSE f : f = [n \in 0 .. N |-> E(f, n)]
<1>1. N \in Nat /\ MaxChunk \in Nat /\ 0 \in 0 .. MaxChunk
  BY Lines
<1>2. Chunks(s) = W[N]
  BY DEF Chunks, Data, SizeOf
<1>3. ASSUME NEW n \in 1 .. N
      PROVE  /\ SizeOf(n) \in 1 .. n /\ SizeOf(n) \in 0 .. MaxChunk
             /\ SizeLineOf(SizeOf(n)) \in S /\ CRLF \in S /\ Data(s, n) \in S /\ front(n) \in S
             /\ <<SizeLine[SizeOf(n)]>> \o CRLF = SizeLineOf(SizeOf(n))
  <2>1. SizeOf(n) \in 1 .. n /\ SizeOf(n) \in 1 .. MaxChunk
    BY Sized
  <2>2. SizeOf(n) \in 0 .. MaxChunk
    BY <2>1
  <2>3. /\ SizeLineOf(SizeOf(n)) \in S /\ CRLF \in S
        /\ <<SizeLine[SizeOf(n)]>> \o CRLF = SizeLineOf(SizeOf(n))
    BY <2>2, SizeLineIs
  <2>4. Data(s, n) \in S
    BY DataIs
  <2>5. front(n) \in S
    BY <2>3, <2>4
  <2> QED BY <2>1, <2>2, <2>3, <2>4, <2>5
<1>17. ASSUME NEW n \in 1 .. N
       PROVE  n - SizeOf(n) \in 0 .. N /\ n - SizeOf(n) \in Nat /\ n - SizeOf(n) < n
  <2> DEFINE k == SizeOf(n)
  <2>1. k \in 1 .. n
    BY <1>3
  <2> HIDE DEF k
  <2>2. n - k \in 0 .. N /\ n - k \in Nat /\ n - k < n
    BY <1>1, <2>1
  <2> QED BY <2>2 DEF k
<1>4. e \in S /\ <<SizeLine[0]>> \o CRLF \o CRLF = e
  BY <1>1, SizeLineIs
<1>5. G \in Makers(S, N)
  <2>1. ASSUME NEW n \in 1 .. N, NEW r \in S PROVE front(n) \o r \in S
    <3>1. front(n) \in S
      BY <1>3
    <3> HIDE DEF front
    <3> QED BY <3>1
  <2> HIDE DEF front, S
  <2>2. \A n \in 1 .. N : [r \in S |-> front(n) \o r] \in [S -> S]
    BY <2>1
  <2> QED BY <2>2 DEF Makers
<1>6. before \in Jumps(N)
  <2>1. \A n \in 1 .. N : n - SizeOf(n) \in Nat /\ n - SizeOf(n) < n
    BY <1>17
  <2> QED BY <2>1 DEF Jumps
<1>7. /\ \A n \in 1 .. N : before[n] = n - SizeOf(n)
      /\ \A n \in 1 .. N : \A r \in S : G[n][r] = front(n) \o r
  OBVIOUS
<1> HIDE DEF G, before, e, front
<1>8. PICK f \in [0 .. N -> S] : Follows(f, N, e, G, before)
  BY <1>1, <1>4, <1>5, <1>6, Recursion
<1>9. ASSUME NEW n \in 1 .. N, NEW r \in S
      PROVE  front(n) \o r = <<SizeLine[SizeOf(n)]>> \o CRLF \o Data(s, n) \o CRLF \o r
  BY <1>3 DEF front
<1>10. f = [n \in 0 .. N |-> E(f, n)]
  <2>1. ASSUME NEW n \in 0 .. N PROVE f[n] = E(f, n)
    <3>1. CASE n = 0
      BY <1>4, <1>8, <3>1 DEF Follows
    <3>2. CASE n # 0
      <4>1. n \in 1 .. N
        BY <3>2
      <4>2. n - SizeOf(n) \in 0 .. N
        BY <1>17, <4>1
      <4>3. f[n - SizeOf(n)] \in S
        BY <4>2
      <4>4. f[n] = G[n][f[n - SizeOf(n)]]
        BY <1>7, <1>8, <4>1 DEF Follows
      <4>5. f[n] = front(n) \o f[n - SizeOf(n)]
        BY <1>7, <4>1, <4>3, <4>4
      <4> QED BY <1>9, <3>2, <4>1, <4>3, <4>5
    <3> QED BY <3>1, <3>2
  <2> HIDE DEF E
  <2> QED BY <2>1
<1>11. W = [n \in 0 .. N |-> E(W, n)]
  <2> HIDE DEF E
  <2> QED BY <1>10
<1> HIDE DEF W
<1>12. /\ W[0] = e
       /\ \A n \in 1 .. N : W[n] = <<SizeLine[SizeOf(n)]>> \o CRLF \o Data(s, n) \o CRLF \o W[n - SizeOf(n)]
  <2>1. \A n \in 0 .. N : W[n] = E(W, n)
    <3> HIDE DEF E
    <3> QED BY <1>11
  <2>2. 0 \in 0 .. N /\ \A n \in 1 .. N : n \in 0 .. N /\ n # 0
    BY <1>1
  <2> QED BY <1>4, <2>1, <2>2
<1>13. \A n \in 0 .. N : W[n] = f[n]
  <2> DEFINE T == {k \in Nat : \A n \in 0 .. N : n <= k => W[n] = f[n]}
  <2>1. 0 \in T
    BY <1>8, <1>12 DEF Follows
  <2>2. ASSUME NEW k \in Nat, k \in T PROVE k + 1 \in T
    <3> SUFFICES ASSUME NEW n \in 0 .. N, n = k + 1 PROVE W[n] = f[n]
      BY <2>2
    <3>1. n \in 1 .. N /\ n - SizeOf(n) \in 0 .. N /\ n - SizeOf(n) <= k
      <4>1. n \in 1 .. N
        BY <2>2
      <4>2. n - SizeOf(n) \in 0 .. N /\ n - SizeOf(n) < n
        BY <1>17, <4>1
      <4> QED BY <2>2, <4>1, <4>2
    <3>2. W[n - SizeOf(n)] = f[n - SizeOf(n)]
      BY <2>2, <3>1
    <3>3. f[n] = E(f, n) /\ n # 0
      <4>1. n # 0
        BY <3>1
      <4> DEFINE F(i) == E(f, i)
      <4>2. f = [i \in 0 .. N |-> F(i)]
        BY <1>10
      <4> HIDE DEF F
      <4>3. f[n] = F(n)
        BY <4>2
      <4> QED BY <4>1, <4>3 DEF F
    <3> QED BY <1>12, <3>1, <3>2, <3>3
  <2>3. N \in T
    <3> HIDE DEF T
    <3> QED BY <1>1, <2>1, <2>2, Induction
  <2> QED BY <2>3
<1>14. \A n \in 0 .. N : W[n] \in S
  BY <1>13
<1>15. ASSUME NEW n \in 1 .. N
       PROVE  W[n] = SizeLineOf(SizeOf(n)) \o (Data(s, n) \o CRLF \o W[n - SizeOf(n)])
  <2>1. n - SizeOf(n) \in 0 .. N
    BY <1>17
  <2> DEFINE a == SizeLineOf(SizeOf(n))  d == Data(s, n)  r == W[n - SizeOf(n)]
  <2>2. a \in S /\ d \in S /\ CRLF \in S /\ r \in S /\ W[n] = a \o d \o CRLF \o r
    BY <1>3, <1>12, <1>14, <2>1
  <2> HIDE DEF a, d, r, S
  <2>3. (a \o d) \o CRLF = a \o (d \o CRLF) /\ d \o CRLF \in S
    <3> DEFINE c == CRLF
    <3>1. a \in Seq(Token) /\ d \in Seq(Token) /\ c \in Seq(Token)
      BY <2>2 DEF S
    <3> HIDE DEF c
    <3>2. (a \o d) \o c = a \o (d \o c)
      BY ONLY <3>1, TokensRegrouped
    <3>3. d \o c \in Seq(Token)
      BY ONLY <3>1, Joins
    <3> QED BY <3>2, <3>3 DEF c, S
  <2>4. (a \o (d \o CRLF)) \o r = a \o ((d \o CRLF) \o r)
    <3> DEFINE q == d \o CRLF
    <3>1. q \in Seq(Token)
      BY <2>3 DEF S
    <3> HIDE DEF q
    <3>3. a \in Seq(Token) /\ r \in Seq(Token)
      BY <2>2 DEF S
    <3>2. (a \o q) \o r = a \o (q \o r)
      BY ONLY <3>1, <3>3, TokensRegrouped
    <3> QED BY <3>2 DEF q
  <2> QED BY <2>2, <2>3, <2>4 DEF a, d, r
<1>16. IsRest(s, W)
  BY <1>2, <1>12, <1>14, <1>15 DEF IsRest, e
<1> QED BY <1>16

-----------------------------------------------------------------------------
(* Events                                                                  *)

Parsed == {parse_sse_event(b) : b \in Seq(Token)}
Scan == [blocks : Seq(Parsed), begun : Seq(Token)]

\* What one more token makes of a scan.
Scanned(r, t) ==
  LET k == Len(r.begun)
  IN  IF t = "LF" /\ k > 0 /\ r.begun[k] = "LF"
      THEN [blocks |-> Append(r.blocks, parse_sse_event(SubSeq(r.begun, 1, k - 1))), begun |-> <<>>]
      ELSE [blocks |-> r.blocks, begun |-> Append(r.begun, t)]
Final(r) == IF parse_sse_event(r.begun) = <<>> THEN r.blocks
            ELSE Append(r.blocks, parse_sse_event(r.begun))
IsScan(s, f) ==
  /\ f[0] = [blocks |-> <<>>, begun |-> <<>>]
  /\ \A n \in 1 .. Len(s) : f[n] = Scanned(f[n - 1], s[n])
  /\ \A n \in 0 .. Len(s) : f[n] \in Scan
  /\ Blocks(s) = Final(f[Len(s)])

\* A scan stays a scan.
LEMMA ScanTyped ==
  ASSUME NEW r \in Scan, NEW t \in Token
  PROVE  Scanned(r, t) \in Scan
<1> DEFINE k == Len(r.begun)
           u == SubSeq(r.begun, 1, k - 1)
<1>1. r.begun \in Seq(Token) /\ r.blocks \in Seq(Parsed) /\ k \in Nat
  BY DEF Scan
<1>2. CASE t = "LF" /\ k > 0 /\ r.begun[k] = "LF"
  <2>1. u \in Seq(Token)
    <3>1. k - 1 \in 0 .. Len(r.begun)
      BY <1>1, <1>2
    <3> QED BY <1>1, <3>1, Parts DEF Upto
  <2>2. parse_sse_event(u) \in Parsed
    BY <2>1 DEF Parsed
  <2>3. Scanned(r, t) = [blocks |-> Append(r.blocks, parse_sse_event(u)), begun |-> <<>>]
    BY <1>2 DEF Scanned
  <2> HIDE DEF u
  <2> QED BY <1>1, <2>2, <2>3 DEF Scan
<1>3. CASE ~(t = "LF" /\ k > 0 /\ r.begun[k] = "LF")
  <2>1. Scanned(r, t) = [blocks |-> r.blocks, begun |-> Append(r.begun, t)]
    BY <1>3 DEF Scanned
  <2> QED BY <1>1, <2>1 DEF Scan
<1> QED BY <1>2, <1>3

\* The recursive function of Blocks, unfolded.
LEMMA ScanIs ==
  ASSUME NEW s \in Seq(Token)
  PROVE  \E f : IsScan(s, f)
<1> DEFINE N == Len(s)
           e == [blocks |-> <<>>, begun |-> <<>>]
           G == [n \in 1 .. N |-> [r \in Scan |-> Scanned(r, s[n])]]
           before == [n \in 1 .. N |-> n - 1]
           E(f, n) == IF n = 0 THEN e ELSE Scanned(f[n - 1], s[n])
           W == CHOOSE f : f = [n \in 0 .. N |-> E(f, n)]
<1>1. N \in Nat /\ \A n \in 1 .. N : s[n] \in Token
  OBVIOUS
<1>2. Blocks(s) = Final(W[N])
  BY DEF Blocks, Scanned, Final
<1>3. e \in Scan
  BY DEF Scan
<1>4. G \in Makers(Scan, N)
  <2>1. \A n \in 1 .. N : \A r \in Scan : Scanned(r, s[n]) \in Scan
    BY <1>1, ScanTyped
  <2>2. \A n \in 1 .. N : [r \in Scan |-> Scanned(r, s[n])] \in [Scan -> Scan]
    BY <2>1
  <2> QED BY <2>2 DEF Makers
<1>5. before \in Jumps(N)
  BY <1>1 DEF Jumps
<1>6. /\ \A n \in 1 .. N : before[n] = n - 1
      /\ \A n \in 1 .. N : \A r \in Scan : G[n][r] = Scanned(r, s[n])
  OBVIOUS
<1> HIDE DEF G, before, e
<1>7. PICK f \in [0 .. N -> Scan] : Follows(f, N, e, G, before)
  BY <1>1, <1>3, <1>4, <1>5, Recursion
<1>8. ASSUME NEW n \in 0 .. N PROVE f[n] = E(f, n)
  <2>1. CASE n = 0
    BY <1>7, <2>1 DEF Follows
  <2>2. CASE n # 0
    <3>1. n \in 1 .. N /\ n - 1 \in 0 .. N
      BY <1>1, <2>2
    <3>2. f[n - 1] \in Scan
      BY <3>1
    <3> QED BY <1>6, <1>7, <2>2, <3>1, <3>2 DEF Follows
  <2> QED BY <2>1, <2>2
<1>9. f = [n \in 0 .. N |-> E(f, n)]
  <2> HIDE DEF E
  <2> QED BY <1>8
<1>10. W = [n \in 0 .. N |-> E(W, n)]
  <2> HIDE DEF E
  <2> QED BY <1>9
<1> HIDE DEF W
<1>11. \A n \in 0 .. N : W[n] = E(W, n)
  <2> HIDE DEF E
  <2> QED BY <1>10
<1>12. \A n \in 0 .. N : W[n] = f[n]
  <2> DEFINE T == {k \in Nat : k <= N => W[k] = f[k]}
  <2>1. 0 \in T
    BY <1>1, <1>8, <1>11
  <2>2. ASSUME NEW k \in Nat, k \in T PROVE k + 1 \in T
    <3> SUFFICES ASSUME k + 1 <= N PROVE W[k + 1] = f[k + 1]
      OBVIOUS
    <3>1. k + 1 \in 0 .. N /\ k + 1 # 0 /\ (k + 1) - 1 = k /\ W[k] = f[k]
      BY <1>1, <2>2
    <3> QED BY <1>8, <1>11, <3>1
  <2>3. \A k \in Nat : k \in T
    <3> HIDE DEF T
    <3> QED BY <2>1, <2>2, Induction
  <2> QED BY <1>1, <2>3
<1>13. \A n \in 1 .. N : n \in 0 .. N /\ n # 0
  BY <1>1
<1>14. /\ W[0] = e /\ \A n \in 1 .. N : W[n] = Scanned(W[n - 1], s[n])
       /\ \A n \in 0 .. N : W[n] \in Scan
  BY <1>1, <1>11, <1>12, <1>13
<1>15. IsScan(s, W)
  BY <1>2, <1>14 DEF IsScan, e
<1> QED BY <1>15

\* Two LF at i.
Gap(s, i) == s[i] = "LF" /\ s[i + 1] = "LF"

\* What follows a token of a text.
LEMMA Following ==
  ASSUME NEW s \in Seq(Token), NEW p \in 0 .. Len(s)
  PROVE  /\ Len(s) \in Nat /\ p \in Nat /\ p <= Len(s)
         /\ From(s, p + 1) \in Seq(Token) /\ Len(From(s, p + 1)) = Len(s) - p
         /\ \A i \in 1 .. Len(s) - p : From(s, p + 1)[i] = s[p + i]
<1>1. Len(s) \in Nat /\ p \in Nat /\ p <= Len(s)
  OBVIOUS
<1>2. From(s, p + 1) \in Seq(Token) /\ Len(From(s, p + 1)) = Len(s) - p
  BY Parts
<1>3. \A i \in 1 .. Len(s) - p : From(s, p + 1)[i] = s[p + i]
  BY Parts
<1> QED BY <1>1, <1>2, <1>3

\* From a block's start the scan collects tokens as long as no blank line comes.
LEMMA ScanCollects ==
  ASSUME NEW s \in Seq(Token), NEW f, IsScan(s, f), NEW p \in 0 .. Len(s), f[p].begun = <<>>,
         NEW k \in 0 .. Len(s) - p, \A i \in 1 .. k - 1 : ~Gap(From(s, p + 1), i)
  PROVE  f[p + k] = [blocks |-> f[p].blocks, begun |-> Upto(From(s, p + 1), k)]
<1> DEFINE r == From(s, p + 1)
           T == {j \in Nat : j <= k => f[p + j] = [blocks |-> f[p].blocks, begun |-> Upto(r, j)]}
<1>1. /\ Len(s) \in Nat /\ r \in Seq(Token) /\ Len(r) = Len(s) - p
      /\ \A i \in 1 .. Len(s) - p : r[i] = s[p + i]
  BY Following
<1> HIDE DEF r
<1>2. \A j \in 0 .. Len(r) : /\ Upto(r, j) \in Seq(Token) /\ Len(Upto(r, j)) = j
                             /\ \A i \in 1 .. j : Upto(r, j)[i] = r[i]
  BY <1>1, Parts
<1>3. 0 \in T
  <2>1. 0 \in 0 .. Len(r) /\ p + 0 = p
    BY <1>1
  <2>2. Upto(r, 0) = <<>>
    BY <1>2, <2>1
  <2>3. f[p] \in Scan
    BY DEF IsScan
  <2>4. f[p] = [blocks |-> f[p].blocks, begun |-> <<>>]
    BY <2>3 DEF Scan
  <2> QED BY <2>1, <2>2, <2>4
<1>4. ASSUME NEW j \in Nat, j \in T PROVE j + 1 \in T
  <2> SUFFICES ASSUME j + 1 <= k
               PROVE  f[p + (j + 1)] = [blocks |-> f[p].blocks, begun |-> Upto(r, j + 1)]
    OBVIOUS
  <2>1. /\ j \in 0 .. Len(r) /\ j + 1 \in 0 .. Len(r) /\ j + 1 \in 1 .. Len(s) - p
        /\ p + (j + 1) \in 1 .. Len(s) /\ (p + (j + 1)) - 1 = p + j
    BY <1>1
  <2> DEFINE u == Upto(r, j)
  <2>2. f[p + j] = [blocks |-> f[p].blocks, begun |-> u]
    BY <1>4, <2>1
  <2>3. u \in Seq(Token) /\ Len(u) = j /\ \A i \in 1 .. j : u[i] = r[i]
    BY <1>2, <2>1
  <2>4. f[p + (j + 1)] = Scanned(f[p + j], r[j + 1])
    BY <1>1, <2>1 DEF IsScan
  <2>5. ~(r[j + 1] = "LF" /\ j > 0 /\ u[j] = "LF")
    <3> SUFFICES ASSUME r[j + 1] = "LF", j > 0, u[j] = "LF" PROVE FALSE
      OBVIOUS
    <3>1. j \in 1 .. k - 1 /\ j \in 1 .. j
      BY <1>1
    <3> QED BY <2>3, <3>1 DEF Gap, r
  <2> HIDE DEF u
  <2>6. f[p + (j + 1)] = [blocks |-> f[p].blocks, begun |-> Append(u, r[j + 1])]
    BY <2>2, <2>3, <2>4, <2>5 DEF Scanned
  <2>7. Append(u, r[j + 1]) = Upto(r, j + 1)
    <3> DEFINE v == Append(u, r[j + 1])  w == Upto(r, j + 1)
    <3>1. r[j + 1] \in Token
      BY <1>1, <2>1
    <3>2. /\ v \in Seq(Token) /\ Len(v) = j + 1 /\ v[j + 1] = r[j + 1]
          /\ \A i \in 1 .. j : v[i] = r[i]
      BY <2>3, <3>1
    <3>3. w \in Seq(Token) /\ Len(w) = j + 1 /\ \A i \in 1 .. j + 1 : w[i] = r[i]
      BY <1>2, <2>1
    <3> HIDE DEF v, w
    <3>4. \A i \in 1 .. j + 1 : v[i] = w[i]
      BY <3>2, <3>3
    <3>5. v = w
      BY <3>2, <3>3, <3>4, SameElements
    <3> QED BY <3>5 DEF v, w
  <2> QED BY <2>6, <2>7
<1>5. k \in Nat /\ k \in T
  <2> HIDE DEF T
  <2>1. k \in Nat
    BY <1>1
  <2> QED BY <1>3, <1>4, <2>1, Induction
<1> QED BY <1>5 DEF r

\* A blank line, the first from the block's start, ends the block.
LEMMA ScanEnds ==
  ASSUME NEW s \in Seq(Token), NEW f, IsScan(s, f), NEW p \in 0 .. Len(s), f[p].begun = <<>>,
         NEW e \in 1 .. Len(s) - p - 1, Gap(From(s, p + 1), e),
         \A i \in 1 .. e - 1 : ~Gap(From(s, p + 1), i)
  PROVE  f[p + e + 1] = [blocks |-> Append(f[p].blocks,
                                           parse_sse_event(Upto(From(s, p + 1), e - 1))),
                         begun |-> <<>>]
<1> DEFINE r == From(s, p + 1)  u == Upto(r, e)
<1>1. /\ Len(s) \in Nat /\ r \in Seq(Token) /\ Len(r) = Len(s) - p
      /\ \A i \in 1 .. Len(s) - p : r[i] = s[p + i]
  BY Following
<1>2. f[p + e] = [blocks |-> f[p].blocks, begun |-> u]
  <2>1. e \in 0 .. Len(s) - p
    BY <1>1
  <2> QED BY <2>1, ScanCollects
<1>3. Gap(r, e)
  OBVIOUS
<1> HIDE DEF r
<1>4. e \in 0 .. Len(r) /\ e - 1 \in 0 .. Len(r) /\ e - 1 \in 0 .. e
  BY <1>1
<1>5. u \in Seq(Token) /\ Len(u) = e /\ \A i \in 1 .. e : u[i] = r[i]
  <2>1. r \in Seq(Token) /\ e \in 0 .. Len(r)
    BY <1>1, <1>4
  <2> HIDE DEF u
  <2>2. Upto(r, e) \in Seq(Token) /\ Len(Upto(r, e)) = e /\ \A i \in 1 .. e : Upto(r, e)[i] = r[i]
    BY ONLY <2>1, FirstPart
  <2> QED BY <2>2 DEF u
<1> HIDE DEF u
<1>6. f[p + e + 1] = Scanned(f[p + e], r[e + 1])
  <2>1. p + e + 1 \in 1 .. Len(s) /\ (p + e + 1) - 1 = p + e /\ e + 1 \in 1 .. Len(s) - p
        /\ p + (e + 1) = p + e + 1
    BY <1>1
  <2> QED BY <1>1, <2>1 DEF IsScan
<1>7. r[e + 1] = "LF" /\ u[e] = "LF" /\ e > 0
  <2>1. e \in 1 .. e
    OBVIOUS
  <2> QED BY <1>3, <1>5, <2>1 DEF Gap
<1>8. f[p + e + 1] = [blocks |-> Append(f[p].blocks, parse_sse_event(SubSeq(u, 1, e - 1))),
                      begun |-> <<>>]
  <2> DEFINE q == f[p + e]
  <2>1. q.begun = u /\ q.blocks = f[p].blocks
    BY <1>2
  <2> HIDE DEF q
  <2>2. Len(q.begun) = e /\ q.begun[e] = "LF"
    BY <1>5, <1>7, <2>1
  <2>3. Scanned(q, "LF") = [blocks |-> Append(q.blocks, parse_sse_event(SubSeq(q.begun, 1, e - 1))),
                            begun |-> <<>>]
    BY <1>7, <2>2 DEF Scanned
  <2> QED BY <1>6, <1>7, <2>1, <2>3 DEF q
<1>9. SubSeq(u, 1, e - 1) = Upto(r, e - 1)
  <2> DEFINE n == e - 1  v == Upto(u, n)  w == Upto(r, n)
  <2>1. n \in 0 .. Len(r) /\ n \in 0 .. Len(u)
    BY <1>4, <1>5
  <2>2. /\ v \in Seq(Token) /\ Len(v) = n /\ \A i \in 1 .. n : v[i] = u[i]
        /\ w \in Seq(Token) /\ Len(w) = n /\ \A i \in 1 .. n : w[i] = r[i]
    <3> HIDE DEF n
    <3>1. v \in Seq(Token) /\ Len(v) = n /\ \A i \in 1 .. n : v[i] = u[i]
      <4>1. u \in Seq(Token) /\ n \in 0 .. Len(u)
        BY <1>5, <2>1
      <4> QED BY <4>1, FirstPart
    <3>2. w \in Seq(Token) /\ Len(w) = n /\ \A i \in 1 .. n : w[i] = r[i]
      <4>1. r \in Seq(Token) /\ n \in 0 .. Len(r)
        BY <1>1, <2>1
      <4> QED BY <4>1, FirstPart
    <3> QED BY <3>1, <3>2
  <2>3. \A i \in 1 .. n : u[i] = r[i]
    BY <1>4, <1>5
  <2> HIDE DEF v, w
  <2>4. v = w
    BY <2>2, <2>3, SameElements
  <2>5. v = SubSeq(u, 1, e - 1)
    BY DEF v, Upto
  <2> QED BY <2>4, <2>5 DEF w
<1> QED BY <1>8, <1>9 DEF r

-----------------------------------------------------------------------------
(* What one step of a reader does                                          *)

\* A part of a part.
LEMMA FromFrom ==
  ASSUME NEW s \in Seq(Token), NEW p \in 0 .. Len(s), NEW q \in 0 .. Len(s) - p
  PROVE  From(From(s, p + 1), q + 1) = From(s, p + q + 1)
<1> DEFINE r == From(s, p + 1)  u == From(r, q + 1)  k == p + q  v == From(s, k + 1)
<1>1. /\ Len(s) \in Nat /\ r \in Seq(Token) /\ Len(r) = Len(s) - p
      /\ \A i \in 1 .. Len(s) - p : r[i] = s[p + i]
  BY Following
<1> HIDE DEF r
<1>2. q \in 0 .. Len(r) /\ k \in 0 .. Len(s)
  BY <1>1
<1>3. u \in Seq(Token) /\ Len(u) = Len(r) - q /\ \A i \in 1 .. Len(r) - q : u[i] = r[q + i]
  BY <1>1, <1>2, Following
<1>4. v \in Seq(Token) /\ Len(v) = Len(s) - k /\ \A i \in 1 .. Len(s) - k : v[i] = s[k + i]
  <2> HIDE DEF k
  <2> QED BY <1>2, Following
<1> HIDE DEF u, v
<1>5. Len(u) = Len(v)
  BY <1>1, <1>3, <1>4
<1>6. ASSUME NEW i \in 1 .. Len(u) PROVE u[i] = v[i]
  <2>1. /\ i \in 1 .. Len(r) - q /\ q + i \in 1 .. Len(s) - p
        /\ i \in 1 .. Len(s) - k /\ p + (q + i) = k + i
    BY <1>1, <1>2, <1>3
  <2> QED BY <1>1, <1>3, <1>4, <2>1
<1>7. u = v
  BY <1>3, <1>4, <1>5, <1>6, SameElements
<1> QED BY <1>7 DEF r, u, v

\* The part from the beginning is the whole.
LEMMA Whole ==
  ASSUME NEW V, NEW s \in Seq(V)
  PROVE  From(s, 1) = s /\ Upto(s, Len(s)) = s
<1>1. Len(s) \in Nat /\ 0 \in 0 .. Len(s) /\ Len(s) \in 0 .. Len(s)
  OBVIOUS
<1> DEFINE u == From(s, 0 + 1)  v == Upto(s, Len(s))
<1>2. u \in Seq(V) /\ Len(u) = Len(s) - 0 /\ \A i \in 1 .. Len(s) - 0 : u[i] = s[0 + i]
  BY <1>1, Parts
<1>3. v \in Seq(V) /\ Len(v) = Len(s) /\ \A i \in 1 .. Len(s) : v[i] = s[i]
  BY <1>1, Parts
<1> HIDE DEF u, v
<1>4. u = s
  <2>1. Len(u) = Len(s) /\ \A i \in 1 .. Len(u) : u[i] = s[i]
    BY <1>1, <1>2
  <2> QED BY <1>2, <2>1, SameElements
<1>5. v = s
  BY <1>3, SameElements
<1> QED BY <1>4, <1>5 DEF u, v

\* What is read so far is a prefix of what was sent, and all of it when nothing
\* is missing.
LEMMA AheadAll ==
  ASSUME NEW b, NEW y, Ahead(b, <<>>, y, 0)
  PROVE  b = y
<1>1. /\ b \in Seq(Token) /\ y \in Seq(Token) /\ Len(b) + 0 + 0 = Len(y)
      /\ \A i \in 1 .. Len(b) : b[i] = y[i] /\ Len(b) \in Nat
  BY DEF Ahead
<1> QED BY <1>1, SameElements

\* The text of a reply is made of tokens, and the body is at its beginning when
\* it is sent as it is.
LEMMA FramedIs ==
  ASSUME NEW r \in Replies
  PROVE  /\ r.body \in Seq(Token) /\ Framed(r) \in Seq(Token)
         /\ KindOf(r) = "chunked" => Framed(r) = Chunks(r.body)
         /\ KindOf(r) = "close" => Framed(r) = r.body
         /\ KindOf(r) = "length" =>
              /\ Len(r.body) <= Len(Framed(r))
              /\ \A i \in 1 .. Len(r.body) : Framed(r)[i] = r.body[i]
<1>1. /\ r.framing \in {"length", "chunked", "overrun", "close", "big", "garbage"}
      /\ r.body \in Seq(STRING)
  BY Lines
<1>2. r.body \in Seq(Token) /\ Len(r.body) \in Nat /\ <<"more">> \in Seq(Token)
  <2>1. \A i \in 1 .. Len(r.body) : r.body[i] \in Token
    BY <1>1 DEF Token
  <2>2. "more" \in Token
    BY DEF Token
  <2> QED BY <1>1, <2>1, <2>2
<1>3. CASE r.framing = "chunked"
  <2>1. PICK f : IsRest(r.body, f)
    BY <1>1, ChunksAre
  <2>2. Chunks(r.body) \in Seq(Token)
    BY <1>2, <2>1 DEF IsRest
  <2>3. Framed(r) = Chunks(r.body) /\ KindOf(r) = "chunked"
    BY <1>3 DEF Framed, KindOf
  <2> QED BY <1>2, <2>2, <2>3
<1>4. CASE r.framing = "overrun"
  <2>1. Framed(r) = r.body \o <<"more">> /\ KindOf(r) = "length"
    BY <1>4 DEF Framed, KindOf
  <2> DEFINE s == r.body  t == <<"more">>
  <2>2. Len(t) = 1
    OBVIOUS
  <2> HIDE DEF s, t
  <2>3. /\ s \o t \in Seq(Token) /\ Len(s \o t) = Len(s) + Len(t)
        /\ \A i \in 1 .. Len(s) : (s \o t)[i] = s[i]
    BY <1>2, Joins DEF s, t
  <2>4. Framed(r) = s \o t /\ Len(s) <= Len(s \o t)
    BY <1>2, <2>1, <2>2, <2>3 DEF s, t
  <2> QED BY <1>2, <2>1, <2>3, <2>4 DEF s
<1>5. CASE r.framing \in {"length", "close", "big", "garbage"}
  <2>1. Framed(r) = r.body /\ KindOf(r) # "chunked"
    BY <1>5 DEF Framed, KindOf
  <2> QED BY <1>2, <2>1
<1> QED BY <1>1, <1>3, <1>4, <1>5

\* A body that ends at a length or with the connection is what the server
\* framed, or the beginning of it if the connection was cut.
LEMMA PlainBody ==
  ASSUME NEW r \in Replies, KindOf(r) \in {"length", "close"},
         NEW b, NEW w, NEW c, Ahead(b, w, Framed(r), c),
         w = <<>> \/ (KindOf(r) = "length" /\ Len(b) >= Len(r.body))
  PROVE  LET d == IF KindOf(r) = "length" THEN Truncated(b, Len(r.body)) ELSE b
         IN  IsPrefix(d, r.body) /\ (c = 0 => d = r.body)
<1> DEFINE s == r.body  N == Len(s)  y == Framed(r)
           d == IF KindOf(r) = "length" THEN Truncated(b, N) ELSE b
<1>1. s \in Seq(Token) /\ N \in Nat /\ y \in Seq(Token) /\ Len(y) \in Nat
  BY FramedIs
<1>2. N <= Len(y) /\ (KindOf(r) = "close" => N = Len(y)) /\ \A i \in 1 .. N : y[i] = s[i]
  BY <1>1, FramedIs
<1>3. /\ b \in Seq(Token) /\ Len(b) \in Nat /\ Len(w) \in Nat /\ c \in Nat
      /\ Len(b) + Len(w) + c = Len(y) /\ \A i \in 1 .. Len(b) : b[i] = y[i]
  BY DEF Ahead
<1> HIDE DEF y
<1> SUFFICES ASSUME TRUE PROVE IsPrefix(d, s) /\ (c = 0 => d = s)
  OBVIOUS
<1>4. CASE KindOf(r) = "length" /\ Len(b) > N
  <2>1. d = Upto(b, N) /\ N \in 0 .. Len(b)
    BY <1>1, <1>3, <1>4 DEF Truncated
  <2>2. Upto(b, N) \in Seq(Token) /\ Len(Upto(b, N)) = N /\ \A i \in 1 .. N : Upto(b, N)[i] = b[i]
    BY <1>3, <2>1, Parts
  <2>3. \A i \in 1 .. N : b[i] = s[i]
    <3>1. \A i \in 1 .. N : i \in 1 .. Len(b)
      BY <1>1, <1>3, <1>4
    <3> QED BY <1>2, <1>3, <3>1
  <2>4. Upto(b, N) = s
    <3> DEFINE u == Upto(b, N)
    <3>1. \A i \in 1 .. N : u[i] = s[i]
      BY <2>2, <2>3
    <3> HIDE DEF u
    <3>2. u \in Seq(Token) /\ Len(u) = Len(s)
      BY <2>2 DEF u
    <3>3. u = s
      BY <1>1, <3>1, <3>2, SameElements
    <3> QED BY <3>3 DEF u
  <2>5. d = s
    BY <2>1, <2>4
  <2> QED BY <1>1, <2>5 DEF IsPrefix
<1>5. CASE ~(KindOf(r) = "length" /\ Len(b) > N)
  <2>1. d = b
    BY <1>5 DEF Truncated
  <2>2. Len(b) <= N
    BY <1>1, <1>2, <1>3, <1>5
  <2>3. ASSUME NEW i \in 1 .. Len(b) PROVE b[i] = s[i]
    <3>1. i \in 1 .. N
      BY <1>1, <1>3, <2>2
    <3> QED BY <1>2, <1>3, <3>1
  <2>4. IsPrefix(b, s)
    <3> DEFINE u == Upto(s, Len(b))
    <3>1. Len(b) \in 0 .. Len(s)
      BY <1>1, <1>3, <2>2
    <3>2. u \in Seq(Token) /\ Len(u) = Len(b) /\ \A i \in 1 .. Len(b) : u[i] = s[i]
      BY <1>1, <3>1, Parts
    <3> HIDE DEF u
    <3>3. u = b
      BY <1>3, <2>3, <3>2, SameElements
    <3>4. Upto(b, Len(b)) = b
      BY <1>3, Whole
    <3> QED BY <2>2, <3>3, <3>4 DEF IsPrefix, Upto, u
  <2>5. ASSUME c = 0 PROVE b = s
    <3>1. Len(b) = N
      <4>1. CASE w = <<>>
        <5>1. Len(w) = 0
          BY <4>1
        <5> QED BY <1>1, <1>2, <1>3, <2>2, <2>5, <5>1
      <4>2. CASE Len(b) >= N
        BY <1>1, <1>3, <2>2, <4>2
      <4> QED BY <4>1, <4>2
    <3> QED BY <1>1, <1>3, <2>3, <3>1, SameElements
  <2> QED BY <2>1, <2>4, <2>5
<1> QED BY <1>4, <1>5

\* A size line is found at its CR, and says the size of its chunk.
LEMMA SizeRead ==
  ASSUME NEW s \in Seq(STRING), NEW f, IsRest(s, f), NEW n \in 0 .. Len(s),
         NEW b, NEW w, NEW c, Ahead(b, w, f[n], c), find_crlf(b) # {}
  PROVE  /\ LeastOf(find_crlf(b)) = 2 /\ SizeIn(b[1]) = SizeOf(n)
         /\ n > 0 => Ahead(From(b, 4), w, Data(s, n) \o CRLF \o f[n - SizeOf(n)], c)
<1> DEFINE k == SizeOf(n)  h == SizeLineOf(k)  y == f[n]  found == find_crlf(b)
<1>1. Len(s) \in Nat /\ n \in Nat
  OBVIOUS
<1>2. k \in 0 .. MaxChunk /\ (n > 0 => k \in 1 .. n)
  BY <1>1, Lines, Sized DEF SizeOf
<1> HIDE DEF k
<1>3. /\ h \in Seq(Token) /\ Len(h) = 3 /\ CRLF \in Seq(Token)
      /\ h[1] = SizeLine[k] /\ SizeLine[k] # "CR" /\ h[2] = "CR" /\ h[3] = "LF"
  BY <1>2, SizeLineIs
<1>4. PICK t \in Seq(Token) : y = h \o t /\ (n > 0 => t = Data(s, n) \o CRLF \o f[n - k])
  <2>1. CASE n = 0
    <3>1. k = 0
      BY <2>1, Lines DEF SizeOf, k
    <3>2. y = h \o CRLF
      BY <2>1, <3>1 DEF IsRest
    <3> HIDE DEF h, y
    <3> QED BY <1>3, <2>1, <3>2
  <2>2. CASE n > 0
    <3>1. n \in 1 .. Len(s)
      BY <2>2
    <3>2. n - k \in 0 .. Len(s)
      BY <1>1, <1>2, <2>2
    <3>3. Data(s, n) \in Seq(Token) /\ f[n - k] \in Seq(Token)
      BY <3>1, <3>2, DataIs DEF IsRest
    <3>4. Data(s, n) \o CRLF \o f[n - k] \in Seq(Token)
      BY <1>3, <3>3
    <3>5. y = h \o (Data(s, n) \o CRLF \o f[n - k])
      BY <3>1 DEF IsRest, k
    <3> QED BY <3>4, <3>5
  <2>3. n = 0 \/ n > 0
    BY <1>1
  <2> HIDE DEF h, y
  <2> QED BY <2>1, <2>2, <2>3
<1>5. \A i \in 1 .. 3 : y[i] = h[i]
  <2> HIDE DEF h
  <2>1. \A i \in 1 .. Len(h) : (h \o t)[i] = h[i]
    <3>1. h \in Seq(Token)
      BY <1>3
    <3> QED BY <3>1, Joins
  <2> QED BY <1>3, <1>4, <2>1
<1> HIDE DEF h
<1>6. /\ b \in Seq(Token) /\ Len(b) \in Nat /\ \A i \in 1 .. Len(b) : b[i] = y[i]
  BY DEF Ahead
<1>7. Ahead(b, w, y, c)
  OBVIOUS
<1> HIDE DEF y
<1>8. /\ found \subseteq 1 .. Len(b)
      /\ \A i \in 1 .. Len(b) : i \in found <=> i + 1 <= Len(b) /\ b[i] = "CR" /\ b[i + 1] = "LF"
  <2>1. found \subseteq DOMAIN b /\ found = Occurs(<<"CR", "LF">>, b)
    BY DEF find_crlf, Occurs, CRLF
  <2>2. "CR" \in Token /\ "LF" \in Token
    BY DEF Token
  <2> QED BY <1>6, <2>1, <2>2, OccursTwo
<1>9. found # {}
  OBVIOUS
<1> HIDE DEF found
<1>10. PICK i \in found : TRUE
  BY <1>9
<1>11. i \in 1 .. Len(b) /\ i + 1 <= Len(b) /\ b[i] = "CR"
  BY <1>8, <1>10
<1>12. 1 \in 1 .. Len(b) /\ b[1] = SizeLine[k]
  <2>1. 1 \in 1 .. Len(b)
    BY <1>6, <1>11
  <2> QED BY <1>3, <1>5, <1>6, <2>1
<1>13. 1 \notin found
  BY <1>3, <1>8, <1>12
<1>14. Len(b) >= 3
  BY <1>3, <1>6, <1>11, <1>12
<1>15. 2 \in found
  <2>1. 2 \in 1 .. Len(b) /\ 2 + 1 \in 1 .. Len(b) /\ 2 + 1 <= Len(b)
    BY <1>6, <1>14
  <2>2. b[2] = "CR" /\ b[2 + 1] = "LF"
    BY <1>3, <1>5, <1>6, <2>1
  <2> QED BY <1>8, <2>1, <2>2
<1>16. LeastOf(found) = 2
  <2>1. LeastOf(found) \in found /\ \A j \in found : LeastOf(found) <= j
    BY <1>8, <1>9, LeastIs
  <2> DEFINE m == LeastOf(found)
  <2>2. m \in 1 .. Len(b) /\ m # 1 /\ m <= 2
    BY <1>8, <1>13, <1>15, <2>1
  <2> HIDE DEF m
  <2>3. m = 2
    BY <2>2
  <2> QED BY <2>3 DEF m
<1>17. SizeIn(b[1]) = k
  <2>1. DOMAIN SizeLine = 0 .. MaxChunk
    BY Lines
  <2>2. \A j \in 0 .. MaxChunk : SizeLine[j] = SizeLine[k] => j = k
    BY <1>2, Lines
  <2> QED BY <1>2, <1>12, <2>1, <2>2 DEF SizeIn
<1>18. ASSUME n > 0 PROVE Ahead(From(b, 4), w, Data(s, n) \o CRLF \o f[n - k], c)
  <2>1. 3 \in 0 .. Len(b) /\ 3 + 1 = 4
    BY <1>6, <1>14
  <2>2. Ahead(From(b, 3 + 1), w, From(y, 3 + 1), c)
    BY <1>7, <2>1, AheadTaken
  <2>3. From(y, 3 + 1) = t
    <3>1. h \in Seq(Token) /\ Len(h) = 3 /\ y = h \o t
      BY <1>3, <1>4 DEF h
    <3> QED BY <3>1, SecondPart
  <2>4. t = Data(s, n) \o CRLF \o f[n - k]
    BY <1>4, <1>18
  <2> QED BY <2>1, <2>2, <2>3, <2>4
<1> QED BY <1>16, <1>17, <1>18 DEF k, found

\* A chunk that has come with the CR LF behind it is the next part of the body.
LEMMA ChunkRead ==
  ASSUME NEW s \in Seq(STRING), NEW f, IsRest(s, f), NEW n \in 1 .. Len(s),
         NEW b, NEW w, NEW c, Ahead(b, w, Data(s, n) \o CRLF \o f[n - SizeOf(n)], c),
         Len(b) >= SizeOf(n) + 2
  PROVE  /\ n - SizeOf(n) \in 0 .. Len(s)
         /\ Upto(s, Len(s) - n) \o Upto(b, SizeOf(n)) = Upto(s, Len(s) - (n - SizeOf(n)))
         /\ Ahead(From(b, SizeOf(n) + 3), w, f[n - SizeOf(n)], c)
<1> DEFINE k == SizeOf(n)  N == Len(s)  d == Data(s, n)  r == f[n - k]  a == d \o CRLF  y == a \o r
<1>1. N \in Nat /\ n \in Nat /\ n \in 1 .. N /\ s \in Seq(Token)
  <2>1. \A i \in 1 .. N : s[i] \in Token
    BY DEF Token
  <2> QED BY <2>1
<1>2. k \in 1 .. n
  BY Sized
<1>3. d \in Seq(Token) /\ Len(d) = k /\ \A i \in 1 .. k : d[i] = s[N - n + i]
  BY DataIs
<1> HIDE DEF k, d
<1>4. n - k \in 0 .. N
  BY <1>1, <1>2
<1>5. r \in Seq(Token)
  BY <1>4 DEF IsRest
<1>6. Ahead(b, w, y, c) /\ Len(b) >= k + 2
  BY DEF k, d
<1> HIDE DEF r
<1>7. CRLF \in Seq(Token) /\ Len(CRLF) = 2
  <2>1. 0 \in 0 .. MaxChunk
    BY Lines
  <2> QED BY <2>1, SizeLineIs
<1>8. a \in Seq(Token) /\ Len(a) = k + 2 /\ \A i \in 1 .. k : a[i] = d[i]
  <2> DEFINE q == CRLF
  <2> HIDE DEF q
  <2>1. q \in Seq(Token) /\ Len(q) = 2
    BY <1>7 DEF q
  <2>2. d \o q \in Seq(Token) /\ Len(d \o q) = Len(d) + Len(q)
        /\ \A i \in 1 .. Len(d) : (d \o q)[i] = d[i]
    <3>1. d \in Seq(Token) /\ q \in Seq(Token)
      BY <1>3, <2>1
    <3> QED BY ONLY <3>1, Joins
  <2> QED BY <1>3, <2>1, <2>2 DEF q
<1> HIDE DEF a
<1>9. y \in Seq(Token) /\ \A i \in 1 .. k + 2 : y[i] = a[i]
  BY <1>5, <1>8, Joins
<1>10. From(y, k + 2 + 1) = r
  BY <1>5, <1>8, SecondPart
<1> HIDE DEF y
<1>11. b \in Seq(Token) /\ Len(b) \in Nat /\ \A i \in 1 .. Len(b) : b[i] = y[i]
  BY <1>6 DEF Ahead
<1>12. k + 2 \in 0 .. Len(b) /\ k \in 0 .. Len(b) /\ k + 2 + 1 = k + 3
  BY <1>2, <1>6, <1>11
<1>13. Ahead(From(b, k + 3), w, r, c)
  <2>1. Ahead(From(b, k + 2 + 1), w, From(y, k + 2 + 1), c)
    BY <1>6, <1>12, AheadTaken
  <2> QED BY <1>10, <1>12, <2>1
<1>14. Upto(s, N - n) \o Upto(b, k) = Upto(s, N - (n - k))
  <2> DEFINE u == Upto(s, N - n)  v == Upto(b, k)  m == N - (n - k)  z == Upto(s, m)
  <2>1. N - n \in 0 .. N /\ m \in 0 .. N /\ m = (N - n) + k
    BY <1>1, <1>2
  <2> HIDE DEF m
  <2>2. u \in Seq(Token) /\ Len(u) = N - n /\ \A i \in 1 .. N - n : u[i] = s[i]
    <3>1. s \in Seq(Token) /\ N - n \in 0 .. Len(s)
      BY <1>1, <2>1
    <3> QED BY <3>1, FirstPart
  <2>3. v \in Seq(Token) /\ Len(v) = k /\ \A i \in 1 .. k : v[i] = b[i]
    <3>1. b \in Seq(Token) /\ k \in 0 .. Len(b)
      BY <1>11, <1>12
    <3> QED BY <3>1, FirstPart
  <2>4. z \in Seq(Token) /\ Len(z) = m /\ \A i \in 1 .. m : z[i] = s[i]
    <3>1. s \in Seq(Token) /\ m \in 0 .. Len(s)
      BY <1>1, <2>1
    <3> QED BY <3>1, FirstPart
  <2> HIDE DEF u, v, z
  <2>5. Len(z) = Len(u) + Len(v)
    BY <2>1, <2>2, <2>3, <2>4
  <2>6. ASSUME NEW i \in 1 .. Len(u) PROVE z[i] = u[i]
    <3>1. i \in 1 .. m /\ i \in 1 .. N - n
      BY <1>1, <1>2, <2>1, <2>2
    <3> QED BY <2>2, <2>4, <3>1
  <2>7. ASSUME NEW i \in 1 .. Len(v) PROVE z[Len(u) + i] = v[i]
    <3>1. i \in 1 .. k /\ i \in 1 .. Len(b) /\ i \in 1 .. k + 2 /\ (N - n) + i \in 1 .. m
      <4>1. /\ N - n \in Nat /\ k \in Nat /\ Len(b) \in Nat /\ k <= Len(b) /\ m = (N - n) + k
        BY <1>1, <1>2, <1>11, <1>12, <2>1
      <4>2. i \in 1 .. k
        BY <2>3
      <4> HIDE DEF N
      <4> QED BY <4>1, <4>2
    <3>2. v[i] = b[i] /\ b[i] = y[i] /\ y[i] = a[i] /\ a[i] = d[i] /\ d[i] = s[N - n + i]
      BY <1>3, <1>8, <1>9, <1>11, <2>3, <3>1
    <3> QED BY <2>2, <2>4, <3>1, <3>2
  <2>8. z = u \o v
    BY <2>2, <2>3, <2>4, <2>5, <2>6, <2>7, Fits
  <2> QED BY <2>8 DEF u, v, z, m
<1> QED BY <1>4, <1>13, <1>14 DEF k, r

\* A blank line is two LF.
LEMMA GapsFound ==
  ASSUME NEW b \in Seq(Token)
  PROVE  /\ find_double_newline(b) \subseteq 1 .. Len(b)
         /\ \A i \in 1 .. Len(b) : i \in find_double_newline(b) <=> i + 1 <= Len(b) /\ Gap(b, i)
<1>1. "LF" \in Token
  BY DEF Token
<1>2. find_double_newline(b) = Occurs(<<"LF", "LF">>, b)
  BY DEF find_double_newline
<1>3. \A i \in 1 .. Len(b) :
        i \in Occurs(<<"LF", "LF">>, b) <=> i + 1 <= Len(b) /\ b[i] = "LF" /\ b[i + 1] = "LF"
  BY <1>1, OccursTwo
<1>4. Occurs(<<"LF", "LF">>, b) \subseteq DOMAIN b
  BY DEF Occurs
<1> QED BY <1>2, <1>3, <1>4 DEF Gap

\* next_event returns the block that the scan of the text ends there.
LEMMA NextBlock ==
  ASSUME NEW s \in Seq(Token), NEW f, IsScan(s, f), NEW p \in 0 .. Len(s), f[p].begun = <<>>,
         NEW b, NEW w, Ahead(b, w, From(s, p + 1), 0), find_double_newline(b) # {}
  PROVE  LET e == LeastOf(find_double_newline(b))
         IN  /\ e \in Nat /\ e + 1 \in 0 .. Len(b) /\ p + e + 1 \in 0 .. Len(s)
             /\ f[p + e + 1] = [blocks |-> Append(f[p].blocks, parse_sse_event(Upto(b, e - 1))),
                                begun |-> <<>>]
             /\ Ahead(From(b, e + 2), w, From(s, p + e + 2), 0)
<1> DEFINE r == From(s, p + 1)  found == find_double_newline(b)  e == LeastOf(found)
<1>1. /\ Len(s) \in Nat /\ r \in Seq(Token) /\ Len(r) = Len(s) - p /\ p \in Nat
  BY Following
<1>2. /\ b \in Seq(Token) /\ Len(b) \in Nat /\ Len(b) <= Len(r) /\ Ahead(b, w, r, 0)
      /\ \A i \in 1 .. Len(b) : b[i] = r[i]
  <2>1. /\ b \in Seq(Token) /\ w \in Seq(Token) /\ Len(b) + Len(w) + 0 = Len(r)
        /\ \A i \in 1 .. Len(b) : b[i] = r[i]
    BY DEF Ahead
  <2>2. Len(b) \in Nat /\ Len(w) \in Nat
    BY <2>1
  <2> HIDE DEF r
  <2>3. Len(b) <= Len(r)
    BY <1>1, <2>1, <2>2
  <2> QED BY <2>1, <2>2, <2>3 DEF r
<1>3. /\ found \subseteq 1 .. Len(b) /\ found # {}
      /\ \A i \in 1 .. Len(b) : i \in found <=> i + 1 <= Len(b) /\ Gap(b, i)
  BY <1>2, GapsFound
<1> HIDE DEF r, found
<1>4. e \in found /\ \A i \in found : e <= i
  BY <1>3, LeastIs
<1> HIDE DEF e
<1>5. e \in 1 .. Len(b) /\ e + 1 <= Len(b) /\ Gap(b, e)
  BY <1>3, <1>4
<1>6. Gap(r, e)
  <2>1. e \in 1 .. Len(b) /\ e + 1 \in 1 .. Len(b)
    BY <1>2, <1>5
  <2> QED BY <1>2, <1>5, <2>1 DEF Gap
<1>7. ASSUME NEW i \in 1 .. e - 1 PROVE ~Gap(r, i)
  <2>1. i \in 1 .. Len(b) /\ i + 1 \in 1 .. Len(b) /\ i < e /\ i + 1 <= Len(b)
    BY <1>2, <1>5
  <2>2. i \notin found
    BY <1>4, <1>5, <2>1
  <2>3. ~Gap(b, i)
    BY <1>3, <2>1, <2>2
  <2> QED BY <1>2, <2>1, <2>3 DEF Gap
<1>8. f[p + e + 1] = [blocks |-> Append(f[p].blocks, parse_sse_event(Upto(r, e - 1))), begun |-> <<>>]
  <2>1. e \in 1 .. Len(s) - p - 1
    BY <1>1, <1>2, <1>5
  <2> QED BY <1>6, <1>7, <2>1, ScanEnds DEF r
<1>9. Upto(r, e - 1) = Upto(b, e - 1)
  <2> DEFINE k == e - 1  u == Upto(r, k)  v == Upto(b, k)
  <2>1. k \in 0 .. Len(r) /\ k \in 0 .. Len(b)
    BY <1>1, <1>2, <1>5
  <2>2. \A i \in 1 .. k : i \in 1 .. Len(b)
    BY <1>2, <1>5
  <2> HIDE DEF k
  <2>3. u \in Seq(Token) /\ Len(u) = k /\ \A i \in 1 .. k : u[i] = r[i]
    BY <1>1, <2>1, FirstPart
  <2>4. v \in Seq(Token) /\ Len(v) = k /\ \A i \in 1 .. k : v[i] = b[i]
    BY <1>2, <2>1, FirstPart
  <2> HIDE DEF u, v
  <2>5. \A i \in 1 .. k : u[i] = v[i]
    BY <1>2, <2>2, <2>3, <2>4
  <2>6. u = v
    BY <2>3, <2>4, <2>5, SameElements
  <2> QED BY <2>6 DEF u, v, k
<1>10. Ahead(From(b, e + 2), w, From(s, p + e + 2), 0)
  <2> DEFINE q == e + 1
  <2>1. q \in 0 .. Len(b) /\ q \in 0 .. Len(s) - p /\ q + 1 = e + 2 /\ p + q + 1 = p + e + 2
    <3>1. e \in Nat /\ e >= 1 /\ e + 1 <= Len(b) /\ Len(b) \in Nat /\ Len(b) <= Len(s) - p
      BY <1>1, <1>2, <1>5
    <3>2. Len(s) \in Nat /\ p \in Nat
      BY <1>1
    <3>3. e + 1 \in 0 .. Len(b) /\ e + 1 \in 0 .. Len(s) - p
      BY <3>1, <3>2
    <3>4. e + 1 + 1 = e + 2 /\ p + (e + 1) + 1 = p + e + 2
      BY <3>1, <3>2
    <3> QED BY <3>3, <3>4
  <2> HIDE DEF q
  <2>2. Ahead(From(b, q + 1), w, From(r, q + 1), 0)
    BY <1>2, <2>1, AheadTaken
  <2>3. From(r, q + 1) = From(s, p + q + 1)
    BY <2>1, FromFrom DEF r
  <2> QED BY <2>1, <2>2, <2>3
<1>11. e \in Nat /\ e + 1 \in 0 .. Len(b) /\ p + e + 1 \in 0 .. Len(s)
  BY <1>1, <1>2, <1>5
<1> QED BY <1>8, <1>9, <1>10, <1>11 DEF e, found

\* At the end of the text the blocks are those returned and what is left.
LEMMA LastBlock ==
  ASSUME NEW s \in Seq(Token), NEW f, IsScan(s, f), NEW p \in 0 .. Len(s), f[p].begun = <<>>,
         NEW b, Ahead(b, <<>>, From(s, p + 1), 0), find_double_newline(b) = {}
  PROVE  Blocks(s) = IF parse_sse_event(b) = <<>> THEN f[p].blocks
                     ELSE Append(f[p].blocks, parse_sse_event(b))
<1> DEFINE r == From(s, p + 1)  k == Len(s) - p
<1>1. /\ Len(s) \in Nat /\ r \in Seq(Token) /\ Len(r) = k /\ p \in Nat /\ p <= Len(s)
  BY Following
<1>2. b = r
  BY AheadAll
<1> HIDE DEF r
<1>3. ASSUME NEW i \in 1 .. k - 1 PROVE ~Gap(r, i)
  <2>1. i \in 1 .. Len(r) /\ i + 1 <= Len(r)
    BY <1>1
  <2>2. i \notin find_double_newline(r)
    BY <1>2
  <2> QED BY <1>1, <2>1, <2>2, GapsFound
<1>4. f[p + k] = [blocks |-> f[p].blocks, begun |-> Upto(r, k)]
  <2>1. k \in 0 .. Len(s) - p
    BY <1>1
  <2> HIDE DEF k
  <2> QED BY <1>3, <2>1, ScanCollects DEF r
<1>5. Upto(r, k) = b
  BY <1>1, <1>2, Whole
<1>6. Blocks(s) = Final(f[Len(s)]) /\ p + k = Len(s)
  BY <1>1 DEF IsScan
<1> HIDE DEF k
<1>7. f[Len(s)] = [blocks |-> f[p].blocks, begun |-> b]
  BY <1>4, <1>5, <1>6
<1> QED BY <1>6, <1>7 DEF Final

-----------------------------------------------------------------------------
(* The inductive invariant                                                 *)

\* The headers are still to come, or coming.
Announced ==
  phase \in {"idle", "connect", "send", "answer", "headers"} =>
    /\ body = <<>> /\ need = -1 /\ offset = 0 /\ ~done /\ events = <<>>
    /\ phase # "headers" => buf = <<>>
Unfailed == phase \notin {"events", "over"} => failedIn = None
Modes ==
  /\ phase \in {"idle", "connect"} => socket = "none"
  /\ phase \in {"length", "chunked", "close"} => ~sse
  /\ phase = "events" => sse
  /\ ~sse => offset = 0
Named == phase = "connect" => \E raw \in Urls : url = parse(raw) /\ url.ok
Replied == phase \in {"headers", "length", "chunked", "close", "events"} => reply \in Replies
HeadersAhead ==
  phase = "headers" =>
    Ahead(buf, wire, StatusAndHeaders(reply) \o Framed(reply), cut) /\ Len(buf) <= MaxHeader
PlainAhead ==
  phase \in {"length", "close"} =>
    /\ KindOf(reply) = phase /\ Ahead(buf, wire, Framed(reply), cut)
    /\ phase = "length" => need = Len(reply.body)

\* The chunks read so far are the body but for its last n tokens.
ChunksRead(n, f) ==
  /\ body = Upto(reply.body, Len(reply.body) - n)
  /\ need = -1 => Ahead(buf, wire, f[n], cut)
  /\ need # -1 => /\ n > 0 /\ need = SizeOf(n)
                  /\ Ahead(buf, wire, Data(reply.body, n) \o CRLF \o f[n - SizeOf(n)], cut)
ChunksAhead ==
  phase = "chunked" =>
    /\ reply.framing = "chunked"
    /\ \E f : IsRest(reply.body, f) /\ \E n \in 0 .. Len(reply.body) : ChunksRead(n, f)

\* The events returned are the blocks of the first p tokens of the text.
Text(r, c) == Upto(Framed(r), Len(Framed(r)) - c)
EventsRead(p, f) ==
  /\ f[p] = [blocks |-> events, begun |-> <<>>]
  /\ Ahead(From(buf, offset + 1), wire, From(Text(reply, cut), p + 1), 0)
EventsAhead ==
  phase = "events" =>
    /\ ~done => /\ failedIn = None /\ Text(reply, cut) \in Seq(Token)
                /\ \E f : /\ IsScan(Text(reply, cut), f)
                          /\ \E p \in 0 .. Len(Text(reply, cut)) : EventsRead(p, f)
    /\ done /\ failedIn = None => events = Blocks(Text(reply, cut))

\* A finished stream gave the blocks of what went over the wire, the size lines of
\* chunks included: what next_event does, whatever the framing.
EventsOfWire ==
  phase = "over" /\ sse /\ failedIn = None => events = Blocks(Text(reply, cut))

HttpInv ==
  /\ HttpTypeOK /\ buf \in Seq(Token)
  /\ Announced /\ Unfailed /\ Modes /\ Named /\ Replied
  /\ HeadersAhead /\ PlainAhead /\ ChunksAhead /\ EventsAhead
  /\ BodyAsFramed /\ EventsOfWire /\ ClosedUnlessSendFailed

\* The parts of the invariant that say what the exchange has read.
LEMMA HttpInitially ==
  HttpInit => HttpInv
<1> SUFFICES ASSUME HttpInit PROVE HttpInv
  OBVIOUS
<1> USE DEF HttpInit
<1>1. HttpTypeOK /\ buf \in Seq(Token)
  <2>1. buf = <<>> /\ Len(<<>>) = 0 /\ 0 \in 0 .. 0 /\ 0 \in Nat
    OBVIOUS
  <2>2. offset \in 0 .. Len(buf) /\ buf \in Seq(Token)
    BY <2>1
  <2>3. /\ phase = "idle" /\ socket = "none" /\ sse = FALSE /\ done = FALSE /\ cut = 0 /\ need = -1
    OBVIOUS
  <2> QED BY <2>1, <2>2, <2>3 DEF HttpTypeOK
<1>2. Announced /\ Unfailed /\ Modes /\ Named /\ Replied
  BY DEF Announced, Unfailed, Modes, Named, Replied
<1>3. HeadersAhead /\ PlainAhead /\ ChunksAhead /\ EventsAhead
  BY DEF HeadersAhead, PlainAhead, ChunksAhead, EventsAhead
<1>4. BodyAsFramed /\ EventsOfWire /\ ClosedUnlessSendFailed
  BY DEF BodyAsFramed, EventsOfWire, ClosedUnlessSendFailed
<1> QED BY <1>1, <1>2, <1>3, <1>4 DEF HttpInv

\* An exchange that fails has nothing more to be faithful to.
LEMMA Fails ==
  ASSUME HttpInv, phase' = "over", failedIn' # None, buf' = buf, offset' = offset, sse' = sse,
         need' = need, done' = done, cut' = cut, socket' \in {"none", "open", "closed"},
         socket' = "open" => failedIn' = "send" \/ (sse /\ failedIn' \in {"protocol", "recv"})
  PROVE  HttpInv'
<1>1. HttpTypeOK' /\ (buf \in Seq(Token))'
  BY DEF HttpInv, HttpTypeOK
<1>2. Announced' /\ Unfailed' /\ Modes' /\ Named' /\ Replied'
  BY DEF HttpInv, Announced, Unfailed, Modes, Named, Replied
<1>3. HeadersAhead' /\ PlainAhead' /\ ChunksAhead' /\ EventsAhead'
  BY DEF HeadersAhead, PlainAhead, ChunksAhead, EventsAhead
<1>4. BodyAsFramed' /\ EventsOfWire' /\ ClosedUnlessSendFailed'
  BY DEF BodyAsFramed, EventsOfWire, ClosedUnlessSendFailed
<1> QED BY <1>1, <1>2, <1>3, <1>4 DEF HttpInv

\* Before the headers arrive only the phase, the mode, the url and the socket change.
LEMMA Prepares ==
  ASSUME HttpInv, phase \in {"idle", "connect", "send"}, phase' \in {"connect", "send", "answer"},
         sse' \in BOOLEAN, socket' \in {"none", "open"}, phase' = "connect" => socket' = "none",
         Named', UNCHANGED <<reply, wire, cut, buf, body, need, offset, done, events, failedIn>>
  PROVE  HttpInv'
<1>1. HttpTypeOK' /\ (buf \in Seq(Token))'
  BY DEF HttpInv, HttpTypeOK
<1>2. Announced' /\ Unfailed' /\ Modes' /\ Named' /\ Replied'
  BY DEF HttpInv, Announced, Unfailed, Modes, Replied
<1>3. HeadersAhead' /\ PlainAhead' /\ ChunksAhead' /\ EventsAhead'
  BY DEF HeadersAhead, PlainAhead, ChunksAhead, EventsAhead
<1>4. BodyAsFramed' /\ EventsOfWire' /\ ClosedUnlessSendFailed'
  BY DEF BodyAsFramed, EventsOfWire, ClosedUnlessSendFailed
<1> QED BY <1>1, <1>2, <1>3, <1>4 DEF HttpInv

\* A url that parses is connected to, another one ends the exchange (Request).
LEMMA RequestKeeps ==
  ASSUME HttpInv, Request
  PROVE  HttpInv'
<1>1. /\ phase = "idle" /\ socket = "none" /\ offset = 0
      /\ UNCHANGED <<socket, reply, wire, cut, buf, body, need, offset, done, events>>
  BY DEF Request, HttpInv, Modes, Announced
<1>2. PICK raw \in Urls, stream \in BOOLEAN :
        /\ sse' = stream
        /\ \/ phase' = "connect" /\ url' = parse(raw) /\ parse(raw).ok /\ UNCHANGED failedIn
           \/ phase' = "over" /\ failedIn' = "url"
  BY DEF Request, GiveUp
<1>3. CASE phase' = "connect"
  <2>1. Named'
    BY <1>2, <1>3 DEF Named
  <2>2. UNCHANGED failedIn
    BY <1>2, <1>3
  <2> QED BY <1>1, <1>2, <1>3, <2>1, <2>2, Prepares
<1>4. CASE phase' = "over"
  <2>1. failedIn' = "url" /\ failedIn' # None
    BY <1>2, <1>4 DEF None
  <2>2. HttpTypeOK' /\ (buf \in Seq(Token))'
    BY <1>1, <1>2, <1>4 DEF HttpInv, HttpTypeOK
  <2>3. Announced' /\ Unfailed' /\ Modes' /\ Named' /\ Replied'
    BY <1>1, <1>4 DEF Announced, Unfailed, Modes, Named, Replied
  <2>4. HeadersAhead' /\ PlainAhead' /\ ChunksAhead' /\ EventsAhead'
    BY <1>4 DEF HeadersAhead, PlainAhead, ChunksAhead, EventsAhead
  <2>5. BodyAsFramed' /\ EventsOfWire' /\ ClosedUnlessSendFailed'
    BY <1>1, <2>1 DEF BodyAsFramed, EventsOfWire, ClosedUnlessSendFailed
  <2> QED BY <2>2, <2>3, <2>4, <2>5 DEF HttpInv
<1> QED BY <1>2, <1>3, <1>4

\* Connecting opens the socket or ends the exchange without one (connect).
LEMMA ConnectKeeps ==
  ASSUME HttpInv, Connect
  PROVE  HttpInv'
<1>1. /\ phase = "connect" /\ socket = "none"
      /\ UNCHANGED <<sse, unsent, reply, wire, cut, buf, body, need, offset, done, events>>
  BY DEF Connect, HttpInv, Modes
<1>2. \/ phase' = "send" /\ socket' = "open" /\ UNCHANGED failedIn
      \/ phase' = "over" /\ failedIn' \in {"socket", "connect", "tls"} /\ socket' \in {"none", "closed"}
  BY <1>1 DEF Connect, GiveUp, Close
<1>3. CASE phase' = "send"
  <2>1. Named' /\ sse' \in BOOLEAN
    BY <1>1, <1>3 DEF Named, HttpInv, HttpTypeOK
  <2> QED BY <1>1, <1>2, <1>3, <2>1, Prepares
<1>4. CASE phase' = "over"
  <2>1. failedIn' # None /\ socket' # "open" /\ socket' \in {"none", "open", "closed"}
    BY <1>2, <1>4 DEF None
  <2> QED BY <1>1, <1>4, <2>1, Fails
<1> QED BY <1>2, <1>3, <1>4

\* Sending leaves what is read alone (send_all).
LEMMA SendAllKeeps ==
  ASSUME HttpInv, SendAll
  PROVE  HttpInv'
<1>1. /\ phase = "send" /\ failedIn = None
      /\ UNCHANGED <<sse, url, socket, reply, wire, cut, buf, body, need, offset, done, events>>
      /\ sse \in BOOLEAN /\ socket \in {"none", "open", "closed"}
  BY DEF SendAll, HttpInv, Unfailed, HttpTypeOK
<1>2. \/ phase' \in {"send", "answer"} /\ UNCHANGED failedIn
      \/ phase' = "over" /\ failedIn' = "send"
  BY <1>1 DEF SendAll, GiveUp
<1>3. CASE phase' \in {"send", "answer"}
  <2>1. UNCHANGED failedIn
    BY <1>2, <1>3
  <2>2. HttpTypeOK' /\ (buf \in Seq(Token))'
    BY <1>1, <1>3 DEF HttpInv, HttpTypeOK
  <2>3. Announced' /\ Unfailed' /\ Modes' /\ Named' /\ Replied'
    BY <1>1, <1>3, <2>1 DEF HttpInv, Announced, Unfailed, Modes, Named, Replied
  <2>4. HeadersAhead' /\ PlainAhead' /\ ChunksAhead' /\ EventsAhead'
    BY <1>3 DEF HeadersAhead, PlainAhead, ChunksAhead, EventsAhead
  <2>5. BodyAsFramed' /\ EventsOfWire' /\ ClosedUnlessSendFailed'
    BY <1>3 DEF BodyAsFramed, EventsOfWire, ClosedUnlessSendFailed
  <2> QED BY <2>2, <2>3, <2>4, <2>5 DEF HttpInv
<1>4. CASE phase' = "over"
  <2>1. failedIn' = "send" /\ failedIn' # None
    BY <1>2, <1>4 DEF None
  <2> QED BY <1>1, <1>4, <2>1, Fails
<1> QED BY <1>2, <1>3, <1>4

\* What the server sends is still to come, but for what the connection loses.
LEMMA AheadSent ==
  ASSUME NEW y \in Seq(Token), NEW n \in 0 .. Len(y)
  PROVE  Ahead(<<>>, Upto(y, n), y, Len(y) - n)
<1> DEFINE w == Upto(y, n)  b == <<>>
<1>1. w \in Seq(Token) /\ Len(w) = n /\ \A i \in 1 .. n : w[i] = y[i]
  BY Parts
<1>2. b \in Seq(Token) /\ Len(b) = 0 /\ Len(y) \in Nat /\ Len(y) - n \in Nat
  OBVIOUS
<1> HIDE DEF w, b
<1>3. \A i \in 1 .. Len(w) : w[i] = y[Len(b) + i]
  BY <1>1, <1>2
<1>4. \A i \in 1 .. Len(b) : b[i] = y[i]
  BY <1>2
<1>5. Len(b) + Len(w) + (Len(y) - n) = Len(y)
  BY <1>1, <1>2
<1>6. Ahead(b, w, y, Len(y) - n)
  BY <1>1, <1>2, <1>3, <1>4, <1>5 DEF Ahead
<1> QED BY <1>6 DEF b, w

\* The server answers and the headers are ahead.
LEMMA AnswerKeeps ==
  ASSUME HttpInv, Answer
  PROVE  HttpInv'
<1> DEFINE full(r) == StatusAndHeaders(r) \o Framed(r)
<1>1. /\ phase = "answer" /\ phase' = "headers" /\ buf = <<>>
      /\ UNCHANGED <<sse, url, socket, unsent, buf, body, need, offset, done, events, failedIn>>
  BY DEF Answer, HttpInv, Announced
<1>2. PICK r \in Replies : /\ reply' = r
                           /\ \E n \in 0 .. Len(full(r)) : /\ wire' = Upto(full(r), n)
                                                           /\ cut' = Len(full(r)) - n
  BY DEF Answer
<1>3. StatusAndHeaders(r) \in Seq(Token) /\ Framed(r) \in Seq(Token)
  BY HeadersSay, FramedIs DEF Ends
<1>4. full(r) \in Seq(Token) /\ Len(full(r)) \in Nat
  BY <1>3
<1> HIDE DEF full
<1>5. PICK n \in 0 .. Len(full(r)) : wire' = Upto(full(r), n) /\ cut' = Len(full(r)) - n
  BY <1>2
<1>6. Ahead(<<>>, wire', full(r), cut')
  BY <1>4, <1>5, AheadSent
<1>7. HttpTypeOK' /\ (buf \in Seq(Token))'
  BY <1>1, <1>4, <1>5 DEF HttpInv, HttpTypeOK
<1>8. Announced' /\ Unfailed' /\ Modes' /\ Named' /\ Replied'
  BY <1>1, <1>2 DEF HttpInv, Announced, Unfailed, Modes, Named, Replied
<1>9. HeadersAhead'
  <2>1. Len(buf') <= MaxHeader
    BY <1>1, Sizes
  <2>2. Ahead(buf', wire', StatusAndHeaders(reply') \o Framed(reply'), cut')
    BY <1>1, <1>2, <1>6 DEF full
  <2> QED BY <2>1, <2>2 DEF HeadersAhead
<1>10. PlainAhead' /\ ChunksAhead' /\ EventsAhead'
  BY <1>1 DEF PlainAhead, ChunksAhead, EventsAhead
<1>11. BodyAsFramed' /\ EventsOfWire' /\ ClosedUnlessSendFailed'
  BY <1>1 DEF BodyAsFramed, EventsOfWire, ClosedUnlessSendFailed
<1> QED BY <1>7, <1>8, <1>9, <1>10, <1>11 DEF HttpInv

\* A recv that fails ends the exchange.
LEMMA RecvFailsKeeps ==
  ASSUME HttpInv, RecvFails
  PROVE  HttpInv'
<1>1. /\ phase' = "over" /\ failedIn' = "recv" /\ failedIn' # None
      /\ socket' = IF sse THEN socket ELSE "closed"
      /\ UNCHANGED <<sse, url, unsent, reply, wire, cut, buf, body, need, offset, done, events>>
  BY DEF RecvFails, Finish, None
<1>2. socket' \in {"none", "open", "closed"} /\ (socket' = "open" => sse)
  BY <1>1 DEF HttpInv, HttpTypeOK
<1> QED BY <1>1, <1>2, Fails

\* Closing the reader keeps the events that were read.
LEMMA CloseReaderKeeps ==
  ASSUME HttpInv, CloseReader
  PROVE  HttpInv'
<1>1. /\ phase = "events" /\ done /\ sse /\ phase' = "over" /\ socket' = "closed"
      /\ UNCHANGED <<sse, url, unsent, reply, wire, cut, buf, body, need, offset, done, events, failedIn>>
  BY DEF CloseReader, Close, HttpInv, Modes
<1>2. HttpTypeOK' /\ (buf \in Seq(Token))'
  BY <1>1 DEF HttpInv, HttpTypeOK
<1>3. Announced' /\ Unfailed' /\ Modes' /\ Named' /\ Replied'
  BY <1>1 DEF HttpInv, Announced, Unfailed, Modes, Named, Replied
<1>4. HeadersAhead' /\ PlainAhead' /\ ChunksAhead' /\ EventsAhead'
  BY <1>1 DEF HeadersAhead, PlainAhead, ChunksAhead, EventsAhead
<1>5. BodyAsFramed' /\ ClosedUnlessSendFailed'
  BY <1>1 DEF BodyAsFramed, ClosedUnlessSendFailed
<1>6. EventsOfWire'
  BY <1>1 DEF HttpInv, EventsAhead, EventsOfWire
<1> QED BY <1>2, <1>3, <1>4, <1>5, <1>6 DEF HttpInv

\* A step that changes nothing keeps the invariant.
LEMMA NothingKeeps ==
  ASSUME HttpInv, UNCHANGED httpVars
  PROVE  HttpInv'
<1> USE DEF httpVars
<1>1. HttpTypeOK' /\ (buf \in Seq(Token))'
  BY DEF HttpInv, HttpTypeOK
<1>2. Announced' /\ Unfailed' /\ Modes' /\ Named' /\ Replied'
  BY DEF HttpInv, Announced, Unfailed, Modes, Named, Replied
<1>3. HeadersAhead' /\ PlainAhead'
  BY DEF HttpInv, HeadersAhead, PlainAhead
<1>4. ChunksAhead'
  BY DEF HttpInv, ChunksAhead, ChunksRead
<1>5. EventsAhead'
  BY DEF HttpInv, EventsAhead, EventsRead
<1>6. BodyAsFramed' /\ EventsOfWire' /\ ClosedUnlessSendFailed'
  BY DEF HttpInv, BodyAsFramed, EventsOfWire, ClosedUnlessSendFailed
<1> QED BY <1>1, <1>2, <1>3, <1>4, <1>5, <1>6 DEF HttpInv

\* The text that arrives is the reply without what the connection loses.
LEMMA AheadText ==
  ASSUME NEW b, NEW w, NEW y, NEW c, Ahead(b, w, y, c)
  PROVE  /\ Upto(y, Len(y) - c) \in Seq(Token) /\ Ahead(b, w, Upto(y, Len(y) - c), 0)
<1> DEFINE n == Len(y) - c  t == Upto(y, n)
<1>1. /\ b \in Seq(Token) /\ w \in Seq(Token) /\ y \in Seq(Token) /\ c \in Nat
      /\ Len(b) \in Nat /\ Len(w) \in Nat /\ Len(y) \in Nat /\ Len(b) + Len(w) + c = Len(y)
      /\ \A i \in 1 .. Len(b) : b[i] = y[i]
      /\ \A i \in 1 .. Len(w) : w[i] = y[Len(b) + i]
  BY DEF Ahead
<1>2. n \in 0 .. Len(y) /\ Len(b) + Len(w) + 0 = n
  BY <1>1
<1> HIDE DEF n
<1>3. t \in Seq(Token) /\ Len(t) = n /\ \A i \in 1 .. n : t[i] = y[i]
  BY <1>1, <1>2, Parts
<1> HIDE DEF t
<1>4. \A i \in 1 .. Len(b) : b[i] = t[i]
  <2>1. \A i \in 1 .. Len(b) : i \in 1 .. n
    BY <1>1, <1>2
  <2> QED BY <1>1, <1>3, <2>1
<1>5. \A i \in 1 .. Len(w) : w[i] = t[Len(b) + i]
  <2>1. \A i \in 1 .. Len(w) : Len(b) + i \in 1 .. n
    BY <1>1, <1>2
  <2> QED BY <1>1, <1>3, <2>1
<1>6. Ahead(b, w, t, 0)
  BY <1>1, <1>2, <1>3, <1>4, <1>5 DEF Ahead
<1> QED BY <1>3, <1>6 DEF t, n

\* The body begins.
LEMMA BodyBegins ==
  ASSUME HttpInv, phase = "headers", ~sse, phase' = KindOf(reply), KindOf(reply) # "error",
         UNCHANGED <<sse, url, socket, reply, cut, body, offset, done, events, failedIn>>,
         need' = IF KindOf(reply) = "length" THEN Len(reply.body) ELSE -1,
         Ahead(buf', wire', Framed(reply), cut)
  PROVE  HttpInv'
<1>1. /\ reply \in Replies /\ offset = 0 /\ ~done /\ body = <<>> /\ failedIn = None
      /\ phase' \in {"length", "chunked", "close"}
  BY DEF HttpInv, Replied, Announced, Unfailed, KindOf
<1> DEFINE s == reply.body
<1>2. s \in Seq(STRING) /\ Len(s) \in Nat
  BY <1>1, Lines
<1>3. buf' \in Seq(Token) /\ Len(buf') \in Nat
  BY DEF Ahead
<1>4. HttpTypeOK' /\ (buf \in Seq(Token))'
  <2>1. offset' \in 0 .. Len(buf') /\ need' \in Nat \cup {-1}
    BY <1>1, <1>2, <1>3
  <2> QED BY <1>1, <1>3, <2>1 DEF HttpInv, HttpTypeOK
<1>5. Announced' /\ Unfailed' /\ Modes' /\ Named' /\ Replied'
  BY <1>1 DEF HttpInv, Announced, Unfailed, Modes, Named, Replied
<1>6. HeadersAhead' /\ EventsAhead' /\ PlainAhead'
  BY <1>1 DEF HeadersAhead, EventsAhead, PlainAhead
<1>7. ChunksAhead'
  <2> SUFFICES ASSUME phase' = "chunked"
               PROVE  /\ reply.framing = "chunked"
                      /\ \E f : IsRest(s, f) /\ \E n \in 0 .. Len(s) : ChunksRead(n, f)'
    BY <1>1 DEF ChunksAhead
  <2>1. reply.framing = "chunked" /\ Framed(reply) = Chunks(s) /\ need' = -1
    <3>1. reply.framing = "chunked"
      BY <1>1 DEF KindOf
    <3> QED BY <1>1, <3>1, FramedIs
  <2>2. PICK f : IsRest(s, f)
    BY <1>2, ChunksAre
  <2>3. Framed(reply) = f[Len(s)]
    BY <2>1, <2>2 DEF IsRest
  <2>4. Upto(s, Len(s) - Len(s)) = <<>>
    <3>1. 0 \in 0 .. Len(s) /\ Len(s) - Len(s) = 0
      BY <1>2
    <3>2. Upto(s, 0) \in Seq(STRING) /\ Len(Upto(s, 0)) = 0
      BY <1>2, <3>1, Parts
    <3> QED BY <3>1, <3>2
  <2>5. ChunksRead(Len(s), f)'
    BY <1>1, <2>1, <2>3, <2>4 DEF ChunksRead
  <2>6. Len(s) \in 0 .. Len(s)
    BY <1>2
  <2> QED BY <2>1, <2>2, <2>5, <2>6
<1>8. BodyAsFramed' /\ EventsOfWire' /\ ClosedUnlessSendFailed'
  BY <1>1 DEF BodyAsFramed, EventsOfWire, ClosedUnlessSendFailed
<1> QED BY <1>4, <1>5, <1>6, <1>7, <1>8 DEF HttpInv

\* The stream begins.
LEMMA StreamBegins ==
  ASSUME HttpInv, phase = "headers", sse, phase' = "events", need' = -1,
         UNCHANGED <<sse, url, socket, reply, cut, body, offset, done, events, failedIn>>,
         Ahead(buf', wire', Framed(reply), cut)
  PROVE  HttpInv'
<1>1. reply \in Replies /\ offset = 0 /\ ~done /\ events = <<>> /\ failedIn = None
  BY DEF HttpInv, Replied, Announced, Unfailed
<1> DEFINE s == Text(reply, cut)
<1>2. s \in Seq(Token) /\ Ahead(buf', wire', s, 0)
  BY AheadText DEF Text
<1>3. buf' \in Seq(Token) /\ Len(buf') \in Nat
  BY DEF Ahead
<1>4. HttpTypeOK' /\ (buf \in Seq(Token))'
  <2>1. offset' \in 0 .. Len(buf')
    BY <1>1, <1>3
  <2> QED BY <1>1, <1>3, <2>1 DEF HttpInv, HttpTypeOK
<1>5. Announced' /\ Unfailed' /\ Modes' /\ Named' /\ Replied'
  BY <1>1 DEF HttpInv, Announced, Unfailed, Modes, Named, Replied
<1>6. HeadersAhead' /\ ChunksAhead' /\ PlainAhead'
  BY <1>1 DEF HeadersAhead, ChunksAhead, PlainAhead
<1>7. EventsAhead'
  <2>1. PICK f : IsScan(s, f)
    BY <1>2, ScanIs
  <2>2. f[0] = [blocks |-> <<>>, begun |-> <<>>]
    BY <2>1 DEF IsScan
  <2>3. From(buf', 0 + 1) = buf' /\ From(s, 0 + 1) = s
    BY <1>2, <1>3, Whole
  <2>4. (EventsRead(0, f))'
    BY <1>1, <1>2, <2>2, <2>3 DEF EventsRead
  <2>5. 0 \in 0 .. Len(s)
    BY <1>2
  <2>6. Text(reply, cut)' = s
    OBVIOUS
  <2> HIDE DEF s
  <2> QED BY <1>1, <1>2, <2>1, <2>4, <2>5, <2>6 DEF EventsAhead
<1>8. BodyAsFramed' /\ EventsOfWire' /\ ClosedUnlessSendFailed'
  BY <1>1 DEF BodyAsFramed, EventsOfWire, ClosedUnlessSendFailed
<1> QED BY <1>4, <1>5, <1>6, <1>7, <1>8 DEF HttpInv

\* Reading headers goes on, begins the body or fails (read_headers).
LEMMA HeadersKeeps ==
  ASSUME HttpInv, Headers
  PROVE  HttpInv'
<1> DEFINE s == StatusAndHeaders(reply)  t == Framed(reply)
<1>1. /\ phase = "headers" /\ UNCHANGED <<sse, url, unsent, reply, cut, body, offset, done, events>>
      /\ reply \in Replies /\ failedIn = None /\ need = -1 /\ offset = 0
      /\ Ahead(buf, wire, s \o t, cut)
      /\ socket \in {"none", "open", "closed"} /\ sse \in BOOLEAN
  BY DEF Headers, HttpInv, HttpTypeOK, Replied, Unfailed, Announced, HeadersAhead
<1>2. ASSUME Finish("protocol"), UNCHANGED <<buf, need>> PROVE HttpInv'
  <2>1. /\ phase' = "over" /\ failedIn' = "protocol" /\ failedIn' # None
        /\ socket' = IF sse THEN socket ELSE "closed"
    BY <1>2 DEF Finish, None
  <2>2. socket' \in {"none", "open", "closed"} /\ (socket' = "open" => sse)
    BY <1>1, <2>1
  <2> QED BY <1>1, <1>2, <2>1, <2>2, Fails
<1>3. CASE wire = <<>>
  BY <1>1, <1>2, <1>3 DEF Headers
<1>4. CASE wire # <<>>
  <2>1. PICK n \in 1 .. RECV : n <= Len(wire) /\ wire' = From(wire, n + 1)
                               /\ read_headers(Upto(wire, n))
    BY <1>4 DEF Headers
  <2> DEFINE b == buf \o Upto(wire, n)  found == find_header_end(b)  p == LeastOf(found)
             h == Upto(b, p - 1)
  <2>2. n \in 0 .. Len(wire)
    BY <2>1, Sizes
  <2>3. Ahead(b, wire', s \o t, cut)
    BY <1>1, <2>1, <2>2, AheadReceived
  <2>4. b \in Seq(Token) /\ Len(b) \in Nat
    BY <2>3 DEF Ahead
  <2>5. Ends(s) /\ t \in Seq(Token)
    BY <1>1, HeadersSay, FramedIs
  <2>6. CASE found # {}
    <3>1. BodyPhase(h, From(b, p + 4))
      BY <2>1, <2>6 DEF read_headers
    <3>2. h = Upto(s, Len(s) - 4) /\ Ahead(From(b, p + 4), wire', t, cut)
      BY <2>3, <2>5, <2>6, HeadersFound
    <3>3. /\ parse_response_headers(h) = KindOf(reply)
          /\ KindOf(reply) = "length" => content_length(h) = Len(reply.body)
      BY <1>1, <3>2, HeadersSay
    <3> HIDE DEF b, h, p
    <3>4. CASE KindOf(reply) = "error"
      BY <1>2, <3>1, <3>3, <3>4 DEF BodyPhase
    <3>5. CASE KindOf(reply) # "error"
      <4>1. /\ phase' = IF sse THEN "events" ELSE KindOf(reply)
            /\ buf' = From(b, p + 4) /\ UNCHANGED <<socket, failedIn>>
            /\ need' = IF ~sse /\ KindOf(reply) = "length" THEN content_length(h) ELSE -1
        BY <3>1, <3>3, <3>5 DEF BodyPhase
      <4>2. Ahead(buf', wire', Framed(reply), cut)
        BY <3>2, <4>1
      <4>3. CASE sse
        BY <1>1, <4>1, <4>2, <4>3, StreamBegins
      <4>4. CASE ~sse
        <5>1. need' = IF KindOf(reply) = "length" THEN Len(reply.body) ELSE -1
          BY <3>3, <4>1, <4>4
        <5>2. phase' = KindOf(reply)
          BY <4>1, <4>4
        <5> QED BY <1>1, <3>5, <4>1, <4>2, <4>4, <5>1, <5>2, BodyBegins
      <4> QED BY <4>3, <4>4
    <3> QED BY <3>4, <3>5
  <2>7. CASE found = {} /\ Len(b) > MaxHeader
    <3>1. Finish("protocol") /\ UNCHANGED <<buf, need>>
      BY <2>1, <2>7 DEF read_headers
    <3> QED BY <1>2, <3>1
  <2>8. CASE found = {} /\ ~(Len(b) > MaxHeader)
    <3>1. buf' = b /\ UNCHANGED <<phase, failedIn, socket, need>>
      BY <2>1, <2>8 DEF read_headers
    <3> HIDE DEF b
    <3>2. HttpTypeOK' /\ (buf \in Seq(Token))'
      <4>1. offset' \in 0 .. Len(buf')
        BY <1>1, <2>4, <3>1
      <4> QED BY <1>1, <2>4, <3>1, <4>1 DEF HttpInv, HttpTypeOK
    <3>3. Announced' /\ Unfailed' /\ Modes' /\ Named' /\ Replied'
      BY <1>1, <3>1 DEF HttpInv, Announced, Unfailed, Modes, Named, Replied
    <3>4. HeadersAhead'
      <4>1. Len(buf') <= MaxHeader
        BY <2>4, <2>8, <3>1, Sizes
      <4> QED BY <1>1, <2>3, <3>1, <4>1 DEF HeadersAhead
    <3>5. PlainAhead' /\ ChunksAhead' /\ EventsAhead'
      BY <1>1, <3>1 DEF PlainAhead, ChunksAhead, EventsAhead
    <3>6. BodyAsFramed' /\ EventsOfWire' /\ ClosedUnlessSendFailed'
      BY <1>1, <3>1 DEF BodyAsFramed, EventsOfWire, ClosedUnlessSendFailed
    <3> QED BY <3>2, <3>3, <3>4, <3>5, <3>6 DEF HttpInv
  <2> QED BY <2>6, <2>7, <2>8
<1> QED BY <1>3, <1>4

\* Reading a body of a length, or up to the end of the connection.
LEMMA ReadPlainKeeps ==
  ASSUME HttpInv, ReadPlain
  PROVE  HttpInv'
<1>1. /\ phase \in {"length", "close"} /\ ~sse /\ failedIn = None /\ offset = 0
      /\ UNCHANGED <<sse, url, unsent, reply, cut, need, offset, done, events>>
      /\ reply \in Replies /\ KindOf(reply) = phase /\ Ahead(buf, wire, Framed(reply), cut)
      /\ phase = "length" => need = Len(reply.body)
  BY DEF ReadPlain, HttpInv, Modes, Unfailed, Replied, PlainAhead
<1>2. buf \in Seq(Token) /\ Len(buf) \in Nat
  BY <1>1 DEF Ahead
<1>3. CASE wire = <<>> \/ (phase = "length" /\ Len(buf) >= need)
  <2> DEFINE d == IF KindOf(reply) = "length" THEN Truncated(buf, Len(reply.body)) ELSE buf
  <2>1. /\ body' = d /\ Finish(None) /\ buf' = <<>>
    BY <1>1, <1>3 DEF ReadPlain
  <2>2. phase' = "over" /\ failedIn' = None /\ socket' = "closed"
    BY <1>1, <2>1 DEF Finish
  <2>3. IsPrefix(d, reply.body) /\ (cut = 0 => d = reply.body)
    <3>1. wire = <<>> \/ (KindOf(reply) = "length" /\ Len(buf) >= Len(reply.body))
      BY <1>1, <1>3
    <3> QED BY <1>1, <3>1, PlainBody
  <2> HIDE DEF d
  <2>4. HttpTypeOK' /\ (buf \in Seq(Token))'
    <3>1. Len(<<>>) = 0 /\ <<>> \in Seq(Token) /\ 0 \in 0 .. 0
      OBVIOUS
    <3>2. offset' \in 0 .. Len(buf') /\ buf' \in Seq(Token)
      BY <1>1, <2>1, <3>1
    <3> QED BY <1>1, <2>2, <3>2 DEF HttpInv, HttpTypeOK
  <2>5. Announced' /\ Unfailed' /\ Modes' /\ Named' /\ Replied'
    BY <1>1, <2>2 DEF Announced, Unfailed, Modes, Named, Replied
  <2>6. HeadersAhead' /\ PlainAhead' /\ ChunksAhead' /\ EventsAhead'
    BY <2>2 DEF HeadersAhead, PlainAhead, ChunksAhead, EventsAhead
  <2>7. EventsOfWire' /\ ClosedUnlessSendFailed'
    BY <1>1, <2>2 DEF EventsOfWire, ClosedUnlessSendFailed
  <2>8. BodyAsFramed'
    <3>1. reply.framing # "chunked"
      BY <1>1 DEF KindOf
    <3> QED BY <1>1, <2>1, <2>3, <3>1 DEF BodyAsFramed
  <2> QED BY <2>4, <2>5, <2>6, <2>7, <2>8 DEF HttpInv
<1>4. CASE ~(wire = <<>> \/ (phase = "length" /\ Len(buf) >= need))
  <2>1. PICK n \in 1 .. RECV : n <= Len(wire) /\ buf' = buf \o Upto(wire, n) /\ wire' = From(wire, n + 1)
    BY <1>4 DEF ReadPlain
  <2>2. UNCHANGED <<phase, failedIn, socket, body>>
    BY <1>4 DEF ReadPlain
  <2>3. n \in 0 .. Len(wire)
    BY <2>1, Sizes
  <2>4. Ahead(buf', wire', Framed(reply), cut)
    BY <1>1, <2>1, <2>3, AheadReceived
  <2>5. buf' \in Seq(Token) /\ Len(buf') \in Nat
    BY <2>4 DEF Ahead
  <2>6. HttpTypeOK' /\ (buf \in Seq(Token))'
    <3>1. offset' \in 0 .. Len(buf')
      BY <1>1, <2>5
    <3> QED BY <1>1, <2>2, <2>5, <3>1 DEF HttpInv, HttpTypeOK
  <2>7. Announced' /\ Unfailed' /\ Modes' /\ Named' /\ Replied'
    BY <1>1, <2>2 DEF HttpInv, Announced, Unfailed, Modes, Named, Replied
  <2>8. PlainAhead'
    BY <1>1, <2>2, <2>4 DEF PlainAhead
  <2>9. HeadersAhead' /\ ChunksAhead' /\ EventsAhead'
    BY <1>1, <2>2 DEF HeadersAhead, ChunksAhead, EventsAhead
  <2>10. BodyAsFramed' /\ EventsOfWire' /\ ClosedUnlessSendFailed'
    BY <1>1, <2>2 DEF BodyAsFramed, EventsOfWire, ClosedUnlessSendFailed
  <2> QED BY <2>6, <2>7, <2>8, <2>9, <2>10 DEF HttpInv
<1> QED BY <1>3, <1>4

\* Reading a size line or a chunk (read_chunked_body).
LEMMA ReadChunkedKeeps ==
  ASSUME HttpInv, ReadChunked
  PROVE  HttpInv'
<1> DEFINE s == reply.body  N == Len(s)
<1>1. /\ phase = "chunked" /\ ~sse /\ failedIn = None /\ offset = 0 /\ reply \in Replies
      /\ UNCHANGED <<sse, url, unsent, reply, cut, offset, done, events>>
      /\ reply.framing = "chunked" /\ socket \in {"none", "open", "closed"}
  BY DEF ReadChunked, HttpInv, HttpTypeOK, Modes, Unfailed, Replied, ChunksAhead
<1>2. s \in Seq(STRING) /\ N \in Nat
  BY <1>1, Lines
<1>3. PICK f : IsRest(s, f) /\ \E n \in 0 .. N : ChunksRead(n, f)
  BY <1>1 DEF HttpInv, ChunksAhead
<1>4. PICK n \in 0 .. N : ChunksRead(n, f)
  BY <1>3
<1>5. /\ body = Upto(s, N - n) /\ (need = -1 => Ahead(buf, wire, f[n], cut))
      /\ need # -1 => /\ n > 0 /\ need = SizeOf(n)
                      /\ Ahead(buf, wire, Data(s, n) \o CRLF \o f[n - SizeOf(n)], cut)
  BY <1>4 DEF ChunksRead
\* The text still ahead.
<1> DEFINE y == IF need = -1 THEN f[n] ELSE Data(s, n) \o CRLF \o f[n - SizeOf(n)]
<1>6. Ahead(buf, wire, y, cut)
  BY <1>5
<1> HIDE DEF s
<1>7. ASSUME phase' = "chunked", UNCHANGED <<failedIn, socket>>, buf' \in Seq(Token),
             need' \in Nat \cup {-1}, NEW k \in 0 .. N, ChunksRead(k, f)'
      PROVE  HttpInv'
  <2>1. HttpTypeOK'
    <3>1. offset' \in 0 .. Len(buf')
      <4>1. Len(buf') \in Nat
        BY <1>7
      <4> QED BY <1>1, <4>1
    <3> QED BY <1>1, <1>7, <3>1 DEF HttpInv, HttpTypeOK
  <2>2. Announced' /\ Unfailed' /\ Modes' /\ Named' /\ Replied'
    BY <1>1, <1>7 DEF HttpInv, Announced, Unfailed, Modes, Named, Replied
  <2>3. HeadersAhead' /\ PlainAhead' /\ EventsAhead'
    BY <1>7 DEF HeadersAhead, PlainAhead, EventsAhead
  <2>4. ChunksAhead'
    BY <1>1, <1>3, <1>7 DEF ChunksAhead, s
  <2>5. BodyAsFramed' /\ EventsOfWire' /\ ClosedUnlessSendFailed'
    BY <1>7 DEF BodyAsFramed, EventsOfWire, ClosedUnlessSendFailed
  <2> QED BY <1>7, <2>1, <2>2, <2>3, <2>4, <2>5 DEF HttpInv
<1>8. ASSUME Recv PROVE HttpInv'
  <2>1. CASE wire = <<>>
    <3>1. /\ phase' = "over" /\ failedIn' = "protocol" /\ failedIn' # None /\ socket' = "closed"
          /\ UNCHANGED <<buf, need>>
      BY <1>1, <1>8, <2>1 DEF Recv, Finish, None
    <3> QED BY <1>1, <3>1, Fails
  <2>2. CASE wire # <<>>
    <3>1. PICK m \in 1 .. RECV : m <= Len(wire) /\ buf' = buf \o Upto(wire, m) /\ wire' = From(wire, m + 1)
      BY <1>8, <2>2 DEF Recv
    <3>2. UNCHANGED <<phase, failedIn, socket, body, need>>
      BY <1>8, <2>2 DEF Recv
    <3>3. m \in 0 .. Len(wire)
      BY <3>1, Sizes
    <3>4. Ahead(buf', wire', y, cut)
      <4> HIDE DEF y
      <4> QED BY <1>6, <3>1, <3>3, AheadReceived
    <3>5. buf' \in Seq(Token)
      BY <3>4 DEF Ahead
    <3>6. ChunksRead(n, f)'
      BY <1>1, <1>5, <3>2, <3>4 DEF ChunksRead, s
    <3>7. need' \in Nat \cup {-1} /\ phase' = "chunked"
      BY <1>1, <3>2 DEF HttpInv, HttpTypeOK
    <3> QED BY <1>7, <3>2, <3>5, <3>6, <3>7
  <2> QED BY <2>1, <2>2
<1>9. CASE need = -1
  <2>1. ChunkSize
    BY <1>9 DEF ReadChunked
  <2>2. CASE find_crlf(buf) = {}
    BY <1>8, <2>1, <2>2 DEF ChunkSize
  <2>3. CASE find_crlf(buf) # {}
    <3> DEFINE k == SizeOf(n)
    <3>1. Ahead(buf, wire, f[n], cut)
      BY <1>5, <1>9
    <3>2. /\ LeastOf(find_crlf(buf)) = 2 /\ SizeIn(buf[1]) = k
          /\ n > 0 => Ahead(From(buf, 4), wire, Data(s, n) \o CRLF \o f[n - k], cut)
      BY <1>2, <1>3, <2>3, <3>1, SizeRead
    <3> HIDE DEF k
    <3>3. /\ UNCHANGED <<wire, body>>
          /\ buf' = From(buf, 4)
          /\ IF k < 0 THEN Finish("protocol") /\ UNCHANGED need
             ELSE IF k = 0 THEN Finish(None) /\ UNCHANGED need
             ELSE need' = k /\ UNCHANGED <<phase, failedIn, socket>>
      BY <2>1, <2>3, <3>2 DEF ChunkSize
    <3>4. CASE n = 0
      <4>1. k = 0
        BY <3>4, Lines DEF SizeOf, k
      <4>2. phase' = "over" /\ failedIn' = None /\ socket' = "closed" /\ UNCHANGED <<need, body>>
        BY <1>1, <3>3, <4>1 DEF Finish
      <4>3. buf' \in Seq(Token) /\ Len(buf') \in Nat
        <5>1. buf \in Seq(Token) /\ Len(buf) \in Nat
          BY <3>1 DEF Ahead
        <5>2. 2 \in 1 .. Len(buf) /\ 3 <= Len(buf)
          <6>1. find_crlf(buf) \in SUBSET Nat
            BY DEF find_crlf, Occurs
          <6>2. 2 \in find_crlf(buf)
            BY <2>3, <3>2, <6>1, LeastIs
          <6>3. 2 \in DOMAIN buf /\ 2 + Len(CRLF) - 1 <= Len(buf)
            BY <6>2 DEF find_crlf, Occurs
          <6>4. Len(CRLF) = 2
            BY DEF CRLF
          <6> QED BY <5>1, <6>3, <6>4
        <5>3. 3 \in 0 .. Len(buf) /\ 3 + 1 = 4
          BY <5>1, <5>2
        <5>4. From(buf, 3 + 1) \in Seq(Token)
          BY <5>1, <5>3, Parts
        <5> QED BY <3>3, <5>3, <5>4
      <4>4. HttpTypeOK' /\ (buf \in Seq(Token))'
        <5>1. offset' \in 0 .. Len(buf')
          BY <1>1, <4>3
        <5> QED BY <1>1, <4>2, <4>3, <5>1 DEF HttpInv, HttpTypeOK
      <4>5. Announced' /\ Unfailed' /\ Modes' /\ Named' /\ Replied'
        BY <1>1, <4>2 DEF Announced, Unfailed, Modes, Named, Replied
      <4>6. HeadersAhead' /\ PlainAhead' /\ ChunksAhead' /\ EventsAhead'
        BY <4>2 DEF HeadersAhead, PlainAhead, ChunksAhead, EventsAhead
      <4>7. EventsOfWire' /\ ClosedUnlessSendFailed'
        BY <1>1, <4>2 DEF EventsOfWire, ClosedUnlessSendFailed
      <4>8. BodyAsFramed'
        <5>1. N - n = N
          BY <1>2, <3>4
        <5>2. body' = s
          BY <1>2, <1>5, <4>2, <5>1, Whole
        <5> QED BY <1>1, <5>2 DEF BodyAsFramed, IsPrefix, s
      <4> QED BY <4>4, <4>5, <4>6, <4>7, <4>8 DEF HttpInv
    <3>5. CASE n > 0
      <4>1. k \in 1 .. n /\ n \in Nat
        BY <1>2, <3>5, Sized DEF k
      <4>2. need' = k /\ UNCHANGED <<phase, failedIn, socket>> /\ k # -1 /\ k \in Nat
        BY <3>3, <4>1
      <4>3. ChunksRead(n, f)'
        BY <1>1, <1>5, <3>2, <3>3, <3>5, <4>2 DEF ChunksRead, s, k
      <4>4. buf' \in Seq(Token)
        BY <3>2, <3>3, <3>5 DEF Ahead
      <4>5. need' \in Nat \cup {-1} /\ phase' = "chunked"
        BY <1>1, <4>2
      <4> QED BY <1>7, <4>2, <4>3, <4>4, <4>5
    <3> QED BY <1>2, <3>4, <3>5
  <2> QED BY <2>2, <2>3
<1>10. CASE need # -1
  <2>1. ChunkData
    BY <1>10 DEF ReadChunked
  <2>2. CASE Len(buf) < need + 2
    BY <1>8, <2>1, <2>2 DEF ChunkData
  <2>3. CASE ~(Len(buf) < need + 2)
    <3> DEFINE k == SizeOf(n)
    <3>1. /\ body' = body \o Upto(buf, need) /\ buf' = From(buf, need + 3) /\ need' = -1
          /\ UNCHANGED <<phase, failedIn, socket, wire>>
      BY <2>1, <2>3 DEF ChunkData
    <3>2. n \in 1 .. N /\ need = k /\ Ahead(buf, wire, Data(s, n) \o CRLF \o f[n - k], cut)
      BY <1>2, <1>5, <1>10
    <3>3. Len(buf) >= k + 2
      <4>1. Len(buf) \in Nat /\ k \in Nat
        <5>1. k \in 1 .. n
          BY <1>2, <3>2, Sized
        <5>2. Len(buf) \in Nat
          BY <3>2 DEF Ahead
        <5> HIDE DEF k
        <5> QED BY <5>1, <5>2
      <4> HIDE DEF k
      <4> QED BY <2>3, <3>2, <4>1
    <3>4. /\ n - k \in 0 .. N
          /\ Upto(s, N - n) \o Upto(buf, k) = Upto(s, N - (n - k))
          /\ Ahead(From(buf, k + 3), wire, f[n - k], cut)
      BY <1>2, <1>3, <3>2, <3>3, ChunkRead
    <3> HIDE DEF k
    <3>5. ChunksRead(n - k, f)'
      BY <1>1, <1>5, <3>1, <3>2, <3>4 DEF ChunksRead, s
    <3>6. buf' \in Seq(Token)
      BY <3>1, <3>2, <3>4 DEF Ahead
    <3>7. phase' = "chunked"
      BY <1>1, <3>1
    <3> QED BY <1>7, <3>1, <3>4, <3>5, <3>6, <3>7
  <2> QED BY <2>2, <2>3
<1> QED BY <1>9, <1>10

\* next_event returns a block, reads on or ends.
LEMMA NextEventKeeps ==
  ASSUME HttpInv, NextEvent
  PROVE  HttpInv'
<1> DEFINE s == Text(reply, cut)  rest == From(buf, offset + 1)  gaps == find_double_newline(rest)
           e == LeastOf(gaps)
<1>1. /\ phase = "events" /\ phase' = "events" /\ ~done /\ sse /\ reply \in Replies /\ failedIn = None
      /\ UNCHANGED <<phase, sse, url, socket, unsent, reply, cut, body, need>>
      /\ buf \in Seq(Token) /\ Len(buf) \in Nat /\ offset \in 0 .. Len(buf) /\ s \in Seq(Token)
      /\ done \in BOOLEAN
  BY DEF NextEvent, HttpInv, HttpTypeOK, Modes, Replied, EventsAhead
<1>2. PICK f : IsScan(s, f) /\ \E p \in 0 .. Len(s) : EventsRead(p, f)
  BY <1>1 DEF HttpInv, EventsAhead
<1>3. PICK p \in 0 .. Len(s) : EventsRead(p, f)
  BY <1>2
<1>4. f[p] = [blocks |-> events, begun |-> <<>>] /\ Ahead(rest, wire, From(s, p + 1), 0)
  BY <1>3 DEF EventsRead
<1>5. f[p].blocks = events /\ f[p].begun = <<>>
  BY <1>4
<1>6. s' = s
  BY <1>1 DEF Text
<1>7. /\ rest \in Seq(Token) /\ Len(rest) \in Nat /\ Len(rest) = Len(buf) - offset
  BY <1>1, Following
<1> HIDE DEF s, rest, gaps, e
<1>8. ASSUME offset' \in 0 .. Len(buf'), done' \in BOOLEAN, buf' \in Seq(Token), EventsAhead'
      PROVE  HttpInv'
  <2>1. HttpTypeOK'
    BY <1>1, <1>8 DEF HttpInv, HttpTypeOK
  <2>2. Announced' /\ Unfailed' /\ Modes' /\ Named' /\ Replied'
    BY <1>1 DEF HttpInv, Announced, Unfailed, Modes, Named, Replied
  <2>3. HeadersAhead' /\ PlainAhead' /\ ChunksAhead'
    BY <1>1 DEF HeadersAhead, PlainAhead, ChunksAhead
  <2>4. BodyAsFramed' /\ EventsOfWire' /\ ClosedUnlessSendFailed'
    BY <1>1 DEF BodyAsFramed, EventsOfWire, ClosedUnlessSendFailed
  <2> QED BY <1>8, <2>1, <2>2, <2>3, <2>4 DEF HttpInv
\* A step that reads on, from q on.
<1>9. ASSUME UNCHANGED <<done, failedIn>>, NEW q \in 0 .. Len(s), EventsRead(q, f)'
      PROVE  EventsAhead'
  <2>1. (Text(reply, cut))' = s
    BY <1>6 DEF s
  <2>2. /\ ~done' /\ failedIn' = None /\ s \in Seq(Token) /\ IsScan(s, f)
    BY <1>1, <1>2, <1>9
  <2> QED BY <1>9, <2>1, <2>2 DEF EventsAhead
<1>10. CASE /\ gaps # {}
            /\ events' = Append(events, parse_sse_event(Upto(rest, e - 1)))
            /\ buf' = Compact(buf, offset + e + 1)[1] /\ offset' = Compact(buf, offset + e + 1)[2]
            /\ UNCHANGED <<wire, done, failedIn>>
  <2>1. /\ e \in Nat /\ e + 1 \in 0 .. Len(rest) /\ p + e + 1 \in 0 .. Len(s)
        /\ f[p + e + 1] = [blocks |-> Append(f[p].blocks, parse_sse_event(Upto(rest, e - 1))),
                           begun |-> <<>>]
        /\ Ahead(From(rest, e + 2), wire, From(s, p + e + 2), 0)
    <3>1. find_double_newline(rest) # {}
      BY <1>10 DEF gaps
    <3> QED BY <1>1, <1>2, <1>4, <1>5, <3>1, NextBlock DEF e, gaps
  <2>11. PICK m \in Nat : m = e
    BY <2>1
  <2>12. e + 1 \in 0 .. Len(rest)
    BY <2>1
  <2> DEFINE q == e + 1  o == offset + e + 1
  <2>2. /\ q \in 0 .. Len(buf) - offset /\ o \in 0 .. Len(buf) /\ offset \in 0 .. Len(buf)
        /\ q + 1 = e + 2 /\ offset + q + 1 = o + 1
    <3>1. offset \in Nat /\ Len(buf) \in Nat /\ offset <= Len(buf) /\ e \in Nat
      BY <1>1, <2>11
    <3> QED BY <1>7, <2>12, <3>1
  <2>3. From(rest, e + 2) = From(buf, o + 1)
    <3> HIDE DEF q, o
    <3>1. From(rest, q + 1) = From(buf, offset + q + 1)
      BY <1>1, <2>2, FromFrom DEF rest
    <3> QED BY <2>2, <3>1
  <2> HIDE DEF q, o
  <2>4. From(buf, o + 1) \in Seq(Token) /\ Len(From(buf, o + 1)) = Len(buf) - o
    BY <1>1, <2>2, Following
  <2>5. /\ buf' \in Seq(Token) /\ offset' \in 0 .. Len(buf')
        /\ From(buf', offset' + 1) = From(buf, o + 1)
    <3>1. buf' = Compact(buf, o)[1] /\ offset' = Compact(buf, o)[2]
      BY <1>10 DEF o
    <3>2. CASE o > CompactAfter
      <4>1. buf' = From(buf, o + 1) /\ offset' = 0
        BY <3>1, <3>2 DEF Compact
      <4>2. Len(From(buf, o + 1)) \in Nat /\ 0 + 1 = 1
        BY <2>4
      <4>3. From(From(buf, o + 1), 1) = From(buf, o + 1)
        BY <2>4, Whole
      <4> QED BY <2>4, <4>1, <4>2, <4>3
    <3>3. CASE ~(o > CompactAfter)
      <4>1. buf' = buf /\ offset' = o
        BY <3>1, <3>3 DEF Compact
      <4> QED BY <1>1, <2>2, <4>1
    <3> QED BY <3>2, <3>3
  <2> DEFINE r == p + m + 1
  <2>6. (EventsRead(r, f))'
    <3>1. r = p + e + 1 /\ r + 1 = p + e + 2
      BY <1>1, <2>11
    <3> HIDE DEF r
    <3>2. f[r] = [blocks |-> events', begun |-> <<>>]
      BY <1>5, <1>10, <2>1, <3>1
    <3>3. Ahead(From(buf', offset' + 1), wire', From(s, r + 1), 0)
      BY <1>10, <2>1, <2>3, <2>5, <3>1
    <3> QED BY <1>1, <3>2, <3>3 DEF EventsRead, s
  <2>7. EventsAhead'
    <3>1. r \in 0 .. Len(s)
      BY <2>1, <2>11
    <3> HIDE DEF r
    <3> QED BY <1>9, <1>10, <2>6, <3>1
  <2> QED BY <1>1, <1>8, <1>10, <2>5, <2>7
<1>11. CASE /\ \E n \in 1 .. RECV : n <= Len(wire) /\ buf' = buf \o Upto(wire, n) /\ wire' = From(wire, n + 1)
            /\ UNCHANGED <<done, events, offset, failedIn>>
  <2>1. PICK n \in 1 .. RECV : n <= Len(wire) /\ buf' = buf \o Upto(wire, n) /\ wire' = From(wire, n + 1)
    BY <1>11
  <2>2. n \in 0 .. Len(wire) /\ wire \in Seq(Token)
    BY <1>4, <2>1, Sizes DEF Ahead
  <2>3. Ahead(rest \o Upto(wire, n), wire', From(s, p + 1), 0)
    BY <1>4, <2>1, <2>2, AheadReceived
  <2> DEFINE u == Upto(wire, n)
  <2>4. u \in Seq(Token) /\ Len(u) \in Nat
    BY <2>2, Parts
  <2> HIDE DEF u
  <2>5. /\ buf' \in Seq(Token) /\ Len(buf') = Len(buf) + Len(u)
        /\ \A i \in 1 .. Len(buf) : buf'[i] = buf[i]
        /\ \A i \in 1 .. Len(u) : buf'[Len(buf) + i] = u[i]
    BY <1>1, <2>1, <2>4, Joins DEF u
  <2>6. offset \in 0 .. Len(buf')
    BY <1>1, <2>4, <2>5
  <2>7. From(buf', offset + 1) = rest \o u
    <3> DEFINE v == From(buf', offset + 1)
    <3>1. v \in Seq(Token) /\ Len(v) = Len(buf') - offset
          /\ \A i \in 1 .. Len(buf') - offset : v[i] = buf'[offset + i]
      BY <2>5, <2>6, Following
    <3>2. \A i \in 1 .. Len(buf) - offset : rest[i] = buf[offset + i]
      BY <1>1, Following DEF rest
    <3> HIDE DEF v
    <3>3. Len(v) = Len(rest) + Len(u)
      BY <1>1, <1>7, <2>4, <2>5, <3>1
    <3>4. ASSUME NEW i \in 1 .. Len(rest) PROVE v[i] = rest[i]
      <4>1. i \in 1 .. Len(buf') - offset /\ i \in 1 .. Len(buf) - offset /\ offset + i \in 1 .. Len(buf)
        BY <1>1, <1>7, <2>4, <2>5
      <4> QED BY <2>5, <3>1, <3>2, <4>1
    <3>5. ASSUME NEW i \in 1 .. Len(u) PROVE v[Len(rest) + i] = u[i]
      <4>1. Len(rest) + i \in 1 .. Len(buf') - offset /\ offset + (Len(rest) + i) = Len(buf) + i
        BY <1>1, <1>7, <2>4, <2>5
      <4> QED BY <2>5, <3>1, <4>1
    <3>6. v = rest \o u
      BY <1>7, <2>4, <3>1, <3>3, <3>4, <3>5, Fits
    <3> QED BY <3>6 DEF v
  <2>8. (EventsRead(p, f))'
    <3>1. f[p] = [blocks |-> events', begun |-> <<>>]
      BY <1>4, <1>11
    <3>2. Ahead(From(buf', offset' + 1), wire', From(s, p + 1), 0)
      BY <1>11, <2>3, <2>7 DEF u
    <3> QED BY <1>1, <3>1, <3>2 DEF EventsRead, s
  <2>9. EventsAhead'
    BY <1>9, <1>11, <2>8
  <2> QED BY <1>1, <1>8, <1>11, <2>5, <2>6, <2>9
<1>12. CASE /\ gaps = {} /\ wire = <<>> /\ done' = TRUE
            /\ events' = IF parse_sse_event(rest) = <<>> THEN events
                         ELSE Append(events, parse_sse_event(rest))
            /\ UNCHANGED <<wire, buf, offset, failedIn>>
  <2>1. Ahead(rest, <<>>, From(s, p + 1), 0) /\ find_double_newline(rest) = {}
    BY <1>4, <1>12 DEF gaps
  <2>2. Blocks(s) = IF parse_sse_event(rest) = <<>> THEN events
                    ELSE Append(events, parse_sse_event(rest))
    <3>1. Blocks(s) = IF parse_sse_event(rest) = <<>> THEN f[p].blocks
                      ELSE Append(f[p].blocks, parse_sse_event(rest))
      BY <1>1, <1>2, <1>5, <2>1, LastBlock
    <3> QED BY <1>5, <3>1
  <2>3. events' = Blocks(s)
    BY <1>12, <2>2
  <2>4. EventsAhead'
    <3>1. (Text(reply, cut))' = s
      BY <1>6 DEF s
    <3> QED BY <1>12, <2>3, <3>1 DEF EventsAhead
  <2> QED BY <1>1, <1>8, <1>12, <2>4
<1>13. CASE done' = TRUE /\ failedIn' = "recv" /\ UNCHANGED <<wire, buf, offset, events>>
  <2>1. EventsAhead'
    BY <1>13 DEF EventsAhead, None
  <2> QED BY <1>1, <1>8, <1>13, <2>1
<1>14. \/ /\ gaps # {}
          /\ events' = Append(events, parse_sse_event(Upto(rest, e - 1)))
          /\ buf' = Compact(buf, offset + e + 1)[1] /\ offset' = Compact(buf, offset + e + 1)[2]
          /\ UNCHANGED <<wire, done, failedIn>>
       \/ /\ \E n \in 1 .. RECV : n <= Len(wire) /\ buf' = buf \o Upto(wire, n) /\ wire' = From(wire, n + 1)
          /\ UNCHANGED <<done, events, offset, failedIn>>
       \/ /\ gaps = {} /\ wire = <<>> /\ done' = TRUE
          /\ events' = IF parse_sse_event(rest) = <<>> THEN events
                       ELSE Append(events, parse_sse_event(rest))
          /\ UNCHANGED <<wire, buf, offset, failedIn>>
       \/ done' = TRUE /\ failedIn' = "recv" /\ UNCHANGED <<wire, buf, offset, events>>
  BY DEF NextEvent, e, gaps, rest
<1> QED BY <1>10, <1>11, <1>12, <1>13, <1>14

-----------------------------------------------------------------------------
(* Urls                                                                    *)

Sign == STRING \cup {"/", ":", "80", "443", "8080"}
\* The name of a server has no "/", and a "]" only at its end.
ServerName(h) ==
  /\ h \in Seq(Sign)
  /\ \A i \in 1 .. Len(h) : h[i] # "/"
  /\ \A i \in 1 .. Len(h) - 1 : h[i] # "]"
UrlOf(scheme, host, port, path) ==
  [ok |-> TRUE, scheme |-> scheme, host |-> host, port |-> port, path |-> path]

\* The last of some numbers.
LEMMA GreatestIs ==
  ASSUME NEW n \in Nat, NEW S \in SUBSET (1 .. n), S # {}
  PROVE  GreatestOf(S) \in S /\ \A i \in S : i <= GreatestOf(S)
<1> DEFINE T == {n - i : i \in S}
<1>1. T \in SUBSET Nat /\ T # {}
  <2>1. \A i \in S : n - i \in Nat
    OBVIOUS
  <2>2. PICK i \in S : TRUE
    OBVIOUS
  <2>3. n - i \in T
    BY <2>2
  <2>4. T \in SUBSET Nat
    BY <2>1
  <2> HIDE DEF T
  <2> QED BY <2>3, <2>4
<1>2. PICK m \in T : \A k \in T : m <= k
  BY <1>1, Least
<1>3. PICK g \in S : m = n - g
  BY <1>2
<1>4. ASSUME NEW i \in S PROVE i <= g
  <2>1. m <= n - i
    BY <1>2
  <2> QED BY <1>3, <2>1
<1> QED BY <1>4 DEF GreatestOf

\* The host and the port of an authority.
LEMMA AuthorityIs ==
  ASSUME NEW a \in Seq(Sign), \A i \in 1 .. Len(a) : a[i] # "/", NEW scheme
  PROVE  /\ ServerName(Authority(a, scheme).host)
         /\ Authority(a, scheme).port \in {80, 443, 8080, -1}
<1> DEFINE bracket == IndexesOf("]", a)  colon == IndexesOf(":", a)  h == Authority(a, scheme)
<1>1. /\ Len(a) \in Nat /\ bracket \subseteq 1 .. Len(a) /\ colon \subseteq 1 .. Len(a)
      /\ \A i \in 1 .. Len(a) : i \in bracket <=> a[i] = "]"
  BY DEF IndexesOf
<1>2. h.port \in {80, 443, 8080, -1}
  BY DEF Authority, PortOf, DefaultPort
<1>3. ASSUME NEW k \in 0 .. Len(a), \A i \in 1 .. k - 1 : a[i] # "]"
      PROVE  ServerName(Upto(a, k))
  <2> DEFINE u == Upto(a, k)
  <2>1. u \in Seq(Sign) /\ Len(u) = k /\ \A i \in 1 .. k : u[i] = a[i]
    BY <1>1, Parts
  <2> HIDE DEF u
  <2>2. /\ \A i \in 1 .. k : i \in 1 .. Len(a)
        /\ \A i \in 1 .. k - 1 : i \in 1 .. k
    BY <1>1
  <2>3. ServerName(u)
    BY <1>3, <2>1, <2>2 DEF ServerName
  <2> QED BY <2>3 DEF u
<1>4. CASE bracket # {}
  <2> DEFINE k == LeastOf(bracket)
  <2>1. bracket \in SUBSET Nat
    BY <1>1
  <2>2. k \in bracket /\ \A i \in bracket : k <= i
    BY <1>4, <2>1, LeastIs
  <2>3. h.host = Upto(a, k)
    BY <1>4 DEF Authority
  <2> HIDE DEF k, bracket
  <2>4. k \in 0 .. Len(a)
    BY <1>1, <2>2
  <2>5. ASSUME NEW i \in 1 .. k - 1 PROVE a[i] # "]"
    <3>1. i \in 1 .. Len(a) /\ i < k /\ i \in Int /\ k \in Int
      BY <1>1, <2>4
    <3> QED BY <1>1, <2>2, <3>1
  <2>6. ServerName(Upto(a, k))
    BY <1>3, <2>4, <2>5
  <2> QED BY <1>2, <2>3, <2>6
<1>5. CASE bracket = {} /\ colon # {}
  <2> DEFINE g == GreatestOf(colon)  k == g - 1
  <2>1. g \in colon
    BY <1>1, <1>5, GreatestIs
  <2>2. h.host = Upto(a, g - 1)
    BY <1>5 DEF Authority
  <2> HIDE DEF g, colon, bracket
  <2>3. k \in 0 .. Len(a) /\ \A i \in 1 .. k - 1 : i \in 1 .. Len(a)
    BY <1>1, <2>1
  <2> HIDE DEF k
  <2>4. \A i \in 1 .. k - 1 : a[i] # "]"
    BY <1>1, <1>5, <2>3
  <2>5. ServerName(Upto(a, k))
    BY <1>3, <2>3, <2>4
  <2> QED BY <1>2, <2>2, <2>5 DEF k
<1>6. CASE bracket = {} /\ colon = {}
  <2>1. h.host = a
    BY <1>6 DEF Authority
  <2>2. \A i \in 1 .. Len(a) - 1 : i \in 1 .. Len(a)
    BY <1>1
  <2> HIDE DEF bracket, colon
  <2>3. \A i \in 1 .. Len(a) - 1 : a[i] # "]"
    BY <1>1, <1>6, <2>2
  <2> QED BY <1>2, <2>1, <2>3 DEF ServerName
<1> QED BY <1>4, <1>5, <1>6

\* What Url.parse makes of a url it accepts.
LEMMA UrlIs ==
  ASSUME NEW raw \in Urls, parse(raw).ok
  PROVE  \E scheme \in {"http://", "https://"}, host \in Seq(Sign), port \in {80, 443, 8080},
            path \in Seq(Sign) :
           /\ parse(raw) = UrlOf(scheme, host, port, path) /\ ServerName(host)
           /\ Len(path) > 0 /\ path[1] = "/"
<1> DEFINE scheme == Head(raw)  rest == Tail(raw)  slash == IndexesOf("/", rest)
           k == LeastOf(slash)
           a == IF slash = {} THEN rest ELSE Upto(rest, k - 1)
           path == IF slash = {} THEN <<"/">> ELSE From(rest, k)
           h == Authority(a, scheme)
<1>1. scheme \in {"http://", "https://"}
  <2> SUFFICES ASSUME scheme \notin {"http://", "https://"} PROVE FALSE
    OBVIOUS
  <2>1. parse(raw) = [ok |-> FALSE]
    BY DEF parse
  <2> QED BY <2>1
<1>2. parse(raw) = [ok |-> h.port # -1, scheme |-> scheme, host |-> h.host, port |-> h.port, path |-> path]
  BY <1>1 DEF parse
<1>3. h.port # -1
  <2> DEFINE b == h.port # -1
  <2>1. parse(raw) = [ok |-> b, scheme |-> scheme, host |-> h.host, port |-> h.port, path |-> path]
    BY <1>2
  <2> HIDE DEF b, h, path, scheme
  <2>2. parse(raw).ok = b
    BY <2>1
  <2>3. b
    BY <2>2
  <2> QED BY <2>3 DEF b
<1>4. rest \in Seq(Sign) /\ Len(rest) \in Nat
  <2>1. raw \in Seq(STRING) /\ raw # <<>>
    BY UrlTokens
  <2>2. rest \in Seq(STRING)
    BY <2>1
  <2> HIDE DEF rest
  <2>3. Len(rest) \in Nat /\ \A i \in 1 .. Len(rest) : rest[i] \in Sign
    BY <2>2 DEF Sign
  <2> QED BY <2>2, <2>3
<1> HIDE DEF rest
<1>5. slash \subseteq 1 .. Len(rest) /\ \A i \in 1 .. Len(rest) : i \in slash <=> rest[i] = "/"
  BY <1>4 DEF IndexesOf
<1> HIDE DEF slash
<1>6. a \in Seq(Sign) /\ (\A i \in 1 .. Len(a) : a[i] # "/") /\ path \in Seq(Sign)
      /\ Len(path) > 0 /\ path[1] = "/"
  <2>1. CASE slash = {}
    <3>1. a = rest /\ path = <<"/">>
      BY <2>1
    <3>2. "/" \in Sign
      BY DEF Sign
    <3>3. path \in Seq(Sign) /\ Len(path) = 1 /\ path[1] = "/"
      <4> HIDE DEF path
      <4>1. <<"/">> \in Seq(Sign) /\ Len(<<"/">>) = 1 /\ <<"/">>[1] = "/"
        BY <3>2
      <4> QED BY <3>1, <4>1
    <3> HIDE DEF a, path
    <3>4. a \in Seq(Sign) /\ \A i \in 1 .. Len(a) : a[i] # "/"
      BY <1>4, <1>5, <2>1, <3>1
    <3> QED BY <3>3, <3>4
  <2>2. CASE slash # {}
    <3>1. slash \in SUBSET Nat
      BY <1>4, <1>5
    <3>2. k \in slash /\ \A i \in slash : k <= i
      BY <2>2, <3>1, LeastIs
    <3> HIDE DEF k
    <3> DEFINE n == k - 1
    <3>3. n \in 0 .. Len(rest) /\ n < Len(rest) /\ n + 1 = k
      BY <1>4, <1>5, <3>2
    <3> DEFINE u == Upto(rest, n)  v == From(rest, n + 1)
    <3>4. a = u /\ path = v
      BY <2>2, <3>3
    <3> HIDE DEF n, a, path
    <3>5. u \in Seq(Sign) /\ Len(u) = n /\ \A i \in 1 .. n : u[i] = rest[i]
      <4>1. rest \in Seq(Sign) /\ n \in 0 .. Len(rest)
        BY <1>4, <3>3
      <4> QED BY <4>1, FirstPart
    <3>6. v \in Seq(Sign) /\ Len(v) = Len(rest) - n /\ \A i \in 1 .. Len(rest) - n : v[i] = rest[n + i]
      <4>1. rest \in Seq(Sign) /\ n \in 0 .. Len(rest)
        BY <1>4, <3>3
      <4> QED BY <4>1, Parts
    <3> HIDE DEF u, v
    <3>7. ASSUME NEW i \in 1 .. n PROVE u[i] # "/"
      <4>1. i \in 1 .. Len(rest) /\ i < k
        BY <1>4, <3>3
      <4>2. i \notin slash
        BY <1>4, <1>5, <3>2, <4>1
      <4> QED BY <1>5, <3>5, <4>1, <4>2
    <3>8. v[1] = "/" /\ Len(v) > 0
      <4>1. 1 \in 1 .. Len(rest) - n /\ n + 1 = k
        BY <1>4, <3>3
      <4>2. rest[k] = "/"
        BY <1>5, <3>2
      <4> QED BY <1>4, <3>3, <3>6, <4>1, <4>2
    <3> QED BY <3>4, <3>5, <3>6, <3>7, <3>8
  <2> QED BY <2>1, <2>2
<1> HIDE DEF a, path
<1>7. ServerName(h.host) /\ h.port \in {80, 443, 8080, -1}
  BY <1>6, AuthorityIs
<1>8. parse(raw) = UrlOf(scheme, h.host, h.port, path)
  BY <1>2, <1>3 DEF UrlOf
<1> HIDE DEF h, scheme
<1>9. h.port \in {80, 443, 8080}
  BY <1>3, <1>7
<1> DEFINE host == h.host  port == h.port
<1> HIDE DEF host, port
<1>10. parse(raw) = UrlOf(scheme, host, port, path) /\ ServerName(host) /\ port \in {80, 443, 8080}
         /\ host \in Seq(Sign)
  BY <1>7, <1>8, <1>9 DEF host, port, ServerName
<1> QED BY <1>1, <1>6, <1>10

\* The tokens of the ports.
LEMMA PortIs ==
  ASSUME NEW port \in {80, 443, 8080}
  PROVE  \E t \in {"80", "443", "8080"} :
           PortTokens(port) = <<t>> /\ PortOf(<<t>>) = port /\ t \in Sign
<1>1. CASE port = 80
  BY <1>1 DEF PortTokens, PortOf, Sign
<1>2. CASE port = 443
  BY <1>2 DEF PortTokens, PortOf, Sign
<1>3. CASE port = 8080
  BY <1>3 DEF PortTokens, PortOf, Sign
<1> QED BY <1>1, <1>2, <1>3

\* A set of one number.
LEMMA OnlyOne ==
  ASSUME NEW n \in Nat
  PROVE  LeastOf({n}) = n /\ GreatestOf({n}) = n
BY DEF LeastOf, GreatestOf

\* An authority that names a host and a port.
Names(hh, scheme, host, port) ==
  /\ hh \in Seq(Sign) /\ \A i \in 1 .. Len(hh) : hh[i] # "/"
  /\ Authority(hh, scheme) = [host |-> host, port |-> port]

\* The Host header names the host and the port of the url.
LEMMA HostHeaderIs ==
  ASSUME NEW scheme, NEW host, ServerName(host), NEW port \in {80, 443, 8080}, NEW path,
         "]" \in Range(host) \/ ":" \notin Range(host),
         NEW hh, hh = host_header(UrlOf(scheme, host, port, path))
  PROVE  Names(hh, scheme, host, port)
<1> SUFFICES /\ hh \in Seq(Sign) /\ \A i \in 1 .. Len(hh) : hh[i] # "/"
             /\ Authority(hh, scheme) = [host |-> host, port |-> port]
  BY DEF Names
<1> DEFINE n == Len(host)
           bracket == IndexesOf("]", hh)
           colon == IndexesOf(":", hh)
<1>1. /\ host \in Seq(Sign) /\ n \in Nat /\ \A i \in 1 .. n : host[i] # "/"
      /\ \A i \in 1 .. n - 1 : host[i] # "]"
  BY DEF ServerName
<1>2. hh = IF port = DefaultPort(scheme) THEN host ELSE host \o <<":">> \o PortTokens(port)
  BY DEF host_header, UrlOf
<1>3. Range(host) = {host[i] : i \in 1 .. n}
  BY <1>1 DEF Range
<1>4. CASE port = DefaultPort(scheme)
  <2>1. hh = host
    BY <1>2, <1>4
  <2>2. CASE "]" \in Range(host)
    <3>1. PICK i \in 1 .. n : host[i] = "]"
      BY <1>3, <2>2
    <3>2. n > 0 /\ host[n] = "]"
      BY <1>1, <3>1
    <3>3. bracket = {n}
      <4>1. \A j \in 1 .. n : host[j] = "]" <=> j = n
        BY <1>1, <3>2
      <4> QED BY <1>1, <2>1, <3>2, <4>1 DEF IndexesOf
    <3>4. LeastOf(bracket) = n
      BY <1>1, <3>3, OnlyOne
    <3>5. Upto(host, n) = host
      BY <1>1, Whole
    <3> HIDE DEF bracket
    <3>6. Authority(hh, scheme) = [host |-> host, port |-> port]
      <4>1. ~(n > n)
        BY <1>1
      <4>2. bracket # {}
        BY <3>3
      <4>3. Authority(hh, scheme) =
              [host |-> Upto(hh, LeastOf(bracket)),
               port |-> IF Len(hh) > LeastOf(bracket) /\ hh[LeastOf(bracket) + 1] = ":"
                        THEN PortOf(From(hh, LeastOf(bracket) + 2)) ELSE DefaultPort(scheme)]
        BY <4>2 DEF Authority, bracket
      <4> QED BY <1>4, <2>1, <3>4, <3>5, <4>1, <4>3
    <3> QED BY <1>1, <2>1, <3>6
  <2>3. CASE "]" \notin Range(host)
    <3>1. bracket = {} /\ colon = {}
      BY <1>1, <1>3, <2>1, <2>3 DEF IndexesOf
    <3>2. Authority(hh, scheme) = [host |-> host, port |-> port]
      BY <1>4, <2>1, <3>1 DEF Authority
    <3> QED BY <1>1, <2>1, <3>2
  <2> QED BY <2>2, <2>3
<1>5. CASE port # DefaultPort(scheme)
  <2>1. PICK t \in {"80", "443", "8080"} : PortTokens(port) = <<t>> /\ PortOf(<<t>>) = port /\ t \in Sign
    BY PortIs
  <2>2. hh = host \o <<":">> \o <<t>> /\ ":" \in Sign
    BY <1>2, <1>5, <2>1 DEF Sign
  <2> DEFINE c == <<":">>  q == <<t>>  g == host \o c
  <2>3. c \in Seq(Sign) /\ Len(c) = 1 /\ c[1] = ":" /\ q \in Seq(Sign) /\ Len(q) = 1 /\ q[1] = t
    BY <2>1, <2>2
  <2> HIDE DEF c, q
  <2>4. /\ g \in Seq(Sign) /\ Len(g) = n + 1 /\ g[n + 1] = ":"
        /\ \A i \in 1 .. n : g[i] = host[i]
    <3>1. /\ g \in Seq(Sign) /\ Len(g) = n + Len(c)
          /\ \A i \in 1 .. n : g[i] = host[i]
          /\ \A i \in 1 .. Len(c) : g[n + i] = c[i]
      BY <1>1, <2>3, Joins
    <3>2. 1 \in 1 .. Len(c)
      BY <2>3
    <3> HIDE DEF g
    <3> QED BY <2>3, <3>1, <3>2
  <2>5. Upto(g, n) = host
    BY <1>1, <2>3, SecondPart
  <2>6. hh = g \o q
    BY <2>2 DEF c, q
  <2> HIDE DEF g
  <2>7. /\ hh \in Seq(Sign) /\ Len(hh) = n + 2 /\ hh[n + 2] = t /\ hh[n + 1] = ":"
        /\ \A i \in 1 .. n : hh[i] = host[i]
    <3>1. /\ hh \in Seq(Sign) /\ Len(hh) = Len(g) + Len(q)
          /\ \A i \in 1 .. Len(g) : hh[i] = g[i]
          /\ \A i \in 1 .. Len(q) : hh[Len(g) + i] = q[i]
      <4>1. g \in Seq(Sign) /\ q \in Seq(Sign)
        BY <2>3, <2>4
      <4> QED BY <2>6, <4>1, Joins
    <3>2. 1 \in 1 .. Len(q) /\ n + 1 \in 1 .. Len(g) /\ (\A i \in 1 .. n : i \in 1 .. Len(g))
          /\ Len(g) + 1 = n + 2
      BY <1>1, <2>3, <2>4
    <3>3. hh[Len(g) + 1] = q[1] /\ hh[n + 1] = g[n + 1] /\ \A i \in 1 .. n : hh[i] = g[i]
      BY <3>1, <3>2
    <3>4. Len(hh) = n + 2
      BY <1>1, <2>3, <2>4, <3>1
    <3> QED BY <2>3, <2>4, <3>1, <3>2, <3>3, <3>4
  <2>8. Upto(hh, n) = host
    <3> DEFINE u == Upto(hh, n)
    <3>1. n \in 0 .. Len(hh)
      BY <1>1, <2>7
    <3>2. u \in Seq(Sign) /\ Len(u) = n /\ \A i \in 1 .. n : u[i] = hh[i]
      <4>1. hh \in Seq(Sign)
        BY <2>7
      <4> HIDE DEF n
      <4> QED BY <3>1, <4>1, Parts
    <3> HIDE DEF u
    <3>3. u = host
      BY <1>1, <2>7, <3>2, SameElements
    <3> QED BY <3>3 DEF u
  <2>9. From(hh, n + 2) = <<t>>
    <3>1. From(hh, Len(g) + 1) = q
      BY <2>3, <2>4, <2>6, SecondPart
    <3>2. Len(g) + 1 = n + 2
      BY <1>1, <2>4
    <3> QED BY <3>1, <3>2 DEF q
  <2>10. \A i \in 1 .. Len(hh) : i \in 1 .. n \/ i = n + 1 \/ i = n + 2
    BY <1>1, <2>7
  <2>11. \A i \in 1 .. Len(hh) : hh[i] # "/"
    <3>1. t # "/" /\ t # "]" /\ t # ":"
      BY <2>1
    <3> QED BY <1>1, <2>7, <2>10, <3>1
  <2>12. CASE "]" \in Range(host)
    <3>1. PICK i \in 1 .. n : host[i] = "]"
      BY <1>3, <2>12
    <3>2. n > 0 /\ host[n] = "]"
      BY <1>1, <3>1
    <3>3. bracket = {n}
      <4>1. \A j \in 1 .. n : host[j] = "]" <=> j = n
        BY <1>1, <3>2
      <4>2. t # "]" /\ n \in 1 .. n /\ n \in 1 .. n + 2
        BY <1>1, <2>1, <3>2
      <4>3. \A j \in 1 .. n + 2 : hh[j] = "]" <=> j = n
        BY <1>1, <2>7, <2>10, <4>1, <4>2
      <4>4. DOMAIN hh = 1 .. n + 2
        BY <2>7
      <4> QED BY <4>2, <4>3, <4>4 DEF IndexesOf
    <3>4. LeastOf(bracket) = n
      BY <1>1, <3>3, OnlyOne
    <3> HIDE DEF bracket
    <3>5. Len(hh) > n /\ hh[n + 1] = ":"
      BY <1>1, <2>7
    <3>6. Authority(hh, scheme) = [host |-> host, port |-> port]
      BY <2>1, <2>8, <2>9, <3>3, <3>4, <3>5 DEF Authority, bracket
    <3> QED BY <2>7, <2>11, <3>6
  <2>13. CASE "]" \notin Range(host)
    <3>1. t # "]" /\ t # ":"
      BY <2>1
    <3>2. DOMAIN hh = 1 .. n + 2
      BY <2>7
    <3>3. bracket = {}
      <4>1. \A j \in 1 .. n : host[j] # "]"
        BY <1>3, <2>13
      <4> QED BY <1>1, <2>7, <2>10, <3>1, <3>2, <4>1 DEF IndexesOf
    <3>4. colon = {n + 1}
      <4>1. \A j \in 1 .. n : host[j] # ":"
        BY <1>3, <2>13
      <4>2. n + 1 \in 1 .. n + 2
        BY <1>1
      <4>3. \A j \in 1 .. n + 2 : hh[j] = ":" <=> j = n + 1
        BY <1>1, <2>7, <2>10, <3>1, <4>1
      <4> QED BY <3>2, <4>2, <4>3 DEF IndexesOf
    <3>5. GreatestOf(colon) = n + 1 /\ (n + 1) - 1 = n /\ (n + 1) + 1 = n + 2
      <4>1. n + 1 \in Nat /\ (n + 1) - 1 = n /\ (n + 1) + 1 = n + 2
        BY <1>1
      <4> DEFINE m == n + 1
      <4> HIDE DEF m, colon
      <4>2. GreatestOf({m}) = m
        <5>1. m \in Nat
          BY <4>1 DEF m
        <5> QED BY <5>1, OnlyOne
      <4> QED BY <3>4, <4>1, <4>2 DEF m
    <3> HIDE DEF bracket, colon
    <3>6. colon # {}
      BY <3>4
    <3>7. Authority(hh, scheme) = [host |-> Upto(hh, GreatestOf(colon) - 1),
                                   port |-> PortOf(From(hh, GreatestOf(colon) + 1))]
      BY <3>3, <3>6 DEF Authority, bracket, colon
    <3>8. Authority(hh, scheme) = [host |-> host, port |-> port]
      BY <2>1, <2>8, <2>9, <3>5, <3>7
    <3> QED BY <2>7, <2>11, <3>8
  <2> QED BY <2>12, <2>13
<1> QED BY <1>4, <1>5

\* A request for the host that the header names goes where the first one went.
LEMMA Reparsed ==
  ASSUME NEW scheme \in {"http://", "https://"}, NEW host, ServerName(host),
         NEW port \in {80, 443, 8080}, NEW path \in Seq(Sign), Len(path) > 0, path[1] = "/",
         "]" \in Range(host) \/ ":" \notin Range(host)
  PROVE  LET u == UrlOf(scheme, host, port, path)
         IN  parse(<<scheme>> \o host_header(u) \o path) = u
<1> DEFINE u == UrlOf(scheme, host, port, path)  hh == host_header(u)
<1>1. /\ hh \in Seq(Sign) /\ (\A i \in 1 .. Len(hh) : hh[i] # "/")
      /\ Authority(hh, scheme) = [host |-> host, port |-> port]
  <2>1. hh = host_header(UrlOf(scheme, host, port, path))
    OBVIOUS
  <2> HIDE DEF hh
  <2>2. Names(hh, scheme, host, port)
    BY <2>1, HostHeaderIs
  <2> QED BY <2>2 DEF Names
<1> HIDE DEF hh
<1> DEFINE n == Len(hh)
           tokens == <<scheme>> \o hh \o path
           rest == hh \o path
           slash == IndexesOf("/", rest)
           a == Authority(hh, scheme)
<1>2. n \in Nat /\ Len(path) \in Nat
  BY <1>1
<1>3. Head(tokens) = scheme /\ Tail(tokens) = rest
  <2> DEFINE V == Sign \cup {scheme}  s == <<scheme>>
  <2>1. s \in Seq(V) /\ Len(s) = 1 /\ s[1] = scheme
    OBVIOUS
  <2>2. hh \in Seq(V) /\ path \in Seq(V)
    <3>1. /\ \A i \in 1 .. Len(hh) : hh[i] \in V
          /\ \A i \in 1 .. Len(path) : path[i] \in V
      BY <1>1
    <3> HIDE DEF V
    <3> QED BY <1>1, <3>1
  <2> HIDE DEF V, s
  <2>3. rest \in Seq(V)
    BY <2>2
  <2>4. tokens = s \o rest
    BY <2>1, <2>2, Regrouped DEF s
  <2> HIDE DEF rest, tokens
  <2>5. /\ tokens \in Seq(V) /\ Len(tokens) = Len(s) + Len(rest)
        /\ \A i \in 1 .. Len(s) : tokens[i] = s[i]
        /\ \A i \in 1 .. Len(rest) : tokens[Len(s) + i] = rest[i]
    <3>1. s \in Seq(V) /\ rest \in Seq(V)
      BY <2>1, <2>3
    <3> QED BY <2>4, <3>1, Joins
  <2>6. Len(rest) \in Nat /\ tokens # <<>> /\ tokens[1] = scheme
    <3>1. Len(rest) \in Nat /\ 1 \in 1 .. Len(s)
      BY <2>1, <2>3
    <3> QED BY <2>1, <2>5, <3>1
  <2>7. /\ Head(tokens) = tokens[1] /\ Tail(tokens) \in Seq(V) /\ Len(Tail(tokens)) = Len(tokens) - 1
        /\ \A i \in 1 .. Len(Tail(tokens)) : Tail(tokens)[i] = tokens[i + 1]
    BY <2>5, <2>6
  <2> DEFINE z == Tail(tokens)
  <2> HIDE DEF z
  <2>8. z \in Seq(V) /\ Len(z) = Len(rest) /\ \A i \in 1 .. Len(rest) : z[i] = rest[i]
    <3>1. z \in Seq(V) /\ Len(z) = Len(rest)
      BY <2>1, <2>5, <2>6, <2>7 DEF z
    <3>2. \A i \in 1 .. Len(rest) : z[i] = tokens[i + 1] /\ i + 1 = Len(s) + i
      BY <2>1, <2>6, <2>7, <3>1 DEF z
    <3> QED BY <2>5, <3>1, <3>2
  <2>9. z = rest
    BY <2>3, <2>8, SameElements
  <2> QED BY <2>6, <2>7, <2>9 DEF z
<1>4. /\ rest \in Seq(Sign) /\ Len(rest) = n + Len(path) /\ (\A i \in 1 .. n : rest[i] = hh[i])
      /\ \A i \in 1 .. Len(path) : rest[n + i] = path[i]
  BY <1>1, Joins
<1>5. Upto(rest, n) = hh /\ From(rest, n + 1) = path
  BY <1>1, SecondPart
<1> HIDE DEF rest, tokens
<1>6. n + 1 \in slash /\ \A i \in slash : n + 1 <= i
  <2>1. 1 \in 1 .. Len(path) /\ n + 1 \in 1 .. Len(rest) /\ DOMAIN rest = 1 .. Len(rest)
    BY <1>2, <1>4
  <2>2. rest[n + 1] = "/"
    BY <1>4, <2>1
  <2>3. ASSUME NEW i \in slash PROVE n + 1 <= i
    <3>1. i \in 1 .. Len(rest) /\ rest[i] = "/"
      BY <2>1 DEF IndexesOf
    <3>2. i \notin 1 .. n
      BY <1>1, <1>4, <3>1
    <3> QED BY <1>2, <1>4, <3>1, <3>2
  <2> QED BY <2>1, <2>2, <2>3 DEF IndexesOf
<1>7. LeastOf(slash) = n + 1
  <2>1. slash \in SUBSET Nat /\ slash # {}
    BY <1>4, <1>6 DEF IndexesOf
  <2> DEFINE m == LeastOf(slash)
  <2>2. m \in slash /\ m <= n + 1
    BY <1>6, <2>1, LeastIs
  <2> HIDE DEF m, slash
  <2>3. m >= n + 1 /\ m \in Nat
    BY <1>6, <2>1, <2>2
  <2>4. m = n + 1
    BY <1>2, <2>2, <2>3
  <2> QED BY <2>4 DEF m
<1>8. slash # {} /\ (n + 1) - 1 = n
  BY <1>2, <1>6
<1> HIDE DEF slash
<1>9. parse(tokens) = [ok |-> a.port # -1, scheme |-> scheme,
                       host |-> a.host, port |-> a.port, path |-> path]
  <2> DEFINE z == Tail(tokens)
  <2> HIDE DEF z
  <2>4. Head(tokens) = scheme /\ z = rest
    BY <1>3 DEF z
  <2>1. Upto(z, LeastOf(IndexesOf("/", z)) - 1) = hh
    BY <1>5, <1>7, <1>8, <2>4 DEF slash
  <2>2. From(z, LeastOf(IndexesOf("/", z))) = path
    BY <1>5, <1>7, <2>4 DEF slash
  <2>3. IndexesOf("/", z) # {}
    BY <1>8, <2>4 DEF slash
  <2> QED BY <2>1, <2>2, <2>3, <2>4 DEF parse, z
<1>10. a.host = host /\ a.port = port
  BY <1>1
<1> DEFINE b == a.port # -1
<1>12. b = TRUE
  BY <1>10
<1>13. parse(tokens) = [ok |-> b, scheme |-> scheme, host |-> a.host, port |-> a.port, path |-> path]
  BY <1>9
<1> HIDE DEF a, b
<1>11. parse(tokens) = u
  BY <1>10, <1>12, <1>13 DEF UrlOf
<1> QED BY <1>11 DEF tokens, hh

\* The host of a url that parsed is named by its Host header.
LEMMA HostIsNamed ==
  ASSUME Named
  PROVE  HostNamesServer
<1> SUFFICES ASSUME phase = "connect", "]" \in Range(url.host) \/ ":" \notin Range(url.host)
             PROVE  parse(<<url.scheme>> \o host_header(url) \o url.path) = url
  BY DEF HostNamesServer
<1>1. PICK raw \in Urls : url = parse(raw) /\ parse(raw).ok
  BY DEF Named
<1>2. PICK scheme \in {"http://", "https://"}, host \in Seq(Sign), port \in {80, 443, 8080},
           path \in Seq(Sign) :
        /\ url = UrlOf(scheme, host, port, path) /\ ServerName(host)
        /\ Len(path) > 0 /\ path[1] = "/"
  BY <1>1, UrlIs
<1>3. url.scheme = scheme /\ url.host = host /\ url.path = path
  BY <1>2 DEF UrlOf
<1>4. "]" \in Range(host) \/ ":" \notin Range(host)
  BY <1>3
<1>5. parse(<<scheme>> \o host_header(UrlOf(scheme, host, port, path)) \o path)
        = UrlOf(scheme, host, port, path)
  BY <1>2, <1>4, Reparsed
<1> QED BY <1>2, <1>3, <1>5

\* The invariant of an exchange, for every set of URLs and replies and every size
\* of buffer (HttpClient.send, send_sse, SseReader.next_event).
THEOREM HttpInvariance == HttpSpec => []HttpInv
<1>1. HttpInit => HttpInv
  BY HttpInitially
<1>2. HttpInv /\ [HttpNext]_httpVars => HttpInv'
  <2> SUFFICES ASSUME HttpInv, [HttpNext]_httpVars PROVE HttpInv'
    OBVIOUS
  <2>1. CASE Request
    BY <2>1, RequestKeeps
  <2>2. CASE Connect
    BY <2>2, ConnectKeeps
  <2>3. CASE SendAll
    BY <2>3, SendAllKeeps
  <2>4. CASE Answer
    BY <2>4, AnswerKeeps
  <2>5. CASE Headers
    BY <2>5, HeadersKeeps
  <2>6. CASE ReadPlain
    BY <2>6, ReadPlainKeeps
  <2>7. CASE ReadChunked
    BY <2>7, ReadChunkedKeeps
  <2>8. CASE NextEvent
    BY <2>8, NextEventKeeps
  <2>9. CASE CloseReader
    BY <2>9, CloseReaderKeeps
  <2>10. CASE RecvFails
    BY <2>10, RecvFailsKeeps
  <2>11. CASE UNCHANGED httpVars
    BY <2>11, NothingKeeps
  <2> QED BY <2>1, <2>2, <2>3, <2>4, <2>5, <2>6, <2>7, <2>8, <2>9, <2>10, <2>11
          DEF HttpNext, Step, Over
<1> QED BY <1>1, <1>2, PTL DEF HttpSpec

\* What an exchange hands over is what the server sent, to the host that was named,
\* within the limits, and no socket stays open but for the known failures: for
\* every set of URLs and replies and every size of buffer.  Of the streams, those
\* whose body is sent as it is; a chunked one is read with its size lines.
THEOREM FaithfulExchange == HttpSpec => []ExchangeIsFaithful
<1>1. HttpInv => ExchangeIsFaithful
  <2> SUFFICES ASSUME HttpInv PROVE ExchangeIsFaithful
    OBVIOUS
  <2>1. HostNamesServer
    BY HostIsNamed DEF HttpInv
  <2>2. HeadersBounded
    BY DEF HttpInv, HeadersAhead, HeadersBounded
  <2>3. EventsAsSent
    <3> SUFFICES ASSUME phase = "over", sse, failedIn = None,
                        reply.framing \notin {"chunked", "overrun"}
                 PROVE  events = Blocks(Upto(reply.body, Len(reply.body) - cut))
      BY DEF EventsAsSent
    <3>1. Framed(reply) = reply.body
      BY DEF Framed
    <3>2. events = Blocks(Text(reply, cut))
      BY DEF HttpInv, EventsOfWire
    <3> QED BY <3>1, <3>2 DEF Text
  <2> QED BY <2>1, <2>2, <2>3 DEF HttpInv, ExchangeIsFaithful
<1> QED BY <1>1, HttpInvariance, PTL
=============================================================================
