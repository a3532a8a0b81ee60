---------------------------- MODULE OnboardLock ----------------------------
(***************************************************************************)
(* The lock file that keeps two onboarding commands apart                   *)
(* (bin/lib/onboard-session.js, taken and released by bin/lib/onboard.js).  *)
(*                                                                          *)
(* Every system call is a step of its own, since other processes run        *)
(* between them: the exclusive create, the write of the pid, the read, the  *)
(* test whether the holder lives, and the unlink, which goes by name and    *)
(* not by what was read.  A process may die at any step; a process that     *)
(* ends by itself runs releaseOnboardLock first.  A pid is not used again.  *)
(* readFileSync finds what existsSync finds, so that the two are one step.  *)
(***************************************************************************)
EXTENDS Integers, FiniteSets

CONSTANTS
    Procs,       \* processes that run the onboarding command
    Former,      \* a process that is dead from the start
    Nobody       \* the pid in no lock file

ASSUME LockConstants ==
    /\ IsFiniteSet(Procs)
    /\ Former \notin Procs /\ Nobody \notin Procs /\ Former # Nobody

VARIABLES
    lockFile,    \* NoFile, or who created it and whether its pid is in it
    at,          \* the next step of each process
    attempt,     \* the loop variable of acquireOnboardLock
    existing,    \* the pid each process has read
    dead,        \* processes that are gone
    blind,       \* history: an unlink removed another file than was read
    found,       \* history: the lock file when the process first looked
    alone        \* history: no other process did anything since then

lockVars == <<lockFile, at, attempt, existing, dead, blind, found, alone>>

Lock(p, written) == [pid |-> p, written |-> written]
NoFile == Lock(Nobody, FALSE)
Files == {NoFile} \cup [pid : Procs \cup {Former}, written : BOOLEAN]

Steps == {"open", "write", "read", "check", "unlink", "hold", "release",
          "refused", "gave up", "done"}

Holders == {p \in Procs : at[p] \in {"write", "hold", "release"} /\ p \notin dead}

LockInit ==
    /\ lockFile \in {NoFile, Lock(Former, TRUE), Lock(Former, FALSE)}
    /\ at = [p \in Procs |-> "open"]
    /\ attempt = [p \in Procs |-> 0]
    /\ existing = [p \in Procs |-> Former]
    /\ dead = {Former}
    /\ blind = FALSE
    /\ found = [p \in Procs |-> NoFile]
    /\ alone = [p \in Procs |-> TRUE]

Goto(p, s) == at' = [at EXCEPT ![p] = s]

\* The loop makes two attempts.
Retry(p) ==
    /\ attempt' = [attempt EXCEPT ![p] = @ + 1]
    /\ Goto(p, IF attempt[p] + 1 < 2 THEN "open" ELSE "gave up")

\* mutant: the file is opened without the exclusive flag
OpenShared(p) ==
    /\ at[p] = "open"
    /\ found' = IF attempt[p] = 0 THEN [found EXCEPT ![p] = lockFile] ELSE found
    /\ lockFile' = Lock(p, FALSE)
    /\ Goto(p, "write")
    /\ UNCHANGED <<attempt, existing, dead, blind>>

\* openSync(LOCK_FILE, "wx"): creates the file, or fails if there is one.
OpenLock(p) ==
    /\ at[p] = "open"
    /\ found' = IF attempt[p] = 0 THEN [found EXCEPT ![p] = lockFile] ELSE found
    /\ IF lockFile = NoFile
       THEN lockFile' = Lock(p, FALSE) /\ Goto(p, "write")
       ELSE Goto(p, "read") /\ UNCHANGED lockFile
    /\ UNCHANGED <<attempt, existing, dead, blind>>

\* The payload goes to the file that was created, be it unlinked or not.
WriteLock(p) ==
    /\ at[p] = "write"
    /\ lockFile' = IF lockFile = Lock(p, FALSE) THEN Lock(p, TRUE) ELSE lockFile
    /\ Goto(p, "hold")
    /\ UNCHANGED <<attempt, existing, dead, blind, found>>

\* A file that is gone or holds no pid costs an attempt.
ReadLock(p) ==
    /\ at[p] = "read"
    /\ IF ~lockFile.written
       THEN Retry(p) /\ UNCHANGED existing
       ELSE /\ existing' = [existing EXCEPT ![p] = lockFile.pid]
            /\ Goto(p, "check")
            /\ UNCHANGED attempt
    /\ UNCHANGED <<lockFile, dead, blind, found>>

\* mutant: isProcessAlive takes every pid for that of a living process
CheckNothing(p) ==
    /\ at[p] = "check"
    /\ Goto(p, "refused")
    /\ UNCHANGED <<lockFile, attempt, existing, dead, blind, found>>

\* isProcessAlive
CheckHolder(p) ==
    /\ at[p] = "check"
    /\ Goto(p, IF existing[p] \in dead THEN "unlink" ELSE "refused")
    /\ UNCHANGED <<lockFile, attempt, existing, dead, blind, found>>

Unlink(p) ==
    /\ blind' = (blind \/ (lockFile # NoFile /\ lockFile # Lock(existing[p], TRUE)))
    /\ lockFile' = NoFile

\* The lock of a dead process is removed, and the next attempt begins.
UnlinkStale(p) ==
    /\ at[p] = "unlink"
    /\ Unlink(p)
    /\ Retry(p)
    /\ UNCHANGED <<existing, dead, found>>

\* releaseOnboardLock reads the file and leaves one that is not its own.
ReadOwnLock(p) ==
    /\ at[p] = "hold"
    /\ existing' = [existing EXCEPT ![p] = p]
    /\ Goto(p, IF lockFile = Lock(p, TRUE) THEN "release" ELSE "done")
    /\ UNCHANGED <<lockFile, attempt, dead, blind, found>>

UnlinkOwn(p) ==
    /\ at[p] = "release"
    /\ Unlink(p)
    /\ Goto(p, "done")
    /\ UNCHANGED <<attempt, existing, dead, found>>

LockStep(p) ==
    /\ p \notin dead
    /\ \/ OpenLock(p) \/ WriteLock(p) \/ ReadLock(p) \/ CheckHolder(p)
       \/ UnlinkStale(p) \/ ReadOwnLock(p) \/ UnlinkOwn(p)

\* A process is killed before it has done all it wants to do.
Kill(p) ==
    /\ p \notin dead /\ at[p] \notin {"refused", "gave up", "done"}
    /\ dead' = dead \cup {p}
    /\ UNCHANGED <<lockFile, at, attempt, existing, blind, found>>

LockNext ==
    \E p \in Procs :
        /\ LockStep(p) \/ Kill(p)
        /\ alone' = [q \in Procs |->
                       alone[q] /\ (\/ q = p
                                    \/ at[q] = "open" /\ attempt[q] = 0
                                    \/ lockFile' = lockFile /\ dead' = dead)]

LockSpec == LockInit /\ [][LockNext]_lockVars

\* What fairness is about: a process that is not killed goes on.
LockGoesOn(p) == LockNext /\ LockStep(p)

-----------------------------------------------------------------------------
LockTypeOK ==
    /\ lockFile \in Files
    /\ at \in [Procs -> Steps]
    /\ attempt \in [Procs -> 0 .. 2]
    /\ existing \in [Procs -> Procs \cup {Former}]
    /\ dead \subseteq Procs \cup {Former}
    /\ blind \in BOOLEAN
    /\ found \in [Procs -> Files]
    /\ alone \in [Procs -> BOOLEAN]

(***************************************************************************)
(* Two living processes hold the lock only after an unlink has removed a    *)
(* file that is not the one whose dead holder had been looked up: the      *)
(* takeover of a stale lock by two processes at once is the only gap of    *)
(* acquireOnboardLock, whatever else runs, dies or is released.             *)
(***************************************************************************)
OneHolder == LockTypeOK /\ (~blind => Cardinality(Holders) <= 1)

(***************************************************************************)
(* What acquireOnboardLock answers when nobody interferes from its first    *)
(* look on: it takes a missing lock and that of a dead process, it reports  *)
(* the holder that lives, and it gives up on a file without a pid.          *)
(***************************************************************************)
UndisturbedOutcome ==
    \A p \in Procs : alone[p] =>
        /\ at[p] = "refused" => found[p].written /\ found[p].pid \notin dead
        /\ at[p] = "gave up" => found[p] # NoFile /\ ~found[p].written
        /\ at[p] \in {"hold", "done"} =>
               found[p] = NoFile \/ (found[p].written /\ found[p].pid \in dead)

(***************************************************************************)
(* The lock of a dead process does not outlive the look of a process that   *)
(* goes on: it is removed, by that process or by another.                   *)
(***************************************************************************)
StaleLockGoes ==
    \A p \in Procs, q \in Procs \cup {Former} :
        (at[p] = "read" /\ lockFile = Lock(q, TRUE) /\ q \in dead)
            ~> (lockFile # Lock(q, TRUE) \/ p \in dead)
=============================================================================
