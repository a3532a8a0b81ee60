------------------------------- MODULE FdTable -------------------------------
(***************************************************************************)
(* The WASI file-descriptor table of one process                           *)
(* (agent-os/packages/posix/src/fd-table.ts): descriptor numbers, the file *)
(* descriptions they share with their reference counts, the counter        *)
(* _nextFd and the list _freeFds of numbers to use again.                  *)
(*                                                                         *)
(* _freeFds may hold a number twice.  It is kept sorted, so that its order *)
(* carries nothing: it is modelled by how often each number occurs in it,  *)
(* and pop() takes a smallest one.  Calls that fail (EBADF, -1) and dup2   *)
(* or renumber of a number onto itself change nothing and are left out.    *)
(***************************************************************************)
EXTENDS Integers, FiniteSets

CONSTANTS
    MaxFd,        \* bound: largest descriptor number
    MaxDesc,      \* bound: file descriptions created, stdio's three included
    MaxRefs,      \* bound: refCount of one description
    MaxTimes      \* bound: occurrences of one number in _freeFds

ASSUME FdConstants ==
    /\ MaxFd \in Nat /\ MaxFd >= 3
    /\ MaxDesc \in Nat /\ MaxDesc >= 3
    /\ MaxRefs \in Nat /\ MaxTimes \in Nat

VARIABLES
    fds,        \* _fds: the description each number names, NoDesc if closed
    nextFd,     \* _nextFd
    free,       \* _freeFds, as the number of times each number occurs
    refCount,   \* FileDescription.refCount
    descs,      \* file descriptions created so far
    placed      \* history: a call has placed a descriptor at a number that
                \* _allocateFd did not choose (dupMinFd, dup2, renumber)

vars == <<fds, nextFd, free, refCount, descs, placed>>

-----------------------------------------------------------------------------
Fds == 0 .. MaxFd
Descs == 1 .. MaxDesc
NoDesc == 0

IsOpen(fd) == fds[fd] # NoDesc
FreeFds == {fd \in Fds : free[fd] > 0}
Naming(d) == {fd \in Fds : fds[fd] = d}

Lowest(S) == {x \in S : \A y \in S : x <= y}

Highest(S) == {x \in S : \A y \in S : x >= y}

Init ==
    /\ fds = [fd \in Fds |-> IF fd < 3 THEN fd + 1 ELSE NoDesc]
    /\ nextFd = 3
    /\ free = [fd \in Fds |-> 0]
    /\ refCount = [d \in Descs |-> IF d <= 3 THEN 1 ELSE 0]
    /\ descs = 3
    /\ placed = FALSE

\* Mutant: the list is not sorted after a push.
AllocateAnyFree(fd) ==
    IF FreeFds # {}
    THEN fd \in Highest(FreeFds) /\ free' = [free EXCEPT ![fd] = @ - 1] /\ UNCHANGED nextFd
    ELSE fd = nextFd /\ nextFd' = nextFd + 1 /\ UNCHANGED free

\* _allocateFd()
AllocateFd(fd) ==
    IF FreeFds # {}
    THEN /\ fd \in Lowest(FreeFds)
         /\ free' = [free EXCEPT ![fd] = @ - 1]
         /\ UNCHANGED nextFd
    ELSE /\ fd = nextFd
         /\ nextFd' = nextFd + 1
         /\ UNCHANGED free

\* "Keep _nextFd above all allocated fds"
RaiseNextFd(fd) == nextFd' = IF fd >= nextFd THEN fd + 1 ELSE nextFd

\* open(): a new description.  Whatever fds[fd] was is overwritten.
Open ==
    /\ descs < MaxDesc
    /\ \E fd \in Fds :
         /\ AllocateFd(fd)
         /\ fds' = [fds EXCEPT ![fd] = descs + 1]
    /\ refCount' = [refCount EXCEPT ![descs + 1] = 1]
    /\ descs' = descs + 1
    /\ UNCHANGED placed

Close(fd) ==
    /\ IsOpen(fd) /\ free[fd] < MaxTimes
    /\ refCount' = [refCount EXCEPT ![fds[fd]] = @ - 1]
    /\ fds' = [fds EXCEPT ![fd] = NoDesc]
    /\ free' = [free EXCEPT ![fd] = @ + 1]
    /\ UNCHANGED <<nextFd, descs, placed>>

Dup(fd) ==
    /\ IsOpen(fd) /\ refCount[fds[fd]] < MaxRefs
    /\ refCount' = [refCount EXCEPT ![fds[fd]] = @ + 1]
    /\ \E new \in Fds :
         /\ AllocateFd(new)
         /\ fds' = [fds EXCEPT ![new] = fds[fd]]
    /\ UNCHANGED <<descs, placed>>

\* The lowest number from minFd on that is not open; _freeFds is not consulted.
DupMinFd(fd, minFd) ==
    /\ IsOpen(fd) /\ refCount[fds[fd]] < MaxRefs
    /\ refCount' = [refCount EXCEPT ![fds[fd]] = @ + 1]
    /\ \E new \in Lowest({n \in minFd .. MaxFd : ~IsOpen(n)}) :
         /\ fds' = [fds EXCEPT ![new] = fds[fd]]
         /\ RaiseNextFd(new)
    /\ placed' = TRUE
    /\ UNCHANGED <<free, descs>>

\* Mutant: the duplicate is not counted.
Dup2Uncounted(oldFd, newFd) ==
    /\ oldFd # newFd /\ IsOpen(oldFd) /\ refCount[fds[oldFd]] < MaxRefs
    /\ refCount' = [d \in Descs |-> refCount[d] - (IF d = fds[newFd] THEN 1 ELSE 0)]
    /\ fds' = [fds EXCEPT ![newFd] = fds[oldFd]]
    /\ RaiseNextFd(newFd)
    /\ placed' = TRUE
    /\ UNCHANGED <<free, descs>>

Dup2(oldFd, newFd) ==
    /\ oldFd # newFd /\ IsOpen(oldFd) /\ refCount[fds[oldFd]] < MaxRefs
    /\ refCount' = [d \in Descs |-> refCount[d] - (IF d = fds[newFd] THEN 1 ELSE 0)
                                                + (IF d = fds[oldFd] THEN 1 ELSE 0)]
    /\ fds' = [fds EXCEPT ![newFd] = fds[oldFd]]
    /\ RaiseNextFd(newFd)
    /\ placed' = TRUE
    /\ UNCHANGED <<free, descs>>

\* The entry moves.  The description newFd named keeps its count, and oldFd
\* does not go to _freeFds.
Renumber(oldFd, newFd) ==
    /\ oldFd # newFd /\ IsOpen(oldFd)
    /\ fds' = [fds EXCEPT ![newFd] = fds[oldFd], ![oldFd] = NoDesc]
    /\ RaiseNextFd(newFd)
    /\ placed' = TRUE
    /\ UNCHANGED <<free, refCount, descs>>

Next ==
    \/ Open
    \/ \E fd \in Fds : Close(fd) \/ Dup(fd)
    \/ \E fd, n \in Fds : DupMinFd(fd, n) \/ Dup2(fd, n) \/ Renumber(fd, n)

Spec == Init /\ [][Next]_vars

-----------------------------------------------------------------------------
(* Properties *)

TypeOK ==
    /\ fds \in [Fds -> Descs \cup {NoDesc}]
    /\ nextFd \in 3 .. MaxFd + 1
    /\ free \in [Fds -> Nat]
    /\ refCount \in [Descs -> Int]
    /\ descs \in 3 .. MaxDesc
    /\ placed \in BOOLEAN

\* Whatever mix of calls placed the descriptors, the counter _nextFd stays
\* above all of them (fd-table.ts line 214) and above every number in
\* _freeFds: the fallback of _allocateFd never hits an open descriptor.
CounterIsAbove == \A fd \in Fds : IsOpen(fd) \/ free[fd] > 0 => fd < nextFd

\* A description that a descriptor still names is never counted as unused:
\* refCount is at least the number of descriptors that name it, also after
\* an entry was overwritten or moved.
NeverUndercounted == \A d \in 1 .. descs : refCount[d] >= Cardinality(Naming(d))

\* open() and dup() return the lowest number that is not open
\* (lines 69 to 71, POSIX): holds as long as no call places a descriptor.
LowestAvailable ==
    [][~placed' => \A fd \in Fds : fds'[fd] # fds[fd] /\ fds'[fd] # NoDesc =>
          ~IsOpen(fd) /\ \A n \in 0 .. fd - 1 : IsOpen(n)]_vars
=============================================================================
