---------------------------- MODULE TablesProofs ----------------------------
(***************************************************************************)
(* The two tables whose operations are atomic, as in MCTables.  What holds  *)
(* of the descriptor table for every number of descriptors and             *)
(* descriptions and every sequence of calls, and of the rate limiter for    *)
(* every limit, window, cap and sequence of requests.                       *)
(***************************************************************************)
EXTENDS FdTable, RateLimiter, FiniteSetTheorems, TLAPS

\* No entry names a description that was not created.
NamesCreated == \A fd \in Fds : fds[fd] <= descs

FdInv == TypeOK /\ CounterIsAbove /\ NamesCreated

\* _allocateFd() returns a number below the new counter, and lists nothing
\* at or above it.
LEMMA AllocateBelow ==
    ASSUME TypeOK, CounterIsAbove, NEW fd \in Fds, AllocateFd(fd)
    PROVE  /\ fd < nextFd' /\ nextFd <= nextFd' /\ nextFd' \in 3 .. MaxFd + 1
           /\ free' \in [Fds -> Nat]
           /\ \A n \in Fds : free'[n] > 0 => free[n] > 0
<1> USE FdConstants DEF TypeOK, Fds
<1>1. CASE FreeFds # {}
  <2>1. free[fd] > 0 /\ nextFd' = nextFd /\ free' = [free EXCEPT ![fd] = @ - 1]
    BY <1>1 DEF AllocateFd, Lowest, FreeFds
  <2> QED BY <2>1 DEF CounterIsAbove
<1>2. CASE FreeFds = {}
  BY <1>2 DEF AllocateFd
<1> QED BY <1>1, <1>2

\* The table a process starts with satisfies the invariant.
LEMMA InitFdInv == Init => FdInv
<1> SUFFICES ASSUME Init PROVE FdInv
  OBVIOUS
<1>1. /\ fds = [fd \in Fds |-> IF fd < 3 THEN fd + 1 ELSE NoDesc]
      /\ nextFd = 3 /\ free = [fd \in Fds |-> 0] /\ descs = 3
      /\ refCount = [d \in Descs |-> IF d <= 3 THEN 1 ELSE 0]
  BY DEF Init
<1>2. placed \in BOOLEAN
  BY DEF Init
<1>3. /\ fds \in [Fds -> Descs \cup {NoDesc}] /\ nextFd \in 3 .. MaxFd + 1
      /\ free \in [Fds -> Nat] /\ descs \in 3 .. MaxDesc
      /\ refCount \in [Descs -> Int]
  BY <1>1, FdConstants DEF Fds, Descs, NoDesc
<1>4. CounterIsAbove /\ NamesCreated
  BY <1>1, FdConstants DEF CounterIsAbove, NamesCreated, IsOpen, Fds, NoDesc
<1> QED BY <1>2, <1>3, <1>4 DEF FdInv, TypeOK

\* Putting description d at number n, below the new counter, keeps the
\* invariant.
LEMMA PlaceInv ==
    ASSUME FdInv, NEW n \in Fds, NEW d \in 1 .. descs',
           fds' = [fds EXCEPT ![n] = d],
           n < nextFd', nextFd <= nextFd', nextFd' \in 3 .. MaxFd + 1,
           free' \in [Fds -> Nat], \A m \in Fds : free'[m] > 0 => free[m] > 0,
           refCount' \in [Descs -> Int],
           descs <= descs', descs' \in 3 .. MaxDesc, placed' \in BOOLEAN
    PROVE  FdInv'
<1> USE FdConstants DEF FdInv
<1>1. d \in Descs
  BY DEF Descs
<1>2. TypeOK'
  BY <1>1 DEF TypeOK
<1>3. CounterIsAbove'
  <2> SUFFICES ASSUME NEW m \in Fds, fds'[m] # NoDesc \/ free'[m] > 0
               PROVE  m < nextFd'
    BY DEF CounterIsAbove, IsOpen
  <2>1. CASE m = n
    BY <2>1
  <2>2. CASE m # n
    <3>1. m < nextFd
      BY <2>2 DEF CounterIsAbove, IsOpen, TypeOK
    <3> QED BY <3>1 DEF TypeOK, Fds
  <2> QED BY <2>1, <2>2
<1>4. NamesCreated'
  <2> SUFFICES ASSUME NEW m \in Fds PROVE fds'[m] <= descs'
    BY DEF NamesCreated
  <2>1. fds[m] <= descs /\ fds[m] \in Int /\ descs \in Int
    <3>1. fds[m] <= descs
      BY DEF NamesCreated
    <3>2. fds[m] \in Int /\ descs \in Int
      BY DEF TypeOK, Descs, NoDesc
    <3> QED BY <3>1, <3>2
  <2> QED BY <2>1 DEF TypeOK
<1> QED BY <1>2, <1>3, <1>4

\* The description an open number names was created.
LEMMA NamedIsCreated ==
    ASSUME FdInv, NEW fd \in Fds, IsOpen(fd)
    PROVE  fds[fd] \in 1 .. descs /\ fds[fd] \in Descs
  BY FdConstants DEF FdInv, TypeOK, NamesCreated, IsOpen, Descs, NoDesc

\* Every call keeps the counter above the open and the listed numbers.
LEMMA NextFdInv == FdInv /\ [Next]_vars => FdInv'
<1> SUFFICES ASSUME FdInv, [Next]_vars PROVE FdInv'
  OBVIOUS
<1> USE FdConstants
<1>0. TypeOK /\ CounterIsAbove /\ descs \in 3 .. MaxDesc /\ nextFd \in 3 .. MaxFd + 1
  BY DEF FdInv, TypeOK
<1>1. CASE Open
  <2>1. PICK fd \in Fds : AllocateFd(fd) /\ fds' = [fds EXCEPT ![fd] = descs + 1]
    BY <1>1 DEF Open
  <2>2. /\ fd < nextFd' /\ nextFd <= nextFd' /\ nextFd' \in 3 .. MaxFd + 1
        /\ free' \in [Fds -> Nat]
        /\ \A n \in Fds : free'[n] > 0 => free[n] > 0
    BY <1>0, <2>1, AllocateBelow
  <2>3. descs' = descs + 1 /\ descs' \in 3 .. MaxDesc /\ refCount' \in [Descs -> Int]
    <3>1. descs' = descs + 1 /\ descs' \in 3 .. MaxDesc
      BY <1>0, <1>1 DEF Open
    <3>2. refCount \in [Descs -> Int] /\ refCount' = [refCount EXCEPT ![descs + 1] = 1]
      BY <1>0, <1>1 DEF Open, TypeOK
    <3>3. refCount' \in [Descs -> Int]
      <4> DEFINE k == descs + 1
      <4>1. refCount' = [refCount EXCEPT ![k] = 1]
        BY <3>2
      <4> HIDE DEF k
      <4>2. refCount' = [d \in Descs |-> IF d = k THEN 1 ELSE refCount[d]]
        BY <3>2, <4>1
      <4>3. \A d \in Descs : (IF d = k THEN 1 ELSE refCount[d]) \in Int
        BY <3>2
      <4> QED BY <4>2, <4>3
    <3> QED BY <3>1, <3>3
  <2>4. descs + 1 \in 1 .. descs' /\ descs <= descs'
    BY <1>0, <2>3
  <2>5. placed' \in BOOLEAN
    BY <1>0, <1>1 DEF Open, TypeOK
  <2> QED BY <2>1, <2>2, <2>3, <2>4, <2>5, PlaceInv
<1>2. ASSUME NEW fd \in Fds, Close(fd) PROVE FdInv'
  <2>1. TypeOK'
    <3>1. fds[fd] \in Descs
      BY <1>0, <1>2, NamedIsCreated DEF Close
    <3>2. fds' \in [Fds -> Descs \cup {NoDesc}]
      BY <1>0, <1>2 DEF Close, TypeOK
    <3>3. refCount' \in [Descs -> Int]
      BY <1>0, <1>2, <3>1 DEF Close, TypeOK
    <3>4. free' \in [Fds -> Nat]
      BY <1>0, <1>2 DEF Close, TypeOK
    <3>5. nextFd' = nextFd /\ descs' = descs /\ placed' = placed
      BY <1>2 DEF Close
    <3> QED BY <1>0, <3>2, <3>3, <3>4, <3>5 DEF TypeOK
  <2>2. CounterIsAbove'
    BY <1>0, <1>2 DEF Close, CounterIsAbove, IsOpen, TypeOK
  <2>3. NamesCreated'
    BY <1>0, <1>2 DEF FdInv, Close, NamesCreated, TypeOK, NoDesc
  <2> QED BY <2>1, <2>2, <2>3 DEF FdInv
<1>3. ASSUME NEW fd \in Fds, Dup(fd) PROVE FdInv'
  <2>1. PICK new \in Fds : AllocateFd(new) /\ fds' = [fds EXCEPT ![new] = fds[fd]]
    BY <1>3 DEF Dup
  <2>2. /\ new < nextFd' /\ nextFd <= nextFd' /\ nextFd' \in 3 .. MaxFd + 1
        /\ free' \in [Fds -> Nat]
        /\ \A n \in Fds : free'[n] > 0 => free[n] > 0
    BY <1>0, <2>1, AllocateBelow
  <2>3. fds[fd] \in 1 .. descs' /\ descs' = descs /\ refCount' \in [Descs -> Int]
    BY <1>0, <1>3, NamedIsCreated DEF Dup, TypeOK
  <2>4. descs <= descs' /\ descs' \in 3 .. MaxDesc
    BY <1>0, <2>3
  <2>5. placed' \in BOOLEAN
    BY <1>0, <1>3 DEF Dup, TypeOK
  <2> QED BY <2>1, <2>2, <2>3, <2>4, <2>5, PlaceInv
<1>4. ASSUME NEW fd \in Fds, NEW minFd \in Fds, DupMinFd(fd, minFd) PROVE FdInv'
  <2>0. {n \in minFd .. MaxFd : ~IsOpen(n)} \subseteq Fds
    BY DEF Fds
  <2>1. PICK new \in Fds : RaiseNextFd(new) /\ fds' = [fds EXCEPT ![new] = fds[fd]]
    BY <1>4, <2>0 DEF DupMinFd, Lowest
  <2>2. new < nextFd' /\ nextFd <= nextFd' /\ nextFd' \in 3 .. MaxFd + 1
    BY <1>0, <2>1 DEF RaiseNextFd, Fds
  <2>3. fds[fd] \in 1 .. descs' /\ descs' = descs /\ free' = free
        /\ refCount' \in [Descs -> Int] /\ free' \in [Fds -> Nat]
    BY <1>0, <1>4, NamedIsCreated DEF DupMinFd, TypeOK
  <2>4. descs <= descs' /\ descs' \in 3 .. MaxDesc
    BY <1>0, <2>3
  <2>5. placed' \in BOOLEAN
    BY <1>0, <1>4 DEF DupMinFd, TypeOK
  <2> QED BY <2>1, <2>2, <2>3, <2>4, <2>5, PlaceInv
<1>5. ASSUME NEW oldFd \in Fds, NEW newFd \in Fds, Dup2(oldFd, newFd) PROVE FdInv'
  <2>1. newFd < nextFd' /\ nextFd <= nextFd' /\ nextFd' \in 3 .. MaxFd + 1
    BY <1>0, <1>5 DEF Dup2, RaiseNextFd, Fds
  <2>2. fds[oldFd] \in 1 .. descs' /\ descs' = descs /\ free' = free
        /\ free' \in [Fds -> Nat] /\ fds' = [fds EXCEPT ![newFd] = fds[oldFd]]
    BY <1>0, <1>5, NamedIsCreated DEF Dup2, TypeOK
  <2>3. refCount' \in [Descs -> Int]
    BY <1>0, <1>5 DEF Dup2, TypeOK
  <2>4. descs <= descs' /\ descs' \in 3 .. MaxDesc
    BY <1>0, <2>2
  <2>5. placed' \in BOOLEAN
    BY <1>0, <1>5 DEF Dup2, TypeOK
  <2> QED BY <2>1, <2>2, <2>3, <2>4, <2>5, PlaceInv
<1>6. ASSUME NEW oldFd \in Fds, NEW newFd \in Fds, Renumber(oldFd, newFd) PROVE FdInv'
  <2>1. newFd < nextFd' /\ nextFd <= nextFd' /\ nextFd' \in 3 .. MaxFd + 1
    BY <1>0, <1>6 DEF Renumber, RaiseNextFd, Fds
  <2>2. fds[oldFd] \in 1 .. descs /\ fds[oldFd] \in Descs
    BY <1>6, NamedIsCreated DEF Renumber
  <2>3. \A m \in Fds : fds'[m] = IF m = oldFd THEN NoDesc
                                 ELSE IF m = newFd THEN fds[oldFd] ELSE fds[m]
    BY <1>0, <1>6 DEF Renumber, TypeOK
  <2>4. descs' = descs /\ free' = free /\ refCount' = refCount
    BY <1>6 DEF Renumber
  <2>5. TypeOK'
    BY <1>0, <1>6, <2>1, <2>2, <2>4 DEF Renumber, TypeOK
  <2>6. CounterIsAbove'
    <3> SUFFICES ASSUME NEW m \in Fds, IsOpen(m)' \/ free'[m] > 0 PROVE m < nextFd'
      BY DEF CounterIsAbove
    <3>1. m \in Int /\ newFd \in Int /\ nextFd \in Int /\ nextFd' \in Int
      BY <1>0, <2>1 DEF TypeOK, Fds
    <3>2. CASE m = newFd
      BY <2>1, <3>2
    <3>3. CASE m # newFd
      <4>1. IsOpen(m) \/ free[m] > 0
        BY <2>3, <2>4, <3>3 DEF IsOpen
      <4>2. m < nextFd
        BY <1>0, <4>1 DEF CounterIsAbove
      <4> QED BY <2>1, <3>1, <4>2
    <3> QED BY <3>2, <3>3
  <2>7. NamesCreated'
    BY <1>0, <2>2, <2>3, <2>4 DEF FdInv, NamesCreated, NoDesc
  <2> QED BY <2>5, <2>6, <2>7 DEF FdInv
<1>7. CASE UNCHANGED vars
  BY <1>7 DEF vars, FdInv, TypeOK, CounterIsAbove, NamesCreated, IsOpen
<1> QED BY <1>1, <1>2, <1>3, <1>4, <1>5, <1>6, <1>7 DEF Next

\* The invariant of every behaviour.
THEOREM FdInvariance == Spec => []FdInv
  BY InitFdInv, NextFdInv, PTL DEF Spec

\* The table, its counter and its free list keep their types.
THEOREM FdTypeCorrect == Spec => []TypeOK
<1>1. FdInv => TypeOK
  BY DEF FdInv
<1> QED BY FdInvariance, <1>1, PTL

\* _nextFd stays above every open and every listed number, whatever mix of
\* open, close, dup, dupMinFd, dup2 and renumber the process makes.
THEOREM CounterAbove == Spec => []CounterIsAbove
<1>1. FdInv => CounterIsAbove
  BY DEF FdInv
<1> QED BY FdInvariance, <1>1, PTL

-----------------------------------------------------------------------------
\* The reference counts: the sets of numbers that name one description are
\* finite, and change by at most the number placed or removed.
LEMMA NamingFinite ==
    ASSUME NEW d
    PROVE  IsFiniteSet(Naming(d)) /\ Cardinality(Naming(d)) \in Nat
<1>1. IsFiniteSet(Fds)
  BY FdConstants, FS_Interval DEF Fds
<1>2. Naming(d) \subseteq Fds
  BY DEF Naming
<1> QED BY <1>1, <1>2, FS_Subset, FS_CardinalityType

\* One more number makes a set at most one larger.
LEMMA CardinalityAdd ==
    ASSUME NEW S, IsFiniteSet(S), NEW n
    PROVE  /\ Cardinality(S \cup {n}) \in Nat
           /\ Cardinality(S \cup {n}) <= Cardinality(S) + 1
<1>1. Cardinality(S) \in Nat
  BY FS_CardinalityType
<1>2. CASE n \in S
  <2>1. S \cup {n} = S
    BY <1>2
  <2> QED BY <1>1, <2>1
<1>3. CASE n \notin S
  BY <1>1, <1>3, FS_AddElement
<1> QED BY <1>2, <1>3

\* One number less makes a set one smaller.
LEMMA CardinalityRemove ==
    ASSUME NEW S, IsFiniteSet(S), NEW n
    PROVE  /\ IsFiniteSet(S \ {n}) /\ Cardinality(S \ {n}) \in Nat
           /\ Cardinality(S \ {n}) <= Cardinality(S)
           /\ n \in S => Cardinality(S \ {n}) = Cardinality(S) - 1
<1>1. Cardinality(S) \in Nat
  BY FS_CardinalityType
<1>2. CASE n \in S
  <2>1. IsFiniteSet(S \ {n}) /\ Cardinality(S \ {n}) = Cardinality(S) - 1
    BY <1>2, FS_RemoveElement
  <2>2. Cardinality(S \ {n}) \in Nat
    BY <2>1, FS_CardinalityType
  <2> QED BY <1>1, <2>1, <2>2
<1>3. CASE n \notin S
  <2>1. S \ {n} = S
    BY <1>3
  <2> QED BY <1>1, <1>3, <2>1
<1> QED BY <1>2, <1>3

\* Placing e at n adds n to e's numbers and takes it from every other's.
LEMMA NamingAfter ==
    ASSUME TypeOK, NEW n \in Fds, NEW e, fds' = [fds EXCEPT ![n] = e], NEW d
    PROVE  Naming(d)' = IF d = e THEN Naming(d) \cup {n} ELSE Naming(d) \ {n}
  BY DEF Naming, TypeOK

CountInv == FdInv /\ NeverUndercounted

\* A call that places a counted reference (dup, dupMinFd) keeps the counts.
LEMMA CountedPlace ==
    ASSUME CountInv, NEW n \in Fds, NEW e \in 1 .. descs, fds' = [fds EXCEPT ![n] = e],
           refCount' = [refCount EXCEPT ![e] = @ + 1], descs' = descs
    PROVE  NeverUndercounted'
<1> SUFFICES ASSUME NEW d \in 1 .. descs
             PROVE  refCount'[d] >= Cardinality(Naming(d)')
  BY DEF NeverUndercounted
<1>1. d \in Descs /\ e \in Descs /\ refCount[d] \in Int /\ DOMAIN refCount = Descs
  BY FdConstants DEF CountInv, FdInv, TypeOK, Descs
<1>2. /\ refCount[d] >= Cardinality(Naming(d)) /\ Cardinality(Naming(d)) \in Nat
      /\ IsFiniteSet(Naming(d))
  BY NamingFinite DEF CountInv, NeverUndercounted
<1>3. CASE d = e
  <2>1. Naming(d)' = Naming(d) \cup {n}
    BY <1>3, NamingAfter DEF CountInv, FdInv
  <2>2. refCount'[d] = refCount[d] + 1
    BY <1>1, <1>3
  <2>3. Cardinality(Naming(d)') \in Nat /\ Cardinality(Naming(d)') <= Cardinality(Naming(d)) + 1
    BY <1>2, <2>1, CardinalityAdd
  <2> QED BY <1>1, <1>2, <2>2, <2>3
<1>4. CASE d # e
  <2>1. Naming(d)' = Naming(d) \ {n}
    BY <1>4, NamingAfter DEF CountInv, FdInv
  <2>2. refCount'[d] = refCount[d]
    BY <1>1, <1>4
  <2>3. Cardinality(Naming(d)') \in Nat /\ Cardinality(Naming(d)') <= Cardinality(Naming(d))
    BY <1>2, <2>1, CardinalityRemove
  <2> QED BY <1>1, <1>2, <2>2, <2>3
<1> QED BY <1>3, <1>4

\* Every call keeps each count at or above the numbers that name it.
LEMMA NextCountInv == CountInv /\ [Next]_vars => NeverUndercounted'
<1> SUFFICES ASSUME CountInv, [Next]_vars PROVE NeverUndercounted'
  OBVIOUS
<1>0. TypeOK /\ FdInv /\ descs \in 3 .. MaxDesc
  BY DEF CountInv, FdInv, TypeOK
<1>a. \A d \in 1 .. descs : /\ refCount[d] \in Int /\ d \in Descs
                            /\ refCount[d] >= Cardinality(Naming(d))
                            /\ Cardinality(Naming(d)) \in Nat /\ IsFiniteSet(Naming(d))
  BY <1>0, NamingFinite, FdConstants DEF CountInv, NeverUndercounted, TypeOK, Descs
<1>1. CASE Open
  <2>1. PICK fd \in Fds : fds' = [fds EXCEPT ![fd] = descs + 1]
    BY <1>1 DEF Open
  <2>2. descs' = descs + 1 /\ descs + 1 \in Descs
        /\ refCount' = [refCount EXCEPT ![descs + 1] = 1]
    BY <1>0, <1>1, FdConstants DEF Open, Descs
  <2> SUFFICES ASSUME NEW d \in 1 .. descs + 1
               PROVE  refCount'[d] >= Cardinality(Naming(d)')
    BY <2>2 DEF NeverUndercounted
  <2>3. CASE d = descs + 1
    <3>1. Naming(d) = {}
      BY <1>0, <2>3 DEF Naming, FdInv, NamesCreated
    <3>2. Naming(d)' = {fd}
      BY <1>0, <2>1, <2>3, <3>1, NamingAfter
    <3>3. refCount'[d] = 1
      BY <1>0, <2>2, <2>3 DEF TypeOK
    <3>4. Cardinality({fd}) = 1
      BY FS_Singleton
    <3> QED BY <3>2, <3>3, <3>4
  <2>4. CASE d # descs + 1
    <3>0. d \in 1 .. descs
      BY <1>0, <2>4
    <3>1. Naming(d)' = Naming(d) \ {fd}
      BY <1>0, <2>1, <2>4, NamingAfter
    <3>2. refCount'[d] = refCount[d]
      BY <1>0, <1>a, <3>0, <2>2, <2>4 DEF TypeOK
    <3>3. Cardinality(Naming(d)') \in Nat /\ Cardinality(Naming(d)') <= Cardinality(Naming(d))
      BY <1>a, <3>0, <3>1, CardinalityRemove
    <3> QED BY <1>a, <3>0, <3>2, <3>3
  <2> QED BY <2>3, <2>4
<1>2. ASSUME NEW fd \in Fds, Close(fd) PROVE NeverUndercounted'
  <2>1. fds' = [fds EXCEPT ![fd] = NoDesc] /\ descs' = descs
        /\ refCount' = [refCount EXCEPT ![fds[fd]] = @ - 1]
    BY <1>2 DEF Close
  <2> SUFFICES ASSUME NEW d \in 1 .. descs
               PROVE  refCount'[d] >= Cardinality(Naming(d)')
    BY <2>1 DEF NeverUndercounted
  <2>2. d # NoDesc
    BY <1>0 DEF NoDesc
  <2>3. Naming(d)' = Naming(d) \ {fd}
    BY <1>0, <2>1, <2>2, NamingAfter
  <2>4. /\ Cardinality(Naming(d)') \in Nat
        /\ Cardinality(Naming(d)') <= Cardinality(Naming(d))
        /\ fd \in Naming(d) => Cardinality(Naming(d)') = Cardinality(Naming(d)) - 1
    BY <1>a, <2>3, CardinalityRemove
  <2>5. CASE d = fds[fd]
    <3>1. refCount'[d] = refCount[d] - 1
      BY <1>0, <1>a, <2>1, <2>5 DEF TypeOK
    <3>2. fd \in Naming(d)
      BY <2>5 DEF Naming
    <3> QED BY <1>a, <2>4, <3>1, <3>2
  <2>6. CASE d # fds[fd]
    <3>1. refCount'[d] = refCount[d]
      BY <1>0, <1>a, <2>1, <2>6 DEF TypeOK
    <3> QED BY <1>a, <2>4, <3>1
  <2> QED BY <2>5, <2>6
<1>3. ASSUME NEW fd \in Fds, Dup(fd) PROVE NeverUndercounted'
  <2>1. PICK new \in Fds : fds' = [fds EXCEPT ![new] = fds[fd]]
    BY <1>3 DEF Dup
  <2>2. fds[fd] \in 1 .. descs
    BY <1>0, <1>3, NamedIsCreated DEF Dup
  <2>3. refCount' = [refCount EXCEPT ![fds[fd]] = @ + 1] /\ descs' = descs
    BY <1>3 DEF Dup
  <2> QED BY <2>1, <2>2, <2>3, CountedPlace
<1>4. ASSUME NEW fd \in Fds, NEW minFd \in Fds, DupMinFd(fd, minFd) PROVE NeverUndercounted'
  <2>0. {n \in minFd .. MaxFd : ~IsOpen(n)} \subseteq Fds
    BY FdConstants DEF Fds
  <2>1. PICK new \in Fds : fds' = [fds EXCEPT ![new] = fds[fd]]
    BY <1>4, <2>0 DEF DupMinFd, Lowest
  <2>2. fds[fd] \in 1 .. descs
    BY <1>0, <1>4, NamedIsCreated DEF DupMinFd
  <2>3. refCount' = [refCount EXCEPT ![fds[fd]] = @ + 1] /\ descs' = descs
    BY <1>4 DEF DupMinFd
  <2> QED BY <2>1, <2>2, <2>3, CountedPlace
<1>5. ASSUME NEW oldFd \in Fds, NEW newFd \in Fds, Dup2(oldFd, newFd) PROVE NeverUndercounted'
  <2>1. fds' = [fds EXCEPT ![newFd] = fds[oldFd]] /\ descs' = descs
    BY <1>5 DEF Dup2
  <2> SUFFICES ASSUME NEW d \in 1 .. descs
               PROVE  refCount'[d] >= Cardinality(Naming(d)')
    BY <2>1 DEF NeverUndercounted
  <2>2. refCount'[d] = refCount[d] - (IF d = fds[newFd] THEN 1 ELSE 0)
                                   + (IF d = fds[oldFd] THEN 1 ELSE 0)
    BY <1>a, <1>5 DEF Dup2
  <2>3. newFd \in Naming(d) <=> d = fds[newFd]
    BY DEF Naming
  <2>4. CASE d = fds[oldFd]
    <3>1. Naming(d)' = Naming(d) \cup {newFd}
      BY <1>0, <2>1, <2>4, NamingAfter
    <3>2. CASE d = fds[newFd]
      <4>1. Naming(d)' = Naming(d)
        BY <2>3, <3>1, <3>2
      <4>2. refCount'[d] = refCount[d]
        BY <1>a, <2>2, <2>4, <3>2
      <4> QED BY <1>a, <4>1, <4>2
    <3>3. CASE d # fds[newFd]
      <4>1. refCount'[d] = refCount[d] + 1
        BY <1>a, <2>2, <2>4, <3>3
      <4>2. Cardinality(Naming(d)') \in Nat
            /\ Cardinality(Naming(d)') <= Cardinality(Naming(d)) + 1
        BY <1>a, <3>1, CardinalityAdd
      <4> QED BY <1>a, <4>1, <4>2
    <3> QED BY <3>2, <3>3
  <2>5. CASE d # fds[oldFd]
    <3>1. Naming(d)' = Naming(d) \ {newFd}
      BY <1>0, <2>1, <2>5, NamingAfter
    <3>2. /\ Cardinality(Naming(d)') \in Nat
          /\ Cardinality(Naming(d)') <= Cardinality(Naming(d))
          /\ newFd \in Naming(d) => Cardinality(Naming(d)') = Cardinality(Naming(d)) - 1
      BY <1>a, <3>1, CardinalityRemove
    <3>3. CASE d = fds[newFd]
      <4>1. refCount'[d] = refCount[d] - 1
        BY <1>a, <2>2, <2>5, <3>3
      <4> QED BY <1>a, <2>3, <3>2, <3>3, <4>1
    <3>4. CASE d # fds[newFd]
      <4>1. refCount'[d] = refCount[d]
        BY <1>a, <2>2, <2>5, <3>4
      <4> QED BY <1>a, <3>2, <4>1
    <3> QED BY <3>3, <3>4
  <2> QED BY <2>4, <2>5
<1>6. ASSUME NEW oldFd \in Fds, NEW newFd \in Fds, Renumber(oldFd, newFd) PROVE NeverUndercounted'
  <2>1. oldFd # newFd /\ descs' = descs /\ refCount' = refCount
    BY <1>6 DEF Renumber
  <2> SUFFICES ASSUME NEW d \in 1 .. descs
               PROVE  refCount[d] >= Cardinality(Naming(d)')
    BY <2>1 DEF NeverUndercounted
  <2>2. \A m \in Fds : fds'[m] = IF m = oldFd THEN NoDesc
                                 ELSE IF m = newFd THEN fds[oldFd] ELSE fds[m]
    BY <1>0, <1>6 DEF Renumber, TypeOK
  <2>3. d # NoDesc
    BY <1>0 DEF NoDesc
  <2>4. CASE d = fds[oldFd]
    <3>1. Naming(d)' = (Naming(d) \ {oldFd}) \cup {newFd}
      BY <2>1, <2>2, <2>3, <2>4 DEF Naming
    <3>2. oldFd \in Naming(d)
      BY <2>4 DEF Naming
    <3> DEFINE S == Naming(d) \ {oldFd}
    <3>3. IsFiniteSet(S) /\ Cardinality(S) = Cardinality(Naming(d)) - 1
      BY <1>a, <3>2, CardinalityRemove
    <3> HIDE DEF S
    <3>4. Cardinality(S \cup {newFd}) \in Nat
          /\ Cardinality(S \cup {newFd}) <= Cardinality(S) + 1
      BY <3>3, CardinalityAdd
    <3>5. Naming(d)' = S \cup {newFd}
      BY <3>1 DEF S
    <3> QED BY <1>a, <3>3, <3>4, <3>5
  <2>5. CASE d # fds[oldFd]
    <3>1. Naming(d)' = Naming(d) \ {newFd}
      BY <2>1, <2>2, <2>3, <2>5 DEF Naming
    <3>2. Cardinality(Naming(d)') \in Nat
          /\ Cardinality(Naming(d)') <= Cardinality(Naming(d))
      BY <1>a, <3>1, CardinalityRemove
    <3> QED BY <1>a, <3>2
  <2> QED BY <2>4, <2>5
<1>7. CASE UNCHANGED vars
  BY <1>7 DEF vars, CountInv, NeverUndercounted, Naming
<1> QED BY <1>1, <1>2, <1>3, <1>4, <1>5, <1>6, <1>7 DEF Next

\* At start each of the three stdio descriptions is named once.
LEMMA InitCounts == Init => NeverUndercounted
<1> SUFFICES ASSUME Init, NEW d \in 1 .. 3 PROVE refCount[d] >= Cardinality(Naming(d))
  BY DEF NeverUndercounted, Init
<1>1. refCount[d] = 1
  BY FdConstants DEF Init, Descs
<1>2. Naming(d) = {d - 1}
  BY FdConstants DEF Init, Naming, Fds, NoDesc
<1>3. Cardinality({d - 1}) = 1
  BY FS_Singleton
<1> QED BY <1>1, <1>2, <1>3

\* No sequence of calls leaves a description that a descriptor still names
\* with too low a reference count.
THEOREM CountsAreSafe == Spec => []NeverUndercounted
<1>1. Init => CountInv
  BY InitFdInv, InitCounts DEF CountInv
<1>2. CountInv /\ [Next]_vars => CountInv'
  BY NextFdInv, NextCountInv DEF CountInv
<1>3. CountInv => NeverUndercounted
  BY DEF CountInv
<1> QED BY <1>1, <1>2, <1>3, PTL DEF Spec

\* Before the first placing call, _freeFds lists exactly the closed numbers below
\* _nextFd, each once.
FreeIsClosed ==
    \A fd \in Fds : free[fd] = IF fd < nextFd /\ ~IsOpen(fd) THEN 1 ELSE 0

PosixInv == FdInv /\ (~placed => FreeIsClosed)

\* _allocateFd() then returns the lowest closed number and leaves the list
\* exact once that number is open.
LEMMA AllocateLowest ==
    ASSUME FdInv, FreeIsClosed, NEW fd \in Fds, AllocateFd(fd)
    PROVE  /\ ~IsOpen(fd)
           /\ \A n \in 0 .. fd - 1 : IsOpen(n)
           /\ \A n \in Fds : free'[n] = IF n < nextFd' /\ ~IsOpen(n) /\ n # fd THEN 1 ELSE 0
<1>0. /\ nextFd \in Int /\ free \in [Fds -> Nat] /\ CounterIsAbove
      /\ \A n \in Fds : free[n] = IF n < nextFd /\ ~IsOpen(n) THEN 1 ELSE 0
  BY DEF FdInv, TypeOK, FreeIsClosed
<1>1. CASE FreeFds # {}
  <2>1. /\ free[fd] > 0 /\ nextFd' = nextFd /\ free' = [free EXCEPT ![fd] = @ - 1]
        /\ \A n \in Fds : free[n] > 0 => fd <= n
    BY <1>1 DEF AllocateFd, Lowest, FreeFds
  <2>2. ~IsOpen(fd) /\ fd < nextFd
    BY <1>0, <2>1
  <2>3. \A n \in 0 .. fd - 1 : IsOpen(n)
    BY <1>0, <2>1, <2>2, FdConstants DEF Fds
  <2>4. free'[fd] = 0
    BY <1>0, <2>1, <2>2
  <2>5. \A n \in Fds : n # fd => free'[n] = free[n]
    BY <1>0, <2>1
  <2>6. \A n \in Fds : free'[n] = IF n < nextFd' /\ ~IsOpen(n) /\ n # fd THEN 1 ELSE 0
    BY <1>0, <2>1, <2>4, <2>5
  <2> QED BY <2>2, <2>3, <2>6
<1>2. CASE FreeFds = {}
  <2>1. fd = nextFd /\ nextFd' = nextFd + 1 /\ free' = free
    BY <1>2 DEF AllocateFd
  <2>2. \A n \in Fds : free[n] = 0
    BY <1>0, <1>2 DEF FreeFds
  <2>3. ~IsOpen(fd)
    BY <1>0, <2>1 DEF CounterIsAbove
  <2>4. \A n \in 0 .. fd - 1 : IsOpen(n)
    BY <1>0, <2>1, <2>2, FdConstants DEF Fds
  <2>5. \A n \in Fds : n < nextFd' /\ ~IsOpen(n) => n = fd
    BY <1>0, <2>1, <2>2 DEF Fds
  <2> QED BY <2>1, <2>2, <2>3, <2>4, <2>5
<1> QED BY <1>1, <1>2

\* What one call does to the table when neither it nor an earlier one
\* places a descriptor.
LEMMA PosixStep ==
    ASSUME PosixInv, [Next]_vars, ~placed'
    PROVE  /\ FreeIsClosed'
           /\ \A fd \in Fds : fds'[fd] # fds[fd] /\ fds'[fd] # NoDesc =>
                 ~IsOpen(fd) /\ \A n \in 0 .. fd - 1 : IsOpen(n)
<1>0. TypeOK /\ descs \in 3 .. MaxDesc /\ fds \in [Fds -> Descs \cup {NoDesc}] /\ FdInv
  BY DEF PosixInv, FdInv, TypeOK
<1>a. ~(\E fd, n \in Fds : DupMinFd(fd, n) \/ Dup2(fd, n) \/ Renumber(fd, n))
  BY DEF DupMinFd, Dup2, Renumber
<1>b. placed' = placed
  BY <1>a DEF Next, Open, Close, Dup, vars
<1>c. FreeIsClosed
  BY <1>b DEF PosixInv
<1> DEFINE Opens(new, e) ==
             /\ AllocateFd(new) /\ fds' = [fds EXCEPT ![new] = e] /\ e # NoDesc
<1>1. ASSUME NEW new \in Fds, NEW e, Opens(new, e)
      PROVE  /\ FreeIsClosed'
             /\ \A fd \in Fds : fds'[fd] # fds[fd] /\ fds'[fd] # NoDesc =>
                   ~IsOpen(fd) /\ \A n \in 0 .. fd - 1 : IsOpen(n)
  <2>1. /\ ~IsOpen(new)
        /\ \A n \in 0 .. new - 1 : IsOpen(n)
        /\ \A n \in Fds : free'[n] = IF n < nextFd' /\ ~IsOpen(n) /\ n # new THEN 1 ELSE 0
    BY <1>0, <1>c, <1>1, AllocateLowest
  <2>2. \A n \in Fds : fds'[n] = IF n = new THEN e ELSE fds[n]
    BY <1>0, <1>1
  <2>3. FreeIsClosed'
    BY <1>1, <2>1, <2>2 DEF FreeIsClosed, IsOpen
  <2> QED BY <2>1, <2>2, <2>3
<1>2. CASE Open
  <2>1. PICK fd \in Fds : AllocateFd(fd) /\ fds' = [fds EXCEPT ![fd] = descs + 1]
    BY <1>2 DEF Open
  <2>2. descs + 1 # NoDesc
    BY <1>0 DEF NoDesc
  <2> QED BY <1>1, <2>1, <2>2
<1>3. ASSUME NEW fd \in Fds, Dup(fd)
      PROVE  /\ FreeIsClosed'
             /\ \A n \in Fds : fds'[n] # fds[n] /\ fds'[n] # NoDesc =>
                   ~IsOpen(n) /\ \A m \in 0 .. n - 1 : IsOpen(m)
  <2>1. PICK new \in Fds : AllocateFd(new) /\ fds' = [fds EXCEPT ![new] = fds[fd]]
    BY <1>3 DEF Dup
  <2>2. fds[fd] # NoDesc
    BY <1>3 DEF Dup, IsOpen
  <2> QED BY <1>1, <2>1, <2>2
<1>4. ASSUME NEW fd \in Fds, Close(fd)
      PROVE  /\ FreeIsClosed'
             /\ \A n \in Fds : fds'[n] # fds[n] /\ fds'[n] # NoDesc =>
                   ~IsOpen(n) /\ \A m \in 0 .. n - 1 : IsOpen(m)
  <2>1. \A n \in Fds : fds'[n] = IF n = fd THEN NoDesc ELSE fds[n]
    BY <1>0, <1>4 DEF Close
  <2>2. nextFd' = nextFd /\ fd < nextFd /\ free[fd] = 0
    BY <1>0, <1>c, <1>4 DEF Close, FdInv, CounterIsAbove, FreeIsClosed
  <2>3. \A n \in Fds : free'[n] = IF n = fd THEN 1 ELSE free[n]
    BY <1>0, <1>4, <2>2 DEF Close, TypeOK
  <2>4. FreeIsClosed'
    BY <1>c, <2>1, <2>2, <2>3 DEF FreeIsClosed, IsOpen
  <2> QED BY <2>1, <2>4
<1>5. CASE UNCHANGED vars
  BY <1>c, <1>5 DEF vars, FreeIsClosed, IsOpen
<1> QED BY <1>a, <1>2, <1>3, <1>4, <1>5 DEF Next

\* Until its first dup2, F_DUPFD or fd_renumber a process gets from open()
\* and dup() the lowest number that is not open, however many it has.
THEOREM LowestFd == Spec => LowestAvailable
<1>1. Init => PosixInv
  <2>1. Init => FreeIsClosed
    BY FdConstants DEF Init, FreeIsClosed, IsOpen, Fds, NoDesc
  <2> QED BY <2>1, InitFdInv DEF PosixInv
<1>2. PosixInv /\ [Next]_vars => PosixInv'
  BY NextFdInv, PosixStep DEF PosixInv
<1>3. PosixInv /\ [Next]_vars =>
        [~placed' => \A fd \in Fds : fds'[fd] # fds[fd] /\ fds'[fd] # NoDesc =>
              ~IsOpen(fd) /\ \A n \in 0 .. fd - 1 : IsOpen(n)]_vars
  BY PosixStep
<1> QED BY <1>1, <1>2, <1>3, PTL DEF Spec, LowestAvailable

-----------------------------------------------------------------------------
(* The rate limiter. *)

Buckets == [count : Nat, resetAt : Nat]

\* The positions in an address's history from time t on.
From(times, t) == {i \in DOMAIN times : times[i] >= t}

\* The requests that a bucket let through.
Counted(b) == IF Passes(b.count) THEN b.count ELSE RATE_LIMIT
Opened(b) == b.resetAt - RATE_WINDOW

\* Types and the size of the map.
TableInv ==
    /\ RateTypeOK /\ BucketsBounded
    /\ rateBuckets \in [DOMAIN rateBuckets -> Buckets]
    /\ IsFiniteSet(DOMAIN rateBuckets)

\* Every request that a bucket counted and let through came while it was open.
CountedPassed(ip, b) == Cardinality(From(admitted[ip], Opened(b))) >= Counted(b)

\* Without evictions a bucket counts all requests of its window, and those of
\* the window before it are within the limit.
WindowOf(ip, b) ==
    /\ Cardinality(From(admitted[ip], Opened(b))) <= Counted(b)
    /\ Cardinality(From(admitted[ip], Opened(b) - RATE_WINDOW + 1)) <= RATE_LIMIT + Counted(b)
    /\ \A i \in DOMAIN admitted[ip] : admitted[ip][i] < b.resetAt

\* An address whose bucket is gone: its last window holds no more than one
\* bucket lets through, and nothing of this moment.
Quiet(ip) ==
    /\ Cardinality(From(admitted[ip], now - RATE_WINDOW + 1)) <= RATE_LIMIT
    /\ \A i \in DOMAIN admitted[ip] : admitted[ip][i] < now

Windows ==
    \A ip \in IPs : IF ip \in DOMAIN rateBuckets THEN WindowOf(ip, rateBuckets[ip]) ELSE Quiet(ip)

RateInv ==
    /\ TableInv
    /\ \A ip \in DOMAIN rateBuckets : CountedPassed(ip, rateBuckets[ip])
    /\ ~evicted => Windows

\* Histories are finite, and a later time leaves fewer positions.
LEMMA FromFinite ==
    ASSUME NEW s \in Seq(Nat), NEW t \in Int
    PROVE  IsFiniteSet(From(s, t)) /\ Cardinality(From(s, t)) \in Nat
  <1>1. IsFiniteSet(1 .. Len(s)) /\ From(s, t) \in SUBSET (1 .. Len(s))
    BY FS_Interval DEF From
  <1>2. IsFiniteSet(From(s, t))
    BY <1>1, FS_Subset
  <1> QED
    BY <1>2, FS_CardinalityType

LEMMA FromLater ==
    ASSUME NEW s \in Seq(Nat), NEW t \in Int, NEW u \in Int, t <= u
    PROVE  Cardinality(From(s, u)) <= Cardinality(From(s, t))
  <1>1. From(s, u) \in SUBSET From(s, t)
    <2>1. \A i \in DOMAIN s : s[i] \in Nat
      OBVIOUS
    <2> QED
      BY <2>1 DEF From
  <1> QED
    BY <1>1, FromFinite, FS_Subset

LEMMA FromAppend ==
    ASSUME NEW s \in Seq(Nat), NEW n \in Nat, NEW t \in Int, n >= t
    PROVE  Cardinality(From(Append(s, n), t)) = Cardinality(From(s, t)) + 1
  <1>1. From(Append(s, n), t) = From(s, t) \cup {Len(s) + 1}
    BY DEF From
  <1>2. Len(s) + 1 \notin From(s, t)
    BY DEF From
  <1> QED
    BY <1>1, <1>2, FromFinite, FS_AddElement

LEMMA FromNone ==
    ASSUME NEW s \in Seq(Nat), NEW t \in Int, \A i \in DOMAIN s : s[i] < t
    PROVE  Cardinality(From(s, t)) = 0
  <1>1. From(s, t) = {}
    <2>1. \A i \in DOMAIN s : s[i] \in Nat
      OBVIOUS
    <2> QED
      BY <2>1 DEF From
  <1> QED
    BY <1>1, FS_EmptySet

\* Eviction only drops buckets, and leaves room for one more.
LEMMA EvictionKeeps ==
    ASSUME TableInv, NEW kept \in AfterEviction(rateBuckets)
    PROVE  /\ DOMAIN kept \subseteq DOMAIN rateBuckets
           /\ kept \in [DOMAIN kept -> Buckets]
           /\ \A k \in DOMAIN kept : kept[k] = rateBuckets[k]
           /\ IsFiniteSet(DOMAIN kept) /\ Cardinality(DOMAIN kept) <= MAX_RATE_BUCKETS
  <1> USE RateConstants DEF TableInv
  <1> DEFINE live == LiveOnly(rateBuckets)
             D == DOMAIN rateBuckets
  <1>1. Cardinality(D) \in Nat /\ Cardinality(D) <= MAX_RATE_BUCKETS + 1
    BY FS_CardinalityType DEF BucketsBounded
  <1>2. CASE ~Overfull(rateBuckets)
    <2>1. kept = rateBuckets
      BY <1>2 DEF AfterEviction
    <2>2. Cardinality(D) <= MAX_RATE_BUCKETS
      BY <1>1, <1>2 DEF Overfull
    <2> QED
      BY <2>1, <2>2
  <1>3. CASE Overfull(rateBuckets)
    <2>1. DOMAIN live \subseteq D /\ live \in [DOMAIN live -> Buckets]
          /\ \A k \in DOMAIN live : live[k] = rateBuckets[k]
      BY DEF LiveOnly, Restrict
    <2>2. IsFiniteSet(DOMAIN live) /\ Cardinality(DOMAIN live) \in Nat
          /\ Cardinality(DOMAIN live) <= Cardinality(D)
      BY <2>1, FS_Subset, FS_CardinalityType
    <2>3. CASE ~Overfull(live)
      <3>1. kept = live
        BY <1>3, <2>3 DEF AfterEviction
      <3>2. Cardinality(DOMAIN live) <= MAX_RATE_BUCKETS
        BY <2>2, <2>3 DEF Overfull
      <3> HIDE DEF live
      <3> QED
        BY <2>1, <2>2, <3>1, <3>2
    <2>4. CASE Overfull(live)
      <3>1. PICK gone \in SUBSET DOMAIN live :
                /\ Cardinality(gone) = Quarter(Cardinality(DOMAIN live))
                /\ kept = Restrict(live, DOMAIN live \ gone)
        BY <1>3, <2>4 DEF AfterEviction
      <3> HIDE DEF live
      <3>2. DOMAIN kept = DOMAIN live \ gone /\ \A k \in DOMAIN kept : kept[k] = live[k]
        BY <2>1, <3>1 DEF Restrict
      <3>2a. kept \in [DOMAIN kept -> Buckets]
        BY <2>1, <3>1 DEF Restrict
      <3>3. Cardinality(DOMAIN live) = MAX_RATE_BUCKETS + 1
        BY <1>1, <2>2, <2>4 DEF Overfull
      <3>4. Quarter(Cardinality(DOMAIN live)) >= 1
        BY <3>3 DEF Quarter
      <3>5. DOMAIN live \cap gone = gone
        OBVIOUS
      <3>6. IsFiniteSet(DOMAIN live \ gone)
            /\ Cardinality(DOMAIN live \ gone) = Cardinality(DOMAIN live) - Cardinality(gone)
        BY <2>2, <3>5, FS_Difference
      <3>7. Cardinality(DOMAIN kept) <= MAX_RATE_BUCKETS
        BY <3>1, <3>2, <3>3, <3>4, <3>6 DEF Quarter
      <3>8. IsFiniteSet(DOMAIN kept) /\ DOMAIN kept \subseteq DOMAIN live
        BY <3>2, <3>6
      <3>9. \A k \in DOMAIN kept : kept[k] = rateBuckets[k]
        BY <2>1, <3>2, <3>8
      <3>10. DOMAIN kept \subseteq DOMAIN rateBuckets
        BY <2>1, <3>8
      <3> QED
        BY <3>2a, <3>7, <3>8, <3>9, <3>10
    <2> QED
      BY <2>3, <2>4
  <1> QED
    BY <1>2, <1>3

\* What a request does, once the buckets to keep are chosen.
Counting(ip, kept) ==
    LET bucket == BucketOf(kept, ip)
        count == bucket.count + 1
    IN /\ rateBuckets' = [k \in DOMAIN kept \cup {ip} |->
                            IF k = ip THEN [bucket EXCEPT !.count = count] ELSE kept[k]]
       /\ admitted' = IF Passes(count) THEN [admitted EXCEPT ![ip] = Append(@, now)] ELSE admitted
       /\ evicted' = (evicted \/ \E k \in DOMAIN rateBuckets \ DOMAIN kept : ~Expired(rateBuckets[k]))

\* The bucket of the request is new, or the live one of its address.
LEMMA RequestBucket ==
    ASSUME TableInv, NEW ip \in IPs, NEW kept \in AfterEviction(rateBuckets)
    PROVE  /\ BucketOf(kept, ip) \in Buckets
           /\ \/ BucketOf(kept, ip) = [count |-> 0, resetAt |-> now + RATE_WINDOW]
                 /\ (ip \in DOMAIN kept => Expired(rateBuckets[ip]))
              \/ /\ ip \in DOMAIN rateBuckets /\ BucketOf(kept, ip) = rateBuckets[ip]
                 /\ ~Expired(rateBuckets[ip])
  <1>1. now \in Nat /\ RATE_WINDOW \in Nat
    BY RateConstants DEF TableInv, RateTypeOK
  <1> QED
    BY <1>1, EvictionKeeps DEF BucketOf, Buckets

LEMMA RequestTable ==
    ASSUME TableInv, NEW ip \in IPs, NEW kept \in AfterEviction(rateBuckets),
           requests < MaxRequests, requests' = requests + 1, now' = now, Counting(ip, kept)
    PROVE  TableInv'
  <1> DEFINE b == BucketOf(kept, ip)
             c == [b EXCEPT !.count = b.count + 1]
  <1>1. b \in Buckets
    BY RequestBucket
  <1>2. rateBuckets' = [k \in DOMAIN kept \cup {ip} |-> IF k = ip THEN c ELSE kept[k]]
    BY DEF Counting
  <1>3. c \in Buckets /\ c.count = b.count + 1 /\ c.resetAt = b.resetAt
    BY <1>1 DEF Buckets
  <1>4. /\ requests \in Nat /\ requests' \in 0 .. MaxRequests /\ now \in Nat /\ RATE_WINDOW \in Nat
        /\ now \in 0 .. MaxTime
    BY RateConstants DEF TableInv, RateTypeOK
  <1>5. c.count \in 1 .. requests' /\ c.resetAt \in RATE_WINDOW .. now + RATE_WINDOW
    <2>1. CASE b = [count |-> 0, resetAt |-> now + RATE_WINDOW]
      <3> HIDE DEF b
      <3> QED
        BY <1>3, <1>4, <2>1
    <2>2. CASE ip \in DOMAIN rateBuckets /\ b = rateBuckets[ip]
      <3>1. b.count \in 1 .. requests /\ b.resetAt \in RATE_WINDOW .. now + RATE_WINDOW
        BY <2>2 DEF TableInv, RateTypeOK
      <3> HIDE DEF b
      <3> QED
        BY <1>3, <1>4, <3>1
    <2> QED
      BY <2>1, <2>2, RequestBucket
  <1> HIDE DEF b, c
  <1>6. DOMAIN rateBuckets' = DOMAIN kept \cup {ip} /\ rateBuckets' \in [DOMAIN rateBuckets' -> Buckets]
    BY <1>2, <1>3, EvictionKeeps
  <1>7. \A k \in DOMAIN rateBuckets' :
          rateBuckets'[k].count \in 1 .. requests'
          /\ rateBuckets'[k].resetAt \in RATE_WINDOW .. now + RATE_WINDOW
    <2> SUFFICES ASSUME NEW k \in DOMAIN rateBuckets'
                 PROVE  rateBuckets'[k].count \in 1 .. requests'
                        /\ rateBuckets'[k].resetAt \in RATE_WINDOW .. now + RATE_WINDOW
      OBVIOUS
    <2>1. CASE k = ip
      BY <1>2, <1>5, <2>1
    <2>2. CASE k # ip
      <3>1. rateBuckets'[k] = rateBuckets[k] /\ k \in DOMAIN rateBuckets
        BY <1>2, <1>6, <2>2, EvictionKeeps
      <3>2. rateBuckets[k].count \in 1 .. requests
            /\ rateBuckets[k].resetAt \in RATE_WINDOW .. now + RATE_WINDOW
        BY <3>1 DEF TableInv, RateTypeOK
      <3> QED
        BY <1>4, <3>1, <3>2
    <2> QED
      BY <2>1, <2>2
  <1>8. IsFiniteSet(DOMAIN rateBuckets') /\ BucketsBounded'
    <2>1. IsFiniteSet(DOMAIN kept) /\ Cardinality(DOMAIN kept) \in Nat
          /\ Cardinality(DOMAIN kept) <= MAX_RATE_BUCKETS
      BY EvictionKeeps, FS_CardinalityType
    <2>2. IsFiniteSet(DOMAIN kept \cup {ip})
          /\ Cardinality(DOMAIN kept \cup {ip}) <= Cardinality(DOMAIN kept) + 1
      <3> DEFINE K == DOMAIN kept
      <3>1. IsFiniteSet(K) /\ Cardinality(K) \in Nat
        BY <2>1
      <3> HIDE DEF K
      <3>2. IsFiniteSet(K \cup {ip})
            /\ (Cardinality(K \cup {ip}) = Cardinality(K)
                \/ Cardinality(K \cup {ip}) = Cardinality(K) + 1)
        BY <3>1, FS_AddElement
      <3>3. Cardinality(K \cup {ip}) <= Cardinality(K) + 1
        BY <3>1, <3>2
      <3> QED
        BY <3>2, <3>3 DEF K
    <2>3. Cardinality(DOMAIN kept \cup {ip}) \in Nat
      BY <2>2, FS_CardinalityType
    <2>4. Cardinality(DOMAIN kept \cup {ip}) <= MAX_RATE_BUCKETS + 1
      BY <2>1, <2>2, <2>3, RateConstants
    <2> QED
      BY <1>6, <2>2, <2>4 DEF BucketsBounded
  <1>9. admitted' \in [IPs -> Seq(0 .. MaxTime)] /\ evicted' \in BOOLEAN
    <2>1. admitted \in [IPs -> Seq(0 .. MaxTime)] /\ evicted \in BOOLEAN
      BY DEF TableInv, RateTypeOK
    <2>2. Append(admitted[ip], now) \in Seq(0 .. MaxTime)
      BY <1>4, <2>1
    <2>3. admitted' = admitted \/ admitted' = [admitted EXCEPT ![ip] = Append(@, now)]
      BY DEF Counting
    <2>4. evicted' \in BOOLEAN
      BY DEF Counting
    <2> QED
      BY <2>1, <2>2, <2>3, <2>4
  <1>10. DOMAIN rateBuckets' \subseteq IPs
    BY <1>6, EvictionKeeps DEF TableInv, RateTypeOK
  <1> QED
    BY <1>4, <1>6, <1>7, <1>8, <1>9, <1>10 DEF TableInv, RateTypeOK

\* An expired bucket leaves its address quiet.
LEMMA ExpiredIsQuiet ==
    ASSUME TableInv, NEW ip \in DOMAIN rateBuckets, Expired(rateBuckets[ip]),
           WindowOf(ip, rateBuckets[ip])
    PROVE  Quiet(ip)
  <1> DEFINE b == rateBuckets[ip]
             s == admitted[ip]
  <1>1. b.resetAt \in Nat /\ b.count \in Nat /\ now \in Nat /\ s \in Seq(Nat) /\ b.resetAt <= now
        /\ RATE_WINDOW \in Nat /\ RATE_LIMIT \in Nat
    <2>1. ip \in IPs /\ b \in Buckets /\ now \in 0 .. MaxTime /\ s \in Seq(0 .. MaxTime)
      BY DEF TableInv, RateTypeOK
    <2> QED
      BY <2>1, RateConstants DEF Buckets, Expired
  <1>2. /\ Cardinality(From(s, Opened(b))) <= Counted(b)
        /\ \A i \in DOMAIN s : s[i] < b.resetAt
    BY DEF WindowOf
  <1> HIDE DEF b, s
  <1>3. Opened(b) \in Int /\ Opened(b) <= now - RATE_WINDOW + 1 /\ now - RATE_WINDOW + 1 \in Int
    BY <1>1 DEF Opened
  <1>4. Cardinality(From(s, now - RATE_WINDOW + 1)) <= Cardinality(From(s, Opened(b)))
    BY <1>1, <1>3, FromLater
  <1>5. Counted(b) \in Nat /\ Counted(b) <= RATE_LIMIT
    BY <1>1 DEF Counted, Passes
  <1>6. Cardinality(From(s, now - RATE_WINDOW + 1)) <= RATE_LIMIT
    BY <1>1, <1>2, <1>3, <1>4, <1>5, FromFinite
  <1>7. \A i \in DOMAIN s : s[i] < now
    <2>1. \A i \in DOMAIN s : s[i] \in Nat
      BY <1>1
    <2> QED
      BY <1>1, <1>2, <2>1
  <1> QED
    BY <1>6, <1>7 DEF Quiet, s

\* The histories are sequences of times, and windows are numbers.
LEMMA RateNumbers ==
    ASSUME TableInv
    PROVE  /\ now \in Nat /\ RATE_WINDOW \in Nat \ {0} /\ RATE_LIMIT \in Nat \ {0}
           /\ \A ip \in IPs : admitted[ip] \in Seq(Nat)
           /\ \A b \in Buckets : /\ b.count \in Nat /\ b.resetAt \in Nat
                                 /\ Opened(b) \in Int /\ Counted(b) \in Nat
                                 /\ Counted(b) <= RATE_LIMIT /\ Counted(b) <= b.count
                                 /\ Opened(b) - RATE_WINDOW + 1 \in Int
  <1>1. RATE_WINDOW \in Nat \ {0} /\ RATE_LIMIT \in Nat \ {0}
    BY RateConstants
  <1>2. now \in Nat /\ \A ip \in IPs : admitted[ip] \in Seq(Nat)
    BY RateConstants DEF TableInv, RateTypeOK
  <1>3. \A b \in Buckets : b.count \in Nat /\ b.resetAt \in Nat
    BY DEF Buckets
  <1>4. \A b \in Buckets : /\ Opened(b) \in Int /\ Counted(b) \in Nat
                           /\ Counted(b) <= RATE_LIMIT /\ Counted(b) <= b.count
                           /\ Opened(b) - RATE_WINDOW + 1 \in Int
    BY <1>1, <1>3 DEF Opened, Counted, Passes
  <1> QED
    BY <1>1, <1>2, <1>3, <1>4

\* The request's own bucket counts it, and counted all before it.
LEMMA RequestCounted ==
    ASSUME TableInv, \A k \in DOMAIN rateBuckets : CountedPassed(k, rateBuckets[k]),
           NEW ip \in IPs, NEW kept \in AfterEviction(rateBuckets), Counting(ip, kept)
    PROVE  \A k \in DOMAIN rateBuckets' : CountedPassed(k, rateBuckets[k])'
  <1> DEFINE b == BucketOf(kept, ip)
             c == [b EXCEPT !.count = b.count + 1]
             s == admitted[ip]
  <1>1. b \in Buckets /\ s \in Seq(Nat)
    BY RequestBucket, RateNumbers
  <1>2. rateBuckets' = [k \in DOMAIN kept \cup {ip} |-> IF k = ip THEN c ELSE kept[k]]
        /\ admitted' = IF Passes(b.count + 1) THEN [admitted EXCEPT ![ip] = Append(@, now)] ELSE admitted
    BY DEF Counting
  <1>3. c \in Buckets /\ c.count = b.count + 1 /\ c.resetAt = b.resetAt
    BY <1>1 DEF Buckets
  <1>4. /\ Cardinality(From(s, Opened(b))) >= Counted(b)
        /\ Opened(b) <= now
    <2>1. CASE b = [count |-> 0, resetAt |-> now + RATE_WINDOW]
      <3>1. Opened(b) \in Int /\ Opened(b) <= now /\ Counted(b) = 0
        <4> HIDE DEF b
        <4> QED
          BY <2>1, RateNumbers DEF Opened, Counted, Passes
      <3> HIDE DEF b, s
      <3> QED
        BY <1>1, <3>1, FromFinite
    <2>2. CASE ip \in DOMAIN rateBuckets /\ b = rateBuckets[ip]
      <3>1. CountedPassed(ip, b) /\ b.resetAt \in RATE_WINDOW .. now + RATE_WINDOW
        BY <2>2 DEF TableInv, RateTypeOK
      <3>2. Opened(b) <= now
        <4> HIDE DEF b
        <4> QED
          BY <3>1, RateNumbers DEF Opened
      <3> QED
        BY <3>1, <3>2 DEF CountedPassed
    <2> QED
      BY <2>1, <2>2, RequestBucket
  <1>5. admitted \in [IPs -> Seq(0 .. MaxTime)]
    BY DEF TableInv, RateTypeOK
  <1>6. Opened(c) = Opened(b)
    BY <1>3 DEF Opened
  <1> HIDE DEF b, c
  <1>7. Cardinality(From(admitted'[ip], Opened(c))) >= Counted(c)
    <2>1. CASE Passes(b.count + 1)
      <3>1. admitted'[ip] = Append(s, now)
        BY <1>2, <1>5, <2>1
      <3>2. Cardinality(From(Append(s, now), Opened(b))) = Cardinality(From(s, Opened(b))) + 1
        BY <1>1, <1>4, RateNumbers, FromAppend
      <3>3. Counted(c) = Counted(b) + 1
        <4>1. b.count \in Nat /\ RATE_LIMIT \in Nat /\ c.count = b.count + 1
          BY <1>1, <1>3, RateNumbers
        <4> QED
          BY <2>1, <4>1 DEF Counted, Passes
      <3>4. Cardinality(From(s, Opened(b))) \in Nat /\ Counted(b) \in Nat
        BY <1>1, RateNumbers, FromFinite
      <3> QED
        BY <1>4, <1>6, <3>1, <3>2, <3>3, <3>4
    <2>2. CASE ~Passes(b.count + 1)
      <3>1. admitted' = admitted
        BY <1>2, <2>2
      <3>2. Counted(c) = Counted(b)
        <4>1. b.count \in Nat /\ RATE_LIMIT \in Nat /\ c.count = b.count + 1
          BY <1>1, <1>3, RateNumbers
        <4> QED
          BY <2>2, <4>1 DEF Counted, Passes
      <3> QED
        BY <1>4, <1>6, <3>1, <3>2
    <2> QED
      BY <2>1, <2>2
  <1> SUFFICES ASSUME NEW k \in DOMAIN rateBuckets' PROVE CountedPassed(k, rateBuckets[k])'
    OBVIOUS
  <1>8. CASE k = ip
    BY <1>2, <1>7, <1>8 DEF CountedPassed, From, Opened, Counted, Passes
  <1>9. CASE k # ip
    <2>1. k \in DOMAIN rateBuckets /\ rateBuckets'[k] = rateBuckets[k] /\ k \in IPs
      BY <1>2, <1>9, EvictionKeeps DEF TableInv, RateTypeOK
    <2>2. admitted'[k] = admitted[k]
      BY <1>2, <1>5, <1>9, <2>1
    <2> QED
      BY <2>1, <2>2 DEF CountedPassed, From, Opened, Counted, Passes
  <1> QED
    BY <1>8, <1>9

\* Without evictions the request keeps every window.
LEMMA RequestWindows ==
    ASSUME TableInv, Windows, NEW ip \in IPs, NEW kept \in AfterEviction(rateBuckets),
           Counting(ip, kept), now' = now, ~evicted'
    PROVE  Windows'
  <1> DEFINE b == BucketOf(kept, ip)
             c == [b EXCEPT !.count = b.count + 1]
             s == admitted[ip]
  <1>1. b \in Buckets /\ s \in Seq(Nat)
    BY RequestBucket, RateNumbers
  <1>2. rateBuckets' = [k \in DOMAIN kept \cup {ip} |-> IF k = ip THEN c ELSE kept[k]]
        /\ admitted' = IF Passes(b.count + 1) THEN [admitted EXCEPT ![ip] = Append(@, now)] ELSE admitted
    BY DEF Counting
  <1>3. c \in Buckets /\ c.count = b.count + 1 /\ c.resetAt = b.resetAt
    BY <1>1 DEF Buckets
  <1>4. admitted \in [IPs -> Seq(0 .. MaxTime)]
    BY DEF TableInv, RateTypeOK
  <1>5. \A k \in IPs : k \notin DOMAIN kept => Quiet(k)
    <2> SUFFICES ASSUME NEW k \in IPs, k \notin DOMAIN kept PROVE Quiet(k)
      OBVIOUS
    <2>1. CASE k \notin DOMAIN rateBuckets
      BY <2>1 DEF Windows
    <2>2. CASE k \in DOMAIN rateBuckets
      <3>1. Expired(rateBuckets[k])
        BY <2>2 DEF Counting
      <3>2. WindowOf(k, rateBuckets[k])
        BY <2>2 DEF Windows
      <3> QED
        BY <2>2, <3>1, <3>2, ExpiredIsQuiet
    <2> QED
      BY <2>1, <2>2
  <1>6. Opened(c) = Opened(b)
    BY <1>3 DEF Opened
  <1>7. /\ Cardinality(From(s, Opened(b))) <= Counted(b)
        /\ Cardinality(From(s, Opened(b) - RATE_WINDOW + 1)) <= RATE_LIMIT + Counted(b)
        /\ \A i \in DOMAIN s : s[i] < b.resetAt
        /\ Opened(b) <= now /\ now < b.resetAt
    <2>1. CASE b = [count |-> 0, resetAt |-> now + RATE_WINDOW]
              /\ (ip \in DOMAIN kept => Expired(rateBuckets[ip]))
      <3>1. Quiet(ip)
        <4>1. CASE ip \notin DOMAIN kept
          BY <1>5, <4>1
        <4>2. CASE ip \in DOMAIN kept
          <5>1. ip \in DOMAIN rateBuckets /\ Expired(rateBuckets[ip])
            BY <2>1, <4>2, EvictionKeeps
          <5>2. WindowOf(ip, rateBuckets[ip])
            BY <5>1 DEF Windows
          <5> QED
            BY <5>1, <5>2, ExpiredIsQuiet
        <4> QED
          BY <4>1, <4>2
      <3>2. /\ Cardinality(From(s, now - RATE_WINDOW + 1)) <= RATE_LIMIT
            /\ \A i \in DOMAIN s : s[i] < now
        BY <3>1 DEF Quiet
      <3> HIDE DEF b, s
      <3>3. Opened(b) = now /\ Counted(b) = 0 /\ b.resetAt = now + RATE_WINDOW
        BY <2>1, RateNumbers DEF Opened, Counted, Passes
      <3>4. Cardinality(From(s, Opened(b))) = 0
        BY <1>1, <3>2, <3>3, RateNumbers, FromNone
      <3>5. \A i \in DOMAIN s : s[i] \in Nat
        BY <1>1
      <3>6. \A i \in DOMAIN s : s[i] < b.resetAt
        BY <3>2, <3>3, <3>5, RateNumbers
      <3> QED
        BY <3>2, <3>3, <3>4, <3>6, RateNumbers
    <2>2. CASE ip \in DOMAIN rateBuckets /\ b = rateBuckets[ip] /\ ~Expired(rateBuckets[ip])
      <3>1. WindowOf(ip, b) /\ b.resetAt \in RATE_WINDOW .. now + RATE_WINDOW
        BY <2>2 DEF TableInv, RateTypeOK, Windows
      <3>2. now < b.resetAt
        BY <1>1, <2>2, RateNumbers DEF Expired
      <3>3. Opened(b) <= now
        <4> HIDE DEF b
        <4> QED
          BY <3>1, RateNumbers DEF Opened
      <3> QED
        BY <3>1, <3>2, <3>3 DEF WindowOf
    <2> QED
      BY <2>1, <2>2, RequestBucket
  <1> HIDE DEF b, c
  <1>8. /\ Cardinality(From(admitted'[ip], Opened(c))) <= Counted(c)
        /\ Cardinality(From(admitted'[ip], Opened(c) - RATE_WINDOW + 1)) <= RATE_LIMIT + Counted(c)
        /\ \A i \in DOMAIN admitted'[ip] : admitted'[ip][i] < c.resetAt
    <2>1. CASE Passes(b.count + 1)
      <3>1. admitted'[ip] = Append(s, now)
        BY <1>2, <1>4, <2>1
      <3>2. Opened(b) \in Int /\ Opened(b) - RATE_WINDOW + 1 \in Int
            /\ now >= Opened(b) - RATE_WINDOW + 1 /\ now >= Opened(b)
        BY <1>1, <1>7, RateNumbers
      <3> HIDE DEF s
      <3>3. Cardinality(From(Append(s, now), Opened(b))) = Cardinality(From(s, Opened(b))) + 1
        BY <1>1, <3>2, RateNumbers, FromAppend
      <3>4. Cardinality(From(Append(s, now), Opened(b) - RATE_WINDOW + 1))
              = Cardinality(From(s, Opened(b) - RATE_WINDOW + 1)) + 1
        BY <1>1, <3>2, RateNumbers, FromAppend
      <3>5. Counted(c) = Counted(b) + 1
        BY <1>1, <1>3, <2>1, RateNumbers DEF Counted, Passes
      <3>6. Cardinality(From(s, Opened(b))) \in Nat /\ Counted(b) \in Nat
            /\ Cardinality(From(s, Opened(b) - RATE_WINDOW + 1)) \in Nat
        BY <1>1, <3>2, RateNumbers, FromFinite
      <3>7. \A i \in DOMAIN Append(s, now) : Append(s, now)[i] < c.resetAt
        <4> SUFFICES ASSUME NEW i \in DOMAIN Append(s, now) PROVE Append(s, now)[i] < c.resetAt
          OBVIOUS
        <4>1. (i \in DOMAIN s /\ Append(s, now)[i] = s[i]) \/ Append(s, now)[i] = now
          BY <1>1
        <4>2. \A j \in DOMAIN s : s[j] < b.resetAt
          BY <1>7
        <4> QED
          BY <1>3, <1>7, <4>1, <4>2
      <3>8. /\ Cardinality(From(Append(s, now), Opened(c))) <= Counted(c)
            /\ Cardinality(From(Append(s, now), Opened(c) - RATE_WINDOW + 1)) <= RATE_LIMIT + Counted(c)
        BY <1>6, <1>7, <3>3, <3>4, <3>5, <3>6, RateNumbers
      <3> QED
        BY <3>1, <3>7, <3>8
    <2>2. CASE ~Passes(b.count + 1)
      <3>1. admitted' = admitted
        BY <1>2, <2>2
      <3>2. Counted(c) = Counted(b)
        BY <1>1, <1>3, <2>2, RateNumbers DEF Counted, Passes
      <3> QED
        BY <1>3, <1>6, <1>7, <3>1, <3>2
    <2> QED
      BY <2>1, <2>2
  <1> SUFFICES ASSUME NEW k \in IPs
               PROVE  IF k \in DOMAIN rateBuckets' THEN WindowOf(k, rateBuckets[k])' ELSE Quiet(k)'
    BY DEF Windows
  <1>9. CASE k = ip
    <2>1. k \in DOMAIN rateBuckets' /\ rateBuckets'[k] = c
      BY <1>2, <1>9
    <2> QED
      BY <1>8, <1>9, <2>1 DEF WindowOf, From, Opened, Counted, Passes
  <1>10. CASE k # ip /\ k \in DOMAIN rateBuckets'
    <2>1. k \in DOMAIN rateBuckets /\ rateBuckets'[k] = rateBuckets[k]
      BY <1>2, <1>10, EvictionKeeps
    <2>2. admitted'[k] = admitted[k]
      BY <1>2, <1>4, <1>10
    <2>3. WindowOf(k, rateBuckets[k])
      BY <2>1 DEF Windows
    <2> QED
      BY <1>10, <2>1, <2>2, <2>3 DEF WindowOf, From, Opened, Counted, Passes
  <1>11. CASE k # ip /\ k \notin DOMAIN rateBuckets'
    <2>1. Quiet(k)
      BY <1>2, <1>5, <1>11
    <2>2. admitted'[k] = admitted[k]
      BY <1>2, <1>4, <1>11
    <2> QED
      BY <1>11, <2>1, <2>2 DEF Quiet, From
  <1> QED
    BY <1>9, <1>10, <1>11

\* The sweep drops what has expired.
LEMMA SweepKeeps ==
    ASSUME RateInv, Sweep
    PROVE  RateInv'
  <1> USE DEF RateInv
  <1> DEFINE live == {k \in DOMAIN rateBuckets : ~Expired(rateBuckets[k])}
  <1>1. /\ rateBuckets' = [k \in live |-> rateBuckets[k]]
        /\ UNCHANGED <<now, requests, admitted, evicted>>
    BY DEF Sweep, LiveOnly, Restrict
  <1>2. live \in SUBSET DOMAIN rateBuckets /\ DOMAIN rateBuckets' = live
        /\ \A k \in live : rateBuckets'[k] = rateBuckets[k]
    BY <1>1
  <1>3. IsFiniteSet(live) /\ Cardinality(live) <= Cardinality(DOMAIN rateBuckets)
    BY <1>2, FS_Subset DEF TableInv
  <1>4. BucketsBounded'
    <2>1. Cardinality(live) \in Nat /\ Cardinality(DOMAIN rateBuckets) \in Nat
          /\ Cardinality(DOMAIN rateBuckets) <= MAX_RATE_BUCKETS + 1
      BY <1>3, FS_CardinalityType DEF TableInv, BucketsBounded
    <2> QED
      BY <1>2, <1>3, <2>1, RateConstants DEF BucketsBounded
  <1>5. rateBuckets' \in [DOMAIN rateBuckets' -> Buckets]
    BY <1>1 DEF TableInv
  <1>6. \A k \in live : Expired(rateBuckets[k]) = FALSE
    OBVIOUS
  <1>7. \A k \in DOMAIN rateBuckets : k \notin live => Expired(rateBuckets[k])
    OBVIOUS
  <1> HIDE DEF live
  <1>8. RateTypeOK'
    BY <1>1, <1>2 DEF TableInv, RateTypeOK
  <1>9. \A k \in DOMAIN rateBuckets' : CountedPassed(k, rateBuckets[k])'
    BY <1>1, <1>2 DEF CountedPassed, From, Opened, Counted, Passes
  <1>10. ASSUME ~evicted PROVE Windows'
    <2> SUFFICES ASSUME NEW k \in IPs
                 PROVE  IF k \in DOMAIN rateBuckets' THEN WindowOf(k, rateBuckets[k])' ELSE Quiet(k)'
      BY DEF Windows
    <2>1. CASE k \in live
      <3>1. WindowOf(k, rateBuckets[k])
        BY <1>2, <1>10, <2>1 DEF Windows
      <3> QED
        BY <1>1, <1>2, <2>1, <3>1 DEF WindowOf, From, Opened, Counted, Passes
    <2>2. CASE k \notin live
      <3>1. Quiet(k)
        <4>1. CASE k \in DOMAIN rateBuckets
          BY <1>7, <1>10, <2>2, <4>1, ExpiredIsQuiet DEF Windows
        <4>2. CASE k \notin DOMAIN rateBuckets
          BY <1>10, <4>2 DEF Windows
        <4> QED
          BY <4>1, <4>2
      <3> QED
        BY <1>1, <1>2, <2>2, <3>1 DEF Quiet, From
    <2> QED
      BY <2>1, <2>2
  <1> QED
    BY <1>1, <1>2, <1>3, <1>4, <1>5, <1>8, <1>9, <1>10 DEF TableInv

\* Time passes: a quiet address stays quiet.
LEMMA TickKeeps ==
    ASSUME RateInv, Tick
    PROVE  RateInv'
  <1> USE DEF RateInv
  <1>1. now < MaxTime /\ now' = now + 1 /\ UNCHANGED <<rateBuckets, requests, admitted, evicted>>
    BY DEF Tick
  <1>2. TableInv'
    <2>1. now \in 0 .. MaxTime /\ now' \in 0 .. MaxTime
      BY <1>1, RateConstants DEF TableInv, RateTypeOK
    <2>2. \A k \in DOMAIN rateBuckets : rateBuckets[k].resetAt \in RATE_WINDOW .. now' + RATE_WINDOW
      BY <1>1, <2>1, RateConstants DEF TableInv, RateTypeOK
    <2> QED
      BY <1>1, <2>1, <2>2 DEF TableInv, RateTypeOK, BucketsBounded
  <1>3. \A k \in DOMAIN rateBuckets' : CountedPassed(k, rateBuckets[k])'
    BY <1>1 DEF CountedPassed, From, Opened, Counted, Passes
  <1>4. ASSUME ~evicted PROVE Windows'
    <2> SUFFICES ASSUME NEW k \in IPs
                 PROVE  IF k \in DOMAIN rateBuckets' THEN WindowOf(k, rateBuckets[k])' ELSE Quiet(k)'
      BY DEF Windows
    <2>1. CASE k \in DOMAIN rateBuckets
      <3>1. WindowOf(k, rateBuckets[k])
        BY <1>4, <2>1 DEF Windows
      <3> QED
        BY <1>1, <2>1, <3>1 DEF WindowOf, From, Opened, Counted, Passes
    <2>2. CASE k \notin DOMAIN rateBuckets
      <3> DEFINE s == admitted[k]
      <3>1. Quiet(k) /\ s \in Seq(Nat)
        BY <1>4, <2>2, RateNumbers DEF Windows
      <3>2. /\ Cardinality(From(s, now - RATE_WINDOW + 1)) <= RATE_LIMIT
            /\ \A i \in DOMAIN s : s[i] < now
        BY <3>1 DEF Quiet
      <3> HIDE DEF s
      <3>3. now - RATE_WINDOW + 1 \in Int /\ now' - RATE_WINDOW + 1 \in Int
            /\ now - RATE_WINDOW + 1 <= now' - RATE_WINDOW + 1
        BY <1>1, RateNumbers
      <3>4. Cardinality(From(s, now' - RATE_WINDOW + 1)) <= RATE_LIMIT
        <4> DEFINE t == now - RATE_WINDOW + 1  u == now' - RATE_WINDOW + 1
        <4>1. t \in Int /\ u \in Int /\ t <= u
          BY <3>3
        <4>2. Cardinality(From(s, t)) <= RATE_LIMIT
          BY <3>2
        <4> HIDE DEF t, u
        <4>3. Cardinality(From(s, u)) <= Cardinality(From(s, t))
          BY <3>1, <4>1, FromLater
        <4>4. Cardinality(From(s, u)) \in Nat /\ Cardinality(From(s, t)) \in Nat
          BY <3>1, <4>1, FromFinite
        <4>5. RATE_LIMIT \in Nat
          BY RateNumbers
        <4>6. Cardinality(From(s, u)) <= RATE_LIMIT
          BY <4>2, <4>3, <4>4, <4>5
        <4> QED
          BY <4>6 DEF u
      <3>5. \A i \in DOMAIN s : s[i] < now'
        <4>1. \A i \in DOMAIN s : s[i] \in Nat
          BY <3>1
        <4> QED
          BY <1>1, <3>2, <4>1, RateNumbers
      <3> QED
        BY <1>1, <2>2, <3>4, <3>5 DEF Quiet, s, From
    <2> QED
      BY <2>1, <2>2
  <1> QED
    BY <1>1, <1>2, <1>3, <1>4

LEMMA RequestKeeps ==
    ASSUME RateInv, NEW ip \in IPs, Request(ip)
    PROVE  RateInv'
  <1>1. PICK kept \in AfterEviction(rateBuckets) : Counting(ip, kept)
    BY DEF Request, Counting
  <1>2. requests < MaxRequests /\ requests' = requests + 1 /\ now' = now
    BY DEF Request
  <1>3. TableInv'
    BY <1>1, <1>2, RequestTable DEF RateInv
  <1>4. \A k \in DOMAIN rateBuckets' : CountedPassed(k, rateBuckets[k])'
    BY <1>1, RequestCounted DEF RateInv
  <1>5. ASSUME ~evicted' PROVE Windows'
    <2>1. ~evicted
      BY <1>1, <1>5 DEF Counting
    <2> QED
      BY <1>1, <1>2, <1>5, <2>1, RequestWindows DEF RateInv
  <1> QED
    BY <1>3, <1>4, <1>5 DEF RateInv

LEMMA RateInitInv == RateInit => RateInv
  <1> SUFFICES ASSUME RateInit PROVE RateInv
    OBVIOUS
  <1> USE RateConstants DEF RateInit
  <1>1. DOMAIN rateBuckets = {} /\ rateBuckets \in [DOMAIN rateBuckets -> Buckets]
    OBVIOUS
  <1>2. TableInv
    <2>1. IsFiniteSet(DOMAIN rateBuckets) /\ BucketsBounded
      <3>1. Cardinality(DOMAIN rateBuckets) = 0
        BY <1>1, FS_EmptySet
      <3> QED
        BY <1>1, <3>1, FS_EmptySet DEF BucketsBounded
    <2>2. admitted \in [IPs -> Seq(0 .. MaxTime)]
      <3>1. <<>> \in Seq(0 .. MaxTime)
        OBVIOUS
      <3> QED
        BY <3>1
    <2>3. RateTypeOK
      <3>1. now \in 0 .. MaxTime /\ requests \in 0 .. MaxRequests
        <4>1. now = 0 /\ requests = 0
          OBVIOUS
        <4> QED
          BY <4>1, RateConstants
      <3>1a. evicted \in BOOLEAN
        OBVIOUS
      <3>2. \A k \in DOMAIN rateBuckets : FALSE
        BY <1>1
      <3> HIDE DEF RateInit
      <3> QED
        BY <1>1, <2>2, <3>1, <3>1a, <3>2 DEF RateTypeOK
    <2> QED
      BY <1>1, <2>1, <2>3 DEF TableInv
  <1>3. Windows
    <2> SUFFICES ASSUME NEW ip \in IPs PROVE Quiet(ip)
      BY <1>1 DEF Windows
    <2>1. admitted[ip] = <<>> /\ From(admitted[ip], now - RATE_WINDOW + 1) = {}
      BY DEF From
    <2>2. Cardinality(From(admitted[ip], now - RATE_WINDOW + 1)) <= RATE_LIMIT
      <3>1. Cardinality(From(admitted[ip], now - RATE_WINDOW + 1)) = 0
        BY <2>1, FS_EmptySet
      <3> QED
        BY <3>1
    <2>3. \A i \in DOMAIN admitted[ip] : admitted[ip][i] < now
      BY <2>1
    <2> QED
      BY <2>2, <2>3 DEF Quiet
  <1> QED
    BY <1>1, <1>2, <1>3 DEF RateInv

LEMMA RateStep == RateInv /\ [RateNext]_rateVars => RateInv'
  <1>1. ASSUME RateInv, UNCHANGED rateVars PROVE RateInv'
    BY <1>1 DEF rateVars, RateInv, TableInv, RateTypeOK, BucketsBounded, Windows, WindowOf,
       Quiet, CountedPassed, From, Opened, Counted, Passes
  <1> QED
    BY <1>1, SweepKeeps, TickKeeps, RequestKeeps DEF RateNext

(***************************************************************************)
(* The inductive invariant of rateLimit() and its sweep: the map is bounded, *)
(* a bucket's count is made of requests of its window, and without evictions *)
(* a bucket counts all of them.                                              *)
(***************************************************************************)
THEOREM RateInvariance == RateSpec => []RateInv
  BY RateInitInv, RateStep, PTL DEF RateSpec

\* Without evictions, at most twice the limit passes in any window.
LEMMA TwiceTheLimit == RateInv => AtMostTwiceTheLimit
  <1> SUFFICES ASSUME RateInv, ~evicted, NEW ip \in IPs PROVE Recent(ip) <= 2 * RATE_LIMIT
    BY DEF AtMostTwiceTheLimit
  <1> USE DEF RateInv
  <1> DEFINE s == admitted[ip]
  <1>1. s \in Seq(Nat) /\ now - RATE_WINDOW + 1 \in Int
    BY RateNumbers
  <1>2. Recent(ip) = Cardinality(From(s, now - RATE_WINDOW + 1))
    <2>1. \A i \in DOMAIN s : s[i] > now - RATE_WINDOW <=> s[i] >= now - RATE_WINDOW + 1
      <3>1. \A i \in DOMAIN s : s[i] \in Nat
        BY <1>1
      <3> QED
        BY <3>1, RateNumbers
    <2> QED
      BY <2>1 DEF Recent, From
  <1>3. Quiet(ip) => Recent(ip) <= 2 * RATE_LIMIT
    <2> SUFFICES ASSUME Quiet(ip) PROVE Recent(ip) <= 2 * RATE_LIMIT
      OBVIOUS
    <2>1. Recent(ip) <= RATE_LIMIT
      BY <1>2 DEF Quiet
    <2>2. Recent(ip) \in Nat
      BY <1>1, <1>2, FromFinite
    <2> QED
      BY <2>1, <2>2, RateNumbers
  <1>4. CASE ip \notin DOMAIN rateBuckets
    BY <1>3, <1>4 DEF Windows
  <1>5. CASE ip \in DOMAIN rateBuckets /\ Expired(rateBuckets[ip])
    BY <1>3, <1>5, ExpiredIsQuiet DEF Windows
  <1>6. CASE ip \in DOMAIN rateBuckets /\ ~Expired(rateBuckets[ip])
    <2> DEFINE b == rateBuckets[ip]
    <2>1. b \in Buckets /\ b.resetAt \in RATE_WINDOW .. now + RATE_WINDOW
      BY <1>6 DEF TableInv, RateTypeOK
    <2>2. Cardinality(From(s, Opened(b) - RATE_WINDOW + 1)) <= RATE_LIMIT + Counted(b)
      BY <1>6 DEF Windows, WindowOf
    <2> HIDE DEF b, s
    <2>3. Opened(b) - RATE_WINDOW + 1 \in Int /\ Opened(b) - RATE_WINDOW + 1 <= now - RATE_WINDOW + 1
      <3>1. /\ b.resetAt \in Nat /\ RATE_WINDOW \in Nat /\ now \in Nat
            /\ b.resetAt <= now + RATE_WINDOW
        BY <2>1, RateNumbers
      <3>2. Opened(b) = b.resetAt - RATE_WINDOW
        BY DEF Opened
      <3> QED
        BY <3>1, <3>2
    <2>4. Cardinality(From(s, now - RATE_WINDOW + 1)) <= Cardinality(From(s, Opened(b) - RATE_WINDOW + 1))
      BY <1>1, <2>3, FromLater
    <2>5. Cardinality(From(s, now - RATE_WINDOW + 1)) \in Nat
          /\ Cardinality(From(s, Opened(b) - RATE_WINDOW + 1)) \in Nat
      BY <1>1, <2>3, FromFinite
    <2>6. Counted(b) \in Nat /\ Counted(b) <= RATE_LIMIT
      BY <2>1, RateNumbers
    <2> QED
      BY <1>2, <2>2, <2>4, <2>5, <2>6, RateNumbers
  <1> QED
    BY <1>4, <1>5, <1>6

\* A request is refused only by a live bucket that is full of requests of
\* its window.
LEMMA RefusalDeserved ==
    ASSUME RateInv, NEW ip \in IPs, Request(ip), admitted' = admitted
    PROVE  Recent(ip) >= RATE_LIMIT
  <1> USE DEF RateInv
  <1>1. PICK kept \in AfterEviction(rateBuckets) : Counting(ip, kept)
    BY DEF Request, Counting
  <1> DEFINE b == BucketOf(kept, ip)
             s == admitted[ip]
  <1>2. b \in Buckets /\ s \in Seq(Nat) /\ now - RATE_WINDOW + 1 \in Int
    BY RequestBucket, RateNumbers
  <1>3. ~Passes(b.count + 1)
    <2> SUFFICES ASSUME Passes(b.count + 1) PROVE FALSE
      OBVIOUS
    <2>1. admitted' = [admitted EXCEPT ![ip] = Append(s, now)] /\ admitted \in [IPs -> Seq(0 .. MaxTime)]
      BY <1>1 DEF Counting, TableInv, RateTypeOK
    <2>2. s = Append(s, now)
      BY <2>1
    <2>3. Len(Append(s, now)) = Len(s) + 1 /\ Len(s) \in Nat
      BY <1>2
    <2> QED
      BY <2>2, <2>3
  <1>4. ip \in DOMAIN rateBuckets /\ b = rateBuckets[ip] /\ ~Expired(rateBuckets[ip])
    <2>1. b # [count |-> 0, resetAt |-> now + RATE_WINDOW]
      <3> HIDE DEF b
      <3> QED
        BY <1>2, <1>3, RateNumbers DEF Passes
    <2> QED
      BY <2>1, RequestBucket
  <1>5. Cardinality(From(s, Opened(b))) >= Counted(b)
    BY <1>4 DEF CountedPassed
  <1>6. now < b.resetAt
    BY <1>2, <1>4, RateNumbers DEF Expired
  <1>7. Recent(ip) = Cardinality(From(s, now - RATE_WINDOW + 1))
    <2>1. \A i \in DOMAIN s : s[i] > now - RATE_WINDOW <=> s[i] >= now - RATE_WINDOW + 1
      <3>1. \A i \in DOMAIN s : s[i] \in Nat
        BY <1>2
      <3> QED
        BY <3>1, RateNumbers
    <2> QED
      BY <2>1 DEF Recent, From
  <1> HIDE DEF b, s
  <1>8. Counted(b) = RATE_LIMIT
    BY <1>2, <1>3, RateNumbers DEF Counted, Passes
  <1>9. Opened(b) \in Int /\ now - RATE_WINDOW + 1 <= Opened(b)
    BY <1>2, <1>6, RateNumbers DEF Opened
  <1>10. Cardinality(From(s, Opened(b))) <= Cardinality(From(s, now - RATE_WINDOW + 1))
    BY <1>2, <1>9, FromLater
  <1>11. Cardinality(From(s, Opened(b))) \in Nat /\ Cardinality(From(s, now - RATE_WINDOW + 1)) \in Nat
    BY <1>2, <1>9, FromFinite
  <1> QED
    BY <1>5, <1>7, <1>8, <1>10, <1>11, RateNumbers

(***************************************************************************)
(* For any addresses, limit, window, cap and sequence of requests, sweeps   *)
(* and evictions (rateLimit of index.ts): the map holds at most one bucket  *)
(* more than the cap, a request is refused only if RATE_LIMIT of its        *)
(* address passed within the last window, and, unless a live bucket was     *)
(* evicted, at most twice the limit passes in a window.                     *)
(***************************************************************************)
THEOREM FairLimits == RateSpec => LimitsAreFair
  <1>1. RateInv => RateTypeOK /\ BucketsBounded /\ AtMostTwiceTheLimit
    BY TwiceTheLimit DEF RateInv, TableInv
  <1>2. RateInv /\ [RateNext]_rateVars
          => [\A ip \in IPs : Request(ip) /\ admitted' = admitted => Recent(ip) >= RATE_LIMIT]_rateVars
    BY RefusalDeserved
  <1>3. RateSpec => RefusedOnlyOverLimit
    BY <1>2, RateInvariance, PTL DEF RateSpec, RefusedOnlyOverLimit
  <1>4. RateSpec => []RateTypeOK /\ []BucketsBounded /\ []AtMostTwiceTheLimit
    BY <1>1, RateInvariance, PTL
  <1> QED
    BY <1>3, <1>4 DEF LimitsAreFair
=============================================================================
