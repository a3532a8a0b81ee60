------------------------- MODULE KernelClientProofs -------------------------
(***************************************************************************)
(* The safety properties of KernelClient, for every number of ids, crashes  *)
(* and restarts and every choice of timeouts.                               *)
(***************************************************************************)
EXTENDS KernelClient, TLAPS

\* Ids are handed out in order, and an unused id has no outcome.
IdsInOrder ==
    \A i \in Ids : /\ kind[i] = "none" <=> i >= nextId
                   /\ kind[i] = "none" => settled[i] = "none"

\* How the client's fields and the life of the child go together: a restart is
\* scheduled only between an exit and the next spawn, and never after stop().
LifeCycle ==
    /\ started # "yes" => child = "none" /\ ~held
    /\ restartTimer # Off => child = "gone" /\ ~stopped
    /\ held => child # "none"
    /\ stopped => ~held

IInv ==
    /\ TypeOK
    /\ NoRequestForgotten
    /\ HandshakeIsCurrent
    /\ IdsInOrder
    /\ LifeCycle

\* What reading one line off a pipe yields and leaves.
LEMMA HeadAndTail ==
    ASSUME NEW S, NEW s \in Seq(S), s # <<>>
    PROVE  Head(s) \in S /\ Tail(s) \in Seq(S)
  OBVIOUS

\* What writing one line to a pipe makes of it.
LEMMA AppendType ==
    ASSUME NEW S, NEW s \in Seq(S), NEW e \in S
    PROVE  Append(s, e) \in Seq(S)
  OBVIOUS

\* The initial state satisfies the invariant.
LEMMA InitIInv == Init => IInv
<1> SUFFICES ASSUME Init PROVE IInv
  OBVIOUS
<1> USE KernelConstants DEF Init, Ids, Off
<1>1. TypeOK
  <2>1. nextId \in 1..(MaxId + 1) /\ restartCount \in 0..MAX_RESTARTS /\ crashes \in 0..MaxCrashes
    OBVIOUS
  <2>2. timer \in [Ids -> Countdown] /\ stableTimer \in [Ids -> Countdown] /\ restartTimer \in Countdown
    BY DEF Countdown
  <2>3. inbox \in Seq(Ids) /\ outbox \in Seq(Replies)
    OBVIOUS
  <2>4. kind \in [Ids -> Kinds] /\ settled \in [Ids -> Outcomes]
    BY DEF Kinds, Outcomes
  <2> QED
    BY <2>1, <2>2, <2>3, <2>4 DEF TypeOK
<1>2. NoRequestForgotten
  BY DEF NoRequestForgotten
<1>3. HandshakeIsCurrent
  BY DEF HandshakeIsCurrent, Pings
<1>4. IdsInOrder /\ LifeCycle
  BY DEF IdsInOrder, LifeCycle
<1> QED
  BY <1>1, <1>2, <1>3, <1>4 DEF IInv

\* Every step keeps the types.
LEMMA NextTypeOK == IInv /\ [Next]_vars => TypeOK'
<1> SUFFICES ASSUME IInv, [Next]_vars PROVE TypeOK'
  OBVIOUS
<1> USE KernelConstants
<1> USE DEF IInv, TypeOK, Ids, Off, Countdown, Kinds, Outcomes, Replies, clientVars
<1>1. CASE Start
  BY <1>1 DEF Start
<1>2. CASE BinaryNotFound
  BY <1>2 DEF BinaryNotFound
<1>3. ASSUME SpawnAndPing, restartTimer' \in Countdown, started' \in {"no", "probing", "yes"}
      PROVE  TypeOK'
  BY <1>3 DEF SpawnAndPing
<1>4. CASE FirstSpawn
  BY <1>4, <1>3 DEF FirstSpawn
<1>5. CASE Respawn
  BY <1>5, <1>3 DEF Respawn
<1>6. CASE EngineReply
  <2>1. Head(inbox) \in Ids /\ Tail(inbox) \in Seq(Ids)
    BY <1>6, HeadAndTail DEF EngineReply
  <2>2. PICK ok \in BOOLEAN : outbox' = Append(outbox, [id |-> Head(inbox), ok |-> ok])
    BY <1>6 DEF EngineReply
  <2> DEFINE r == [id |-> Head(inbox), ok |-> ok]
  <2>3. r \in Replies
    BY <2>1
  <2> HIDE DEF r
  <2>4. outbox' \in Seq(Replies)
    <3>1. outbox' = Append(outbox, r)
      BY <2>2 DEF r
    <3> HIDE DEF Replies
    <3> QED BY <2>3, <3>1
  <2>5. inbox' \in Seq(Ids)
    BY <1>6, <2>1 DEF EngineReply
  <2>6. UNCHANGED <<clientVars, started, child, crashes, gaveUp>>
    BY <1>6 DEF EngineReply
  <2> QED
    BY <2>4, <2>5, <2>6
<1>7. CASE Die
  BY <1>7 DEF Die
<1>8. CASE Terminate
  BY <1>8 DEF Terminate
<1>9. CASE ReadReply
  <2> DEFINE r == Head(outbox)
  <2>1. r \in Replies /\ Tail(outbox) \in Seq(Replies)
    BY <1>9, HeadAndTail DEF ReadReply
  <2>2. settled' \in [Ids -> Outcomes]
    BY <1>9, <2>1 DEF ReadReply
  <2>3. timer' \in [Ids -> Countdown] /\ stableTimer' \in [Ids -> Countdown]
    BY <1>9, <2>1 DEF ReadReply, Forget, HandshakeEnds
  <2>4. ready' \in BOOLEAN
    BY <1>9 DEF ReadReply, HandshakeEnds
  <2> QED
    BY <1>9, <2>1, <2>2, <2>3, <2>4 DEF ReadReply, Forget
<1>10. CASE IgnoreLateReply
  BY <1>10 DEF IgnoreLateReply
<1>11. CASE ExitEvent
  <2>1. restartTimer' \in Countdown /\ restartCount' \in 0..MAX_RESTARTS
    <3>1. restartCount' \in 0..MAX_RESTARTS
      BY <1>11 DEF ExitEvent, MayRestart
    <3>2. restartTimer' \in Countdown
      BY <1>11, BackoffIsNat DEF ExitEvent, MayRestart
    <3> QED
      BY <3>1, <3>2
  <2>2. ready' \in BOOLEAN /\ gaveUp' \in BOOLEAN
    BY <1>11 DEF ExitEvent, HandshakeEnds
  <2>3. timer' \in [Ids -> Countdown] /\ stableTimer' \in [Ids -> Countdown]
    BY <1>11 DEF ExitEvent, Forget, HandshakeEnds
  <2> QED
    BY <1>11, <2>1, <2>2, <2>3 DEF ExitEvent, Forget, HandshakeEnds
<1>12. ASSUME NEW id \in Ids, PingTimeout(id) PROVE TypeOK'
  BY <1>12 DEF PingTimeout, Forget, HandshakeEnds
<1>13. ASSUME NEW id \in Ids, CallTimeout(id) PROVE TypeOK'
  BY <1>13 DEF CallTimeout, Forget
<1>14. ASSUME NEW id \in Ids, StableTimer(id) PROVE TypeOK'
  <2>1. restartCount' \in 0..MAX_RESTARTS
    BY <1>14 DEF StableTimer
  <2>2. stableTimer' \in [Ids -> Countdown]
    BY <1>14 DEF StableTimer
  <2> QED
    BY <1>14, <2>1, <2>2 DEF StableTimer
<1>15. CASE Call
  <2>1. nextId \in Ids
    BY <1>15 DEF Call
  <2>2. inbox' \in Seq(Ids)
    BY <1>15, <2>1, AppendType DEF Call, Write
  <2> QED
    BY <1>15, <2>1, <2>2 DEF Call
<1>16. CASE Stop
  BY <1>16 DEF Stop
<1>17. CASE Tick
  BY <1>17 DEF Tick, Down
<1>18. CASE UNCHANGED vars
  BY <1>18 DEF vars
<1> QED
  BY <1>1, <1>2, <1>4, <1>5, <1>6, <1>7, <1>8, <1>9, <1>10, <1>11, <1>12, <1>13,
     <1>14, <1>15, <1>16, <1>17, <1>18 DEF Next

\* The next id to hand out is unused.
LEMMA FreshId ==
    ASSUME IInv, nextId \in Ids
    PROVE  kind[nextId] = "none" /\ settled[nextId] = "none"
<1>1. nextId >= nextId
  BY DEF IInv, TypeOK
<1> QED
  BY <1>1 DEF IInv, IdsInOrder

\* Every step keeps the books on requests: the map, the timers and the outcomes.
LEMMA NextNoRequestForgotten == IInv /\ [Next]_vars => NoRequestForgotten'
<1> SUFFICES ASSUME IInv, [Next]_vars PROVE NoRequestForgotten'
  OBVIOUS
<1> USE KernelConstants
<1> USE DEF IInv, TypeOK, NoRequestForgotten, IdsInOrder, Ids, Off, Countdown,
            Kinds, Outcomes, clientVars
<1>1. CASE Start \/ BinaryNotFound
  BY <1>1 DEF Start, BinaryNotFound
<1>2. ASSUME SpawnAndPing PROVE NoRequestForgotten'
  <2>0. nextId \in Ids
    BY <1>2 DEF SpawnAndPing
  <2>1. kind[nextId] = "none" /\ settled[nextId] = "none"
    BY <2>0, FreshId
  <2> SUFFICES ASSUME NEW i \in Ids
               PROVE  /\ i \in pending' <=> (kind'[i] # "none" /\ settled'[i] = "none")
                      /\ i \in pending' <=> timer'[i] # Off
    OBVIOUS
  <2>2. CASE i = nextId
    BY <1>2, <2>0, <2>1, <2>2 DEF SpawnAndPing
  <2>3. CASE i # nextId
    BY <1>2, <2>0, <2>1, <2>3 DEF SpawnAndPing
  <2> QED
    BY <2>2, <2>3
<1>3. CASE FirstSpawn
  BY <1>3, <1>2 DEF FirstSpawn
<1>4. CASE Respawn
  BY <1>4, <1>2 DEF Respawn
<1>5. CASE EngineReply \/ Die \/ Terminate \/ IgnoreLateReply
  BY <1>5 DEF EngineReply, Die, Terminate, IgnoreLateReply
<1>6. CASE ReadReply
  <2> DEFINE r == Head(outbox)
  <2>1. r.id \in pending
    BY <1>6 DEF ReadReply
  <2> QED
    BY <1>6, <2>1 DEF ReadReply, Forget
<1>7. CASE ExitEvent
  BY <1>7 DEF ExitEvent, Forget
<1>8. ASSUME NEW id \in Ids, PingTimeout(id) PROVE NoRequestForgotten'
  BY <1>8 DEF PingTimeout, Forget
<1>9. ASSUME NEW id \in Ids, CallTimeout(id) PROVE NoRequestForgotten'
  BY <1>9 DEF CallTimeout, Forget
<1>10. ASSUME NEW id \in Ids, StableTimer(id) PROVE NoRequestForgotten'
  BY <1>10 DEF StableTimer
<1>11. CASE Call
  <2>0. nextId \in Ids
    BY <1>11 DEF Call
  <2>1. kind[nextId] = "none" /\ settled[nextId] = "none"
    BY <2>0, FreshId
  <2> SUFFICES ASSUME NEW i \in Ids
               PROVE  /\ i \in pending' <=> (kind'[i] # "none" /\ settled'[i] = "none")
                      /\ i \in pending' <=> timer'[i] # Off
    OBVIOUS
  <2>2. CASE i = nextId
    BY <1>11, <2>0, <2>1, <2>2 DEF Call
  <2>3. CASE i # nextId
    BY <1>11, <2>0, <2>1, <2>3 DEF Call
  <2> QED
    BY <2>2, <2>3
<1>12. CASE Stop
  BY <1>12 DEF Stop
<1>13. CASE Tick
  BY <1>13 DEF Tick, Down
<1>14. CASE UNCHANGED vars
  BY <1>14 DEF vars
<1> QED
  BY <1>1, <1>3, <1>4, <1>5, <1>6, <1>7, <1>8, <1>9, <1>10, <1>11, <1>12, <1>13,
     <1>14 DEF Next

\* Every step keeps the order of ids, the life cycle and the single handshake.
LEMMA NextLifeCycle ==
    IInv /\ [Next]_vars => HandshakeIsCurrent' /\ IdsInOrder' /\ LifeCycle'
<1> SUFFICES ASSUME IInv, [Next]_vars
             PROVE  HandshakeIsCurrent' /\ IdsInOrder' /\ LifeCycle'
  OBVIOUS
<1> USE KernelConstants
<1> USE DEF IInv, TypeOK, HandshakeIsCurrent, IdsInOrder, LifeCycle, Ids, Off,
            Countdown, Kinds, Pings, clientVars
<1>1. CASE Start \/ BinaryNotFound
  <2>1. HandshakeIsCurrent' /\ IdsInOrder'
    BY <1>1 DEF Start, BinaryNotFound
  <2>2. LifeCycle'
    BY <1>1 DEF Start, BinaryNotFound
  <2> QED
    BY <2>1, <2>2
<1>2. ASSUME SpawnAndPing, child \in {"none", "gone"}, ~stopped,
             restartTimer' = Off, started' = "yes"
      PROVE  HandshakeIsCurrent' /\ IdsInOrder' /\ LifeCycle'
  <2>1. Pings = {} /\ nextId \in Ids
    BY <1>2 DEF SpawnAndPing
  <2>2. Pings' = {nextId}
    BY <1>2, <2>1 DEF SpawnAndPing
  <2>3. HandshakeIsCurrent'
    BY <1>2, <2>2 DEF SpawnAndPing
  <2>4. IdsInOrder'
    BY <1>2, <2>1 DEF SpawnAndPing
  <2>5. LifeCycle'
    BY <1>2 DEF SpawnAndPing
  <2> QED
    BY <2>3, <2>4, <2>5
<1>3. CASE FirstSpawn
  BY <1>3, <1>2 DEF FirstSpawn, SpawnRefused
<1>4. CASE Respawn
  BY <1>4, <1>2 DEF Respawn, SpawnRefused
<1>5. CASE EngineReply \/ Die \/ Terminate \/ IgnoreLateReply
  <2>1. HandshakeIsCurrent' /\ IdsInOrder'
    BY <1>5 DEF EngineReply, Die, Terminate, IgnoreLateReply
  <2>2. LifeCycle'
    BY <1>5 DEF EngineReply, Die, Terminate, IgnoreLateReply
  <2> QED
    BY <2>1, <2>2
<1>6. CASE ReadReply
  <2>1. HandshakeIsCurrent' /\ LifeCycle'
    BY <1>6 DEF ReadReply, Forget, HandshakeEnds
  <2>2. IdsInOrder'
    BY <1>6 DEF ReadReply, NoRequestForgotten
  <2> QED
    BY <2>1, <2>2
<1>7. CASE ExitEvent
  <2>1. HandshakeIsCurrent'
    BY <1>7 DEF ExitEvent, Forget, HandshakeEnds
  <2>2. LifeCycle'
    BY <1>7 DEF ExitEvent, MayRestart
  <2>3. IdsInOrder'
    BY <1>7 DEF ExitEvent, NoRequestForgotten
  <2> QED
    BY <2>1, <2>2, <2>3
<1>8. ASSUME NEW id \in Ids, PingTimeout(id)
      PROVE  HandshakeIsCurrent' /\ IdsInOrder' /\ LifeCycle'
  BY <1>8 DEF PingTimeout, Forget, HandshakeEnds
<1>9. ASSUME NEW id \in Ids, CallTimeout(id)
      PROVE  HandshakeIsCurrent' /\ IdsInOrder' /\ LifeCycle'
  BY <1>9 DEF CallTimeout, Forget
<1>10. ASSUME NEW id \in Ids, StableTimer(id)
       PROVE  HandshakeIsCurrent' /\ IdsInOrder' /\ LifeCycle'
  BY <1>10 DEF StableTimer
<1>11. CASE Call
  BY <1>11 DEF Call
<1>12. CASE Stop
  BY <1>12 DEF Stop
<1>13. CASE Tick
  BY <1>13 DEF Tick, Down
<1>14. CASE UNCHANGED vars
  BY <1>14 DEF vars
<1> QED
  BY <1>1, <1>3, <1>4, <1>5, <1>6, <1>7, <1>8, <1>9, <1>10, <1>11, <1>12, <1>13,
     <1>14 DEF Next

\* IInv holds in every reachable state.
THEOREM Invariance == Spec => []IInv
<1>1. IInv /\ [Next]_vars => IInv'
  BY NextTypeOK, NextNoRequestForgotten, NextLifeCycle DEF IInv
<1> QED
  BY InitIInv, <1>1, PTL DEF Spec

\* The types of the client's fields, of the pipe and of the timers.
THEOREM TypeCorrect == Spec => []TypeOK
  BY Invariance, PTL DEF IInv

\* No promise of call() and no handshake is forgotten: a request is in the map
\* and has an armed timer, or it was answered, rejected or timed out.
THEOREM RequestsAccounted == Spec => []NoRequestForgotten
  BY Invariance, PTL DEF IInv

\* At most one handshake is outstanding, and its child is the current one.
THEOREM HandshakeCurrent == Spec => []HandshakeIsCurrent
  BY Invariance, PTL DEF IInv

\* A kernel is spawned only when there is no other one.
THEOREM OneChild == Spec => OneChildAtATime
<1> DEFINE A == (\E i \in Ids : kind[i] = "none" /\ kind'[i] = "ping")
                    => child \in {"none", "gone"}
<1>1. IInv /\ [Next]_vars => [A]_vars
  <2> SUFFICES ASSUME IInv, Next PROVE A
    BY DEF vars
  <2> USE DEF IInv, TypeOK, LifeCycle, clientVars, Off
  <2>1. CASE FirstSpawn
    BY <2>1 DEF FirstSpawn
  <2>2. CASE Respawn
    BY <2>2 DEF Respawn
  <2>3. CASE Start \/ BinaryNotFound \/ EngineReply \/ Die \/ Terminate
             \/ ReadReply \/ IgnoreLateReply \/ ExitEvent \/ Stop \/ Tick
    BY <2>3 DEF Start, BinaryNotFound, EngineReply, Die, Terminate, ReadReply,
                IgnoreLateReply, ExitEvent, Stop, Tick
  <2>4. ASSUME NEW id \in Ids, PingTimeout(id) \/ CallTimeout(id) \/ StableTimer(id)
        PROVE  A
    BY <2>4 DEF PingTimeout, CallTimeout, StableTimer
  <2>5. CASE Call
    BY <2>5 DEF Call, Ids
  <2> QED
    BY <2>1, <2>2, <2>3, <2>4, <2>5 DEF Next
<1> QED
  BY <1>1, Invariance, PTL DEF Spec, OneChildAtATime

\* After stop() no kernel is spawned and isReady() stays false.
THEOREM StopFinal == Spec => StopIsFinal
<1> DEFINE A == stopped => /\ ~isReady'
                           /\ child' = "running" => child = "running"
<1>1. IInv /\ IInv' /\ [Next]_vars => [A]_vars
  <2> SUFFICES ASSUME IInv, IInv', Next, stopped
               PROVE  ~isReady' /\ (child' = "running" => child = "running")
    BY DEF vars
  <2> USE DEF IInv, TypeOK, LifeCycle, clientVars, Off
  <2>1. stopped' /\ (child' = "running" => child = "running")
    <3>1. CASE FirstSpawn \/ Respawn
      BY <3>1 DEF FirstSpawn, Respawn, SpawnRefused
    <3>2. CASE Start \/ BinaryNotFound \/ EngineReply \/ Die \/ Terminate
               \/ ReadReply \/ IgnoreLateReply \/ ExitEvent \/ Call \/ Stop \/ Tick
      BY <3>2 DEF Start, BinaryNotFound, EngineReply, Die, Terminate, ReadReply,
                  IgnoreLateReply, ExitEvent, Call, Stop, Tick
    <3>3. ASSUME NEW id \in Ids, PingTimeout(id) \/ CallTimeout(id) \/ StableTimer(id)
          PROVE  stopped' /\ (child' = "running" => child = "running")
      BY <3>3 DEF PingTimeout, CallTimeout, StableTimer
    <3> QED
      BY <3>1, <3>2, <3>3 DEF Next
  <2>2. ~isReady'
    BY <2>1 DEF isReady
  <2> QED
    BY <2>1, <2>2
<1> QED
  BY <1>1, Invariance, PTL DEF Spec, StopIsFinal

\* The refinement mapping has the port's types.
LEMMA PortTypes == IInv => isReady \in BOOLEAN /\ \A i \in Ids : PortState(i) \in Port!CallStates
  BY DEF IInv, TypeOK, isReady, PortState, Port!CallStates

\* A step that touches no call is a change of availability, or a stutter.
LEMMA QuietStep ==
    ASSUME IInv, IInv', \A i \in Ids : PortState(i)' = PortState(i)
    PROVE  Port!PortNext
<1>1. isReady' \in BOOLEAN
  BY DEF IInv, TypeOK, isReady
<1>2. Port!Reject({})
  BY <1>1 DEF Port!Reject
<1>3. {} \in SUBSET Port!Waiting
  OBVIOUS
<1> QED
  BY <1>2, <1>3 DEF Port!PortNext

\* A step that rejects a set of waiting calls.
LEMMA RejectStep ==
    ASSUME IInv, IInv', NEW ids \in SUBSET Ids,
           \A i \in ids : PortState(i) = "waiting" /\ PortState(i)' = "rejected",
           \A i \in Ids \ ids : PortState(i)' = PortState(i)
    PROVE  Port!PortNext
<1>1. isReady' \in BOOLEAN
  BY DEF IInv, TypeOK, isReady
<1>2. ids \in SUBSET Port!Waiting
  BY DEF Port!Waiting
<1>3. Port!Reject(ids)
  BY <1>1, <1>2 DEF Port!Reject
<1> QED
  BY <1>2, <1>3 DEF Port!PortNext

\* Every step of the client is a step of the port or a stutter.
LEMMA PortStep ==
    IInv /\ IInv' /\ [Next]_vars => [Port!PortNext]_(Port!portVars)
<1> SUFFICES ASSUME IInv, IInv', [Next]_vars
             PROVE  [Port!PortNext]_(Port!portVars)
  OBVIOUS
<1> USE DEF IInv, TypeOK, NoRequestForgotten, clientVars
<1>1. CASE Start \/ BinaryNotFound \/ EngineReply \/ Die \/ Terminate
           \/ IgnoreLateReply \/ Stop \/ Tick
  <2>1. \A i \in Ids : PortState(i)' = PortState(i)
    BY <1>1 DEF Start, BinaryNotFound, EngineReply, Die, Terminate,
                IgnoreLateReply, Stop, Tick, PortState
  <2> QED
    BY <2>1, QuietStep
<1>2. CASE FirstSpawn \/ Respawn
  <2>1. CASE SpawnAndPing
    <3>1. nextId \in Ids
      BY <2>1 DEF SpawnAndPing, Ids
    <3>2. kind[nextId] = "none"
      BY <3>1, FreshId
    <3>3. \A i \in Ids : PortState(i)' = PortState(i)
      BY <2>1, <3>1, <3>2 DEF SpawnAndPing, PortState
    <3> QED
      BY <3>3, QuietStep
  <2>2. CASE UNCHANGED <<kind, settled>>
    <3>1. \A i \in Ids : PortState(i)' = PortState(i)
      BY <2>2 DEF PortState
    <3> QED
      BY <3>1, QuietStep
  <2> QED
    BY <1>2, <2>1, <2>2 DEF FirstSpawn, Respawn
<1>3. CASE ReadReply
  <2>1. PICK k \in pending, ok \in BOOLEAN :
             kind' = kind /\ settled' = [settled EXCEPT ![k] = IF ok THEN "result" ELSE "error"]
    <3>1. Head(outbox) \in Replies
      BY <1>3, HeadAndTail DEF ReadReply
    <3> QED
      BY <1>3, <3>1 DEF ReadReply, Replies
  <2>2. k \in Ids /\ settled[k] = "none"
    OBVIOUS
  <2>3. CASE kind[k] # "call"
    <3>1. \A i \in Ids : PortState(i)' = PortState(i)
      BY <2>1, <2>2, <2>3 DEF PortState
    <3> QED
      BY <3>1, QuietStep
  <2>4. CASE kind[k] = "call" /\ ~ok
    <3>1. \A i \in {k} : PortState(i) = "waiting" /\ PortState(i)' = "rejected"
      BY <2>1, <2>2, <2>4 DEF PortState
    <3>2. \A i \in Ids \ {k} : PortState(i)' = PortState(i)
      BY <2>1, <2>2, <2>4 DEF PortState
    <3>3. {k} \in SUBSET Ids
      BY <2>2
    <3> HIDE DEF IInv, NoRequestForgotten, TypeOK
    <3> QED
      BY <3>1, <3>2, <3>3, RejectStep
  <2>5. CASE kind[k] = "call" /\ ok
    <3>1. PortState(k) = "waiting" /\ PortState(k)' = "resolved"
      BY <2>1, <2>2, <2>5 DEF PortState
    <3>2. \A i \in Ids \ {k} : PortState(i)' = PortState(i)
      BY <2>1, <2>2, <2>5 DEF PortState
    <3>3. isReady' \in BOOLEAN
      BY DEF isReady
    <3>4. Port!Resolve(k)
      BY <2>2, <3>1, <3>2, <3>3 DEF Port!Resolve
    <3> QED
      BY <2>2, <3>4 DEF Port!PortNext
  <2> QED
    BY <2>3, <2>4, <2>5
<1>4. CASE ExitEvent
  <2> DEFINE ids == {i \in pending : kind[i] = "call"}
  <2>1. \A i \in ids : PortState(i) = "waiting" /\ PortState(i)' = "rejected"
    BY <1>4 DEF ExitEvent, PortState
  <2>2. \A i \in Ids \ ids : PortState(i)' = PortState(i)
    BY <1>4 DEF ExitEvent, PortState
  <2> QED
    BY <2>1, <2>2, RejectStep
<1>5. ASSUME NEW id \in Ids, PingTimeout(id) \/ StableTimer(id)
      PROVE  [Port!PortNext]_(Port!portVars)
  <2>1. \A i \in Ids : PortState(i)' = PortState(i)
    BY <1>5 DEF PingTimeout, StableTimer, Pings, PortState
  <2> QED
    BY <2>1, QuietStep
<1>6. ASSUME NEW id \in Ids, CallTimeout(id)
      PROVE  [Port!PortNext]_(Port!portVars)
  <2>1. \A i \in {id} : PortState(i) = "waiting" /\ PortState(i)' = "rejected"
    BY <1>6 DEF CallTimeout, PortState
  <2>2. \A i \in Ids \ {id} : PortState(i)' = PortState(i)
    BY <1>6 DEF CallTimeout, PortState
  <2>3. {id} \in SUBSET Ids
    OBVIOUS
  <2> HIDE DEF IInv, NoRequestForgotten, TypeOK
  <2> QED
    BY <2>1, <2>2, <2>3, RejectStep
<1>7. CASE Call
  <2>1. PICK k \in Ids : k = nextId
    BY <1>7 DEF Call, Ids
  <2>2. kind[k] = "none" /\ settled[k] = "none"
    BY <2>1, FreshId
  <2>3. PortState(k) = "unused" /\ PortState(k)' = "waiting"
    BY <1>7, <2>1, <2>2 DEF Call, PortState
  <2>4. \A i \in Ids \ {k} : PortState(i)' = PortState(i)
    BY <1>7, <2>1 DEF Call, PortState
  <2>5. isReady /\ isReady' = isReady
    BY <1>7 DEF Call, isReady
  <2>6. Port!StartCall(k)
    BY <2>3, <2>4, <2>5 DEF Port!StartCall
  <2> QED
    BY <2>6 DEF Port!PortNext
<1>8. CASE UNCHANGED vars
  BY <1>8 DEF vars, Port!portVars, isReady, PortState
<1> QED
  BY <1>1, <1>2, <1>3, <1>4, <1>5, <1>6, <1>7, <1>8 DEF Next

\* KernelClient implements the port that the gateway is written against.
THEOREM Refinement == Spec => ImplementsPort
<1>1. Init => Port!PortInit
  <2>1. Init => isReady = FALSE
    BY DEF Init, isReady
  <2>2. Init => \A i \in Ids : PortState(i) = "unused"
    BY DEF Init, PortState
  <2> QED
    BY <2>1, <2>2 DEF Port!PortInit
<1> QED
  BY <1>1, Invariance, PortStep, PTL DEF Spec, ImplementsPort, Port!PortSpec

=============================================================================
