------------------------------ MODULE RpcPort ------------------------------
(***************************************************************************)
(* What a request/reply client over a child process promises its callers,   *)
(* whatever happens to the child: a call starts only while the port is       *)
(* available, and it is settled at most once, with a result or with an       *)
(* error.  Availability may change at any time.  KernelClient and AcpClient  *)
(* implement this port and Gateway is written against it.                    *)
(***************************************************************************)
CONSTANT CallIds

VARIABLES
    available,   \* callers may start a call
    call         \* the state of each call

portVars == <<available, call>>

CallStates == {"unused", "waiting", "resolved", "rejected"}

PortTypeOK == available \in BOOLEAN /\ call \in [CallIds -> CallStates]

PortInit == available \in BOOLEAN /\ call = [i \in CallIds |-> "unused"]

Waiting == {i \in CallIds : call[i] = "waiting"}

\* A caller starts call i.
StartCall(i) ==
    /\ available
    /\ call[i] = "unused"
    /\ call' = [call EXCEPT ![i] = "waiting"]
    /\ UNCHANGED available

\* The child answers call i with a result; availability may change as well.
Resolve(i) ==
    /\ call[i] = "waiting"
    /\ call' = [call EXCEPT ![i] = "resolved"]
    /\ available' \in BOOLEAN

\* A set of calls fails together: an error reply, a timeout, or an exit.
Reject(ids) ==
    /\ ids \subseteq Waiting
    /\ call' = [i \in CallIds |-> IF i \in ids THEN "rejected" ELSE call[i]]
    /\ available' \in BOOLEAN

PortNext ==
    \/ \E i \in CallIds : StartCall(i) \/ Resolve(i)
    \/ \E ids \in SUBSET Waiting : Reject(ids)

PortSpec == PortInit /\ [][PortNext]_portVars
=============================================================================
