----------------------------- MODULE MCAgentOs -----------------------------
(***************************************************************************)
(* Four parts that share no state, for TLC: the scheduled jobs, the client  *)
(* of an agent process, the system calls of a Worker and the onboarding     *)
(* lock.  A behaviour belongs to one of them; the others stay as they       *)
(* began, so that the state space is the sum and not the product.           *)
(***************************************************************************)
EXTENDS CronManager, AcpClient, SyscallRpc, OnboardLock

VARIABLE part

partVars == <<part, cronVars, acpVars, rpcVars, lockVars>>

Init ==
    /\ part \in {"cron", "acp", "rpc", "lock"}
    /\ CronInit /\ AcpInit /\ RpcInit /\ LockInit
    /\ part # "cron" => ~custom
    /\ part # "lock" => lockFile = NoFile

OnlyCron == part = "cron" /\ UNCHANGED <<part, acpVars, rpcVars, lockVars>>
OnlyAcp == part = "acp" /\ UNCHANGED <<part, cronVars, rpcVars, lockVars>>
OnlyRpc == part = "rpc" /\ UNCHANGED <<part, cronVars, acpVars, lockVars>>
OnlyLock == part = "lock" /\ UNCHANGED <<part, cronVars, acpVars, rpcVars>>

Next ==
    \/ OnlyCron /\ CronNext
    \/ OnlyAcp /\ AcpNext
    \/ OnlyRpc /\ RpcNext
    \/ OnlyLock /\ LockNext

\* Actions of jobs end, timers of the client fire, both threads of a system
\* call run, and a process that is not killed goes on.  Nobody has to call
\* anything, and nothing is assumed of the agent and of the kernel.
FairSpec ==
    /\ Init /\ [][Next]_partVars
    /\ \A o \in Jobs, e \in 0 .. MaxJobs : WF_partVars(OnlyCron /\ RunEnds(o, e))
    /\ \A i \in AcpIds : WF_partVars(OnlyAcp /\ RequestTimeout(i))
    /\ WF_partVars(OnlyRpc /\ WorkerStep)
    /\ WF_partVars(OnlyRpc /\ AnswerStep)
    /\ \A p \in Procs : WF_partVars(OnlyLock /\ LockGoesOn(p))

\* What must eventually happen in each part: a queued fire runs, a request of
\* the agent settles, a call returns and wakes its Worker, a stale lock goes.
PartsGoOn == QueuedFireRuns /\ AcpRequestsSettle /\ CallsReturn /\ AnswerWakes /\ StaleLockGoes
=============================================================================
