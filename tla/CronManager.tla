---------------------------- MODULE CronManager ----------------------------
(***************************************************************************)
(* Scheduled jobs (agent-os/packages/core/src/cron): the job registry of    *)
(* cron-manager.ts on top of a schedule driver, which is either the one of  *)
(* timer-driver.ts or one of the user's that fires whenever it likes.       *)
(*                                                                          *)
(* schedule() makes one job object and one driver entry, which share a      *)
(* number here.  Maps go by id, closures by object: a run keeps the object  *)
(* it has started for, a timeout the entry it was set for, and both may     *)
(* outlive what the maps say about the id.  What an action does is left     *)
(* out: it ends some time, well or not.                                     *)
(***************************************************************************)
EXTENDS Integers, Functions

CONSTANTS
    JobIds,
    MaxJobs,     \* bound: calls of schedule()
    MaxRuns      \* bound: runs at the same time

ASSUME CronConstants == JobIds # {} /\ MaxJobs \in Nat /\ MaxRuns \in Nat

VARIABLES
    custom,      \* the driver is the user's
    made,        \* calls of schedule() so far
    job,         \* id, overlap policy and kind of schedule of each job
    jobs,        \* CronManager.jobs: the job of each id, 0 for none
    jobState,    \* running and queued of each job, and its runs by who awaits
                 \* them: the callback of an entry, or nobody (0)
    entries,     \* the driver's entries: the entry of each id, 0 for none
    timers,      \* the driver's timers: the entry whose timeout the map names
    timeouts,    \* entries with a timeout that will fire
    expired,     \* history: entries whose cron expression had no next time
    reused       \* history: an id was scheduled twice

cronVars == <<custom, made, job, jobs, jobState, entries, timers, timeouts, expired,
              reused>>

Jobs == 1 .. MaxJobs
Overlaps == {"allow", "skip", "queue"}
NewState == [running |-> FALSE, queued |-> FALSE, runs |-> [e \in 0 .. MaxJobs |-> 0]]
NewJob == [id |-> CHOOSE i \in JobIds : TRUE, overlap |-> "allow", cron |-> FALSE]
None == [i \in JobIds |-> 0]

CronInit ==
    /\ custom \in BOOLEAN
    /\ made = 0
    /\ job = [o \in Jobs |-> NewJob]
    /\ jobs = None
    /\ jobState = [o \in Jobs |-> NewState]
    /\ entries = None /\ timers = None /\ timeouts = {}
    /\ expired = {}
    /\ reused = FALSE

RunsOf(o) == SumFunction(jobState[o].runs)
AllRuns == SumFunction([o \in Jobs |-> RunsOf(o)])

-----------------------------------------------------------------------------
\* scheduleNext(e): a timeout for the next time, given the maps as they are
\* then; a cron expression without one drops the entry.
ScheduleNext(e, id, cron, known, named, live) ==
    \/ /\ timers' = [named EXCEPT ![id] = e]
       /\ timeouts' = live \cup {e}
       /\ entries' = known
       /\ UNCHANGED expired
    \/ /\ cron
       /\ entries' = [known EXCEPT ![id] = 0]
       /\ expired' = expired \cup {e}
       /\ timers' = named /\ timeouts' = live

\* schedule(): the driver sets the timeout, and both maps name the new job.
Schedule(id, overlap, cron) ==
    LET known == [entries EXCEPT ![id] = made + 1] IN
    /\ made < MaxJobs
    /\ made' = made + 1
    /\ job' = [job EXCEPT ![made + 1] = [id |-> id, overlap |-> overlap, cron |-> cron]]
    /\ jobs' = [jobs EXCEPT ![id] = made + 1]
    /\ IF custom
       THEN entries' = known /\ UNCHANGED <<timers, timeouts, expired>>
       ELSE ScheduleNext(made + 1, id, cron, known, timers, timeouts)
    /\ reused' = (reused \/ \E o \in 1 .. made : job[o].id = id)
    /\ UNCHANGED <<custom, jobState>>

\* cancel(): the timeout that the driver's map names is cleared.
Cancel(id) ==
    /\ jobs[id] # 0
    /\ timeouts' = timeouts \ {timers[id]}
    /\ timers' = [timers EXCEPT ![id] = 0]
    /\ entries' = [entries EXCEPT ![id] = 0]
    /\ jobs' = [jobs EXCEPT ![id] = 0]
    /\ UNCHANGED <<custom, made, job, jobState, expired, reused>>

\* dispose()
Dispose ==
    /\ timeouts' = timeouts \ {timers[i] : i \in JobIds}
    /\ timers' = None /\ entries' = None /\ jobs' = None
    /\ UNCHANGED <<custom, made, job, jobState, expired, reused>>

\* Whether executeJob() begins a run of job o, given the jobs' states s.
Starts(s, o) == o # 0 /\ ~(s[o].running /\ job[o].overlap \in {"skip", "queue"})

\* executeJob(id), called by the callback of entry e or, for e = 0, by nobody
\* who awaits it: up to its await, or its early return.
Execute(s, id, e) ==
    LET o == jobs[id] IN
    IF Starts(s, o) THEN [s EXCEPT ![o].running = TRUE, ![o].runs[e] = @ + 1]
    ELSE IF o # 0 /\ job[o].overlap = "queue" THEN [s EXCEPT ![o].queued = TRUE]
    ELSE s

EntryGone(e, named, live) ==
    /\ entries' = [entries EXCEPT ![job[e].id] = 0]
    /\ timers' = named /\ timeouts' = live
    /\ UNCHANGED expired

\* mutant: the entry is dropped after each fire
AfterCallbackOnce(e, named, live) == EntryGone(e, named, live)
\* The callback is over: a cron entry is scheduled again if the driver still
\* has an entry of that id.
AfterCallback(e, named, live) ==
    IF job[e].cron /\ entries[job[e].id] # 0
    THEN ScheduleNext(e, job[e].id, TRUE, entries, named, live)
    ELSE EntryGone(e, named, live)

\* A timeout fires: the map forgets the timeout of that id, and the entry is
\* scheduled again when executeJob() is through.
TimerFires(e) ==
    LET id == job[e].id
        named == [timers EXCEPT ![id] = 0]
        live == timeouts \ {e}
    IN
    /\ e \in timeouts /\ AllRuns < MaxRuns
    /\ jobState' = Execute(jobState, id, e)
    /\ IF Starts(jobState, jobs[id])
       THEN timers' = named /\ timeouts' = live /\ UNCHANGED <<entries, expired>>
       ELSE AfterCallback(e, named, live)
    /\ UNCHANGED <<custom, made, job, jobs, reused>>

\* External: the user's driver calls the callback of an entry it has.
CustomFires(id) ==
    /\ custom /\ entries[id] # 0 /\ AllRuns < MaxRuns
    /\ jobState' = Execute(jobState, id, 0)
    /\ UNCHANGED <<custom, made, job, jobs, entries, timers, timeouts, expired,
                   reused>>

\* The finally block: running is cleared, and a queued fire is executed.
Finally(o, e) ==
    LET runs == [jobState[o].runs EXCEPT ![e] = @ - 1]
        ended == [jobState EXCEPT ![o] = [running |-> FALSE, queued |-> FALSE, runs |-> runs]]
    IN  IF jobState[o].queued THEN Execute(ended, job[o].id, 0) ELSE ended

\* The action of a run ends; the callback that awaited it goes on.
RunEnds(o, e) ==
    /\ jobState[o].runs[e] > 0
    /\ jobState' = Finally(o, e)
    /\ IF e = 0 THEN UNCHANGED <<entries, timers, timeouts, expired>> ELSE AfterCallback(e, timers, timeouts)
    /\ UNCHANGED <<custom, made, job, jobs, reused>>

CronNext ==
    \/ \E id \in JobIds, overlap \in Overlaps, cron \in BOOLEAN : Schedule(id, overlap, cron)
    \/ \E id \in JobIds : Cancel(id) \/ CustomFires(id)
    \/ Dispose
    \/ \E e \in Jobs : TimerFires(e)
    \/ \E o \in Jobs, e \in 0 .. MaxJobs : RunEnds(o, e)

CronSpec == CronInit /\ [][CronNext]_cronVars

-----------------------------------------------------------------------------
CronTypeOK ==
    /\ custom \in BOOLEAN /\ reused \in BOOLEAN
    /\ made \in 0 .. MaxJobs
    /\ job \in [Jobs -> [id : JobIds, overlap : Overlaps, cron : BOOLEAN]]
    /\ jobState \in [Jobs -> [running : BOOLEAN, queued : BOOLEAN,
                           runs : [0 .. MaxJobs -> Nat]]]
    /\ jobs \in [JobIds -> 0 .. MaxJobs] /\ entries \in [JobIds -> 0 .. MaxJobs]
    /\ timers \in [JobIds -> 0 .. MaxJobs]
    /\ timeouts \subseteq Jobs /\ expired \subseteq Jobs

\* Job o has at most one run, whoever awaits it.
OneRun(o) ==
    \A e, f \in 0 .. MaxJobs :
        jobState[o].runs[e] > 0 /\ jobState[o].runs[f] > 0 => e = f /\ jobState[o].runs[e] = 1

(***************************************************************************)
(* A job with the policy skip or queue has at most one run at a time,       *)
(* whatever driver fires it, though jobs are cancelled, replaced and        *)
(* queued while they run.                                                   *)
(***************************************************************************)
NoOverlap == \A o \in Jobs : job[o].overlap # "allow" => OneRun(o)

(***************************************************************************)
(* The timer driver awaits the callback, so that under it no job overlaps   *)
(* with itself, even one that is allowed to, unless ids are used again.     *)
(***************************************************************************)
TimerSerialises == ~custom /\ ~reused => \A o \in Jobs : OneRun(o)

(***************************************************************************)
(* Unless ids are used again, a timeout belongs to a registered job: a job  *)
(* cancelled in the middle of a run is not scheduled again when it ends.    *)
(***************************************************************************)
CancelledIsSilent == ~reused => \A e \in timeouts : jobs[job[e].id] = e

(***************************************************************************)
(* Unless ids are used again, a cron job under the timer driver always has  *)
(* a timeout ahead of it or a run that sets the next one: it never stops    *)
(* firing unless it is cancelled or its expression has no next time.        *)
(***************************************************************************)
CronGoesOn ==
    ~custom /\ ~reused =>
        \A o \in 1 .. made : (jobs[job[o].id] = o /\ job[o].cron /\ o \notin expired)
                                 => o \in timeouts \/ jobState[o].runs[o] > 0

(***************************************************************************)
(* Scheduled jobs are neither lost nor run where their policy forbids it    *)
(* (cron-manager.ts, timer-driver.ts): no overlap under skip and queue,     *)
(* nothing after a cancel, and a recurring job has its next fire.           *)
(***************************************************************************)
JobsAreKept == CronTypeOK /\ NoOverlap /\ TimerSerialises /\ CancelledIsSilent /\ CronGoesOn

(***************************************************************************)
(* A fire that was queued behind a run leads to a run of its own, unless    *)
(* the job is cancelled or replaced before.                                 *)
(***************************************************************************)
QueuedFireRuns ==
    \A o \in Jobs :
        (jobState[o].queued /\ jobs[job[o].id] = o)
            ~> ((~jobState[o].queued /\ jobState[o].running) \/ jobs[job[o].id] # o)
=============================================================================
