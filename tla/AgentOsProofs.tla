--------------------------- MODULE AgentOsProofs ---------------------------
(***************************************************************************)
(* Three parts of AgentOS and of the onboarding wizard, each for every      *)
(* value of its constants: the scheduled jobs under both kinds of driver,   *)
(* the client of an agent process, whatever the process writes, and the     *)
(* onboarding lock, for any number of processes that may be killed at any   *)
(* step.                                                                    *)
(***************************************************************************)
EXTENDS CronManager, AcpClient, OnboardLock, FiniteSetTheorems, TLAPS

-----------------------------------------------------------------------------
\* Scheduled jobs

\* What the maps name has been made, and for that id; what has not been made
\* has done nothing.
NamesItsOwn(map) == \A i \in JobIds : map[i] # 0 => map[i] <= made /\ job[map[i]].id = i

StatesOfMade(s) ==
    \A o \in Jobs : /\ o > made => s[o] = NewState
                    /\ \A e \in Jobs : s[o].runs[e] > 0 => e <= made

BooksInv ==
    /\ NamesItsOwn(jobs) /\ NamesItsOwn(entries) /\ NamesItsOwn(timers)
    /\ \A e \in timeouts : e <= made
    /\ StatesOfMade(jobState)

\* Under skip and queue the flag tells of every run.
FlagTells(s) ==
    \A o \in Jobs : job[o].overlap # "allow" =>
        \A e, f \in 0 .. MaxJobs :
            s[o].runs[e] > 0 => /\ s[o].running /\ s[o].runs[e] = 1
                                /\ s[o].runs[f] > 0 => e = f

OverlapInv == FlagTells(jobState)

\* Nothing of the timer driver moves under the user's.
DriverInv == custom => timeouts = {} /\ \A o, e \in Jobs : jobState[o].runs[e] = 0

\* While ids are not used again, the maps of the driver and of the manager agree.
IdsInv ==
    ~reused =>
        /\ \A o, p \in 1 .. made : job[o].id = job[p].id => o = p
        /\ \A e \in timeouts : timers[job[e].id] = e /\ jobs[job[e].id] = e
        /\ \A i \in JobIds : entries[i] # 0 => jobs[i] = entries[i]

\* Then a job runs only for its own entry, which has no timeout meanwhile, so
\* that nothing is ever queued.
SerialInv ==
    ~custom /\ ~reused =>
        \A o \in Jobs :
            /\ ~jobState[o].queued
            /\ jobState[o].running <=> jobState[o].runs[o] = 1
            /\ jobState[o].runs[o] <= 1
            /\ \A e \in 0 .. MaxJobs : e # o => jobState[o].runs[e] = 0
            /\ jobState[o].runs[o] = 1 => o \notin timeouts

\* A registered recurring job is known to the driver, and will fire or is running.
RecurringInv ==
    ~custom /\ ~reused =>
        \A o \in 1 .. made : jobs[job[o].id] = o /\ job[o].cron /\ o \notin expired =>
            entries[job[o].id] = o /\ (o \in timeouts \/ jobState[o].runs[o] > 0)

CronInv == CronTypeOK /\ BooksInv /\ OverlapInv /\ DriverInv /\ IdsInv /\ SerialInv /\ RecurringInv

JobStates == [Jobs -> [running : BOOLEAN, queued : BOOLEAN, runs : [0 .. MaxJobs -> Nat]]]

\* The numbers of jobs and entries.
LEMMA JobNumbers ==
    /\ Jobs \subseteq 0 .. MaxJobs /\ Jobs \subseteq Int /\ 0 \notin Jobs
    /\ 0 \in 0 .. MaxJobs
    /\ \A o \in 0 .. MaxJobs : o # 0 => o \in Jobs
  BY CronConstants DEF Jobs

\* Counting one more keeps a counter for each member of a set.
LEMMA OneMore ==
    ASSUME NEW S, NEW c \in [S -> Nat], NEW e \in S
    PROVE  [c EXCEPT ![e] = c[e] + 1] \in [S -> Nat]
<1>1. c[e] + 1 \in Nat
  OBVIOUS
<1> QED
  BY <1>1

\* A new job has the types of one.
LEMMA NewStateType == NewState \in [running : BOOLEAN, queued : BOOLEAN, runs : [0 .. MaxJobs -> Nat]]
  BY DEF NewState

LEMMA NewStateRuns == \A e \in 0 .. MaxJobs : NewState.runs[e] = 0
<1>1. NewState.runs = [e \in 0 .. MaxJobs |-> 0]
  BY DEF NewState
<1> QED
  BY <1>1

LEMMA NewJobType == NewJob \in [id : JobIds, overlap : Overlaps, cron : BOOLEAN]
<1>1. (CHOOSE i \in JobIds : TRUE) \in JobIds
  BY CronConstants
<1> QED
  BY <1>1 DEF NewJob, Overlaps

LEMMA CronInitInv == CronInit => CronInv
<1> SUFFICES ASSUME CronInit PROVE CronInv
  OBVIOUS
<1>1. made = 0 /\ made \in 0 .. MaxJobs
  BY CronConstants DEF CronInit
<1>2. \A i \in JobIds : jobs[i] = 0 /\ entries[i] = 0 /\ timers[i] = 0
  BY DEF CronInit, None
<1>3. None \in [JobIds -> 0 .. MaxJobs]
  BY JobNumbers DEF None
<1>4. \A o \in Jobs : jobState[o] = NewState /\ job[o] = NewJob
  BY DEF CronInit
<1>5. \A o \in Jobs, e \in 0 .. MaxJobs : jobState[o].runs[e] = 0
  BY <1>4, NewStateRuns
<1>6. CronTypeOK
  <2>1. job \in [Jobs -> [id : JobIds, overlap : Overlaps, cron : BOOLEAN]]
    BY NewJobType DEF CronInit
  <2>2. jobState \in JobStates
    BY NewStateType DEF CronInit, JobStates
  <2> QED
    BY <1>1, <1>3, <2>1, <2>2 DEF CronInit, CronTypeOK, JobStates
<1>7. BooksInv
  BY <1>1, <1>2, <1>4, <1>5, JobNumbers DEF BooksInv, StatesOfMade, NamesItsOwn, CronInit
<1>8. OverlapInv /\ DriverInv
  <2>1. OverlapInv
    BY <1>5 DEF OverlapInv, FlagTells
  <2>2. timeouts = {}
    BY DEF CronInit
  <2> QED
    BY <1>5, <2>1, <2>2, JobNumbers DEF DriverInv
<1>9. 1 .. made = {}
  BY <1>1
<1>10. IdsInv /\ RecurringInv
  BY <1>2, <1>9 DEF IdsInv, RecurringInv, CronInit
<1>11. SerialInv
  <2>1. \A o \in Jobs : jobState[o].queued = FALSE /\ jobState[o].running = FALSE
    BY <1>4 DEF NewState
  <2>2. ASSUME NEW o \in Jobs
        PROVE  /\ ~jobState[o].queued
               /\ jobState[o].running <=> jobState[o].runs[o] = 1
               /\ jobState[o].runs[o] <= 1
               /\ \A e \in 0 .. MaxJobs : e # o => jobState[o].runs[e] = 0
               /\ jobState[o].runs[o] = 1 => o \notin timeouts
    <3>1. jobState[o].runs[o] = 0
      BY <1>5, JobNumbers
    <3> QED
      BY <1>5, <2>1, <3>1 DEF CronInit
  <2> QED
    BY <2>2 DEF SerialInv
<1> QED
  BY <1>6, <1>7, <1>8, <1>10, <1>11 DEF CronInv

\* What a run that begins does to the states of the jobs.
Begun(s, t, o, e) ==
    /\ o \in Jobs
    /\ \A p \in Jobs : p # o => t[p] = s[p]
    /\ t[o].running /\ t[o].queued = s[o].queued
    /\ t[o].runs[e] = s[o].runs[e] + 1
    /\ \A f \in 0 .. MaxJobs : f # e => t[o].runs[f] = s[o].runs[f]

\* What a fire that begins no run does.
Passed(s, t, o) ==
    \A p \in Jobs : /\ t[p].running = s[p].running /\ t[p].runs = s[p].runs
                    /\ t[p] # s[p] => p = o /\ s[p].running /\ job[p].overlap = "queue"

\* executeJob() begins a run of the job it finds, or leaves the runs alone.
LEMMA ExecuteDoes ==
    ASSUME CronTypeOK, NEW s \in JobStates, NEW id \in JobIds, NEW e \in 0 .. MaxJobs
    PROVE  /\ Execute(s, id, e) \in JobStates
           /\ Starts(s, jobs[id]) => Begun(s, Execute(s, id, e), jobs[id], e)
           /\ ~Starts(s, jobs[id]) => Passed(s, Execute(s, id, e), jobs[id])
<1> DEFINE o == jobs[id]
<1>1. o \in 0 .. MaxJobs
  BY DEF CronTypeOK
<1>2. \A p \in Jobs : s[p] \in [running : BOOLEAN, queued : BOOLEAN, runs : [0 .. MaxJobs -> Nat]]
  BY DEF JobStates
<1>3. CASE Starts(s, o)
  <2>1. o \in Jobs
    BY <1>1, <1>3, JobNumbers DEF Starts
  <2>2. Execute(s, id, e) = [s EXCEPT ![o].running = TRUE, ![o].runs[e] = @ + 1]
    BY <1>3 DEF Execute
  <2> HIDE DEF o
  <2>3. [s EXCEPT ![o].running = TRUE, ![o].runs[e] = @ + 1] \in JobStates
    <3>1. [s[o].runs EXCEPT ![e] = @ + 1] \in [0 .. MaxJobs -> Nat]
      <4>1. s[o].runs \in [0 .. MaxJobs -> Nat]
        BY <1>2, <2>1
      <4> QED
        BY <4>1, OneMore
    <3>2. [s[o] EXCEPT !.running = TRUE, !.runs[e] = @ + 1]
              \in [running : BOOLEAN, queued : BOOLEAN, runs : [0 .. MaxJobs -> Nat]]
      BY <1>2, <2>1, <3>1
    <3> QED
      BY <2>1, <3>2 DEF JobStates
  <2>4. Begun(s, [s EXCEPT ![o].running = TRUE, ![o].runs[e] = @ + 1], o, e)
    BY <1>2, <2>1 DEF JobStates, Begun
  <2> QED
    BY <1>3, <2>2, <2>3, <2>4 DEF o
<1>4. CASE ~Starts(s, o) /\ o # 0 /\ job[o].overlap = "queue"
  <2>1. o \in Jobs
    BY <1>1, <1>4, JobNumbers
  <2>2. Execute(s, id, e) = [s EXCEPT ![o].queued = TRUE]
    BY <1>4 DEF Execute
  <2>3. s[o].running
    BY <1>4 DEF Starts
  <2>4. job[o].overlap = "queue"
    BY <1>4
  <2> HIDE DEF o
  <2>5. [s EXCEPT ![o].queued = TRUE] \in JobStates
    BY <1>2, <2>1 DEF JobStates
  <2>6. Passed(s, [s EXCEPT ![o].queued = TRUE], o)
    BY <1>2, <2>1, <2>3, <2>4 DEF JobStates, Passed
  <2> QED
    BY <1>4, <2>2, <2>5, <2>6 DEF o
<1>5. CASE ~Starts(s, o) /\ ~(o # 0 /\ job[o].overlap = "queue")
  <2>1. Execute(s, id, e) = s
    BY <1>5 DEF Execute
  <2> QED
    BY <1>5, <2>1 DEF Passed
<1> QED
  BY <1>3, <1>4, <1>5

\* What the end of a run does before a queued fire is executed.
Ended(s, t, o, e) ==
    /\ \A p \in Jobs : p # o => t[p] = s[p]
    /\ ~t[o].running /\ ~t[o].queued
    /\ t[o].runs[e] = s[o].runs[e] - 1
    /\ \A f \in 0 .. MaxJobs : f # e => t[o].runs[f] = s[o].runs[f]

\* The finally block ends a run, and may begin one that nobody awaits.
LEMMA FinallyDoes ==
    ASSUME CronTypeOK, NEW o \in Jobs, NEW e \in 0 .. MaxJobs, jobState[o].runs[e] > 0
    PROVE  \E s \in JobStates :
               /\ Ended(jobState, s, o, e)
               /\ Finally(o, e) \in JobStates
               /\ \/ Finally(o, e) = s
                  \/ /\ jobState[o].queued
                     /\ \/ Passed(s, Finally(o, e), jobs[job[o].id])
                        \/ /\ Starts(s, jobs[job[o].id])
                           /\ Begun(s, Finally(o, e), jobs[job[o].id], 0)
<1> DEFINE r == jobState[o]
           runs == [r.runs EXCEPT ![e] = @ - 1]
           ended == [jobState EXCEPT ![o] = [running |-> FALSE, queued |-> FALSE, runs |-> runs]]
<1>1. r \in [running : BOOLEAN, queued : BOOLEAN, runs : [0 .. MaxJobs -> Nat]] /\ jobState \in JobStates
  BY DEF CronTypeOK, JobStates
<1>2. r.runs \in [0 .. MaxJobs -> Nat] /\ r.runs[e] - 1 \in Nat
  <2>1. r.runs \in [0 .. MaxJobs -> Nat]
    BY <1>1
  <2>2. r.runs[e] \in Nat
    BY <2>1
  <2> QED
    BY <2>1, <2>2
<1>3. /\ runs \in [0 .. MaxJobs -> Nat] /\ runs[e] = r.runs[e] - 1
      /\ \A f \in 0 .. MaxJobs : f # e => runs[f] = r.runs[f]
  BY <1>2
<1>4. ended = [jobState EXCEPT ![o] = [running |-> FALSE, queued |-> FALSE, runs |-> runs]]
  OBVIOUS
<1> HIDE DEF ended, runs
<1>5. ended \in JobStates
  BY <1>1, <1>3, <1>4 DEF JobStates
<1>6. Ended(jobState, ended, o, e)
  BY <1>1, <1>3, <1>4 DEF Ended, JobStates
<1>7. job[o].id \in JobIds /\ 0 \in 0 .. MaxJobs
  BY JobNumbers DEF CronTypeOK
<1>8. CASE ~jobState[o].queued
  BY <1>5, <1>6, <1>8 DEF Finally, ended, runs
<1>9. CASE jobState[o].queued
  <2>1. Finally(o, e) = Execute(ended, job[o].id, 0)
    BY <1>9 DEF Finally, ended, runs
  <2> QED
    BY <1>5, <1>6, <1>7, <1>9, <2>1, ExecuteDoes
<1> QED
  BY <1>8, <1>9

\* A callback that goes on schedules its entry again, finds no next time for
\* it, or forgets it.
LEMMA AfterCallbackDoes ==
    ASSUME NEW e \in Jobs, NEW named, NEW live, AfterCallback(e, named, live)
    PROVE  LET id == job[e].id IN
           \/ /\ job[e].cron /\ entries[id] # 0
              /\ timers' = [named EXCEPT ![id] = e] /\ timeouts' = live \cup {e}
              /\ entries' = entries /\ expired' = expired
           \/ /\ expired' \in {expired, expired \cup {e}}
              /\ job[e].cron /\ entries[id] # 0 => e \in expired'
              /\ timers' = named /\ timeouts' = live
              /\ entries' = [entries EXCEPT ![id] = 0]
<1>1. CASE job[e].cron /\ entries[job[e].id] # 0
  BY <1>1 DEF AfterCallback, ScheduleNext
<1>2. CASE ~(job[e].cron /\ entries[job[e].id] # 0)
  BY <1>2 DEF AfterCallback, EntryGone
<1> QED
  BY <1>1, <1>2

\* The states of the jobs after a fire, of the timer driver or of the user's.
LEMMA FireDoes ==
    ASSUME CronTypeOK, NEW id \in JobIds, NEW e \in 0 .. MaxJobs,
           jobState' = Execute(jobState, id, e)
    PROVE  /\ jobState' \in JobStates
           /\ Starts(jobState, jobs[id]) => Begun(jobState, jobState', jobs[id], e)
           /\ ~Starts(jobState, jobs[id]) => Passed(jobState, jobState', jobs[id])
<1>1. jobState \in JobStates
  BY DEF CronTypeOK, JobStates
<1> QED
  BY <1>1, ExecuteDoes

\* Setting one id of a map to a job or to nothing keeps the map's type.
LEMMA MapType ==
    ASSUME NEW map \in [JobIds -> 0 .. MaxJobs], NEW id \in JobIds, NEW e \in 0 .. MaxJobs
    PROVE  [map EXCEPT ![id] = e] \in [JobIds -> 0 .. MaxJobs]
  OBVIOUS

\* What schedule() leaves of the driver: untouched maps but for the entry under
\* the user's, a timeout, or nothing for an expression without a next time.
LEMMA ScheduleDoes ==
    ASSUME entries \in [JobIds -> 0 .. MaxJobs], NEW id \in JobIds, NEW overlap, NEW cron,
           Schedule(id, overlap, cron)
    PROVE  \/ /\ custom /\ timers' = timers /\ timeouts' = timeouts /\ expired' = expired
              /\ entries' = [entries EXCEPT ![id] = made + 1]
           \/ /\ ~custom /\ timers' = [timers EXCEPT ![id] = made + 1]
              /\ timeouts' = timeouts \cup {made + 1} /\ expired' = expired
              /\ entries' = [entries EXCEPT ![id] = made + 1]
           \/ /\ ~custom /\ timers' = timers /\ timeouts' = timeouts
              /\ expired' = expired \cup {made + 1}
              /\ entries' = [entries EXCEPT ![id] = 0]
<1>1. CASE custom
  BY <1>1 DEF Schedule
<1>2. CASE ~custom
  <2> DEFINE known == [entries EXCEPT ![id] = made + 1]
  <2>1. ScheduleNext(made + 1, id, cron, known, timers, timeouts)
    BY <1>2 DEF Schedule
  <2>2. [known EXCEPT ![id] = 0] = [entries EXCEPT ![id] = 0]
    OBVIOUS
  <2> HIDE DEF known
  <2>3. CASE timers' = [timers EXCEPT ![id] = made + 1]
             /\ timeouts' = timeouts \cup {made + 1} /\ expired' = expired
             /\ entries' = known
    BY <1>2, <2>3 DEF known
  <2>4. CASE /\ timers' = timers /\ timeouts' = timeouts
             /\ expired' = expired \cup {made + 1}
             /\ entries' = [known EXCEPT ![id] = 0]
    BY <1>2, <2>2, <2>4
  <2> QED
    BY <2>1, <2>3, <2>4 DEF ScheduleNext
<1> QED
  BY <1>1, <1>2

LEMMA NextTypes == CronInv /\ [CronNext]_cronVars => CronTypeOK'
<1> SUFFICES ASSUME CronInv, [CronNext]_cronVars PROVE CronTypeOK'
  OBVIOUS
<1> CronTypeOK
  BY DEF CronInv
<1> USE DEF CronTypeOK
<1>0. /\ None \in [JobIds -> 0 .. MaxJobs] /\ 0 \in 0 .. MaxJobs /\ Jobs \subseteq 0 .. MaxJobs
      /\ jobs \in [JobIds -> 0 .. MaxJobs] /\ entries \in [JobIds -> 0 .. MaxJobs]
      /\ timers \in [JobIds -> 0 .. MaxJobs]
  BY JobNumbers DEF None
<1>1. ASSUME NEW id \in JobIds, NEW overlap \in Overlaps, NEW cron \in BOOLEAN,
             Schedule(id, overlap, cron)
      PROVE  CronTypeOK'
  <2>1. made' = made + 1 /\ made + 1 \in Jobs /\ made + 1 \in 0 .. MaxJobs
    BY <1>1, CronConstants DEF Schedule, Jobs
  <2>2. job' \in [Jobs -> [id : JobIds, overlap : Overlaps, cron : BOOLEAN]]
    BY <1>1, <2>1 DEF Schedule
  <2>3. jobs' \in [JobIds -> 0 .. MaxJobs] /\ [entries EXCEPT ![id] = made + 1] \in [JobIds -> 0 .. MaxJobs]
    BY <1>0, <1>1, <2>1, MapType DEF Schedule
  <2>4. entries' \in [JobIds -> 0 .. MaxJobs] /\ timers' \in [JobIds -> 0 .. MaxJobs]
        /\ timeouts' \subseteq Jobs /\ expired' \subseteq Jobs
    <3>1. [timers EXCEPT ![id] = made + 1] \in [JobIds -> 0 .. MaxJobs]
          /\ [entries EXCEPT ![id] = made + 1] \in [JobIds -> 0 .. MaxJobs]
          /\ [entries EXCEPT ![id] = 0] \in [JobIds -> 0 .. MaxJobs]
      BY <1>0, <2>1, MapType
    <3>2. timeouts \cup {made + 1} \subseteq Jobs /\ expired \cup {made + 1} \subseteq Jobs
      BY <2>1
    <3> HIDE DEF CronTypeOK
    <3> QED
      BY <1>0, <1>1, <3>1, <3>2, ScheduleDoes
  <2>5. reused' \in BOOLEAN /\ custom' \in BOOLEAN /\ jobState' = jobState
    BY <1>1 DEF Schedule
  <2> QED
    BY <2>1, <2>2, <2>3, <2>4, <2>5
<1>2. ASSUME NEW id \in JobIds, Cancel(id) PROVE CronTypeOK'
  <2>1. [jobs EXCEPT ![id] = 0] \in [JobIds -> 0 .. MaxJobs]
        /\ [entries EXCEPT ![id] = 0] \in [JobIds -> 0 .. MaxJobs]
        /\ [timers EXCEPT ![id] = 0] \in [JobIds -> 0 .. MaxJobs]
    BY <1>0, MapType
  <2> QED
    BY <1>2, <2>1 DEF Cancel
<1>3. CASE Dispose
  BY <1>0, <1>3 DEF Dispose
<1>4. ASSUME NEW e \in Jobs, NEW named \in [JobIds -> 0 .. MaxJobs], NEW live \in SUBSET Jobs,
             AfterCallback(e, named, live)
      PROVE  entries' \in [JobIds -> 0 .. MaxJobs] /\ timers' \in [JobIds -> 0 .. MaxJobs]
             /\ timeouts' \subseteq Jobs /\ expired' \subseteq Jobs
  <2>1. job[e].id \in JobIds
    OBVIOUS
  <2>2. [entries EXCEPT ![job[e].id] = 0] \in [JobIds -> 0 .. MaxJobs]
        /\ [named EXCEPT ![job[e].id] = e] \in [JobIds -> 0 .. MaxJobs]
    BY <1>0, <2>1, MapType
  <2>3. {e} \subseteq Jobs /\ expired \subseteq Jobs
    OBVIOUS
  <2>4. CASE timers' = [named EXCEPT ![job[e].id] = e] /\ timeouts' = live \cup {e}
             /\ entries' = entries /\ expired' = expired
    BY <1>0, <2>2, <2>3, <2>4
  <2>5. CASE expired' \in {expired, expired \cup {e}} /\ timers' = named /\ timeouts' = live
             /\ entries' = [entries EXCEPT ![job[e].id] = 0]
    BY <2>2, <2>3, <2>5
  <2> QED
    BY <1>4, <2>4, <2>5, AfterCallbackDoes
<1>5. ASSUME NEW e \in Jobs, TimerFires(e) PROVE CronTypeOK'
  <2>1. job[e].id \in JobIds /\ e \in 0 .. MaxJobs
    BY <1>0
  <2>2. jobState' \in JobStates
    BY <1>5, <2>1, FireDoes DEF TimerFires
  <2>3. [timers EXCEPT ![job[e].id] = 0] \in [JobIds -> 0 .. MaxJobs] /\ timeouts \ {e} \in SUBSET Jobs
    BY <1>0, <2>1, MapType
  <2>4. entries' \in [JobIds -> 0 .. MaxJobs] /\ timers' \in [JobIds -> 0 .. MaxJobs]
        /\ timeouts' \subseteq Jobs /\ expired' \subseteq Jobs
    BY <1>0, <1>4, <1>5, <2>3 DEF TimerFires
  <2> QED
    BY <1>5, <2>2, <2>4 DEF TimerFires, JobStates
<1>6. ASSUME NEW id \in JobIds, CustomFires(id) PROVE CronTypeOK'
  <2>1. jobState' \in JobStates
    BY <1>0, <1>6, FireDoes DEF CustomFires
  <2> QED
    BY <1>6, <2>1 DEF CustomFires, JobStates
<1>7. ASSUME NEW o \in Jobs, NEW e \in 0 .. MaxJobs, RunEnds(o, e) PROVE CronTypeOK'
  <2>1. jobState' \in JobStates
    BY <1>7, FinallyDoes DEF RunEnds
  <2>2. e # 0 => e \in Jobs
    BY JobNumbers
  <2>3. timeouts \in SUBSET Jobs
    OBVIOUS
  <2>4. entries' \in [JobIds -> 0 .. MaxJobs] /\ timers' \in [JobIds -> 0 .. MaxJobs]
        /\ timeouts' \subseteq Jobs /\ expired' \subseteq Jobs
    BY <1>0, <1>4, <1>7, <2>2, <2>3 DEF RunEnds
  <2> QED
    BY <1>7, <2>1, <2>4 DEF RunEnds, JobStates
<1>8. CASE UNCHANGED cronVars
  BY <1>8 DEF cronVars
<1> HIDE DEF CronTypeOK
<1> QED
  BY <1>1, <1>2, <1>3, <1>5, <1>6, <1>7, <1>8 DEF CronNext

\* The flag of a job whose runs may not overlap tells of its run, whatever the
\* fires and the ends of runs do to the states of the jobs.
LEMMA FlagBegun ==
    ASSUME CronTypeOK, NEW s \in JobStates, NEW t \in JobStates, NEW o, NEW e \in 0 .. MaxJobs,
           FlagTells(s), Starts(s, o), Begun(s, t, o, e)
    PROVE  FlagTells(t)
<1>1. \A p \in Jobs, f \in 0 .. MaxJobs : s[p].runs[f] \in Nat /\ t[p].runs[f] \in Nat
  BY DEF JobStates
<1>2. o \in Jobs /\ (job[o].overlap # "allow" => ~s[o].running)
  BY DEF Begun, Starts, CronTypeOK, Overlaps
<1>3. job[o].overlap # "allow" => \A f \in 0 .. MaxJobs : s[o].runs[f] = 0
  BY <1>1, <1>2 DEF FlagTells
<1> QED
  BY <1>1, <1>2, <1>3 DEF FlagTells, Begun

LEMMA FlagPassed ==
    ASSUME NEW s, NEW t, NEW o, FlagTells(s), Passed(s, t, o)
    PROVE  FlagTells(t)
  BY DEF FlagTells, Passed

LEMMA FlagEnded ==
    ASSUME CronTypeOK, NEW s \in JobStates, NEW t \in JobStates, NEW o \in Jobs, NEW e \in 0 .. MaxJobs,
           FlagTells(s), s[o].runs[e] > 0, Ended(s, t, o, e)
    PROVE  FlagTells(t)
<1>1. \A p \in Jobs, f \in 0 .. MaxJobs : s[p].runs[f] \in Nat /\ t[p].runs[f] \in Nat
  BY DEF JobStates
<1>2. job[o].overlap # "allow" => \A f \in 0 .. MaxJobs : t[o].runs[f] = 0
  <2>1. job[o].overlap # "allow" => s[o].runs[e] = 1 /\ \A f \in 0 .. MaxJobs : s[o].runs[f] > 0 => f = e
    BY DEF FlagTells
  <2> QED
    BY <1>1, <2>1 DEF Ended
<1> QED
  BY <1>1, <1>2 DEF FlagTells, Ended

LEMMA NextOverlap == CronInv /\ [CronNext]_cronVars => OverlapInv'
<1> SUFFICES ASSUME CronInv, [CronNext]_cronVars PROVE OverlapInv'
  OBVIOUS
<1>0. CronTypeOK /\ jobState \in JobStates /\ FlagTells(jobState) /\ Jobs \subseteq 0 .. MaxJobs
      /\ \A o \in Jobs : job[o].id \in JobIds
  BY JobNumbers DEF CronInv, CronTypeOK, JobStates, OverlapInv
<1>1. ASSUME job' = job, FlagTells(jobState') PROVE OverlapInv'
  BY <1>1 DEF OverlapInv, FlagTells
<1>2. ASSUME NEW id \in JobIds, NEW overlap \in Overlaps, NEW cron \in BOOLEAN,
             Schedule(id, overlap, cron)
      PROVE  OverlapInv'
  <2>1. made + 1 \in Jobs /\ made + 1 > made /\ jobState' = jobState
    BY <1>0, <1>2, CronConstants DEF Schedule, Jobs, CronTypeOK
  <2>2. jobState[made + 1] = NewState
    BY <2>1 DEF CronInv, BooksInv, StatesOfMade
  <2>3. \A e \in 0 .. MaxJobs : jobState[made + 1].runs[e] = 0
    BY <2>2 DEF NewState
  <2>4. \A o \in Jobs : o # made + 1 => job'[o] = job[o]
    BY <1>0, <1>2 DEF Schedule, CronTypeOK
  <2> QED
    BY <1>0, <2>1, <2>3, <2>4 DEF OverlapInv, FlagTells
<1>3. ASSUME NEW id \in JobIds, Cancel(id) PROVE OverlapInv'
  BY <1>0, <1>1, <1>3 DEF Cancel
<1>4. CASE Dispose
  BY <1>0, <1>1, <1>4 DEF Dispose
<1>5. ASSUME NEW id \in JobIds, NEW e \in 0 .. MaxJobs, jobState' = Execute(jobState, id, e)
      PROVE  FlagTells(jobState')
  BY <1>0, <1>5, FireDoes, FlagBegun, FlagPassed
<1>6. ASSUME NEW e \in Jobs, TimerFires(e) PROVE OverlapInv'
  BY <1>0, <1>1, <1>5, <1>6 DEF TimerFires
<1>7. ASSUME NEW id \in JobIds, CustomFires(id) PROVE OverlapInv'
  BY <1>1, <1>5, <1>7, JobNumbers DEF CustomFires
<1>8. ASSUME NEW o \in Jobs, NEW e \in 0 .. MaxJobs, RunEnds(o, e) PROVE OverlapInv'
  <2>1. jobState' = Finally(o, e) /\ jobState[o].runs[e] > 0 /\ job' = job
    BY <1>8 DEF RunEnds
  <2>2. PICK s \in JobStates :
               /\ Ended(jobState, s, o, e)
               /\ Finally(o, e) \in JobStates
               /\ \/ Finally(o, e) = s
                  \/ /\ jobState[o].queued
                     /\ \/ Passed(s, Finally(o, e), jobs[job[o].id])
                        \/ /\ Starts(s, jobs[job[o].id])
                           /\ Begun(s, Finally(o, e), jobs[job[o].id], 0)
    BY <1>0, <2>1, FinallyDoes
  <2>3. FlagTells(s)
    BY <1>0, <2>1, <2>2, FlagEnded
  <2>4. FlagTells(Finally(o, e))
    BY <1>0, <2>2, <2>3, FlagPassed, FlagBegun, JobNumbers
  <2> QED
    BY <1>1, <2>1, <2>4
<1>9. CASE UNCHANGED cronVars
  BY <1>0, <1>1, <1>9 DEF cronVars
<1> QED
  BY <1>2, <1>3, <1>4, <1>6, <1>7, <1>8, <1>9 DEF CronNext

\* After a step a map names what has been made if what it named before was kept
\* or taken out, or the step has put the right number in.
NamesThen(map) == \A i \in JobIds : map[i] # 0 => map[i] <= made' /\ job'[map[i]].id = i

LEMMA NamesKept ==
    ASSUME NEW map \in [JobIds -> 0 .. MaxJobs], NEW id \in JobIds, NEW e \in 0 .. MaxJobs,
           NamesItsOwn(map), made \in Nat, made' \in Nat, made <= made',
           \A o \in Jobs : o <= made => job'[o].id = job[o].id,
           e # 0 => e <= made' /\ job'[e].id = id
    PROVE  NamesThen(map) /\ NamesThen([map EXCEPT ![id] = e])
<1>1. NamesThen(map)
  BY JobNumbers DEF NamesThen, NamesItsOwn
<1> QED
  BY <1>1 DEF NamesThen

\* What has not been made has done nothing, whatever the states of the jobs become.
LEMMA MadeNumbers ==
    ASSUME CronTypeOK
    PROVE  /\ made \in Nat /\ made \in 0 .. MaxJobs
           /\ 1 .. made \subseteq Jobs /\ 0 .. made \subseteq 0 .. MaxJobs
           /\ \A o \in 1 .. made : ~(o > made)
           /\ \A o \in 0 .. made : o <= made
           /\ \A o \in Jobs : o <= made => o \in 1 .. made
  BY CronConstants DEF CronTypeOK, Jobs

LEMMA MadeBegun ==
    ASSUME CronTypeOK, NEW s \in JobStates, NEW t \in JobStates, NEW o \in 1 .. made, NEW e \in 0 .. made,
           StatesOfMade(s), Begun(s, t, o, e)
    PROVE  StatesOfMade(t)
<1>1. o \in Jobs /\ ~(o > made) /\ e <= made
  BY MadeNumbers
<1>2. \A f \in Jobs : f \in 0 .. MaxJobs
  BY JobNumbers
<1> QED
  BY <1>1, <1>2 DEF StatesOfMade, Begun

LEMMA MadePassed ==
    ASSUME CronTypeOK, NEW s \in JobStates, NEW t \in JobStates, NEW o, StatesOfMade(s), Passed(s, t, o)
    PROVE  StatesOfMade(t)
<1>1. ~NewState.running
  BY DEF NewState
<1> QED
  BY <1>1 DEF StatesOfMade, Passed

LEMMA MadeEnded ==
    ASSUME CronTypeOK, NEW s \in JobStates, NEW t \in JobStates, NEW o \in 1 .. made, NEW e \in 0 .. MaxJobs,
           StatesOfMade(s), Ended(s, t, o, e)
    PROVE  StatesOfMade(t)
<1>0. o \in Jobs /\ ~(o > made)
  BY MadeNumbers
<1>1. \A f \in 0 .. MaxJobs : s[o].runs[f] \in Nat
  BY <1>0 DEF JobStates
<1>2. ASSUME NEW f \in Jobs, t[o].runs[f] > 0 PROVE s[o].runs[f] > 0
  <2>1. f \in 0 .. MaxJobs
    BY JobNumbers
  <2>2. CASE f # e
    BY <1>2, <2>1, <2>2 DEF Ended
  <2>3. CASE f = e
    <3>1. t[o].runs[f] = s[o].runs[f] - 1
      BY <2>3 DEF Ended
    <3>2. s[o].runs[f] \in Nat
      BY <1>1, <2>1
    <3> QED
      BY <1>2, <3>1, <3>2
  <2> QED
    BY <2>2, <2>3
<1> QED
  BY <1>0, <1>2 DEF StatesOfMade, Ended

\* A run is one of a job that was made, and for an entry that was.
LEMMA RunsOfMade ==
    ASSUME CronTypeOK, BooksInv, NEW o \in Jobs, NEW e \in 0 .. MaxJobs, jobState[o].runs[e] > 0
    PROVE  o \in 1 .. made /\ e \in 0 .. made
<1>1. NewState.runs[e] = 0
  BY DEF NewState
<1>2. o <= made
  <2>1. ASSUME o > made PROVE FALSE
    <3>1. jobState[o] = NewState
      BY <2>1 DEF BooksInv, StatesOfMade
    <3> QED
      BY <1>1, <3>1
  <2>2. o \in Nat /\ made \in Nat
    BY CronConstants DEF Jobs, CronTypeOK
  <2> QED
    BY <2>1, <2>2
<1>3. e <= made
  BY JobNumbers DEF BooksInv, StatesOfMade, CronTypeOK
<1> QED
  BY <1>2, <1>3 DEF Jobs, CronTypeOK

LEMMA NextBooks == CronInv /\ [CronNext]_cronVars => BooksInv'
<1> SUFFICES ASSUME CronInv, [CronNext]_cronVars PROVE BooksInv'
  OBVIOUS
<1> CronTypeOK /\ BooksInv
  BY DEF CronInv
<1>0. /\ jobs \in [JobIds -> 0 .. MaxJobs] /\ entries \in [JobIds -> 0 .. MaxJobs]
      /\ timers \in [JobIds -> 0 .. MaxJobs] /\ jobState \in JobStates
      /\ \A o \in Jobs : job[o].id \in JobIds
      /\ made \in 0 .. MaxJobs /\ timeouts \subseteq 1 .. made
      /\ 1 .. made \subseteq Jobs /\ 0 .. made \subseteq 0 .. MaxJobs
      /\ NamesItsOwn(jobs) /\ NamesItsOwn(entries) /\ NamesItsOwn(timers) /\ StatesOfMade(jobState)
  <2>1. \A e \in timeouts : e \in 1 .. made
    BY MadeNumbers DEF BooksInv, CronTypeOK
  <2> QED
    BY <2>1, MadeNumbers DEF CronTypeOK, BooksInv, JobStates
<1>1. \A id \in JobIds : jobs[id] # 0 => jobs[id] \in 1 .. made
  BY <1>0 DEF NamesItsOwn
<1>2. ASSUME NEW id \in JobIds, NEW overlap \in Overlaps, NEW cron \in BOOLEAN,
             Schedule(id, overlap, cron)
      PROVE  BooksInv'
  <2>1. made' = made + 1 /\ made + 1 \in Jobs /\ made' \in 0 .. MaxJobs /\ jobState' = jobState
    BY <1>2, CronConstants DEF Schedule, Jobs, CronTypeOK
  <2>2. /\ \A o \in Jobs : o <= made => job'[o].id = job[o].id
        /\ job'[made + 1].id = id /\ jobs' = [jobs EXCEPT ![id] = made + 1]
    BY <1>0, <1>2, <2>1 DEF Schedule, CronTypeOK
  <2>3. /\ NamesThen(jobs) /\ NamesThen([jobs EXCEPT ![id] = made + 1])
        /\ NamesThen(timers) /\ NamesThen([timers EXCEPT ![id] = made + 1])
        /\ NamesThen([entries EXCEPT ![id] = made + 1]) /\ NamesThen([entries EXCEPT ![id] = 0])
    <3>1. made \in Nat /\ made' \in Nat /\ made <= made' /\ made + 1 <= made'
          /\ made + 1 \in 0 .. MaxJobs /\ 0 \in 0 .. MaxJobs
      BY <2>1, JobNumbers, MadeNumbers
    <3> QED
      BY <1>0, <2>2, <3>1, NamesKept
  <2>4. NamesThen(jobs') /\ NamesThen(timers') /\ NamesThen(entries')
    BY <1>0, <1>2, <2>2, <2>3, ScheduleDoes
  <2>5. \A e \in timeouts' : e <= made'
    <3>1. timeouts' \subseteq timeouts \cup {made + 1}
      BY <1>0, <1>2, ScheduleDoes
    <3>2. \A e \in timeouts \cup {made + 1} : e <= made'
      BY <1>0, <2>1, MadeNumbers
    <3> QED
      BY <3>1, <3>2
  <2>6. StatesOfMade(jobState)'
    BY <1>0, <2>1 DEF StatesOfMade, Jobs
  <2> QED
    BY <2>4, <2>5, <2>6 DEF BooksInv, NamesItsOwn, NamesThen
<1>3. ASSUME UNCHANGED <<made, job>>, NamesThen(jobs'), NamesThen(timers'), NamesThen(entries'),
             timeouts' \subseteq 1 .. made, StatesOfMade(jobState')
      PROVE  BooksInv'
  <2>1. StatesOfMade(jobState)'
    BY <1>3 DEF StatesOfMade
  <2> QED
    BY <1>0, <1>3, <2>1 DEF BooksInv, NamesItsOwn, NamesThen
<1>4. ASSUME UNCHANGED <<made, job>>
      PROVE  /\ NamesThen(jobs) /\ NamesThen(timers) /\ NamesThen(entries)
             /\ \A id \in JobIds : /\ NamesThen([jobs EXCEPT ![id] = 0]) /\ NamesThen([timers EXCEPT ![id] = 0])
                                   /\ NamesThen([entries EXCEPT ![id] = 0])
             /\ NamesThen(None)
  <2>1. made' \in Nat /\ made \in Nat /\ made <= made' /\ 0 \in 0 .. MaxJobs
        /\ \A o \in Jobs : o <= made => job'[o].id = job[o].id
    BY <1>0, <1>4
  <2> QED
    BY <1>0, <2>1, NamesKept, CronConstants DEF NamesThen, None
<1>5. ASSUME NEW id \in JobIds, Cancel(id) PROVE BooksInv'
  <2>1. UNCHANGED <<made, job, jobState>> /\ timeouts' \subseteq timeouts
    BY <1>5 DEF Cancel
  <2> QED
    BY <1>0, <1>3, <1>4, <1>5, <2>1 DEF Cancel
<1>6. CASE Dispose
  BY <1>0, <1>3, <1>4, <1>6 DEF Dispose
<1>7. ASSUME NEW id \in JobIds, NEW e \in 0 .. made, jobState' = Execute(jobState, id, e)
      PROVE  StatesOfMade(jobState')
  <2>1. CASE Starts(jobState, jobs[id])
    <3>1. jobs[id] \in 1 .. made
      BY <1>1, <2>1 DEF Starts
    <3> QED
      BY <1>0, <1>7, <2>1, <3>1, FireDoes, MadeBegun
  <2>2. CASE ~Starts(jobState, jobs[id])
    BY <1>0, <1>7, <2>2, FireDoes, MadePassed
  <2> QED
    BY <2>1, <2>2
<1>8. ASSUME UNCHANGED <<made, job>>, NEW e \in 1 .. made, NEW named \in [JobIds -> 0 .. MaxJobs],
             NamesItsOwn(named), NEW live \in SUBSET (1 .. made), AfterCallback(e, named, live)
      PROVE  NamesThen(timers') /\ NamesThen(entries') /\ timeouts' \subseteq 1 .. made
  <2>1. made' \in Nat /\ made \in Nat /\ made <= made' /\ e \in 0 .. MaxJobs /\ e <= made'
        /\ \A o \in Jobs : o <= made => job'[o].id = job[o].id
    BY <1>0, <1>8
  <2>2. NamesThen(named) /\ NamesThen([named EXCEPT ![job[e].id] = e])
    BY <1>0, <1>8, <2>1, NamesKept
  <2>3. e \in Jobs /\ job[e].id \in JobIds
    BY <1>0
  <2> QED
    <3>1. live \cup {e} \subseteq 1 .. made
      OBVIOUS
    <3>2. NamesThen(entries) /\ NamesThen([entries EXCEPT ![job[e].id] = 0])
      BY <1>4, <1>8, <2>3
    <3>3. \/ timers' = [named EXCEPT ![job[e].id] = e] /\ timeouts' = live \cup {e} /\ entries' = entries
          \/ timers' = named /\ timeouts' = live /\ entries' = [entries EXCEPT ![job[e].id] = 0]
      BY <1>8, <2>3, AfterCallbackDoes
    <3> QED
      BY <2>2, <3>1, <3>2, <3>3
<1>9. ASSUME NEW e \in Jobs, TimerFires(e) PROVE BooksInv'
  <2>1. e \in 1 .. made /\ e \in 0 .. made /\ UNCHANGED <<made, job, jobs>>
    BY <1>0, <1>9 DEF TimerFires
  <2> DEFINE named == [timers EXCEPT ![job[e].id] = 0]
             live == timeouts \ {e}
  <2>2. named \in [JobIds -> 0 .. MaxJobs] /\ live \in SUBSET (1 .. made)
    BY <1>0, MapType, JobNumbers
  <2>3. NamesItsOwn(named) /\ NamesThen(named)
    BY <1>0, <1>4, <2>1 DEF NamesItsOwn
  <2>4. StatesOfMade(jobState')
    BY <1>0, <1>7, <1>9, <2>1 DEF TimerFires
  <2>5. \/ timers' = named /\ timeouts' = live /\ UNCHANGED <<entries, expired>>
        \/ AfterCallback(e, named, live)
    BY <1>9 DEF TimerFires
  <2> HIDE DEF named, live
  <2>6. NamesThen(timers') /\ NamesThen(entries') /\ timeouts' \subseteq 1 .. made
    BY <1>4, <1>8, <2>1, <2>2, <2>3, <2>5
  <2> QED
    BY <1>3, <1>4, <2>1, <2>4, <2>6
<1>10. ASSUME NEW id \in JobIds, CustomFires(id) PROVE BooksInv'
  <2>1. 0 \in 0 .. made
    BY <1>0
  <2> QED
    BY <1>0, <1>3, <1>4, <1>7, <1>10, <2>1 DEF CustomFires
<1>11. ASSUME NEW o \in Jobs, NEW e \in 0 .. MaxJobs, RunEnds(o, e) PROVE BooksInv'
  <2>1. jobState' = Finally(o, e) /\ jobState[o].runs[e] > 0 /\ UNCHANGED <<made, job, jobs>>
    BY <1>11 DEF RunEnds
  <2>2. o \in 1 .. made /\ e \in 0 .. made
    BY <2>1, RunsOfMade
  <2>3. PICK s \in JobStates :
               /\ Ended(jobState, s, o, e)
               /\ Finally(o, e) \in JobStates
               /\ \/ Finally(o, e) = s
                  \/ /\ jobState[o].queued
                     /\ \/ Passed(s, Finally(o, e), jobs[job[o].id])
                        \/ /\ Starts(s, jobs[job[o].id])
                           /\ Begun(s, Finally(o, e), jobs[job[o].id], 0)
    BY <2>1, FinallyDoes
  <2>4. StatesOfMade(s)
    BY <1>0, <2>2, <2>3, MadeEnded
  <2>5. StatesOfMade(Finally(o, e))
    <3>1. Starts(s, jobs[job[o].id]) => jobs[job[o].id] \in 1 .. made
      BY <1>0, <1>1 DEF Starts
    <3>2. 0 \in 0 .. made
      BY <1>0
    <3> QED
      BY <2>3, <2>4, <3>1, <3>2, MadePassed, MadeBegun
  <2>6. NamesThen(timers') /\ NamesThen(entries') /\ timeouts' \subseteq 1 .. made
    <3>1. CASE e = 0
      BY <1>0, <1>4, <1>11, <2>1, <3>1 DEF RunEnds
    <3>2. CASE e # 0
      <4>1. e \in 1 .. made
        BY <2>2, <3>2
      <4>2. AfterCallback(e, timers, timeouts)
        BY <1>11, <3>2 DEF RunEnds
      <4> QED
        BY <1>0, <1>8, <2>1, <4>1, <4>2
    <3> QED
      BY <3>1, <3>2
  <2> QED
    BY <1>3, <1>4, <2>1, <2>5, <2>6
<1>12. CASE UNCHANGED cronVars
  BY <1>0, <1>3, <1>4, <1>12 DEF cronVars
<1> QED
  BY <1>2, <1>5, <1>6, <1>9, <1>10, <1>11, <1>12 DEF CronNext

\* Under the user's driver no timeout is set and no callback of an entry runs.
LEMMA NextDriver == CronInv /\ [CronNext]_cronVars => DriverInv'
<1> SUFFICES ASSUME CronInv, [CronNext]_cronVars, custom' PROVE DriverInv'
  BY DEF DriverInv
<1> CronTypeOK
  BY DEF CronInv
<1>0. custom' = custom
  BY DEF CronNext, cronVars, Schedule, Cancel, Dispose, TimerFires, CustomFires, RunEnds
<1>1. /\ custom /\ timeouts = {} /\ \A o, e \in Jobs : jobState[o].runs[e] = 0
      /\ jobState \in JobStates /\ entries \in [JobIds -> 0 .. MaxJobs]
      /\ \A o \in Jobs : job[o].id \in JobIds
  BY <1>0 DEF CronInv, DriverInv, CronTypeOK, JobStates
<1>2. \A e \in Jobs : e \in 0 .. MaxJobs /\ e # 0
  BY JobNumbers
<1>3. ASSUME NEW id \in JobIds, NEW overlap \in Overlaps, NEW cron \in BOOLEAN,
             Schedule(id, overlap, cron)
      PROVE  DriverInv'
  BY <1>1, <1>3 DEF Schedule, DriverInv
<1>4. ASSUME NEW id \in JobIds, Cancel(id) PROVE DriverInv'
  BY <1>1, <1>4 DEF Cancel, DriverInv
<1>5. CASE Dispose
  BY <1>1, <1>5 DEF Dispose, DriverInv
<1>6. ASSUME NEW e \in Jobs, TimerFires(e) PROVE FALSE
  BY <1>1, <1>6 DEF TimerFires
<1>7. ASSUME NEW s \in JobStates, NEW t, NEW o, \A p, e \in Jobs : s[p].runs[e] = 0,
             Passed(s, t, o) \/ Begun(s, t, o, 0)
      PROVE  \A p, e \in Jobs : t[p].runs[e] = 0
  BY <1>2, <1>7 DEF Passed, Begun
<1>8. ASSUME NEW id \in JobIds, CustomFires(id) PROVE DriverInv'
  <2>1. 0 \in 0 .. MaxJobs /\ jobState' = Execute(jobState, id, 0) /\ timeouts' = timeouts
    BY <1>8, JobNumbers DEF CustomFires
  <2>2. Passed(jobState, jobState', jobs[id]) \/ Begun(jobState, jobState', jobs[id], 0)
    BY <2>1, FireDoes
  <2>3. \A p, e \in Jobs : jobState'[p].runs[e] = 0
    BY <1>1, <1>7, <2>2
  <2> QED
    BY <1>1, <2>1, <2>3 DEF DriverInv
<1>9. ASSUME NEW o \in Jobs, NEW e \in 0 .. MaxJobs, RunEnds(o, e) PROVE DriverInv'
  <2>1. jobState' = Finally(o, e) /\ jobState[o].runs[e] > 0
    BY <1>9 DEF RunEnds
  <2>2. e = 0
    BY <1>1, <2>1, JobNumbers
  <2>3. PICK s \in JobStates :
               /\ Ended(jobState, s, o, e)
               /\ Finally(o, e) \in JobStates
               /\ \/ Finally(o, e) = s
                  \/ /\ jobState[o].queued
                     /\ \/ Passed(s, Finally(o, e), jobs[job[o].id])
                        \/ /\ Starts(s, jobs[job[o].id])
                           /\ Begun(s, Finally(o, e), jobs[job[o].id], 0)
    BY <2>1, FinallyDoes
  <2>4. \A p, f \in Jobs : s[p].runs[f] = 0
    BY <1>1, <1>2, <2>2, <2>3 DEF Ended
  <2>5. \A p, f \in Jobs : jobState'[p].runs[f] = 0
    BY <1>7, <2>1, <2>3, <2>4
  <2>6. timeouts' = {}
    BY <1>1, <1>9, <2>2 DEF RunEnds
  <2> QED
    BY <2>5, <2>6 DEF DriverInv
<1>10. CASE UNCHANGED cronVars
  BY <1>1, <1>10 DEF cronVars, DriverInv
<1> QED
  BY <1>3, <1>4, <1>5, <1>6, <1>8, <1>9, <1>10 DEF CronNext

\* While ids are not used again, the maps of the driver and of the manager agree.
LEMMA NextIds == CronInv /\ [CronNext]_cronVars => IdsInv'
<1> SUFFICES ASSUME CronInv, [CronNext]_cronVars, ~reused' PROVE IdsInv'
  BY DEF IdsInv
<1> CronTypeOK /\ BooksInv
  BY DEF CronInv
<1>0. ~reused
  BY DEF CronNext, cronVars, Schedule, Cancel, Dispose, TimerFires, CustomFires, RunEnds, CronTypeOK
<1>1. /\ \A o, p \in 1 .. made : job[o].id = job[p].id => o = p
      /\ \A e \in timeouts : timers[job[e].id] = e /\ jobs[job[e].id] = e
      /\ \A i \in JobIds : entries[i] # 0 => jobs[i] = entries[i]
      /\ timeouts \subseteq 1 .. made /\ 1 .. made \subseteq Jobs
      /\ \A o \in Jobs : job[o].id \in JobIds
      /\ jobs \in [JobIds -> 0 .. MaxJobs] /\ entries \in [JobIds -> 0 .. MaxJobs]
      /\ timers \in [JobIds -> 0 .. MaxJobs]
  <2>1. \A e \in timeouts : e \in 1 .. made
    BY MadeNumbers DEF BooksInv, CronTypeOK
  <2> QED
    BY <1>0, <2>1, MadeNumbers DEF CronInv, IdsInv, CronTypeOK
<1>2. \A i \in JobIds : entries[i] # 0 => entries[i] \in 1 .. made /\ job[entries[i]].id = i
  BY <1>1, MadeNumbers, JobNumbers DEF BooksInv, NamesItsOwn
<1>3. ASSUME NEW id \in JobIds, NEW overlap \in Overlaps, NEW cron \in BOOLEAN,
             Schedule(id, overlap, cron)
      PROVE  IdsInv'
  <2> DEFINE o == made + 1
  <2>1. made' = o /\ o \in Jobs /\ o \notin 1 .. made /\ 1 .. made' = (1 .. made) \cup {o}
    BY <1>3, CronConstants, MadeNumbers DEF Schedule, Jobs
  <2>2. \A p \in 1 .. made : job[p].id # id
    BY <1>3 DEF Schedule
  <2>3. jobs' = [jobs EXCEPT ![id] = o] /\ job'[o].id = id /\ \A p \in 1 .. made : job'[p] = job[p]
    BY <1>1, <1>3, <2>1 DEF Schedule, CronTypeOK
  <2> HIDE DEF o
  <2>4. \A p, q \in 1 .. made' : job'[p].id = job'[q].id => p = q
    BY <1>1, <2>1, <2>2, <2>3
  <2>5. \/ timers' = timers /\ timeouts' = timeouts
        \/ timers' = [timers EXCEPT ![id] = o] /\ timeouts' = timeouts \cup {o}
    BY <1>1, <1>3, ScheduleDoes DEF o
  <2>6. \A e \in timeouts' : timers'[job'[e].id] = e /\ jobs'[job'[e].id] = e
    <3>1. ASSUME NEW e \in timeouts PROVE timers'[job'[e].id] = e /\ jobs'[job'[e].id] = e
      <4>1. e \in 1 .. made /\ job'[e].id = job[e].id /\ job[e].id # id /\ job[e].id \in JobIds
        BY <1>1, <2>2, <2>3
      <4>2. jobs'[job[e].id] = jobs[job[e].id] /\ timers'[job[e].id] = timers[job[e].id]
        BY <1>1, <2>3, <2>5, <4>1
      <4> QED
        BY <1>1, <4>1, <4>2
    <3>2. jobs'[job'[o].id] = o
      BY <1>1, <2>3
    <3>3. timers' = [timers EXCEPT ![id] = o] => timers'[job'[o].id] = o
      BY <1>1, <2>3
    <3> QED
      BY <2>5, <3>1, <3>2, <3>3
  <2>7. entries' = [entries EXCEPT ![id] = o] \/ entries' = [entries EXCEPT ![id] = 0]
    BY <1>1, <1>3, ScheduleDoes DEF o
  <2>8. \A i \in JobIds : entries'[i] # 0 => jobs'[i] = entries'[i]
    BY <1>1, <2>3, <2>7
  <2> QED
    BY <2>4, <2>6, <2>8 DEF IdsInv
<1>4. ASSUME NEW id \in JobIds, Cancel(id) PROVE IdsInv'
  <2>1. /\ UNCHANGED <<made, job>> /\ timeouts' = timeouts \ {timers[id]}
        /\ timers' = [timers EXCEPT ![id] = 0] /\ entries' = [entries EXCEPT ![id] = 0]
        /\ jobs' = [jobs EXCEPT ![id] = 0]
    BY <1>4 DEF Cancel
  <2>2. \A e \in timeouts' : timers'[job'[e].id] = e /\ jobs'[job'[e].id] = e
    BY <1>1, <2>1
  <2> QED
    BY <1>1, <2>1, <2>2 DEF IdsInv
<1>5. CASE Dispose
  <2>1. /\ UNCHANGED <<made, job>> /\ timeouts' = timeouts \ {timers[i] : i \in JobIds}
        /\ \A i \in JobIds : entries'[i] = 0
    BY <1>5 DEF Dispose, None
  <2>2. timeouts' = {}
    <3>1. \A e \in timeouts : job[e].id \in JobIds /\ timers[job[e].id] = e
      BY <1>1
    <3>2. \A e \in timeouts : e \in {timers[i] : i \in JobIds}
      BY <3>1
    <3> QED
      BY <2>1, <3>2
  <2> QED
    BY <1>1, <2>1, <2>2 DEF IdsInv
<1>6. ASSUME UNCHANGED <<made, job, jobs>>, NEW e \in 1 .. made, jobs[job[e].id] # 0 => jobs[job[e].id] = e,
             NEW named \in [JobIds -> 0 .. MaxJobs], NEW live \in SUBSET timeouts,
             \A f \in live : named[job[f].id] = f, AfterCallback(e, named, live)
      PROVE  IdsInv'
  <2>1. e \in Jobs /\ job[e].id \in JobIds
    BY <1>1
  <2>2. CASE /\ entries[job[e].id] # 0
             /\ timers' = [named EXCEPT ![job[e].id] = e] /\ timeouts' = live \cup {e}
             /\ entries' = entries
    <3>1. jobs[job[e].id] = e
      BY <1>1, <1>2, <2>1, <2>2, <1>6
    <3>2. \A f \in timeouts' : timers'[job'[f].id] = f /\ jobs'[job'[f].id] = f
      BY <1>1, <1>6, <2>1, <2>2, <3>1
    <3> QED
      BY <1>1, <1>6, <2>2, <3>2 DEF IdsInv
  <2>3. CASE timers' = named /\ timeouts' = live /\ entries' = [entries EXCEPT ![job[e].id] = 0]
    <3>1. \A f \in timeouts' : timers'[job'[f].id] = f /\ jobs'[job'[f].id] = f
      BY <1>1, <1>6, <2>3
    <3>2. \A i \in JobIds : entries'[i] # 0 => entries'[i] = entries[i]
      BY <1>1, <2>1, <2>3
    <3> QED
      BY <1>1, <1>6, <3>1, <3>2 DEF IdsInv
  <2> QED
    BY <1>6, <2>1, <2>2, <2>3, AfterCallbackDoes
<1>7. \A e \in 1 .. made : jobs[job[e].id] # 0 => jobs[job[e].id] = e
  <2>1. \A i \in JobIds : jobs[i] # 0 => jobs[i] \in 1 .. made /\ job[jobs[i]].id = i
    BY <1>1, MadeNumbers, JobNumbers DEF BooksInv, NamesItsOwn
  <2> QED
    BY <1>1, <2>1
<1>8. ASSUME NEW e \in Jobs, TimerFires(e) PROVE IdsInv'
  <2>1. e \in timeouts /\ e \in 1 .. made /\ UNCHANGED <<made, job, jobs>>
    BY <1>1, <1>8 DEF TimerFires
  <2> DEFINE named == [timers EXCEPT ![job[e].id] = 0]
             live == timeouts \ {e}
  <2>2. named \in [JobIds -> 0 .. MaxJobs] /\ live \in SUBSET timeouts
        /\ \A f \in live : named[job[f].id] = f
    BY <1>1, <2>1, MapType, JobNumbers
  <2>3. \/ timers' = named /\ timeouts' = live /\ UNCHANGED <<entries, expired>>
        \/ AfterCallback(e, named, live)
    BY <1>8 DEF TimerFires
  <2> HIDE DEF named, live
  <2>4. CASE timers' = named /\ timeouts' = live /\ UNCHANGED <<entries, expired>>
    BY <1>1, <2>1, <2>2, <2>4 DEF IdsInv
  <2> QED
    BY <1>6, <1>7, <2>1, <2>2, <2>3, <2>4
<1>9. ASSUME NEW id \in JobIds, CustomFires(id) PROVE IdsInv'
  BY <1>1, <1>9 DEF CustomFires, IdsInv
<1>10. ASSUME NEW o \in Jobs, NEW e \in 0 .. MaxJobs, RunEnds(o, e) PROVE IdsInv'
  <2>1. jobState[o].runs[e] > 0 /\ UNCHANGED <<made, job, jobs>>
    BY <1>10 DEF RunEnds
  <2>2. e \in 0 .. made
    BY <2>1, RunsOfMade
  <2>3. CASE e = 0
    BY <1>1, <1>10, <2>1, <2>3 DEF RunEnds, IdsInv
  <2>4. CASE e # 0
    <3>1. e \in 1 .. made
      BY <2>2, <2>4
    <3>2. AfterCallback(e, timers, timeouts) /\ timeouts \in SUBSET timeouts
      BY <1>10, <2>4 DEF RunEnds
    <3> QED
      BY <1>1, <1>6, <1>7, <2>1, <3>1, <3>2
  <2> QED
    BY <2>3, <2>4
<1>11. CASE UNCHANGED cronVars
  BY <1>1, <1>11 DEF cronVars, IdsInv
<1> QED
  BY <1>3, <1>4, <1>5, <1>8, <1>9, <1>10, <1>11 DEF CronNext

\* One run at a time under the timer driver, because it awaits the callback.
LEMMA NextSerial == CronInv /\ [CronNext]_cronVars => SerialInv'
<1> SUFFICES ASSUME CronInv, [CronNext]_cronVars, ~custom', ~reused' PROVE SerialInv'
  BY DEF SerialInv
<1> CronTypeOK /\ BooksInv
  BY DEF CronInv
<1>0. ~reused /\ ~custom
  BY DEF CronNext, cronVars, Schedule, Cancel, Dispose, TimerFires, CustomFires, RunEnds, CronTypeOK
<1>1. /\ jobState \in JobStates /\ \A o \in Jobs : job[o].id \in JobIds
      /\ \A e \in timeouts : jobs[job[e].id] = e
      /\ timeouts \subseteq Jobs
      /\ \A o \in Jobs, e \in 0 .. MaxJobs : jobState[o].runs[e] \in Nat
  <2>1. jobState \in JobStates /\ timeouts \subseteq Jobs /\ \A o \in Jobs : job[o].id \in JobIds
    BY DEF CronTypeOK, JobStates
  <2> QED
    BY <1>0, <2>1 DEF CronInv, IdsInv, JobStates
<1>2. \A o \in Jobs :
            /\ ~jobState[o].queued
            /\ jobState[o].running <=> jobState[o].runs[o] = 1
            /\ jobState[o].runs[o] <= 1
            /\ \A e \in 0 .. MaxJobs : e # o => jobState[o].runs[e] = 0
            /\ jobState[o].runs[o] = 1 => o \notin timeouts
  BY <1>0 DEF CronInv, SerialInv
<1>3. ASSUME jobState' = jobState, timeouts' \subseteq timeouts PROVE SerialInv'
  BY <1>2, <1>3 DEF SerialInv
<1>4. ASSUME NEW id \in JobIds, NEW overlap \in Overlaps, NEW cron \in BOOLEAN,
             Schedule(id, overlap, cron)
      PROVE  SerialInv'
  <2>1. jobState' = jobState /\ timeouts' \subseteq timeouts \cup {made + 1}
    <3>1. entries \in [JobIds -> 0 .. MaxJobs]
      BY DEF CronTypeOK
    <3>2. timeouts' = timeouts \/ timeouts' = timeouts \cup {made + 1}
      BY <1>4, <3>1, ScheduleDoes
    <3> QED
      BY <1>4, <3>2 DEF Schedule
  <2>2. made + 1 \in Jobs /\ made + 1 > made
    BY <1>4, CronConstants, MadeNumbers DEF Schedule, Jobs
  <2>3. jobState[made + 1].runs[made + 1] = 0
    <3>1. jobState[made + 1] = NewState
      BY <2>2 DEF BooksInv, StatesOfMade
    <3> QED
      BY <2>2, <3>1, JobNumbers, NewStateRuns
  <2> QED
    BY <1>2, <2>1, <2>3 DEF SerialInv
<1>5. ASSUME NEW id \in JobIds, Cancel(id) PROVE SerialInv'
  BY <1>3, <1>5 DEF Cancel
<1>6. CASE Dispose
  BY <1>3, <1>6 DEF Dispose
<1>7. ASSUME NEW e \in Jobs, TimerFires(e) PROVE SerialInv'
  <2>1. e \in timeouts /\ jobs[job[e].id] = e /\ e \in 0 .. MaxJobs /\ job[e].id \in JobIds
    BY <1>1, <1>7, JobNumbers DEF TimerFires
  <2>2. jobState[e].runs[e] = 0 /\ ~jobState[e].running
    BY <1>1, <1>2, <2>1
  <2>3. Starts(jobState, e)
    BY <2>2, JobNumbers DEF Starts
  <2>4. timeouts' = timeouts \ {e} /\ jobState' = Execute(jobState, job[e].id, e)
    BY <1>7, <2>1, <2>3 DEF TimerFires
  <2>5. Begun(jobState, jobState', e, e)
    BY <2>1, <2>3, <2>4, FireDoes
  <2>6. /\ ~jobState'[e].queued /\ jobState'[e].running /\ jobState'[e].runs[e] = 1
        /\ \A f \in 0 .. MaxJobs : f # e => jobState'[e].runs[f] = 0
    BY <1>2, <2>2, <2>5 DEF Begun
  <2>7. \A o \in Jobs : o # e => jobState'[o] = jobState[o]
    BY <2>5 DEF Begun
  <2> QED
    BY <1>2, <2>4, <2>6, <2>7 DEF SerialInv
<1>8. ASSUME NEW id \in JobIds, CustomFires(id) PROVE FALSE
  BY <1>0, <1>8 DEF CustomFires
<1>9. ASSUME NEW o \in Jobs, NEW e \in 0 .. MaxJobs, RunEnds(o, e) PROVE SerialInv'
  <2>1. jobState' = Finally(o, e) /\ jobState[o].runs[e] > 0
    BY <1>9 DEF RunEnds
  <2>2. e = o /\ jobState[o].runs[o] = 1 /\ e # 0
    BY <1>1, <1>2, <2>1, JobNumbers
  <2>3. Ended(jobState, jobState', o, o) /\ jobState' \in JobStates
    BY <1>2, <2>1, <2>2, FinallyDoes
  <2>4. /\ ~jobState'[o].queued /\ ~jobState'[o].running /\ jobState'[o].runs[o] = 0
        /\ \A f \in 0 .. MaxJobs : f # o => jobState'[o].runs[f] = 0
    BY <1>2, <2>2, <2>3 DEF Ended
  <2>5. \A p \in Jobs : p # o => jobState'[p] = jobState[p]
    BY <2>3 DEF Ended
  <2>6. timeouts' \subseteq timeouts \cup {o}
    <3>1. AfterCallback(o, timers, timeouts)
      BY <1>9, <2>2 DEF RunEnds
    <3>2. timeouts' = timeouts \cup {o} \/ timeouts' = timeouts
      BY <3>1, AfterCallbackDoes
    <3> QED
      BY <3>2
  <2> QED
    BY <1>2, <2>4, <2>5, <2>6 DEF SerialInv
<1>10. CASE UNCHANGED cronVars
  BY <1>3, <1>10 DEF cronVars
<1> QED
  BY <1>4, <1>5, <1>6, <1>7, <1>8, <1>9, <1>10 DEF CronNext

\* A recurring job that is registered has its next fire, or a run that sets it.
LEMMA NextRecurring == CronInv /\ [CronNext]_cronVars => RecurringInv'
<1> SUFFICES ASSUME CronInv, [CronNext]_cronVars, ~custom', ~reused' PROVE RecurringInv'
  BY DEF RecurringInv
<1> CronTypeOK /\ BooksInv
  BY DEF CronInv
<1>0. ~reused /\ ~custom
  BY DEF CronNext, cronVars, Schedule, Cancel, Dispose, TimerFires, CustomFires, RunEnds, CronTypeOK
<1> DEFINE Ahead(o) == entries[job[o].id] = o /\ (o \in timeouts \/ jobState[o].runs[o] > 0)
           Bound(o) == jobs[job[o].id] = o /\ job[o].cron /\ o \notin expired
<1>1. /\ \A o \in 1 .. made : Bound(o) => Ahead(o)
      /\ \A o, p \in 1 .. made : job[o].id = job[p].id => o = p
      /\ \A e \in timeouts : jobs[job[e].id] = e
      /\ jobState \in JobStates /\ \A o \in Jobs : job[o].id \in JobIds
      /\ jobs \in [JobIds -> 0 .. MaxJobs] /\ entries \in [JobIds -> 0 .. MaxJobs]
  BY <1>0 DEF CronInv, RecurringInv, IdsInv, CronTypeOK, JobStates
<1>2. /\ 1 .. made \subseteq Jobs /\ \A o \in Jobs : o # 0 /\ o \in 0 .. MaxJobs
      /\ \A e \in timeouts : e \in 1 .. made
  BY JobNumbers, MadeNumbers DEF BooksInv, CronTypeOK
<1>3. ASSUME UNCHANGED <<made, job>>,
             \A o \in 1 .. made : Bound(o)' => Ahead(o)'
      PROVE  RecurringInv'
  BY <1>3 DEF RecurringInv
<1>4. ASSUME NEW id \in JobIds, NEW overlap \in Overlaps, NEW cron \in BOOLEAN,
             Schedule(id, overlap, cron)
      PROVE  RecurringInv'
  <2>0. PICK n : n = made + 1
    OBVIOUS
  <2>1. made' = n /\ n \in Jobs /\ n \notin 1 .. made /\ 1 .. made' = (1 .. made) \cup {n}
        /\ jobState' = jobState
    BY <1>4, <2>0, CronConstants, MadeNumbers DEF Schedule, Jobs
  <2>2. \A p \in 1 .. made : job[p].id # id
    BY <1>4, <2>0 DEF Schedule
  <2>3. jobs' = [jobs EXCEPT ![id] = n] /\ job'[n].id = id /\ \A p \in 1 .. made : job'[p] = job[p]
    BY <1>1, <1>2, <1>4, <2>0, <2>1 DEF Schedule, CronTypeOK
  <2>4. \/ /\ timeouts' = timeouts \cup {n} /\ entries' = [entries EXCEPT ![id] = n] /\ expired' = expired
        \/ /\ timeouts' = timeouts /\ entries' = [entries EXCEPT ![id] = 0] /\ expired' = expired \cup {n}
    BY <1>0, <1>1, <1>4, <2>0, ScheduleDoes
  <2>5. ASSUME NEW o \in 1 .. made PROVE Bound(o)' => Ahead(o)'
    <3>1. job'[o].id = job[o].id /\ job'[o].cron = job[o].cron /\ job[o].id # id /\ o # n /\ job[o].id \in JobIds
      BY <1>1, <1>2, <2>1, <2>2, <2>3
    <3>2. jobs'[job[o].id] = jobs[job[o].id] /\ entries'[job[o].id] = entries[job[o].id]
      BY <1>1, <2>3, <2>4, <3>1
    <3>3. (o \in expired' <=> o \in expired) /\ (o \in timeouts => o \in timeouts')
      BY <2>4, <3>1
    <3>4. Bound(o)' => Bound(o)
      BY <3>1, <3>2, <3>3
    <3>5. Ahead(o) => Ahead(o)'
      BY <2>1, <3>1, <3>2, <3>3
    <3> QED
      BY <1>1, <3>4, <3>5
  <2>6. Bound(n)' => Ahead(n)'
    BY <1>1, <2>3, <2>4
  <2> QED
    BY <2>1, <2>5, <2>6 DEF RecurringInv
<1>5. ASSUME NEW id \in JobIds, Cancel(id) PROVE RecurringInv'
  <2>1. /\ UNCHANGED <<made, job, jobState, expired>> /\ timeouts' = timeouts \ {timers[id]}
        /\ entries' = [entries EXCEPT ![id] = 0] /\ jobs' = [jobs EXCEPT ![id] = 0]
    BY <1>5 DEF Cancel
  <2>2. \A e \in timeouts : timers[job[e].id] = e
    BY <1>0 DEF CronInv, IdsInv
  <2>3. NamesItsOwn(timers)
    BY DEF BooksInv
  <2>4. ASSUME NEW o \in 1 .. made PROVE Bound(o)' => Ahead(o)'
    <3>1. o \in Jobs /\ o # 0 /\ job[o].id \in JobIds
      BY <1>1, <1>2
    <3>2. CASE job[o].id = id
      BY <1>1, <2>1, <3>1, <3>2
    <3>3. CASE job[o].id # id
      <4>1. o # timers[id]
        BY <2>3, <3>1, <3>3 DEF NamesItsOwn
      <4> QED
        BY <1>1, <2>1, <3>1, <3>3, <4>1
    <3> QED
      BY <3>2, <3>3
  <2> QED
    BY <1>3, <2>1, <2>4
<1>6. CASE Dispose
  <2>1. UNCHANGED <<made, job>> /\ \A i \in JobIds : jobs'[i] = 0
    BY <1>6 DEF Dispose, None
  <2> QED
    BY <1>1, <1>2, <1>3, <2>1
<1>7. ASSUME NEW e \in Jobs, TimerFires(e) PROVE RecurringInv'
  <2>1. e \in timeouts /\ jobs[job[e].id] = e /\ e \in 0 .. MaxJobs /\ job[e].id \in JobIds
        /\ UNCHANGED <<made, job, jobs>>
    BY <1>1, <1>7, JobNumbers DEF TimerFires
  <2>2. jobState[e].runs[e] = 0 /\ ~jobState[e].running
    <3>1. /\ jobState[e].running <=> jobState[e].runs[e] = 1
          /\ jobState[e].runs[e] <= 1 /\ jobState[e].runs[e] # 1
      BY <1>0, <2>1 DEF CronInv, SerialInv
    <3>2. jobState[e].runs[e] \in Nat
      BY <1>1, <2>1 DEF JobStates
    <3> QED
      BY <3>1, <3>2
  <2>3. Starts(jobState, e)
    BY <2>2, JobNumbers DEF Starts
  <2>4. timeouts' = timeouts \ {e} /\ jobState' = Execute(jobState, job[e].id, e)
        /\ UNCHANGED <<entries, expired>>
    BY <1>7, <2>1, <2>3 DEF TimerFires
  <2>5. Begun(jobState, jobState', e, e)
    BY <2>1, <2>3, <2>4, FireDoes
  <2>6. jobState'[e].runs[e] > 0 /\ \A o \in Jobs : o # e => jobState'[o] = jobState[o]
    BY <2>2, <2>5 DEF Begun
  <2>7. \A o \in 1 .. made : Bound(o)' => Ahead(o)'
    BY <1>1, <1>2, <2>1, <2>4, <2>6
  <2> QED
    BY <1>3, <2>1, <2>7
<1>8. ASSUME NEW id \in JobIds, CustomFires(id) PROVE FALSE
  BY <1>0, <1>8 DEF CustomFires
<1>9. ASSUME NEW o \in Jobs, NEW e \in 0 .. MaxJobs, RunEnds(o, e) PROVE RecurringInv'
  <2>1. jobState' = Finally(o, e) /\ jobState[o].runs[e] > 0 /\ UNCHANGED <<made, job, jobs>>
    BY <1>9 DEF RunEnds
  <2>2. o \in 1 .. made
    BY <2>1, RunsOfMade
  <2>3. e = o /\ ~jobState[o].queued /\ e # 0
    BY <1>0, <2>1, JobNumbers DEF CronInv, SerialInv
  <2>4. \A p \in Jobs : p # o => jobState'[p] = jobState[p]
    <3>1. Ended(jobState, jobState', o, o)
      BY <2>1, <2>3, FinallyDoes
    <3> QED
      BY <3>1 DEF Ended
  <2>5. AfterCallback(o, timers, timeouts)
    BY <1>9, <2>3 DEF RunEnds
  <2>6. \/ /\ job[o].cron /\ entries[job[o].id] # 0
           /\ timeouts' = timeouts \cup {o} /\ entries' = entries /\ expired' = expired
        \/ /\ expired' \in {expired, expired \cup {o}} /\ timeouts' = timeouts
           /\ job[o].cron /\ entries[job[o].id] # 0 => o \in expired'
           /\ entries' = [entries EXCEPT ![job[o].id] = 0]
    BY <2>5, AfterCallbackDoes
  <2>7. ASSUME NEW p \in 1 .. made, p # o PROVE Bound(p)' => Ahead(p)'
    <3>1. job[p].id # job[o].id /\ job[p].id \in JobIds /\ job[o].id \in JobIds /\ p \in Jobs
      BY <1>1, <1>2, <2>2, <2>7
    <3>2. entries'[job[p].id] = entries[job[p].id] /\ (p \in expired' <=> p \in expired)
          /\ (p \in timeouts => p \in timeouts') /\ jobState'[p] = jobState[p]
      BY <1>1, <2>4, <2>6, <2>7, <3>1
    <3> QED
      BY <1>1, <2>1, <3>2
  <2>8. Bound(o)' => Ahead(o)'
    <3>1. CASE timeouts' = timeouts \cup {o} /\ entries' = entries /\ expired' = expired
      BY <1>1, <2>1, <2>2, <3>1
    <3>2. CASE /\ expired' \in {expired, expired \cup {o}}
               /\ job[o].cron /\ entries[job[o].id] # 0 => o \in expired'
      BY <1>1, <1>2, <2>1, <2>2, <3>2
    <3> QED
      BY <2>6, <3>1, <3>2
  <2> QED
    BY <1>3, <2>1, <2>7, <2>8
<1>10. CASE UNCHANGED cronVars
  BY <1>1, <1>3, <1>10 DEF cronVars
<1> QED
  BY <1>4, <1>5, <1>6, <1>7, <1>8, <1>9, <1>10 DEF CronNext

\* The inductive invariant of the scheduled jobs.
THEOREM CronInvariance == CronSpec => []CronInv
<1>1. CronInv /\ [CronNext]_cronVars => CronInv'
  BY NextTypes, NextBooks, NextOverlap, NextDriver, NextIds, NextSerial, NextRecurring DEF CronInv
<1> QED
  BY <1>1, CronInitInv, PTL DEF CronSpec

\* Under skip and queue a job has one run at a time, whatever driver fires it;
\* under the timer driver, unless ids are used again, every job has, a
\* cancelled job has no timeout left, and a recurring job has its next fire.
THEOREM KeptJobs == CronSpec => []JobsAreKept
<1>1. ASSUME CronInv PROVE JobsAreKept
  <2>1. CronTypeOK /\ jobState \in JobStates
    BY <1>1 DEF CronInv, CronTypeOK, JobStates
  <2>2. NoOverlap
    BY <1>1 DEF CronInv, OverlapInv, FlagTells, NoOverlap, OneRun
  <2>3. TimerSerialises
    <3>1. SUFFICES ASSUME ~custom, ~reused, NEW o \in Jobs PROVE OneRun(o)
      BY DEF TimerSerialises
    <3>2. jobState[o].runs[o] <= 1 /\ jobState[o].runs[o] \in Nat
          /\ \A e \in 0 .. MaxJobs : e # o => jobState[o].runs[e] = 0
      <4>1. jobState[o].runs[o] \in Nat
        BY <2>1, JobNumbers DEF JobStates
      <4>2. SerialInv
        BY <1>1 DEF CronInv
      <4> QED
        BY <3>1, <4>1, <4>2 DEF SerialInv
    <3> QED
      BY <3>2 DEF OneRun
  <2>4. CancelledIsSilent
    BY <1>1 DEF CronInv, IdsInv, CancelledIsSilent
  <2>5. CronGoesOn
    BY <1>1 DEF CronInv, RecurringInv, CronGoesOn
  <2> QED
    BY <2>1, <2>2, <2>3, <2>4, <2>5 DEF JobsAreKept
<1> QED
  BY <1>1, CronInvariance, PTL

-----------------------------------------------------------------------------
\* The client of an agent process

AcpOutcomes == {"unused", "waiting", "answered", "timed out", "rejected"}

\* The part of the types that the accounts need.
RequestTypes ==
    /\ closed \in BOOLEAN
    /\ stdoutLines \in Seq(Lines) /\ line \in Lines
    /\ nextId \in Nat \ {0}
    /\ pending \subseteq AcpIds
    /\ outcome \in [AcpIds -> AcpOutcomes]

\* Ids are handed out in order.
FreshIds == \A i \in AcpIds : i >= nextId => outcome[i] = "unused"

AcpInv == RequestTypes /\ FreshIds /\ AcpRequestsAccounted

\* The initial state satisfies the invariant.
LEMMA AcpInitInv == AcpInit => AcpInv
<1> SUFFICES ASSUME AcpInit PROVE AcpInv
  OBVIOUS
<1>1. stdoutLines \in Seq(Lines) /\ line \in Lines
  BY DEF AcpInit, Lines
<1>2. outcome \in [AcpIds -> AcpOutcomes] /\ FreshIds
  BY DEF AcpInit, AcpOutcomes, FreshIds
<1>3. closed \in BOOLEAN /\ nextId \in Nat \ {0} /\ pending \subseteq AcpIds
  <2>1. nextId = 1
    BY DEF AcpInit
  <2>2. closed \in BOOLEAN /\ pending \subseteq AcpIds
    BY DEF AcpInit
  <2> QED
    BY ONLY <2>1, <2>2
<1>4. AcpRequestsAccounted
  BY DEF AcpInit, AcpRequestsAccounted
<1> QED
  BY <1>1, <1>2, <1>3, <1>4 DEF AcpInv, RequestTypes

\* What taking a line off the queue yields and leaves.
LEMMA TakeLine ==
    ASSUME stdoutLines \in Seq(Lines), stdoutLines # <<>>
    PROVE  Head(stdoutLines) \in Lines /\ Tail(stdoutLines) \in Seq(Lines)
  OBVIOUS

\* A line that arrives keeps the queue's type.
LEMMA PutLine ==
    ASSUME stdoutLines \in Seq(Lines), NEW l \in Lines
    PROVE  Append(stdoutLines, l) \in Seq(Lines)
  OBVIOUS

\* Every step keeps the books on requests.
LEMMA AcpNextInv == AcpInv /\ [AcpNext]_acpVars => AcpInv'
<1> SUFFICES ASSUME AcpInv, [AcpNext]_acpVars PROVE AcpInv'
  OBVIOUS
<1> USE DEF AcpInv, RequestTypes, FreshIds, AcpRequestsAccounted, AcpOutcomes
<1>1. CASE AgentWrites
  BY <1>1, PutLine DEF AgentWrites
<1>2. CASE AgentDies
  BY <1>2 DEF AgentDies
<1>3. CASE Request
  <2>0. nextId \in Nat \ {0} /\ nextId \in AcpIds /\ nextId' = nextId + 1
    BY <1>3 DEF Request
  <2>1. nextId \in AcpIds /\ nextId' \in Nat \ {0}
    BY ONLY <2>0
  <2>2. \A i \in AcpIds : i >= nextId' => i >= nextId /\ i # nextId
    BY ONLY <2>0, AcpConstants DEF AcpIds
  <2>3. FreshIds' /\ AcpRequestsAccounted'
    BY <1>3, <2>1, <2>2 DEF Request
  <2> QED
    BY <1>3, <2>1, <2>3 DEF Request
<1>4. ASSUME NEW i \in AcpIds, RequestTimeout(i) PROVE AcpInv'
  BY <1>4 DEF RequestTimeout
<1>5. CASE NextLine
  BY <1>5, TakeLine DEF NextLine
<1>6. CASE NoMoreLines
  BY <1>6 DEF NoMoreLines
<1>7. CASE HandleLine
  <2>1. CASE closed \/ line = Notification
    BY <1>7, <2>1 DEF HandleLine, Deliver
  <2>2. CASE ~closed /\ line # Notification
    <3>1. line \in AcpIds
      BY <2>2 DEF Lines
    <3> QED
      BY <1>7, <2>2, <3>1 DEF HandleLine, Deliver
  <2> QED
    BY <2>1, <2>2
<1>8. CASE Close
  BY <1>8 DEF Close, RejectAll
<1>9. CASE WatchExit
  BY <1>9 DEF WatchExit, RejectAll
<1>10. CASE UNCHANGED acpVars
  BY <1>10 DEF acpVars
<1> QED
  BY <1>1, <1>2, <1>3, <1>4, <1>5, <1>6, <1>7, <1>8, <1>9, <1>10 DEF AcpNext

\* The inductive invariant of the client.
THEOREM AcpInvariance == AcpSpec => []AcpInv
  BY AcpInitInv, AcpNextInv, PTL DEF AcpSpec

\* How long the queue is after a line has come or gone.
LEMMA QueueLengths ==
    ASSUME stdoutLines \in Seq(Lines)
    PROVE  /\ Len(stdoutLines) \in Nat
           /\ \A l \in Lines : Len(Append(stdoutLines, l)) = Len(stdoutLines) + 1
           /\ stdoutLines # <<>> => Len(Tail(stdoutLines)) = Len(stdoutLines) - 1
  OBVIOUS

\* The rest of the types.
LEMMA AcpTypes == AcpSpec => []AcpTypeOK
<1>1. AcpInit => AcpTypeOK
  <2> SUFFICES ASSUME AcpInit PROVE AcpTypeOK
    OBVIOUS
  <2>1. /\ 0 \in 0 .. MaxWritten /\ 1 \in 1 .. MaxAcpId + 1 /\ 0 <= MaxLines
    BY AcpConstants
  <2>2. stdoutLines \in Seq(Lines) /\ Len(stdoutLines) = 0 /\ line \in Lines
    BY DEF AcpInit, Lines
  <2> QED
    BY <2>1, <2>2 DEF AcpInit, AcpTypeOK
<1>2. AcpInv /\ AcpTypeOK /\ [AcpNext]_acpVars => AcpTypeOK'
  <2> SUFFICES ASSUME AcpInv, AcpTypeOK, [AcpNext]_acpVars PROVE AcpTypeOK'
    OBVIOUS
  <2>0. /\ stdoutLines \in Seq(Lines) /\ Len(stdoutLines) \in Nat /\ Len(stdoutLines) <= MaxLines
        /\ MaxLines \in Nat /\ MaxWritten \in Nat /\ MaxAcpId \in Nat /\ line \in Lines /\ told \in Nat
    BY AcpConstants, QueueLengths DEF AcpTypeOK
  <2> USE DEF AcpTypeOK
  <2>1. CASE AgentWrites
    <3>1. PICK l \in Lines : stdoutLines' = Append(stdoutLines, l)
      BY <2>1 DEF AgentWrites
    <3>2. stdoutLines' \in Seq(Lines) /\ Len(stdoutLines') = Len(stdoutLines) + 1
      BY <2>0, <3>1, PutLine, QueueLengths
    <3>3. Len(stdoutLines) < MaxLines /\ written < MaxWritten /\ written' = written + 1
          /\ written \in 0 .. MaxWritten
      BY <2>1 DEF AgentWrites
    <3>4. written' \in 0 .. MaxWritten /\ Len(stdoutLines') <= MaxLines
      BY ONLY <2>0, <3>2, <3>3
    <3> QED
      BY <2>1, <3>2, <3>4 DEF AgentWrites
  <2>2. CASE AgentDies
    BY <2>2 DEF AgentDies
  <2>3. CASE Request
    <3>1. nextId \in AcpIds /\ nextId' = nextId + 1
      BY <2>3 DEF Request
    <3>2. nextId' \in 1 .. MaxAcpId + 1
      BY ONLY <2>0, <3>1 DEF AcpIds
    <3> QED
      BY <2>3, <3>1, <3>2 DEF Request
  <2>4. ASSUME NEW i \in AcpIds, RequestTimeout(i) PROVE AcpTypeOK'
    BY <2>4 DEF RequestTimeout
  <2>5. CASE NextLine
    <3>1. Head(stdoutLines) \in Lines /\ Tail(stdoutLines) \in Seq(Lines)
      BY <2>0, <2>5, TakeLine DEF NextLine
    <3>2. Len(Tail(stdoutLines)) = Len(stdoutLines) - 1
      BY <2>0, <2>5, QueueLengths DEF NextLine
    <3>3. Len(Tail(stdoutLines)) <= MaxLines
      BY ONLY <2>0, <3>2
    <3> QED
      BY <2>5, <3>1, <3>3 DEF NextLine
  <2>6. CASE NoMoreLines
    BY <2>6 DEF NoMoreLines
  <2>7. CASE HandleLine
    <3>1. told' \in Nat /\ pending' \subseteq AcpIds /\ reader' \in {"awaiting", "resumed", "ended"}
      <4>1. told' = told \/ told' = told + 1
        BY <2>7 DEF HandleLine, Deliver
      <4>2. told' \in Nat
        BY ONLY <2>0, <4>1
      <4> QED
        BY <2>7, <4>2 DEF HandleLine, Deliver
    <3>2. outcome' \in [AcpIds -> {"unused", "waiting", "answered", "timed out", "rejected"}]
      BY <2>0, <2>7 DEF HandleLine, Deliver, Lines
    <3> QED
      BY <2>7, <3>1, <3>2 DEF HandleLine
  <2>8. CASE Close \/ WatchExit
    BY <2>8 DEF Close, WatchExit, RejectAll
  <2>9. CASE UNCHANGED acpVars
    BY <2>9 DEF acpVars
  <2> HIDE DEF AcpTypeOK
  <2> QED
    BY <2>1, <2>2, <2>3, <2>4, <2>5, <2>6, <2>7, <2>8, <2>9 DEF AcpNext
<1> QED
  BY <1>1, <1>2, AcpInvariance, PTL DEF AcpSpec

\* _pending holds exactly the open requests, and none after close() or exit, so
\* no promise is left that nothing will settle; and no handler hears of a
\* notification once the client is closed, because the reading loop looks at
\* _closed again after its await.
THEOREM AcpAccounted == AcpSpec => ClientIsAccounted
<1>1. AcpInv => AcpRequestsAccounted
  BY DEF AcpInv
<1>2. [AcpNext]_acpVars => [closed => told' = told]_acpVars
  BY DEF AcpNext, acpVars, AgentWrites, AgentDies, Request, RequestTimeout, NextLine,
         NoMoreLines, HandleLine, Close, WatchExit
<1>3. AcpSpec => []AcpRequestsAccounted
  BY <1>1, AcpInvariance, PTL
<1>4. AcpSpec => SilentAfterClose
  BY <1>2, PTL DEF AcpSpec, SilentAfterClose
<1> QED
  BY <1>3, <1>4, AcpTypes, PTL DEF ClientIsAccounted

\* A step that rejects a set of waiting requests, or none, is one of the port.
LEMMA AcpRejectStep ==
    ASSUME AcpInv', NEW ids \in SUBSET AcpIds,
           \A i \in ids : AcpCall(i) = "waiting" /\ AcpCall(i)' = "rejected",
           \A i \in AcpIds \ ids : AcpCall(i)' = AcpCall(i)
    PROVE  AcpPort!PortNext
<1>1. ids \in SUBSET AcpPort!Waiting
  BY DEF AcpPort!Waiting
<1>2. (~closed)' \in BOOLEAN
  BY DEF AcpInv, RequestTypes
<1>3. AcpPort!Reject(ids)
  BY <1>1, <1>2 DEF AcpPort!Reject
<1> QED
  BY <1>1, <1>3 DEF AcpPort!PortNext

\* Every step of the client is a step of the port or a stutter.
LEMMA AcpPortStep ==
    AcpInv /\ AcpInv' /\ [AcpNext]_acpVars => [AcpPort!PortNext]_(AcpPort!portVars)
<1> SUFFICES ASSUME AcpInv, AcpInv', [AcpNext]_acpVars
             PROVE  [AcpPort!PortNext]_(AcpPort!portVars)
  OBVIOUS
<1>0. /\ outcome \in [AcpIds -> AcpOutcomes] /\ pending \subseteq AcpIds
      /\ \A i \in AcpIds : i \in pending <=> outcome[i] = "waiting"
  BY DEF AcpInv, RequestTypes, AcpRequestsAccounted
<1>1. CASE UNCHANGED <<outcome, closed>>
  BY <1>1 DEF AcpPort!portVars, AcpCall
<1>2. CASE AgentWrites \/ AgentDies \/ NextLine \/ NoMoreLines \/ UNCHANGED acpVars
  BY <1>1, <1>2 DEF AgentWrites, AgentDies, NextLine, NoMoreLines, acpVars
<1>3. CASE Request
  <2>1. nextId \in AcpIds /\ ~closed /\ closed' = closed
    BY <1>3 DEF Request
  <2>2. outcome[nextId] = "unused" /\ outcome' = [outcome EXCEPT ![nextId] = "waiting"]
    BY <1>3, <2>1 DEF Request, AcpInv, FreshIds, RequestTypes
  <2>3. PICK k \in AcpIds : k = nextId
    BY <2>1
  <2>4. AcpCall(k) = "unused"
    BY <2>2, <2>3 DEF AcpCall
  <2>5. [i \in AcpIds |-> AcpCall(i)]' = [[i \in AcpIds |-> AcpCall(i)] EXCEPT ![k] = "waiting"]
    <3>1. outcome' = [outcome EXCEPT ![k] = "waiting"]
      BY <2>2, <2>3
    <3> QED
      BY <1>0, <3>1 DEF AcpCall
  <2>6. AcpPort!StartCall(k)
    BY <2>1, <2>4, <2>5 DEF AcpPort!StartCall
  <2> QED
    BY <2>6 DEF AcpPort!PortNext
<1>4. ASSUME NEW i \in AcpIds, RequestTimeout(i) PROVE AcpPort!PortNext
  <2>1. outcome[i] = "waiting" /\ outcome' = [outcome EXCEPT ![i] = "timed out"]
    BY <1>0, <1>4 DEF RequestTimeout
  <2>2. \A k \in {i} : AcpCall(k) = "waiting" /\ AcpCall(k)' = "rejected"
    BY <1>0, <2>1 DEF AcpCall
  <2>3. \A k \in AcpIds \ {i} : AcpCall(k)' = AcpCall(k)
    BY <1>0, <2>1 DEF AcpCall
  <2>4. {i} \in SUBSET AcpIds
    OBVIOUS
  <2> QED
    BY <2>2, <2>3, <2>4, AcpRejectStep
<1>5. CASE HandleLine
  <2>0. closed' = closed
    BY <1>5 DEF HandleLine
  <2>1. CASE outcome' = outcome
    BY <1>1, <2>0, <2>1
  <2>2. CASE outcome' # outcome
    <3>1. ~closed /\ line # Notification /\ line \in AcpIds
      BY <1>5, <2>2 DEF HandleLine, Deliver, AcpInv, RequestTypes, Lines
    <3>2. outcome' = [outcome EXCEPT ![line] = IF line \in pending THEN "answered" ELSE @]
      BY <1>5, <3>1 DEF HandleLine, Deliver
    <3>3. line \in pending
      BY <1>0, <2>2, <3>1, <3>2
    <3>4. PICK k \in AcpIds : k = line
      BY <3>1
    <3>5. outcome[k] = "waiting" /\ outcome' = [outcome EXCEPT ![k] = "answered"]
      BY <1>0, <3>2, <3>3, <3>4
    <3>6. AcpCall(k) = "waiting"
      BY <3>5 DEF AcpCall
    <3>7. [i \in AcpIds |-> AcpCall(i)]' = [[i \in AcpIds |-> AcpCall(i)] EXCEPT ![k] = "resolved"]
      BY <1>0, <3>5 DEF AcpCall
    <3>8. (~closed)' \in BOOLEAN
      BY DEF AcpInv, RequestTypes
    <3>9. AcpPort!Resolve(k)
      BY <3>6, <3>7, <3>8 DEF AcpPort!Resolve
    <3> QED
      BY <3>9 DEF AcpPort!PortNext
  <2> QED
    BY <2>1, <2>2
<1>6. CASE Close \/ WatchExit
  <2>1. outcome' = [i \in AcpIds |-> IF i \in pending THEN "rejected" ELSE outcome[i]]
    BY <1>6 DEF Close, WatchExit, RejectAll
  <2>2. \A i \in pending : AcpCall(i) = "waiting" /\ AcpCall(i)' = "rejected"
    BY <1>0, <2>1 DEF AcpCall
  <2>3. \A i \in AcpIds \ pending : AcpCall(i)' = AcpCall(i)
    BY <1>0, <2>1 DEF AcpCall
  <2>4. pending \in SUBSET AcpIds
    BY <1>0
  <2> QED
    BY <2>2, <2>3, <2>4, AcpRejectStep
<1> QED
  BY <1>2, <1>3, <1>4, <1>5, <1>6 DEF AcpNext

\* AcpClient implements the request port: a request starts only while the
\* client is open and is settled at most once.
THEOREM AcpRefinement == AcpSpec => AcpImplementsPort
<1>1. AcpInit => AcpPort!PortInit
  BY DEF AcpInit, AcpPort!PortInit, AcpCall
<1> QED
  BY <1>1, AcpInvariance, AcpPortStep, PTL DEF AcpSpec, AcpImplementsPort, AcpPort!PortSpec

-----------------------------------------------------------------------------
\* The onboarding lock

\* While every unlink has hit the file that was read, the lock file is that of
\* any living holder.
HolderOwnsFile ==
    ~blind => \A p \in Holders : lockFile = Lock(p, at[p] # "write")

\* A file is unlinked for the dead process it names, or by its own holder.
UnlinkJustified ==
    \A p \in Procs : /\ at[p] = "unlink" => existing[p] \in dead
                     /\ at[p] = "release" => existing[p] = p

\* A process that still tries has an attempt left.
TwoAttempts ==
    \A p \in Procs : at[p] \in {"open", "read", "check", "unlink"} => attempt[p] \in 0 .. 1

LockInv == LockTypeOK /\ TwoAttempts /\ UnlinkJustified /\ HolderOwnsFile

\* Files with different owners are different, and so are files in different
\* states.
LEMMA LocksDiffer ==
    ASSUME NEW p, NEW q, NEW a, NEW b, Lock(p, a) = Lock(q, b)
    PROVE  p = q /\ a = b
<1>1. Lock(p, a).pid = p /\ Lock(p, a).written = a
  BY DEF Lock
<1>2. Lock(q, b).pid = q /\ Lock(q, b).written = b
  BY DEF Lock
<1> QED
  BY <1>1, <1>2

\* A process never creates the file that stands for none.
LEMMA LockIsFile ==
    ASSUME NEW p \in Procs \cup {Former}, NEW w \in BOOLEAN
    PROVE  Lock(p, w) # NoFile /\ Lock(p, w) \in Files
<1>1. p # Nobody
  BY LockConstants
<1> QED
  BY <1>1, LocksDiffer DEF NoFile, Files, Lock

\* The initial states satisfy the invariant.
LEMMA LockInitInv == LockInit => LockInv
<1> SUFFICES ASSUME LockInit PROVE LockInv
  OBVIOUS
<1>1. lockFile \in Files
  BY LockIsFile DEF LockInit, Files
<1>2. NoFile \in Files
  BY DEF Files
<1>3. LockTypeOK
  <2>1. at \in [Procs -> Steps] /\ existing \in [Procs -> Procs \cup {Former}]
    BY DEF LockInit, Steps
  <2>2. attempt \in [Procs -> 0 .. 2]
    BY DEF LockInit
  <2>3. dead \subseteq Procs \cup {Former} /\ blind \in BOOLEAN
    BY DEF LockInit
  <2>4. found \in [Procs -> Files] /\ alone \in [Procs -> BOOLEAN]
    BY <1>2 DEF LockInit
  <2> QED
    BY <1>1, <2>1, <2>2, <2>3, <2>4 DEF LockTypeOK
<1>4. TwoAttempts /\ UnlinkJustified /\ HolderOwnsFile
  BY DEF LockInit, TwoAttempts, UnlinkJustified, HolderOwnsFile, Holders
<1> QED
  BY <1>3, <1>4 DEF LockInv

\* What the end of an attempt does.
LEMMA RetryKeeps ==
    ASSUME LockInv, NEW p \in Procs, Retry(p), at[p] \in {"open", "read", "check", "unlink"}
    PROVE  /\ at' \in [Procs -> Steps] /\ attempt' \in [Procs -> 0 .. 2]
           /\ TwoAttempts'
           /\ at'[p] \in {"open", "gave up"}
           /\ \A q \in Procs \ {p} : at'[q] = at[q]
<1>0. at \in [Procs -> Steps] /\ attempt \in [Procs -> 0 .. 2]
  BY DEF LockInv, LockTypeOK
<1>1. attempt[p] = 0 \/ attempt[p] = 1
  BY DEF LockInv, TwoAttempts
<1>2. CASE attempt[p] = 0
  <2>1. at' = [at EXCEPT ![p] = "open"] /\ attempt' = [attempt EXCEPT ![p] = 1]
    BY <1>0, <1>2 DEF Retry, Goto
  <2>2. TwoAttempts'
    BY <1>0, <2>1 DEF LockInv, TwoAttempts
  <2>3. "open" \in Steps
    BY DEF Steps
  <2> QED
    BY <1>0, <2>1, <2>2, <2>3
<1>3. CASE attempt[p] = 1
  <2>0. attempt[p] + 1 = 2 /\ ~(attempt[p] + 1 < 2)
    BY <1>3
  <2>1. at' = [at EXCEPT ![p] = "gave up"]
    BY <2>0 DEF Retry, Goto
  <2>2. attempt' = [attempt EXCEPT ![p] = 2]
    BY <2>0 DEF Retry
  <2>3. TwoAttempts'
    BY <1>0, <2>1, <2>2 DEF LockInv, TwoAttempts
  <2>4. attempt' \in [Procs -> 0 .. 2]
    BY <1>0, <2>2
  <2>5. "gave up" \in Steps
    BY DEF Steps
  <2> QED
    BY <1>0, <2>1, <2>3, <2>4, <2>5
<1> QED
  BY <1>1, <1>2, <1>3

\* Every step keeps the types.
LEMMA LockNextTypeOK == LockInv /\ [LockNext]_lockVars => LockTypeOK'
<1> SUFFICES ASSUME LockInv, [LockNext]_lockVars PROVE LockTypeOK'
  OBVIOUS
<1> USE DEF LockInv, LockTypeOK, Goto, Steps
<1>0. NoFile \in Files
  BY DEF Files
<1>1. ASSUME NEW p \in Procs, LockStep(p) \/ Kill(p), alone' \in [Procs -> BOOLEAN]
      PROVE  LockTypeOK'
  <2>1. CASE OpenLock(p)
    BY <1>1, <2>1, LockIsFile DEF OpenLock
  <2>2. CASE WriteLock(p)
    BY <1>1, <2>2, LockIsFile DEF WriteLock
  <2>3. CASE ReadLock(p)
    <3>1. CASE ~lockFile.written
      <4>1. Retry(p) /\ at[p] = "read" /\ UNCHANGED <<existing, lockFile, dead, blind, found>>
        BY <2>3, <3>1 DEF ReadLock
      <4>2. at' \in [Procs -> Steps] /\ attempt' \in [Procs -> 0 .. 2]
        BY <4>1, RetryKeeps
      <4> QED
        BY <1>1, <4>1, <4>2
    <3>2. CASE lockFile.written
      <4>1. ASSUME lockFile = NoFile PROVE FALSE
        <5>1. lockFile.written = FALSE
          BY <4>1 DEF NoFile, Lock
        <5> QED
          BY <3>2, <5>1
      <4>2. lockFile.pid \in Procs \cup {Former}
        BY <4>1 DEF Files
      <4>3. /\ existing' = [existing EXCEPT ![p] = lockFile.pid]
            /\ at' = [at EXCEPT ![p] = "check"]
            /\ UNCHANGED <<attempt, lockFile, dead, blind, found>>
        BY <2>3, <3>2 DEF ReadLock
      <4> QED
        BY <1>1, <4>2, <4>3
    <3> QED
      BY <3>1, <3>2
  <2>4. CASE CheckHolder(p)
    BY <1>1, <2>4 DEF CheckHolder
  <2>5. CASE UnlinkStale(p)
    BY <1>1, <1>0, <2>5, RetryKeeps DEF UnlinkStale, Unlink
  <2>6. CASE ReadOwnLock(p)
    BY <1>1, <2>6 DEF ReadOwnLock
  <2>7. CASE UnlinkOwn(p)
    BY <1>1, <1>0, <2>7 DEF UnlinkOwn, Unlink
  <2>8. CASE Kill(p)
    BY <1>1, <2>8 DEF Kill
  <2> QED
    BY <1>1, <2>1, <2>2, <2>3, <2>4, <2>5, <2>6, <2>7, <2>8 DEF LockStep
<1>2. CASE UNCHANGED lockVars
  BY <1>2 DEF lockVars
<1> QED
  BY <1>1, <1>2 DEF LockNext

\* Every step keeps the count of attempts.
LEMMA LockNextAttempts == LockInv /\ [LockNext]_lockVars => TwoAttempts'
<1> SUFFICES ASSUME LockInv, [LockNext]_lockVars PROVE TwoAttempts'
  OBVIOUS
<1> USE DEF LockInv, LockTypeOK, Goto, TwoAttempts
<1>1. ASSUME NEW p \in Procs, LockStep(p) \/ Kill(p) PROVE TwoAttempts'
  <2>1. CASE OpenLock(p) \/ WriteLock(p) \/ CheckHolder(p)
    BY <2>1 DEF OpenLock, WriteLock, CheckHolder
  <2>2. CASE ReadLock(p)
    BY <2>2, RetryKeeps DEF ReadLock
  <2>3. CASE UnlinkStale(p)
    BY <2>3, RetryKeeps DEF UnlinkStale
  <2>4. CASE ReadOwnLock(p) \/ UnlinkOwn(p) \/ Kill(p)
    BY <2>4 DEF ReadOwnLock, UnlinkOwn, Kill
  <2> QED
    BY <1>1, <2>1, <2>2, <2>3, <2>4 DEF LockStep
<1>2. CASE UNCHANGED lockVars
  BY <1>2 DEF lockVars
<1> QED
  BY <1>1, <1>2 DEF LockNext

\* Every step keeps the reasons for which files are unlinked.
LEMMA LockNextJustified == LockInv /\ [LockNext]_lockVars => UnlinkJustified'
<1> SUFFICES ASSUME LockInv, [LockNext]_lockVars PROVE UnlinkJustified'
  OBVIOUS
<1> USE DEF LockInv, LockTypeOK, Goto, UnlinkJustified
<1>1. ASSUME NEW p \in Procs, LockStep(p) \/ Kill(p) PROVE UnlinkJustified'
  <2>1. CASE OpenLock(p)
    BY <2>1 DEF OpenLock
  <2>2. CASE WriteLock(p)
    BY <2>2 DEF WriteLock
  <2>3. CASE ReadLock(p)
    <3>1. CASE ~lockFile.written
      <4>1. Retry(p) /\ at[p] = "read" /\ existing' = existing /\ dead' = dead
        BY <2>3, <3>1 DEF ReadLock
      <4>2. at'[p] \in {"open", "gave up"} /\ \A q \in Procs \ {p} : at'[q] = at[q]
        BY <4>1, RetryKeeps
      <4> QED
        BY <4>1, <4>2
    <3>2. CASE lockFile.written
      <4>1. /\ existing' = [existing EXCEPT ![p] = lockFile.pid] /\ dead' = dead
            /\ at' = [at EXCEPT ![p] = "check"]
        BY <2>3, <3>2 DEF ReadLock
      <4> QED
        BY <4>1
    <3> QED
      BY <3>1, <3>2
  <2>4. CASE CheckHolder(p)
    BY <2>4 DEF CheckHolder
  <2>5. CASE UnlinkStale(p)
    BY <2>5 DEF UnlinkStale, Retry
  <2>6. CASE ReadOwnLock(p)
    BY <2>6 DEF ReadOwnLock
  <2>7. CASE UnlinkOwn(p)
    BY <2>7 DEF UnlinkOwn
  <2>8. CASE Kill(p)
    BY <2>8 DEF Kill
  <2> QED
    BY <1>1, <2>1, <2>2, <2>3, <2>4, <2>5, <2>6, <2>7, <2>8 DEF LockStep
<1>2. CASE UNCHANGED lockVars
  BY <1>2 DEF lockVars
<1> QED
  BY <1>1, <1>2 DEF LockNext

\* Every step keeps the holder's file, or is a blind unlink.
LEMMA LockNextOwns == LockInv /\ [LockNext]_lockVars => HolderOwnsFile'
<1> SUFFICES ASSUME LockInv, [LockNext]_lockVars, ~blind', NEW h \in Holders'
             PROVE  lockFile' = Lock(h, at'[h] # "write")
  BY DEF HolderOwnsFile
<1> USE DEF LockInv, LockTypeOK, Goto, Holders
<1>0. h \in Procs /\ h \notin dead' /\ at'[h] \in {"write", "hold", "release"}
  OBVIOUS
<1>1. ASSUME NEW p \in Procs, LockStep(p) \/ Kill(p)
      PROVE  lockFile' = Lock(h, at'[h] # "write")
  <2>1. CASE OpenLock(p)
    <3>1. CASE lockFile = NoFile
      <4>1. \A q \in Holders : FALSE
        BY <2>1, <3>1, LockIsFile DEF OpenLock, HolderOwnsFile
      <4>2. h = p
        BY <1>0, <2>1, <3>1, <4>1 DEF OpenLock
      <4> QED
        BY <2>1, <3>1, <4>2 DEF OpenLock
    <3>2. CASE lockFile # NoFile
      <4>1. h # p /\ h \in Holders
        BY <1>0, <2>1, <3>2 DEF OpenLock
      <4> QED
        BY <2>1, <3>2, <4>1 DEF OpenLock, HolderOwnsFile
    <3> QED
      BY <3>1, <3>2
  <2>2. CASE WriteLock(p)
    <3>1. CASE h = p
      <4>1. h \in Holders /\ lockFile = Lock(p, FALSE)
        BY <1>0, <2>2, <3>1 DEF WriteLock, HolderOwnsFile
      <4> QED
        BY <2>2, <3>1, <4>1 DEF WriteLock
    <3>2. CASE h # p
      <4>1. h \in Holders /\ at'[h] = at[h]
        BY <1>0, <2>2, <3>2 DEF WriteLock
      <4>2. lockFile = Lock(h, at[h] # "write")
        BY <2>2, <4>1 DEF WriteLock, HolderOwnsFile
      <4>3. lockFile # Lock(p, FALSE)
        BY <3>2, <4>2, LocksDiffer
      <4> QED
        BY <2>2, <4>1, <4>2, <4>3 DEF WriteLock
    <3> QED
      BY <3>1, <3>2
  <2>3. CASE ReadLock(p)
    <3>1. h # p
      BY <1>0, <2>3 DEF ReadLock, Retry
    <3> QED
      BY <1>0, <2>3, <3>1 DEF ReadLock, Retry, HolderOwnsFile
  <2>4. CASE CheckHolder(p)
    BY <1>0, <2>4 DEF CheckHolder, HolderOwnsFile
  <2>5. CASE UnlinkStale(p)
    <3>1. h # p /\ h \in Holders
      BY <1>0, <2>5 DEF UnlinkStale, Retry
    <3>2. lockFile = Lock(h, at[h] # "write")
      BY <2>5, <3>1 DEF UnlinkStale, Unlink, HolderOwnsFile
    <3>3. lockFile = Lock(existing[p], TRUE)
      <4>1. lockFile # NoFile
        BY <1>0, <3>2, LockIsFile
      <4> QED
        BY <2>5, <4>1 DEF UnlinkStale, Unlink
    <3>4. existing[p] \in dead
      BY <2>5 DEF UnlinkStale, UnlinkJustified
    <3>5. lockFile.pid = h /\ lockFile.pid = existing[p]
      BY <3>2, <3>3 DEF Lock
    <3> QED
      BY <3>1, <3>4, <3>5
  <2>6. CASE ReadOwnLock(p)
    BY <1>0, <2>6 DEF ReadOwnLock, HolderOwnsFile
  <2>7. CASE UnlinkOwn(p)
    <3>1. h # p /\ h \in Holders
      BY <1>0, <2>7 DEF UnlinkOwn
    <3>2. lockFile = Lock(h, at[h] # "write")
      BY <2>7, <3>1 DEF UnlinkOwn, Unlink, HolderOwnsFile
    <3>3. lockFile = Lock(existing[p], TRUE)
      <4>1. lockFile # NoFile
        BY <1>0, <3>2, LockIsFile
      <4> QED
        BY <2>7, <4>1 DEF UnlinkOwn, Unlink
    <3>4. existing[p] = p
      BY <2>7 DEF UnlinkOwn, UnlinkJustified
    <3>5. lockFile.pid = h /\ lockFile.pid = existing[p]
      BY <3>2, <3>3 DEF Lock
    <3> QED
      BY <3>1, <3>4, <3>5
  <2>8. CASE Kill(p)
    BY <1>0, <2>8 DEF Kill, HolderOwnsFile
  <2> QED
    BY <1>1, <2>1, <2>2, <2>3, <2>4, <2>5, <2>6, <2>7, <2>8 DEF LockStep
<1>2. CASE UNCHANGED lockVars
  BY <1>2 DEF lockVars, HolderOwnsFile
<1> QED
  BY <1>1, <1>2 DEF LockNext

\* The inductive invariant: who unlinks what, and whose file the lock is.
THEOREM LockInvariance == LockSpec => []LockInv
<1>1. LockInv /\ [LockNext]_lockVars => LockInv'
  BY LockNextTypeOK, LockNextAttempts, LockNextJustified, LockNextOwns DEF LockInv
<1> QED
  BY <1>1, LockInitInv, PTL DEF LockSpec

\* acquireOnboardLock and releaseOnboardLock let two living processes hold the
\* lock only after an unlink of another file than the one that was read, for
\* any number of processes and kills.
THEOREM MutualExclusion == LockSpec => []OneHolder
<1>1. LockInv => OneHolder
  <2>0. LockInv => LockTypeOK
    BY DEF LockInv
  <2> SUFFICES ASSUME LockInv, ~blind PROVE Cardinality(Holders) <= 1
    BY <2>0 DEF OneHolder
  <2>1. \A p, q \in Holders : p = q
    BY LocksDiffer DEF LockInv, HolderOwnsFile
  <2>2. CASE Holders = {}
    BY <2>2, FS_EmptySet
  <2>3. CASE Holders # {}
    <3>1. PICK p \in Holders : TRUE
      BY <2>3
    <3>2. Holders = {p}
      BY <2>1, <3>1
    <3>3. Cardinality({p}) = 1
      BY FS_Singleton
    <3> QED
      BY <3>2, <3>3
  <2> QED
    BY <2>2, <2>3
<1> QED
  BY <1>1, LockInvariance, PTL

-----------------------------------------------------------------------------
(* What an undisturbed process is told *)

\* The lock file that the process found names a process that is dead.
FoundStale(p) == found[p].written /\ found[p].pid \in dead

\* The lock file that the process found has no pid in it.
FoundUnwritten(p) == found[p] # NoFile /\ ~found[p].written

\* Where an undisturbed process is tells what it found, and what has become of
\* that file since.
Tracked(p) ==
    /\ at[p] = "open" => \/ attempt[p] = 0
                         \/ FoundUnwritten(p) /\ lockFile = found[p]
                         \/ FoundStale(p) /\ lockFile = NoFile
    /\ at[p] = "read" => /\ found[p] # NoFile /\ lockFile = found[p]
                         /\ attempt[p] = 0 \/ FoundUnwritten(p)
    /\ at[p] = "check" => attempt[p] = 0 /\ found[p].written /\ existing[p] = found[p].pid
    /\ at[p] = "unlink" => attempt[p] = 0 /\ FoundStale(p)
    /\ at[p] = "refused" => found[p].written /\ found[p].pid \notin dead
    /\ at[p] = "gave up" => FoundUnwritten(p)
    /\ at[p] \in {"write", "hold", "release", "done"} => found[p] = NoFile \/ FoundStale(p)

AloneInv == LockInv /\ \A p \in Procs : alone[p] => Tracked(p)

\* A process that is not the one that moves keeps its track: nothing it depends
\* on changes, or it is not alone any more.
LEMMA OthersTracked ==
    ASSUME LockInv, NEW p \in Procs, NEW q \in Procs, q # p, Tracked(q),
           at'[q] = at[q], attempt'[q] = attempt[q], existing'[q] = existing[q], found'[q] = found[q],
           \/ at[q] = "open" /\ attempt[q] = 0
           \/ lockFile' = lockFile /\ dead' = dead
    PROVE  Tracked(q)'
BY DEF Tracked, FoundStale, FoundUnwritten

\* A step of p leaves the local state of the other processes alone.
LEMMA StepIsLocal ==
    ASSUME LockInv, NEW p \in Procs, LockStep(p) \/ Kill(p), NEW q \in Procs, q # p
    PROVE  at'[q] = at[q] /\ attempt'[q] = attempt[q] /\ existing'[q] = existing[q] /\ found'[q] = found[q]
BY DEF LockInv, LockTypeOK, LockStep, Kill, OpenLock, WriteLock, ReadLock, CheckHolder, UnlinkStale,
       ReadOwnLock, UnlinkOwn, Unlink, Retry, Goto

\* The step of an undisturbed process follows what it found.
LEMMA OwnTracked ==
    ASSUME LockInv, NEW p \in Procs, Tracked(p), LockStep(p) \/ Kill(p)
    PROVE  Tracked(p)'
<1> USE DEF Goto
<1>0. /\ at \in [Procs -> Steps] /\ attempt \in [Procs -> 0 .. 2] /\ found \in [Procs -> Files]
      /\ existing \in [Procs -> Procs \cup {Former}]
      /\ at[p] \in {"open", "read", "check", "unlink"} => attempt[p] \in 0 .. 1
  BY DEF LockInv, LockTypeOK, TwoAttempts
<1>1. CASE OpenLock(p)
  <2>1. CASE attempt[p] = 0
    <3>1. found'[p] = lockFile /\ attempt'[p] = 0
      BY <1>0, <1>1, <2>1 DEF OpenLock
    <3>2. CASE lockFile = NoFile
      <4>1. at'[p] = "write"
        BY <1>0, <1>1, <3>2 DEF OpenLock
      <4> QED BY <3>1, <3>2, <4>1 DEF Tracked
    <3>3. CASE lockFile # NoFile
      <4>1. at'[p] = "read" /\ lockFile' = lockFile
        BY <1>0, <1>1, <3>3 DEF OpenLock
      <4> QED BY <3>1, <3>3, <4>1 DEF Tracked
    <3> QED BY <3>2, <3>3
  <2>2. CASE attempt[p] # 0
    <3>1. found'[p] = found[p] /\ attempt'[p] = attempt[p] /\ dead' = dead /\ at[p] = "open"
      BY <1>0, <1>1, <2>2 DEF OpenLock
    <3>2. CASE lockFile = NoFile
      <4>1. at'[p] = "write"
        BY <1>0, <1>1, <3>2 DEF OpenLock
      <4> QED BY <2>2, <3>1, <3>2, <4>1 DEF Tracked, FoundStale, FoundUnwritten
    <3>3. CASE lockFile # NoFile
      <4>1. at'[p] = "read" /\ lockFile' = lockFile
        BY <1>0, <1>1, <3>3 DEF OpenLock
      <4> QED BY <2>2, <3>1, <3>3, <4>1 DEF Tracked, FoundStale, FoundUnwritten
    <3> QED BY <3>2, <3>3
  <2> QED BY <2>1, <2>2
<1>2. CASE ReadLock(p)
  <2>1. found'[p] = found[p] /\ lockFile' = lockFile /\ dead' = dead /\ at[p] = "read"
    BY <1>2 DEF ReadLock
  <2>2. lockFile = found[p] /\ found[p] # NoFile
    BY <2>1 DEF Tracked
  <2>3. CASE ~lockFile.written
    <3>1. Retry(p)
      BY <1>2, <2>3 DEF ReadLock
    <3>2. at'[p] \in {"open", "gave up"}
      BY <1>0, <3>1 DEF Retry
    <3> QED BY <2>1, <2>2, <2>3, <3>2 DEF Tracked, FoundStale, FoundUnwritten
  <2>4. CASE lockFile.written
    <3>1. at'[p] = "check" /\ existing'[p] = lockFile.pid /\ attempt'[p] = attempt[p]
      BY <1>0, <1>2, <2>4 DEF ReadLock
    <3>2. attempt[p] = 0
      BY <2>1, <2>2, <2>4 DEF Tracked, FoundUnwritten
    <3> QED BY <2>1, <2>2, <2>4, <3>1, <3>2 DEF Tracked
  <2> QED BY <2>3, <2>4
<1>3. CASE CheckHolder(p)
  <2>1. /\ found'[p] = found[p] /\ dead' = dead /\ at[p] = "check" /\ attempt'[p] = attempt[p]
        /\ at'[p] = IF existing[p] \in dead THEN "unlink" ELSE "refused"
    BY <1>0, <1>3 DEF CheckHolder
  <2> QED BY <2>1 DEF Tracked, FoundStale
<1>4. CASE UnlinkStale(p)
  <2>1. found'[p] = found[p] /\ dead' = dead /\ at[p] = "unlink" /\ lockFile' = NoFile /\ Retry(p)
    BY <1>4 DEF UnlinkStale, Unlink
  <2>2. attempt[p] = 0 /\ FoundStale(p)
    BY <2>1 DEF Tracked
  <2>3. at'[p] = "open"
    BY <1>0, <2>1, <2>2 DEF Retry
  <2> QED BY <2>1, <2>2, <2>3 DEF Tracked, FoundStale
<1>5. CASE WriteLock(p) \/ ReadOwnLock(p) \/ UnlinkOwn(p)
  <2>1. /\ found'[p] = found[p] /\ dead' = dead /\ at[p] \in {"write", "hold", "release"}
        /\ at'[p] \in {"hold", "release", "done"}
    BY <1>0, <1>5 DEF WriteLock, ReadOwnLock, UnlinkOwn
  <2> QED BY <2>1 DEF Tracked, FoundStale
<1>6. CASE Kill(p)
  <2>1. /\ found' = found /\ at' = at /\ attempt' = attempt /\ existing' = existing /\ lockFile' = lockFile
        /\ dead' = dead \cup {p} /\ at[p] # "refused"
    BY <1>6 DEF Kill
  <2> QED BY <2>1 DEF Tracked, FoundStale, FoundUnwritten
<1> QED BY <1>1, <1>2, <1>3, <1>4, <1>5, <1>6 DEF LockStep

LEMMA AloneNext == AloneInv /\ [LockNext]_lockVars => AloneInv'
<1> SUFFICES ASSUME AloneInv, [LockNext]_lockVars PROVE AloneInv'
  OBVIOUS
<1>1. LockInv'
  BY LockNextTypeOK, LockNextAttempts, LockNextJustified, LockNextOwns DEF AloneInv, LockInv
<1>2. CASE UNCHANGED lockVars
  BY <1>1, <1>2 DEF lockVars, AloneInv, Tracked, FoundStale, FoundUnwritten
<1>3. ASSUME NEW p \in Procs, LockStep(p) \/ Kill(p), NEW q \in Procs, alone'[q],
             alone' = [x \in Procs |->
                       alone[x] /\ (\/ x = p
                                    \/ at[x] = "open" /\ attempt[x] = 0
                                    \/ lockFile' = lockFile /\ dead' = dead)]
      PROVE  Tracked(q)'
  <2>1. alone[q] /\ (q = p \/ (at[q] = "open" /\ attempt[q] = 0) \/ (lockFile' = lockFile /\ dead' = dead))
    BY <1>3
  <2>2. LockInv /\ Tracked(q)
    BY <2>1 DEF AloneInv
  <2>3. CASE q = p
    BY <1>3, <2>2, <2>3, OwnTracked
  <2>4. CASE q # p
    BY <1>3, <2>1, <2>2, <2>4, StepIsLocal, OthersTracked
  <2> QED BY <2>3, <2>4
<1>4. CASE LockNext
  <2>1. \A q \in Procs : alone'[q] => Tracked(q)'
    BY <1>3, <1>4 DEF LockNext
  <2> QED BY <1>1, <2>1 DEF AloneInv
<1> QED BY <1>2, <1>4

\* What acquireOnboardLock tells a process that nobody disturbs is right: for any
\* number of other processes, before its first look and after its last.
THEOREM UndisturbedAnswer == LockSpec => []UndisturbedOutcome
<1>1. LockInit => AloneInv
  <2> SUFFICES ASSUME LockInit PROVE AloneInv
    OBVIOUS
  <2>1. \A p \in Procs : at[p] = "open" /\ attempt[p] = 0
    BY DEF LockInit
  <2> QED BY <2>1, LockInitInv DEF AloneInv, Tracked
<1>2. AloneInv => UndisturbedOutcome
  BY DEF AloneInv, Tracked, UndisturbedOutcome, FoundStale, FoundUnwritten
<1> QED BY <1>1, <1>2, AloneNext, PTL DEF LockSpec
=============================================================================
