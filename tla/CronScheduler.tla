--------------------------- MODULE CronScheduler ---------------------------
(***************************************************************************)
(* The cron schedulers of the agent processes of one host                  *)
(* (kronos/cron/scheduler.py, kronos/cron/setup.py) with the job controls  *)
(* of the dashboard (dashboard/api/monitoring.py).                         *)
(*                                                                         *)
(* Every process has a scheduler of its own; all of them rewrite the same  *)
(* cron_state.json.  Time advances by the hour, the unit in which daily and *)
(* weekly jobs are due; a process polls every 30 seconds, so any number of *)
(* times in an hour.  Each action is a step of the event loop of one       *)
(* process: a poll, a request, the start of a task or its end.             *)
(***************************************************************************)
EXTENDS Naturals, Sequences, FiniteSets, SequencesExt

CONSTANTS
    Agents,       \* agent processes
    Jobs,
    Schedule,     \* Schedule[j]: when the job is due
    Registered,   \* Registered[a]: the jobs of the agent, in the order of setup
    Triggerable,  \* SAFE_TRIGGER_JOBS
    HoursPerDay,
    DaysPerWeek,
    MaxNow,       \* bound of the model: the last hour
    MaxCrashes,   \* bound of the model: crashes of all processes
    MaxControls   \* bound of the model: pauses, resumes and triggers

Schedules ==
    [kind : {"periodic"}, interval : Nat \ {0}]
        \union [kind : {"daily"}, hour : 0..(HoursPerDay - 1)]
        \union [kind : {"weekly"}, hour : 0..(HoursPerDay - 1),
                weekday : 0..(DaysPerWeek - 1)]

ASSUME CronAssumption ==
    /\ HoursPerDay \in Nat \ {0}
    /\ DaysPerWeek \in Nat \ {0}
    /\ Schedule \in [Jobs -> Schedules]
    /\ Registered \in [Agents -> Seq(Jobs)]
    \* setup.py adds every job once.
    /\ \A a \in Agents : IsInjective(Registered[a])
    \* The periodic jobs come every half hour to every four hours.
    /\ \A j \in Jobs : Schedule[j].kind = "periodic" => Schedule[j].interval <= HoursPerDay
    /\ Triggerable \subseteq Jobs
    /\ MaxNow \in Nat
    /\ MaxCrashes \in Nat
    /\ MaxControls \in Nat

VARIABLES
    now,        \* the hour
    up,         \* up[a]: the process runs
    queue,      \* queue[a]: run tasks created and not yet begun, in order
    enabled,    \* enabled[a][j]
    running,    \* running[a][j]: the flag _running
    active,     \* active[a][j]: how many runs of the job are at work
    last,       \* last[a][j]: last_run in memory, 0 for never
    file,       \* cron_state.json: the last_run of each job in it, 0 if absent
    whole,      \* history: whole[a]: up since the hour began
    polled,     \* history: polled[a]: has polled in this hour
    excused,    \* history: jobs a poll of this hour found paused or at work
    starts,     \* history: starts[a][j]: scheduled runs begun in this hour
    runs,       \* history: <<agent, job, hour>> of every run begun
    cut,        \* history: cut[a]: jobs whose run a crash of this hour cut short
    rewritten,  \* history: in this hour another process rewrote the file, or a
                \* save was torn or met half-way
    manual,     \* history: manual[a][j]: triggers since the process began
    crashes,
    controls

memoryVars == <<enabled, running, active, last>>
historyVars == <<whole, polled, excused, starts, runs, cut, rewritten, manual>>
vars == <<now, up, queue, memoryVars, file, historyVars, crashes, controls>>

Never == [j \in Jobs |-> 0]

JobsOf(a) == Range(Registered[a])
Day(t) == t \div HoursPerDay
Hour(t) == t % HoursPerDay
Weekday(t) == Day(t) % DaysPerWeek

Calendar(j) == Schedule[j].kind \in {"daily", "weekly"}

----------------------------------------------------------------------------
\* Mutant: the flag is not looked at.
ShouldRunAgain(a, j) ==
    LET s == Schedule[j] IN
    /\ enabled[a][j]
    /\ \/ s.kind = "periodic" /\ now - last[a][j] >= s.interval
       \/ s.kind = "daily" /\ Hour(now) = s.hour /\ last[a][j] # now
       \/ /\ s.kind = "weekly" /\ Weekday(now) = s.weekday /\ Hour(now) = s.hour
          /\ last[a][j] > 0 => Day(last[a][j]) # Day(now)

\* _should_run.  With the hour as the unit of time, the calendar hour of the last
\* run is this one when they are equal.
ShouldRun(a, j) ==
    LET s == Schedule[j] IN
    /\ enabled[a][j]
    /\ ~running[a][j]
    /\ \/ s.kind = "periodic" /\ now - last[a][j] >= s.interval
       \/ s.kind = "daily" /\ Hour(now) = s.hour /\ last[a][j] # now
       \/ /\ s.kind = "weekly" /\ Weekday(now) = s.weekday /\ Hour(now) = s.hour
          /\ last[a][j] > 0 => Day(last[a][j]) # Day(now)

\* The clock starts on day 1, so that no hour is mistaken for "never".
CronInit ==
    /\ now = HoursPerDay
    /\ up = [a \in Agents |-> FALSE]
    /\ queue = [a \in Agents |-> <<>>]
    /\ enabled = [a \in Agents |-> [j \in Jobs |-> TRUE]]
    /\ running = [a \in Agents |-> [j \in Jobs |-> FALSE]]
    /\ active = [a \in Agents |-> Never]
    /\ last = [a \in Agents |-> Never]
    /\ file = Never
    /\ whole = [a \in Agents |-> FALSE]
    /\ polled = [a \in Agents |-> FALSE]
    /\ excused = [a \in Agents |-> {}]
    /\ starts = [a \in Agents |-> Never]
    /\ runs = {}
    /\ cut = [a \in Agents |-> {}]
    /\ rewritten = [a \in Agents |-> FALSE]
    /\ manual = [a \in Agents |-> Never]
    /\ crashes = 0
    /\ controls = 0

\* The process begins: the jobs are registered and their last runs restored.  A
\* file that another process is just writing cannot be parsed and restores none.
Boot(a) ==
    /\ ~up[a]
    /\ \E torn \in {t \in BOOLEAN :
                       t => \E b \in Agents \ {a}, j \in Jobs : active[b][j] > 0} :
        /\ last' = [last EXCEPT ![a] =
                       [j \in Jobs |-> IF ~torn /\ j \in JobsOf(a) THEN file[j] ELSE 0]]
        /\ rewritten' = [rewritten EXCEPT ![a] = @ \/ torn]
    /\ up' = [up EXCEPT ![a] = TRUE]
    /\ manual' = [manual EXCEPT ![a] = Never]
    /\ UNCHANGED <<now, queue, enabled, running, active, file, whole, polled, excused,
                   starts, runs, cut, crashes, controls>>

\* The places in the order of setup of the jobs that should run.
Due(a) == {i \in DOMAIN Registered[a] : ShouldRun(a, Registered[a][i])}

\* One pass over the jobs creates a task for each that should run.  The tasks of
\* the last pass have long begun.
Poll(a) ==
    /\ up[a]
    /\ \A i \in DOMAIN queue[a] : queue[a][i].origin # "poll"
    /\ \E due \in [1 .. Cardinality(Due(a)) -> Due(a)] :
        /\ \A i, k \in DOMAIN due : i < k => due[i] < due[k]
        /\ queue' = [queue EXCEPT ![a] = @ \o
               [i \in DOMAIN due |-> [job |-> Registered[a][due[i]], origin |-> "poll"]]]
    /\ polled' = [polled EXCEPT ![a] = TRUE]
    /\ excused' = [excused EXCEPT ![a] = @ \union
                      {j \in JobsOf(a) : ~enabled[a][j] \/ active[a][j] > 0}]
    /\ UNCHANGED <<now, up, memoryVars, file, whole, starts, runs, cut, rewritten, manual,
                   crashes, controls>>

\* The first task of the queue begins: _run_job up to the await of the job.
Start(a) ==
    /\ queue[a] # <<>>
    /\ LET j == Head(queue[a]).job IN
        /\ running' = [running EXCEPT ![a][j] = TRUE]
        /\ last' = [last EXCEPT ![a][j] = now]
        /\ active' = [active EXCEPT ![a][j] = @ + 1]
        /\ starts' = IF Head(queue[a]).origin = "poll"
                     THEN [starts EXCEPT ![a][j] = @ + 1] ELSE starts
        /\ runs' = runs \union {<<a, j, now>>}
    /\ queue' = [queue EXCEPT ![a] = Tail(@)]
    /\ UNCHANGED <<now, up, enabled, file, whole, polled, excused, cut, rewritten, manual,
                   crashes, controls>>

\* _save_state: the whole file, from what this process knows.
Saved(a) == [j \in Jobs |-> IF j \in JobsOf(a) THEN last[a][j] ELSE 0]

\* Mutant: the flag stays set and the state is saved all the same.
FinishStuck(a, j) ==
    /\ active[a][j] > 0
    /\ active' = [active EXCEPT ![a][j] = @ - 1]
    /\ file' = Saved(a)
    /\ rewritten' = [b \in Agents |-> rewritten[b] \/ b # a]
    /\ UNCHANGED <<now, up, queue, enabled, running, last, whole, polled, excused, starts,
                   runs, cut, manual, crashes, controls>>

\* Mutant: a run that failed is not saved.
FinishMaySkip(a, j) ==
    /\ active[a][j] > 0
    /\ active' = [active EXCEPT ![a][j] = @ - 1]
    /\ running' = [running EXCEPT ![a][j] = FALSE]
    /\ \/ file' = Saved(a) /\ rewritten' = [b \in Agents |-> rewritten[b] \/ b # a]
       \/ UNCHANGED <<file, rewritten>>
    /\ UNCHANGED <<now, up, queue, enabled, last, whole, polled, excused, starts, runs,
                   cut, manual, crashes, controls>>

\* A run of the job ends, well or with an exception: the finally clause.
Finish(a, j) ==
    /\ active[a][j] > 0
    /\ active' = [active EXCEPT ![a][j] = @ - 1]
    /\ running' = [running EXCEPT ![a][j] = FALSE]
    /\ file' = Saved(a)
    /\ rewritten' = [b \in Agents |-> rewritten[b] \/ b # a]
    /\ UNCHANGED <<now, up, queue, enabled, last, whole, polled, excused, starts, runs,
                   cut, manual, crashes, controls>>

Control == controls < MaxControls /\ controls' = controls + 1

\* The dashboard pauses or resumes a job, in memory only.
SetEnabled(a, j) ==
    /\ up[a]
    /\ j \in JobsOf(a)
    /\ Control
    /\ enabled' = [enabled EXCEPT ![a][j] = ~@]
    /\ UNCHANGED <<now, up, queue, running, active, last, file, historyVars, crashes>>

\* The dashboard runs a job now, unless its flag says that it is running.
Trigger(a, j) ==
    /\ up[a]
    /\ j \in JobsOf(a) \intersect Triggerable
    /\ ~running[a][j]
    /\ Control
    /\ queue' = [queue EXCEPT ![a] = Append(@, [job |-> j, origin |-> "manual"])]
    /\ manual' = [manual EXCEPT ![a][j] = @ + 1]
    /\ UNCHANGED <<now, up, memoryVars, file, whole, polled, excused, starts, runs, cut,
                   rewritten, crashes>>

\* The process dies, or is stopped, which cancels its tasks: neither saves.  If a
\* save was under way the file is left truncated.
Crash(a) ==
    /\ up[a]
    /\ crashes < MaxCrashes
    /\ crashes' = crashes + 1
    /\ \E torn \in {t \in BOOLEAN : t => \E j \in Jobs : active[a][j] > 0} :
        /\ file' = IF torn THEN Never ELSE file
        /\ rewritten' = [b \in Agents |-> rewritten[b] \/ torn]
    /\ up' = [up EXCEPT ![a] = FALSE]
    /\ queue' = [queue EXCEPT ![a] = <<>>]
    /\ enabled' = [enabled EXCEPT ![a] = [j \in Jobs |-> TRUE]]
    /\ running' = [running EXCEPT ![a] = [j \in Jobs |-> FALSE]]
    /\ active' = [active EXCEPT ![a] = Never]
    /\ last' = [last EXCEPT ![a] = Never]
    /\ whole' = [whole EXCEPT ![a] = FALSE]
    /\ cut' = [cut EXCEPT ![a] = @ \union {j \in Jobs : active[a][j] > 0}]
    /\ UNCHANGED <<now, polled, excused, starts, runs, manual, controls>>

\* An hour passes.  A task begins at once and a process polls twice a minute, so
\* no queue outlasts the hour and a process that is up all through it has polled.
Tick ==
    /\ now < MaxNow
    /\ \A a \in Agents : queue[a] = <<>> /\ (whole[a] => polled[a])
    /\ now' = now + 1
    /\ whole' = up
    /\ polled' = [a \in Agents |-> FALSE]
    /\ excused' = [a \in Agents |-> {}]
    /\ starts' = [a \in Agents |-> Never]
    /\ cut' = [a \in Agents |-> {}]
    /\ rewritten' = [a \in Agents |-> FALSE]
    /\ UNCHANGED <<up, queue, memoryVars, file, runs, manual, crashes, controls>>

CronNext ==
    \/ \E a \in Agents : Boot(a) \/ Poll(a) \/ Start(a) \/ Crash(a)
    \/ \E a \in Agents, j \in Jobs : Finish(a, j) \/ SetEnabled(a, j) \/ Trigger(a, j)
    \/ Tick

CronSpec == CronInit /\ [][CronNext]_vars

----------------------------------------------------------------------------
(* Properties. *)

\* A run that was saved is not repeated: a daily or weekly job begins twice in
\* its hour only where a crash cut the first run short, or where the shared state
\* file was rewritten by another process or torn.
SavedRunsNotRepeated ==
    \A a \in Agents : \A j \in JobsOf(a) :
        Calendar(j) /\ starts[a][j] > 1 => j \in cut[a] \/ rewritten[a]

\* What counts as the due run of the job: for a weekly or periodic job a run by
\* another agent will do, because the agents share their last runs.
Covered(a, j) ==
    LET s == Schedule[j] IN
    \/ s.kind = "daily" /\ (Hour(now) = s.hour => <<a, j, now>> \in runs)
    \/ /\ s.kind = "weekly"
       /\ Weekday(now) = s.weekday /\ Hour(now) = s.hour =>
              \E b \in Agents, h \in 0..now : <<b, j, h>> \in runs /\ Day(h) = Day(now)
    \/ /\ s.kind = "periodic"
       /\ \E b \in Agents, h \in 0..now : <<b, j, h>> \in runs /\ now - h < s.interval

\* A process that is up from the beginning of the hour starts every job that is
\* due, unless a poll found the job paused or still at work.
DueJobsRun ==
    \A a \in Agents : whole[a] /\ polled[a] /\ queue[a] = <<>> =>
        \A j \in JobsOf(a) \ excused[a] : Covered(a, j)

\* Two runs of a job overlap in a process only if one was triggered by hand.
OverlapOnlyByHand ==
    \A a \in Agents, j \in Jobs :
        active[a][j] + Cardinality({i \in DOMAIN queue[a] : queue[a][i].job = j})
            <= 1 + manual[a][j]
=============================================================================
