---------------------------- MODULE AsoPipeline ----------------------------
(***************************************************************************)
(* The app-store pipeline (aso/): a graph of nodes over a checkpointed     *)
(* state.  A command of the runner is a process of its own: it loads the   *)
(* latest checkpoint of the one thread "aso-main", runs nodes until the    *)
(* graph ends, pauses at an interrupt or raises, and writes a checkpoint   *)
(* after every node.  Nothing keeps two commands from running at once.     *)
(*                                                                         *)
(* LangGraph and the stores' APIs are external.  The model assumes what    *)
(* compile_graph intends: a saver that keeps checkpoints in SQLite.        *)
(***************************************************************************)
EXTENDS Integers, Sequences

CONSTANTS
    Process,       \* the processes that can run a command at the same time
    Shape,         \* the plans the strategist can answer: changes and days
    NoPlan, None,  \* optimization_plan = None, changes_applied = None
    MaxCommands,   \* bound: commands given
    MaxPlans,      \* bound: plans made
    MaxTime,       \* bound: the clock, in measurement periods
    MaxFaults      \* bound: API requests that raise, processes killed

\* The plans a strategist can answer hold a list of changes; what execute leaves
\* in changes_applied is a record, never None.
ASSUME AsoAssumption ==
    /\ MaxPlans \in Nat
    /\ \A s \in Shape : s.changes \in Seq(STRING)
    /\ None \notin [plan : Nat, got : SUBSET (STRING \X Nat), err : SUBSET (STRING \X Nat)]

VARIABLES
    saved,     \* the latest checkpoint: node to run next, pause, state
    run,       \* run[p]: the command of p, the node it is in, its own state
    shape,     \* shape[n]: what the n-th plan made contains
    live,      \* the changes the stores have: <<plan, <<store, index>>>>
    approved,  \* the plans a human's approval has sent to execute
    cut,       \* history: cron resumed, from what it had just seen, too early
    now, commands, cycles, plans, faults

vars == <<saved, run, shape, live, approved, cut, now, commands, cycles, plans,
          faults>>
bounds == <<now, commands, cycles, plans>>

Node    == {"monitor", "analyze", "decide", "plan", "review", "execute",
            "wait", "measure", "evaluate", "notify"}
Human   == {"approve", "reject", "skip", "resume"}

\* The change kinds tell apart which store's update they reach: the App Store
\* loop of execute also goes over the changes meant for Google Play, so the
\* description of an Android listing ("both") is written to both.
Android == {"play", "both"}
AppText == {"ios", "both"}

\* The state of a new cycle, as run_cycle resets it.
Fresh(n) ==
    [cycle |-> n, meta |-> FALSE, found |-> FALSE, plan |-> 0,
     applied |-> None, verdict |-> "none"]

Idle == [pc |-> "idle", answer |-> "none", latest |-> FALSE, st |-> Fresh(0),
         at |-> 0, got |-> {}, err |-> {}]

Init ==
    /\ saved = [node |-> "none", paused |-> FALSE, resumeAt |-> 0,
                st |-> Fresh(0)]
    /\ run = [p \in Process |-> Idle]
    /\ shape = [n \in 1 .. MaxPlans |-> NoPlan]
    /\ live = {}
    /\ approved = {}
    /\ cut = FALSE
    /\ now = 0
    /\ commands = 0
    /\ cycles = 0
    /\ plans = 0
    /\ faults = 0

-----------------------------------------------------------------------------
(* What the nodes share. *)

\* A node has returned: its update is in the checkpoint of the next superstep,
\* which is from now on the latest one.
Goto(p, node, st) ==
    /\ saved' = [node |-> node, paused |-> FALSE, resumeAt |-> 0, st |-> st]
    /\ run' = [q \in Process |->
                 IF q = p
                 THEN IF node = "end" THEN Idle
                      ELSE [Idle EXCEPT !.pc = node, !.latest = TRUE, !.st = st]
                 ELSE [run[q] EXCEPT !.latest = FALSE]]

\* The node has raised: the command ends, the checkpoint stays.
Raise(p) == run' = [run EXCEPT ![p] = Idle] /\ UNCHANGED saved

\* interrupt(): recorded with the checkpoint the process has loaded or saved.
Pause(p, until) ==
    /\ saved' = IF run[p].latest
                THEN [saved EXCEPT !.paused = TRUE, !.resumeAt = until]
                ELSE saved
    /\ run' = [run EXCEPT ![p] = Idle]

\* ask(): the first provider with a key that answers, or RuntimeError.
Asked(answers, failed) == answers \cup {failed}

Fault == faults < MaxFaults /\ faults' = faults + 1

-----------------------------------------------------------------------------
(* The commands of the runner: each begins with loading the checkpoint. *)

\* A person gives a command.
Given(p) ==
    run[p].pc = "idle" /\ commands < MaxCommands /\ commands' = commands + 1

\* New input on the same thread: whatever was pending there is dropped.
RunCycle(p) ==
    /\ Given(p)
    /\ cycles' = cycles + 1
    /\ Goto(p, "monitor", Fresh(cycles + 1))
    /\ UNCHANGED <<shape, live, approved, cut, now, plans, faults>>

\* Command(resume=...): the pending node runs, again from its top.  It is
\* the same for every pending node, a paused one or one that raised.
Resumed(p, answer) ==
    run' = [run EXCEPT ![p] =
              IF saved.node \notin Node THEN Idle
              ELSE [Idle EXCEPT !.pc = saved.node, !.answer = answer,
                                !.latest = TRUE, !.st = saved.st]]

ResumeGraph(p) ==
    /\ Given(p)
    /\ \E answer \in Human : Resumed(p, answer)
    /\ UNCHANGED <<saved, shape, live, approved, cut, now, cycles, plans, faults>>

\* Mutant: resumes a wait whatever its time.
CheckWaitAnyTime(p) ==
    /\ run[p].pc = "idle"
    /\ saved.node = "wait" /\ saved.paused
    /\ run' = [run EXCEPT ![p].pc = "due", ![p].latest = TRUE]
    /\ UNCHANGED <<saved, shape, live, approved, cut, faults, bounds>>

\* Mutant: the comparison is the wrong way round.
CheckWaitReversed(p) ==
    /\ run[p].pc = "idle"
    /\ saved.node = "wait" /\ saved.paused /\ now < saved.resumeAt
    /\ run' = [run EXCEPT ![p].pc = "due", ![p].latest = TRUE]
    /\ UNCHANGED <<saved, shape, live, approved, cut, faults, bounds>>

\* check_wait_resume, run by cron: it reads the checkpoint ...
CheckWait(p) ==
    /\ run[p].pc = "idle"
    /\ saved.node = "wait" /\ saved.paused /\ now >= saved.resumeAt
    /\ run' = [run EXCEPT ![p].pc = "due", ![p].latest = TRUE]
    /\ UNCHANGED <<saved, shape, live, approved, cut, faults, bounds>>

\* ... and resumes what it finds there later, when it loads it again.
CheckResumes(p) ==
    LET elapsed == saved.node = "wait" /\ now >= saved.resumeAt IN
    /\ run[p].pc = "due"
    /\ cut' = (cut \/ (run[p].latest /\ ~elapsed))
    /\ Resumed(p, "resume")
    /\ UNCHANGED <<saved, shape, live, approved, faults, bounds>>

-----------------------------------------------------------------------------
(* The nodes. *)

In(p, node) == run[p].pc = node

\* Whether the App Store lists localizations: none without a version, none
\* when a request fails.
Metadata == BOOLEAN

\* The snapshot; every source that fails leaves its part of it empty.
Monitor(p) ==
    /\ In(p, "monitor")
    /\ \E meta \in Metadata :
          Goto(p, "analyze", [run[p].st EXCEPT !.meta = meta])
    /\ UNCHANGED <<shape, live, approved, cut, faults, bounds>>

\* Whether one opportunity at least is of high or medium priority; an answer
\* that cannot be parsed has none.
Opportunities == BOOLEAN

Analyze(p) ==
    /\ In(p, "analyze")
    /\ \E found \in Asked(Opportunities, FALSE) :
          Goto(p, "decide", [run[p].st EXCEPT !.found = found])
    /\ UNCHANGED <<shape, live, approved, cut, faults, bounds>>

\* Only an opportunity of high or medium priority is selected.
Decide(p) ==
    /\ In(p, "decide")
    /\ LET st == run[p].st IN
       Goto(p, IF st.found THEN "plan" ELSE "notify",
            [st EXCEPT !.found = FALSE])
    /\ UNCHANGED <<shape, live, approved, cut, faults, bounds>>

\* The strategist's answer, or no plan when it fails or cannot be parsed.
Plan(p) ==
    /\ In(p, "plan")
    /\ \/ /\ plans < MaxPlans
          /\ plans' = plans + 1
          /\ \E s \in Shape :
                /\ shape' = [shape EXCEPT ![plans + 1] = s]
                /\ Goto(p, "review", [run[p].st EXCEPT !.plan = plans + 1])
       \/ /\ Goto(p, "review", [run[p].st EXCEPT !.plan = 0])
          /\ UNCHANGED <<shape, plans>>
    /\ UNCHANGED <<live, approved, cut, now, commands, cycles, faults>>

\* Mutant: any answer that is not a refusal lets the plan through.
ReviewLenient(p) ==
    LET st == run[p].st IN
    /\ In(p, "review")
    /\ \/ st.plan = 0 /\ Goto(p, "notify", st) /\ UNCHANGED approved
       \/ /\ st.plan # 0 /\ run[p].answer \in {"approve", "resume"}
          /\ Goto(p, "execute", st)
          /\ approved' = IF run[p].answer = "approve" THEN approved \cup {st.plan}
                         ELSE approved
       \/ /\ st.plan # 0 /\ run[p].answer = "none"
          /\ Pause(p, 0)
          /\ UNCHANGED approved
    /\ UNCHANGED <<shape, live, cut, faults, bounds>>

\* The plan goes to the people, every time the node runs; then their answer
\* decides.  Anything that is neither approval nor rejection skips the plan.
Review(p) ==
    LET st == run[p].st
        answer == run[p].answer
    IN
    /\ In(p, "review")
    /\ \/ st.plan = 0 /\ Goto(p, "notify", st) /\ UNCHANGED approved
       \/ /\ st.plan # 0
          /\ \/ answer = "none" /\ Pause(p, 0) /\ UNCHANGED approved
             \/ /\ answer = "approve"
                /\ Goto(p, "execute", st)
                /\ approved' = approved \cup {st.plan}
             \/ /\ answer = "reject"
                /\ Goto(p, "plan", [st EXCEPT !.plan = 0])
                /\ UNCHANGED approved
             \/ /\ answer \in {"skip", "resume"}
                /\ Goto(p, "notify", [st EXCEPT !.plan = 0])
                /\ UNCHANGED approved
    /\ UNCHANGED <<shape, live, cut, faults, bounds>>

\* Mutant: a missing changes_applied counts as an empty one.
WaitDefaulting(p) ==
    /\ In(p, "wait")
    /\ \/ run[p].answer = "none" /\ Pause(p, now + 1)
       \/ run[p].answer # "none" /\ Goto(p, "measure", run[p].st)
    /\ UNCHANGED <<shape, live, approved, cut, faults, bounds>>

\* The measurement period.  It cannot be computed without changes_applied, or
\* when the plan's number of days is no number: the node raises every time.
Wait(p) ==
    LET st == run[p].st
        answer == run[p].answer
    IN
    /\ In(p, "wait")
    /\ \/ /\ st.applied = None \/ shape[st.plan].days = "text"
          /\ Raise(p)
       \/ /\ st.applied # None /\ shape[st.plan].days # "text"
          /\ \/ answer = "none" /\ Pause(p, now + 1)
             \/ answer # "none" /\ Goto(p, "measure", st)
    /\ UNCHANGED <<shape, live, approved, cut, faults, bounds>>

Measure(p) ==
    /\ In(p, "measure")
    /\ Goto(p, "evaluate", run[p].st)
    /\ UNCHANGED <<shape, live, approved, cut, faults, bounds>>

\* The answer as it was parsed, or a verdict computed from the key words.
\* Metrics that are no object are kept as they came.
Verdicts == {"plain", "odd"}

\* A verdict of the model, or one of evaluate's own when the model fails.
Evaluate(p) ==
    /\ In(p, "evaluate")
    /\ \E v \in Asked(Verdicts, "plain") :
          Goto(p, "notify", [run[p].st EXCEPT !.verdict = v])
    /\ UNCHANGED <<shape, live, approved, cut, faults, bounds>>

\* A verdict whose metrics are no object cannot be formatted.
Formats(verdict) == verdict # "odd"

\* The end of a cycle: the report that goes with what happened in it.
Notify(p) ==
    /\ In(p, "notify")
    /\ IF Formats(run[p].st.verdict) THEN Goto(p, "end", run[p].st) ELSE Raise(p)
    /\ UNCHANGED <<shape, live, approved, cut, faults, bounds>>

-----------------------------------------------------------------------------
(* execute: one request after another, then one record of them all. *)

Changes(p) == IF run[p].st.plan = 0 THEN <<>> ELSE shape[run[p].st.plan].changes
Meant(p)   == {i \in DOMAIN Changes(p) : Changes(p)[i] \in Android}
Noted(p, got, err, n) ==
    run' = [run EXCEPT ![p].got = @ \cup got, ![p].err = @ \cup err, ![p].at = n]

\* What one listing's update does to the edit: an Android change is put in it
\* or not, which the requests and the field's name decide.
Edited(p, failed) ==
    Noted(p, {<<"play", i>> : i \in Meant(p) \ failed},
          {<<"play", i>> : i \in failed}, Len(Changes(p)) + 1)

\* No changes: changes_applied is not written.
ExecuteNothing(p) ==
    /\ In(p, "execute")
    /\ Changes(p) = <<>>
    /\ Goto(p, "wait", run[p].st)
    /\ UNCHANGED <<shape, live, approved, cut, faults, bounds>>

\* One change of the App Store loop: an update that is accepted, one that
\* raises (with or without having been carried out), or no request at all
\* when the locale or the field is unknown.
ExecuteApple(p) ==
    LET i == run[p].at + 1
        change == <<"ios", i>>
        asks == run[p].st.meta /\ Changes(p)[i] \in AppText
    IN
    /\ In(p, "execute")
    /\ i \in DOMAIN Changes(p)
    /\ \/ /\ asks
          /\ Noted(p, {change}, {}, i)
          /\ live' = live \cup {<<run[p].st.plan, change>>}
          /\ UNCHANGED faults
       \/ /\ asks
          /\ Fault
          /\ Noted(p, {}, {change}, i)
          /\ live' \in {live, live \cup {<<run[p].st.plan, change>>}}
       \/ /\ ~asks
          /\ Noted(p, {}, {change}, i)
          /\ UNCHANGED <<live, faults>>
    /\ UNCHANGED <<saved, shape, approved, cut, bounds>>

\* Google Play: an edit with every Android change in it.  What cannot be
\* opened is an error for all of them; what cannot be put in, for that one.
ExecutePlay(p) ==
    /\ In(p, "execute")
    /\ run[p].at = Len(Changes(p))
    /\ Meant(p) # {}
    /\ \/ \E failed \in SUBSET Meant(p) :
            /\ IF failed = {} THEN UNCHANGED faults ELSE Fault
            /\ Edited(p, failed)
       \/ /\ Fault
          /\ Noted(p, {}, {<<"play", i>> : i \in Meant(p)}, Len(Changes(p)) + 2)
    /\ UNCHANGED <<saved, shape, live, approved, cut, bounds>>

\* Mutant: an error of the commit is only logged.
ExecuteCommitLogged(p) ==
    LET edit == {c \in run[p].got : c[1] = "play"} IN
    /\ In(p, "execute")
    /\ run[p].at = Len(Changes(p)) + 1
    /\ \/ /\ Noted(p, {}, {}, Len(Changes(p)) + 2)
          /\ live' = live \cup {<<run[p].st.plan, c>> : c \in edit}
          /\ UNCHANGED faults
       \/ /\ Fault
          /\ Noted(p, {}, {}, Len(Changes(p)) + 2)
          /\ UNCHANGED live
    /\ UNCHANGED <<saved, shape, approved, cut, bounds>>

\* The edit is committed, or deleted when nothing could be put in it.  When
\* that raises, every Android change is an error as well, also those that are
\* listed as applied.
ExecuteCommit(p) ==
    LET edit == {c \in run[p].got : c[1] = "play"} IN
    /\ In(p, "execute")
    /\ run[p].at = Len(Changes(p)) + 1
    /\ Meant(p) # {}
    /\ \/ /\ Noted(p, {}, {}, Len(Changes(p)) + 2)
          /\ live' = live \cup {<<run[p].st.plan, c>> : c \in edit}
          /\ UNCHANGED faults
       \/ /\ Fault
          /\ Noted(p, {}, {<<"play", i>> : i \in Meant(p)}, Len(Changes(p)) + 2)
          /\ live' \in {live, live \cup {<<run[p].st.plan, c>> : c \in edit}}
    /\ UNCHANGED <<saved, shape, approved, cut, bounds>>

\* The record of the node: changes_applied and the baseline.
ExecuteRecord(p) ==
    LET done == [plan |-> run[p].st.plan, got |-> run[p].got, err |-> run[p].err]
    IN
    /\ In(p, "execute")
    /\ Changes(p) # <<>>
    /\ run[p].at = Len(Changes(p)) + (IF Meant(p) = {} THEN 0 ELSE 2)
    /\ Goto(p, "wait", [run[p].st EXCEPT !.applied = done, !.meta = FALSE])
    /\ UNCHANGED <<shape, live, approved, cut, faults, bounds>>

-----------------------------------------------------------------------------

\* A process is killed in a node, or between loading and running one.
Crash(p) ==
    /\ run[p].pc # "idle"
    /\ Fault
    /\ run' = [run EXCEPT ![p] = Idle]
    /\ UNCHANGED <<saved, shape, live, approved, cut, now, commands, cycles, plans>>

Tick ==
    /\ now < MaxTime
    /\ now' = now + 1
    /\ UNCHANGED <<saved, run, shape, live, approved, cut, commands, cycles,
                   plans, faults>>

\* The next step of the command p runs.
Step(p) ==
    \/ CheckResumes(p)
    \/ Monitor(p) \/ Analyze(p) \/ Decide(p) \/ Plan(p) \/ Review(p)
    \/ ExecuteNothing(p) \/ ExecuteApple(p) \/ ExecutePlay(p)
    \/ ExecuteCommit(p) \/ ExecuteRecord(p)
    \/ Wait(p) \/ Measure(p) \/ Evaluate(p) \/ Notify(p)

Next ==
    \/ \E p \in Process : RunCycle(p) \/ ResumeGraph(p) \/ CheckWait(p)
    \/ \E p \in Process : Step(p)
    \/ \E p \in Process : Crash(p)
    \/ Tick

Spec == Init /\ [][Next]_vars

\* A command that runs goes on, cron checks again and again, time passes.
Fairness ==
    /\ \A p \in Process : WF_vars(Step(p))
    /\ WF_vars(\E p \in Process : CheckWait(p))
    /\ WF_vars(Tick)

LiveSpec == Spec /\ Fairness

-----------------------------------------------------------------------------
(* Properties. *)

\* What the stores have of a plan was approved by a person, whatever commands
\* came in whatever order, overlapped or were killed on the way.
OnlyApprovedIsLive == \A change \in live : change[1] \in approved

\* The record of an execution accounts for every change and store it was
\* meant for, and what it lists as applied, and not also as an error, is live.
RecordIsHonest ==
    LET r == saved.st.applied IN
    r # None =>
        /\ \A c \in r.got : c \in r.err \/ <<r.plan, c>> \in live
        /\ \A i \in DOMAIN shape[r.plan].changes :
              /\ <<"ios", i>> \in r.got \cup r.err
              /\ shape[r.plan].changes[i] \in Android =>
                    <<"play", i>> \in r.got \cup r.err

\* What is measured and evaluated is what this cycle's plan changed: nothing
\* of an earlier cycle on the same thread is left in the state.
MeasuresItsOwnPlan ==
    saved.node \in {"measure", "evaluate"} =>
        saved.st.applied # None /\ saved.st.applied.plan = saved.st.plan

\* The cron check ends a pause only after the measurement period, and never
\* answers a review, unless another command moved the pipeline in between.
NoEarlyResume == ~cut

\* A measurement period that has begun ends, if only by the cron check.
WaitEnds ==
    LET waits == saved.node = "wait" /\ saved.paused /\ saved.resumeAt <= MaxTime
    IN  waits ~> ~waits

=============================================================================
