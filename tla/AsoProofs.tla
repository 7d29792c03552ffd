----------------------------- MODULE AsoProofs -----------------------------
(***************************************************************************)
(* Proofs about AsoPipeline: the four safety properties of its run, for    *)
(* any number of processes, commands, plans and faults, and any plans.     *)
(***************************************************************************)
EXTENDS AsoPipeline, TLAPS

-----------------------------------------------------------------------------
(* The inductive invariant. *)

Change == {"ios", "play"} \X Nat
Applied == [plan : Nat, got : SUBSET Change, err : SUBSET Change]
State == [cycle : Nat, meta : BOOLEAN, found : BOOLEAN, plan : Nat,
          applied : Applied \cup {None}, verdict : {"none", "plain", "odd"}]
Command == [pc : Node \cup {"idle", "due"}, answer : Human \cup {"none"}, latest : BOOLEAN,
            st : State, at : Nat, got : SUBSET Change, err : SUBSET Change]
Checkpoint == [node : Node \cup {"none", "end"}, paused : BOOLEAN, resumeAt : Nat,
               st : State]

AsoTypeOK ==
    /\ saved \in Checkpoint
    /\ run \in [Process -> Command]
    /\ plans \in 0 .. MaxPlans
    /\ DOMAIN shape = 1 .. MaxPlans
    /\ \A n \in 1 .. plans : shape[n] \in Shape
    /\ now \in Nat
    /\ cycles \in Nat
    /\ cut \in BOOLEAN

\* RecordIsHonest, said of one record, of a plan that was made.
Honest(r) ==
    /\ r.plan \in 1 .. plans
    /\ \A c \in r.got : c \in r.err \/ <<r.plan, c>> \in live
    /\ \A i \in DOMAIN shape[r.plan].changes :
          /\ <<"ios", i>> \in r.got \cup r.err
          /\ shape[r.plan].changes[i] \in Android => <<"play", i>> \in r.got \cup r.err

Preparing == {"monitor", "analyze", "decide", "plan", "review", "execute"}

\* What the state st of a pipeline about to run a node says of the plan in it.
Sound(node, st) ==
    /\ st.plan <= plans
    /\ node \in Preparing => st.applied = None
    /\ node = "execute" => st.plan \in approved
    /\ node \in {"measure", "evaluate"} => st.applied # None
    /\ st.applied # None => Honest(st.applied) /\ st.applied.plan = st.plan

ChangesOf(st) == IF st.plan = 0 THEN <<>> ELSE shape[st.plan].changes

\* How far the command r has come in execute: the App Store's loop, the edit
\* for Google Play, its commit.
Progress(r) ==
    LET changes == ChangesOf(r.st) IN
    /\ \A i \in DOMAIN changes : i <= r.at => <<"ios", i>> \in r.got \cup r.err
    /\ \A c \in r.got : c[1] = "ios" => <<r.st.plan, c>> \in live
    /\ r.at <= Len(changes) => \A c \in r.got : c[1] = "ios"
    /\ \A c \in r.got : c[1] = "ios" \/ \E i \in DOMAIN changes :
          changes[i] \in Android /\ c = <<"play", i>>
    /\ r.at > Len(changes) => \A i \in DOMAIN changes :
          changes[i] \in Android => <<"play", i>> \in r.got \cup r.err
    /\ r.at > Len(changes) + 1 => \A c \in r.got : c \in r.err \/ <<r.st.plan, c>> \in live

RunsSound ==
    \A p \in Process :
        /\ run[p].pc \in Node => Sound(run[p].pc, run[p].st)
        /\ run[p].pc = "execute" => Progress(run[p])

\* Who pauses has run since the last checkpoint was written, so nobody pauses a
\* checkpoint twice, and what a cron check saw stays true until it is moved on.
PausesOnce ==
    \A p \in Process :
        /\ saved.paused /\ run[p].latest => run[p].pc = "due" \/ run[p].answer # "none"
        /\ run[p].latest /\ run[p].pc = "due" =>
              saved.paused /\ saved.node = "wait" /\ now >= saved.resumeAt

\* At most one command, the one that wrote the checkpoint, has the latest one
\* without having been asked to resume it.
OneWriter ==
    \A p, q \in Process :
        (/\ run[p].latest /\ run[p].pc # "due" /\ run[p].answer = "none"
         /\ run[q].latest /\ run[q].pc # "due" /\ run[q].answer = "none") => p = q

AsoInv ==
    /\ AsoTypeOK
    /\ Sound(saved.node, saved.st)
    /\ RunsSound
    /\ PausesOnce
    /\ OneWriter
    /\ OnlyApprovedIsLive
    /\ ~cut

-----------------------------------------------------------------------------
(* What is sound stays sound while plans, approvals and live changes only grow. *)

Grows ==
    /\ plans' \in plans .. MaxPlans
    /\ approved \subseteq approved'
    /\ live \subseteq live'
    /\ DOMAIN shape' = 1 .. MaxPlans
    /\ \A n \in 1 .. plans : shape'[n] = shape[n]
    /\ \A n \in 1 .. plans' : shape'[n] \in Shape

LEMMA NothingGrows ==
    ASSUME AsoTypeOK, UNCHANGED <<shape, live, approved, plans>>
    PROVE  Grows
BY AsoAssumption DEF AsoTypeOK, Grows

LEMMA HonestGrows ==
    ASSUME AsoTypeOK, Grows, NEW r \in Applied, Honest(r)
    PROVE  Honest(r)'
BY AsoAssumption DEF AsoTypeOK, Grows, Honest, Applied

LEMMA SoundGrows ==
    ASSUME AsoTypeOK, Grows, NEW node, NEW st \in State, Sound(node, st)
    PROVE  Sound(node, st)'
<1>1. CASE st.applied = None
    BY <1>1, AsoAssumption DEF AsoTypeOK, Grows, Sound, State
<1>2. CASE st.applied # None
    <2>1. st.applied \in Applied /\ Honest(st.applied)
        BY <1>2 DEF State, Sound
    <2>2. Honest(st.applied)'
        BY <2>1, HonestGrows
    <2> QED BY <1>2, <2>2, AsoAssumption DEF AsoTypeOK, Grows, Sound, State
<1> QED BY <1>1, <1>2

LEMMA ProgressGrows ==
    ASSUME AsoTypeOK, Grows, NEW r \in Command, r.st.plan <= plans, Progress(r)
    PROVE  Progress(r)'
<1>1. r.st \in State /\ r.st.plan \in Nat
    BY DEF Command, State
<1>2. ChangesOf(r.st)' = ChangesOf(r.st)
    BY <1>1 DEF AsoTypeOK, Grows, ChangesOf
<1> QED BY <1>2 DEF Grows, Progress

-----------------------------------------------------------------------------
(* The three things that happen to the pipeline in a step. *)

LEMMA Idles == Idle \in Command /\ \A n \in Nat : Fresh(n) \in State
BY DEF Idle, Fresh, Command, State, Node, Human

LEMMA ChangesType ==
    ASSUME AsoTypeOK, NEW st \in State, st.plan <= plans
    PROVE  ChangesOf(st) \in Seq(STRING)
<1>1. CASE st.plan = 0
    BY <1>1 DEF ChangesOf
<1>2. CASE st.plan # 0
    <2>1. st.plan \in 1 .. plans
        BY <1>2, AsoAssumption DEF AsoTypeOK, State
    <2>2. shape[st.plan] \in Shape
        BY <2>1 DEF AsoTypeOK
    <2> QED BY <1>2, <2>2, AsoAssumption DEF ChangesOf
<1> QED BY <1>1, <1>2

\* A command that has just come to execute has done nothing.
LEMMA ProgressBegins ==
    ASSUME AsoTypeOK', NEW r \in Command, (r.st.plan <= plans)',
           r.at = 0, r.got = {}
    PROVE  Progress(r)'
<1>1. r.st \in State
    BY DEF Command
<1>2. ChangesOf(r.st)' \in Seq(STRING)
    <2>1. CASE r.st.plan = 0
        BY <2>1 DEF ChangesOf
    <2>2. CASE r.st.plan # 0
        <3>1. r.st.plan \in 1 .. plans'
            BY <1>1, <2>2, AsoAssumption DEF AsoTypeOK, State
        <3>2. shape'[r.st.plan] \in Shape
            BY <3>1 DEF AsoTypeOK
        <3> QED BY <2>2, <3>2, AsoAssumption DEF ChangesOf
    <2> QED BY <2>1, <2>2
<1>3. /\ Len(ChangesOf(r.st)') \in Nat
      /\ DOMAIN ChangesOf(r.st)' = 1 .. Len(ChangesOf(r.st)')
    BY <1>2
<1> QED BY <1>3 DEF Progress

\* A node has returned.
LEMMA GotoKeeps ==
    ASSUME AsoInv, Grows, OnlyApprovedIsLive', now' = now, cut' = cut, cycles' \in Nat,
           NEW p \in Process, NEW node \in Node \cup {"end"}, NEW st \in State,
           Goto(p, node, st), Sound(node, st)'
    PROVE  AsoInv'
<1> USE DEF AsoInv
<1>1. saved' \in Checkpoint /\ ~saved'.paused /\ saved'.node = node /\ saved'.st = st
    BY DEF Goto, Checkpoint
<1>2. [Idle EXCEPT !.pc = node, !.latest = TRUE, !.st = st] \in Command \/ node = "end"
    BY DEF Idle, Fresh, Command, State, Node, Human
<1>3. ASSUME NEW q \in Process
      PROVE  [run[q] EXCEPT !.latest = FALSE] \in Command
    BY DEF AsoTypeOK, Command
<1>4. run' \in [Process -> Command]
    BY <1>2, <1>3, Idles DEF Goto
<1>5. AsoTypeOK'
    BY <1>1, <1>4 DEF AsoTypeOK, Grows
<1>6. Sound(saved.node, saved.st)'
    BY <1>1
<1>7. ASSUME NEW q \in Process, q # p
      PROVE  /\ run'[q] = [run[q] EXCEPT !.latest = FALSE]
             /\ run'[q].pc = run[q].pc /\ run'[q].st = run[q].st /\ run'[q].at = run[q].at
             /\ run'[q].got = run[q].got /\ run'[q].err = run[q].err /\ ~run'[q].latest
    BY <1>7 DEF Goto, AsoTypeOK, Command
<1>8. /\ node = "end" => run'[p] = Idle
      /\ node # "end" => run'[p] = [Idle EXCEPT !.pc = node, !.latest = TRUE, !.st = st]
    BY DEF Goto
<1>9. ASSUME NEW q \in Process, q # p
      PROVE  /\ run'[q].pc \in Node => Sound(run[q].pc, run[q].st)'
             /\ run'[q].pc = "execute" => Progress(run[q])'
    <2>1. run[q] \in Command /\ run[q].st \in State /\ run'[q] \in Command
        BY <1>4 DEF AsoTypeOK, Command
    <2>2. ASSUME run[q].pc \in Node
          PROVE  Sound(run[q].pc, run[q].st) /\ run[q].st.plan <= plans
        BY <2>2 DEF RunsSound, Sound
    <2>3. ASSUME run[q].pc \in Node
          PROVE  Sound(run[q].pc, run[q].st)'
        <3>1. \A n, st0 : (st0 \in State /\ Sound(n, st0)) => Sound(n, st0)'
            BY SoundGrows
        <3> QED BY <2>1, <2>2, <2>3, <3>1, <1>7, <1>9
    <2>4. ASSUME run[q].pc = "execute"
          PROVE  Progress(run[q])'
        <3>1. Progress(run[q]) /\ run[q].st.plan <= plans
            BY <2>4 DEF RunsSound, Sound, Node
        <3>2. \A r \in Command : r.st.plan <= plans /\ Progress(r) => Progress(r)'
            BY ProgressGrows
        <3>3. \A r, s \in Command :
                  /\ r.st = s.st /\ r.at = s.at /\ r.got = s.got /\ r.err = s.err
                  /\ Progress(r)'
                  => Progress(s)'
            BY DEF Progress
        <3> QED BY <2>1, <3>1, <3>2, <3>3, <1>7, <1>9
    <2> QED BY <2>3, <2>4, <1>7, <1>9 DEF Node
<1>10. /\ run'[p].pc \in Node => Sound(run[p].pc, run[p].st)'
       /\ run'[p].pc = "execute" => Progress(run[p])'
    <2>1. CASE node = "end"
        BY <1>8, <2>1 DEF Idle, Node
    <2>2. CASE node # "end"
        <3>1. /\ run'[p] \in Command /\ run'[p].pc = node /\ run'[p].st = st
              /\ run'[p].at = 0 /\ run'[p].got = {}
            BY <1>4, <1>8, <2>2 DEF Idle
        <3>2. Sound(run[p].pc, run[p].st)'
            BY <3>1
        <3>3. (run[p].st.plan <= plans)'
            BY <3>2 DEF Sound
        <3>4. \A r \in Command : (r.st.plan <= plans)' /\ r.at = 0 /\ r.got = {} => Progress(r)'
            BY <1>5, ProgressBegins
        <3> QED BY <3>1, <3>2, <3>3, <3>4
    <2> QED BY <2>1, <2>2
<1>11. RunsSound'
    BY <1>9, <1>10 DEF RunsSound
<1>12. run'[p].pc # "due"
    <2>1. node = "end" => run'[p].pc = "idle"
        BY <1>8 DEF Idle
    <2>2. node # "end" => run'[p].pc = node
        BY <1>8 DEF Idle
    <2> QED BY <2>1, <2>2 DEF Node
<1>13. PausesOnce'
    BY <1>1, <1>7, <1>12 DEF PausesOnce
<1>14. OneWriter'
    BY <1>7 DEF OneWriter
<1> QED BY <1>5, <1>6, <1>11, <1>13, <1>14

\* The command of one process changes and the checkpoint does not.
LEMMA RunKeeps ==
    ASSUME AsoInv, Grows, OnlyApprovedIsLive', saved' = saved, now' = now, cycles' = cycles,
           cut' = FALSE, NEW p \in Process, NEW r \in Command, run' = [run EXCEPT ![p] = r],
           r.pc \in Node => Sound(r.pc, r.st)', r.pc = "execute" => Progress(r)',
           r.latest =>
              \/ r.pc # "due" /\ r.answer # "none"
              \/ r.pc = "due" /\ saved.paused /\ saved.node = "wait" /\ now >= saved.resumeAt
              \/ /\ r.pc # "due" /\ run[p].pc # "due"
                 /\ run[p].latest /\ r.answer = run[p].answer
    PROVE  AsoInv'
<1> USE DEF AsoInv
<1>1. run' \in [Process -> Command] /\ run'[p] = r
    BY DEF AsoTypeOK
<1>2. ASSUME NEW q \in Process, q # p
      PROVE  run'[q] = run[q]
    BY <1>2 DEF AsoTypeOK
<1>3. AsoTypeOK'
    <2>1. saved' \in Checkpoint /\ now' \in Nat /\ cycles' \in Nat
        BY DEF AsoTypeOK
    <2>2. cut' \in BOOLEAN
        OBVIOUS
    <2> QED BY <1>1, <2>1, <2>2 DEF AsoTypeOK, Grows
<1>4. \A n, st : (st \in State /\ Sound(n, st)) => Sound(n, st)'
    BY SoundGrows
<1>5. Sound(saved.node, saved.st)'
    BY <1>4 DEF AsoTypeOK, Checkpoint
<1>6. \A s \in Command : s.st.plan <= plans /\ Progress(s) => Progress(s)'
    BY ProgressGrows
<1>7. ASSUME NEW q \in Process
      PROVE  /\ run'[q].pc \in Node => Sound(run[q].pc, run[q].st)'
             /\ run'[q].pc = "execute" => Progress(run[q])'
    <2>1. CASE q = p
        BY <2>1, <1>1
    <2>2. CASE q # p
        <3>1. run'[q] = run[q] /\ run[q] \in Command /\ run[q].st \in State
            BY <1>2, <2>2 DEF AsoTypeOK, Command
        <3>2. run[q].pc \in Node => Sound(run[q].pc, run[q].st)
            BY DEF RunsSound
        <3>3. run[q].pc = "execute" => Progress(run[q]) /\ run[q].st.plan <= plans
            BY <3>2 DEF RunsSound, Sound, Node
        <3> QED BY <3>1, <3>2, <3>3, <1>4, <1>6
    <2> QED BY <2>1, <2>2
<1>8. RunsSound'
    BY <1>7 DEF RunsSound
<1>9. PausesOnce'
    BY <1>1, <1>2 DEF PausesOnce
<1>10. OneWriter'
    BY <1>1, <1>2 DEF OneWriter
<1> QED BY <1>3, <1>5, <1>8, <1>9, <1>10

\* A command pauses the checkpoint it has written itself.
LEMMA PauseKeeps ==
    ASSUME AsoInv, UNCHANGED <<shape, live, approved, cut, now, cycles, plans>>,
           NEW p \in Process, run[p].pc \in Node, run[p].answer = "none",
           NEW until \in Nat, Pause(p, until)
    PROVE  AsoInv'
<1> USE DEF AsoInv
<1>1. Grows
    BY NothingGrows
<1>2. saved' \in Checkpoint /\ saved'.node = saved.node /\ saved'.st = saved.st
    BY DEF Pause, AsoTypeOK, Checkpoint
<1>3. run' \in [Process -> Command] /\ run'[p] = Idle
    BY Idles DEF Pause, AsoTypeOK
<1>4. ASSUME NEW q \in Process, q # p
      PROVE  run'[q] = run[q]
    BY <1>4 DEF Pause, AsoTypeOK
<1>5. AsoTypeOK'
    BY <1>2, <1>3, <1>1 DEF AsoTypeOK, Grows
<1>6. \A n, st : (st \in State /\ Sound(n, st)) => Sound(n, st)'
    BY <1>1, SoundGrows
<1>7. Sound(saved.node, saved.st)'
    BY <1>2, <1>6 DEF AsoTypeOK, Checkpoint
<1>8. \A s \in Command : s.st.plan <= plans /\ Progress(s) => Progress(s)'
    BY <1>1, ProgressGrows
<1>9. ASSUME NEW q \in Process
      PROVE  /\ run'[q].pc \in Node => Sound(run[q].pc, run[q].st)'
             /\ run'[q].pc = "execute" => Progress(run[q])'
    <2>1. CASE q = p
        BY <2>1, <1>3 DEF Idle, Node
    <2>2. CASE q # p
        <3>1. run'[q] = run[q] /\ run[q] \in Command /\ run[q].st \in State
            BY <1>4, <2>2 DEF AsoTypeOK, Command
        <3>2. run[q].pc \in Node => Sound(run[q].pc, run[q].st)
            BY DEF RunsSound
        <3>3. run[q].pc = "execute" => Progress(run[q]) /\ run[q].st.plan <= plans
            BY <3>2 DEF RunsSound, Sound, Node
        <3> QED BY <3>1, <3>2, <3>3, <1>6, <1>8
    <2> QED BY <2>1, <2>2
<1>10. RunsSound'
    BY <1>9 DEF RunsSound
<1>11. run[p].pc # "due"
    BY DEF Node
<1>12. PausesOnce'
    <2>1. CASE run[p].latest
        <3>1. ~saved.paused
            BY <2>1, <1>11 DEF PausesOnce
        <3>2. ASSUME NEW q \in Process, q # p, run[q].latest
              PROVE  run[q].pc # "due" /\ run[q].answer # "none"
            <4>1. run[q].pc # "due"
                BY <3>1, <3>2 DEF PausesOnce
            <4> QED BY <4>1, <2>1, <1>11, <3>2 DEF OneWriter
        <3>3. ~run'[p].latest
            BY <1>3 DEF Idle
        <3> QED BY <3>2, <3>3, <1>4 DEF PausesOnce
    <2>2. CASE ~run[p].latest
        <3>1. saved' = saved /\ ~run'[p].latest
            BY <2>2, <1>3 DEF Pause, Idle
        <3> QED BY <3>1, <1>4 DEF PausesOnce
    <2> QED BY <2>1, <2>2
<1>13. OneWriter'
    BY <1>3, <1>4 DEF OneWriter, Idle
<1>14. OnlyApprovedIsLive'
    BY DEF OnlyApprovedIsLive
<1> QED BY <1>5, <1>7, <1>10, <1>12, <1>13, <1>14

\* A command ends without a checkpoint: it raised, was killed, found nothing.
LEMMA IdleKeeps ==
    ASSUME AsoInv, UNCHANGED <<saved, shape, live, approved, cut, now, cycles, plans>>,
           NEW p \in Process, run' = [run EXCEPT ![p] = Idle]
    PROVE  AsoInv'
<1>1. Grows
    BY NothingGrows DEF AsoInv
<1>2. Idle.pc = "idle" /\ ~Idle.latest /\ Idle.pc \notin Node
    BY DEF Idle, Node
<1>3. OnlyApprovedIsLive' /\ cut' = FALSE
    BY DEF AsoInv, OnlyApprovedIsLive, AsoTypeOK
<1> QED BY <1>1, <1>2, <1>3, Idles, RunKeeps

-----------------------------------------------------------------------------
(* One lemma per kind of step. *)

\* What a command in a node knows.
LEMMA InNode ==
    ASSUME AsoInv, NEW p \in Process, run[p].pc \in Node
    PROVE  /\ run[p] \in Command /\ run[p].st \in State
           /\ Sound(run[p].pc, run[p].st)
           /\ run[p].st.plan <= plans
BY DEF AsoInv, AsoTypeOK, RunsSound, Sound, Command

\* A node that passes its plan and its record on.
LEMMA SoundMoves ==
    ASSUME NEW from, NEW node, NEW st \in State, NEW st2 \in State, Sound(from, st)',
           st2.plan = st.plan, st2.applied = st.applied,
           node \in Preparing => from \in Preparing, node # "execute",
           node \in {"measure", "evaluate"} => st.applied # None
    PROVE  Sound(node, st2)'
BY DEF Sound

\* Nothing but the place in the graph, the snapshot, the verdict moves on.
LEMMA MovesKeep ==
    ASSUME AsoInv, UNCHANGED <<shape, live, approved, cut, bounds>>,
           NEW p \in Process, run[p].pc \in Node, NEW node \in Node \cup {"end"},
           NEW st2 \in State, Goto(p, node, st2),
           st2.plan = run[p].st.plan, st2.applied = run[p].st.applied,
           node \in Preparing => run[p].pc \in Preparing, node # "execute",
           node \in {"measure", "evaluate"} => run[p].st.applied # None
    PROVE  AsoInv'
<1>1. Grows
    BY NothingGrows DEF AsoInv, bounds
<1>2. Sound(run[p].pc, run[p].st) /\ run[p].st \in State
    BY InNode
<1>3. \A n, st : (st \in State /\ Sound(n, st)) => Sound(n, st)'
    BY <1>1, SoundGrows DEF AsoInv
<1>4. \A n, m : \A s, t \in State :
          (/\ Sound(n, s)'
           /\ t.plan = s.plan /\ t.applied = s.applied
           /\ m \in Preparing => n \in Preparing
           /\ m # "execute"
           /\ m \in {"measure", "evaluate"} => s.applied # None) => Sound(m, t)'
    BY SoundMoves
<1>5. Sound(node, st2)'
    BY <1>2, <1>3, <1>4
<1>6. OnlyApprovedIsLive' /\ now' = now /\ cut' = cut /\ cycles' \in Nat
    BY DEF AsoInv, OnlyApprovedIsLive, bounds, AsoTypeOK
<1> QED BY <1>1, <1>5, <1>6, GotoKeeps

LEMMA RunCycleKeeps ==
    ASSUME AsoInv, NEW p \in Process, RunCycle(p)
    PROVE  AsoInv'
<1>1. Grows
    BY NothingGrows DEF AsoInv, RunCycle
<1> PICK st : st = Fresh(cycles + 1)
    OBVIOUS
<1>2. cycles' \in Nat /\ st \in State
    BY Idles DEF RunCycle, AsoInv, AsoTypeOK
<1>3. Sound("monitor", st)'
    BY <1>1 DEF Sound, Fresh, Grows, AsoInv, AsoTypeOK
<1>4. OnlyApprovedIsLive' /\ now' = now /\ cut' = cut
    BY DEF RunCycle, AsoInv, OnlyApprovedIsLive
<1>5. Goto(p, "monitor", st) /\ "monitor" \in Node
    BY DEF RunCycle, Node
<1> QED BY <1>1, <1>2, <1>3, <1>4, <1>5, GotoKeeps

\* Whoever resumes takes what the checkpoint says, and is asked to.
LEMMA ResumedKeeps ==
    ASSUME AsoInv, NEW p \in Process, NEW answer \in Human, Resumed(p, answer), cut' = FALSE,
           UNCHANGED <<saved, shape, live, approved, now, cycles, plans>>
    PROVE  AsoInv'
<1>1. Grows
    BY NothingGrows DEF AsoInv
<1>2. OnlyApprovedIsLive'
    BY DEF AsoInv, OnlyApprovedIsLive
<1>3. CASE saved.node \notin Node
    <2>1. run' = [run EXCEPT ![p] = Idle]
        BY <1>3 DEF Resumed
    <2>2. cut' = cut
        BY DEF AsoInv, AsoTypeOK
    <2> QED BY <2>1, <2>2, IdleKeeps
<1>4. CASE saved.node \in Node
    <2> PICK r : r = [Idle EXCEPT !.pc = saved.node, !.answer = answer,
                                  !.latest = TRUE, !.st = saved.st]
        OBVIOUS
    <2>1. run' = [run EXCEPT ![p] = r]
        BY <1>4 DEF Resumed
    <2>2. saved.st \in State /\ Sound(saved.node, saved.st)
        BY DEF AsoInv, AsoTypeOK, Checkpoint
    <2>3. /\ r \in Command /\ r.pc = saved.node /\ r.st = saved.st /\ r.at = 0 /\ r.got = {}
          /\ r.answer = answer
        BY <2>2, <1>4, Idles DEF Idle, Command
    <2>4. \A n, st : (st \in State /\ Sound(n, st)) => Sound(n, st)'
        BY <1>1, SoundGrows DEF AsoInv
    <2>5. Sound(r.pc, r.st)'
        BY <2>2, <2>3, <2>4
    <2>6. (r.st.plan <= plans)'
        BY <2>5 DEF Sound
    <2>7. AsoTypeOK' => Progress(r)'
        BY <2>3, <2>6, ProgressBegins
    <2>8. AsoTypeOK'
        <3>1. run' \in [Process -> Command]
            BY <2>1, <2>3 DEF AsoInv, AsoTypeOK
        <3>2. cut' \in BOOLEAN
            OBVIOUS
        <3> QED BY <3>1, <3>2 DEF AsoInv, AsoTypeOK
    <2>9. answer # "none" /\ saved.node # "due"
        BY <1>4 DEF Human, Node
    <2> QED BY <1>1, <1>2, <2>1, <2>3, <2>5, <2>7, <2>8, <2>9, RunKeeps
<1> QED BY <1>3, <1>4

LEMMA ResumeGraphKeeps ==
    ASSUME AsoInv, NEW p \in Process, ResumeGraph(p)
    PROVE  AsoInv'
<1>1. PICK answer \in Human : Resumed(p, answer)
    BY DEF ResumeGraph
<1>2. cut' = FALSE
    BY DEF ResumeGraph, AsoInv, AsoTypeOK
<1> QED BY <1>1, <1>2, ResumedKeeps DEF ResumeGraph

LEMMA CheckResumesKeeps ==
    ASSUME AsoInv, NEW p \in Process, CheckResumes(p)
    PROVE  AsoInv'
<1>1. run[p].latest => saved.node = "wait" /\ now >= saved.resumeAt
    BY DEF AsoInv, PausesOnce, CheckResumes
<1>2. cut' = FALSE
    BY <1>1 DEF AsoInv, CheckResumes
<1>3. "resume" \in Human
    BY DEF Human
<1> QED BY <1>2, <1>3, ResumedKeeps DEF CheckResumes, bounds

LEMMA CheckWaitKeeps ==
    ASSUME AsoInv, NEW p \in Process, CheckWait(p)
    PROVE  AsoInv'
<1> PICK r : r = [run[p] EXCEPT !.pc = "due", !.latest = TRUE]
    OBVIOUS
<1>1. run[p] \in Command /\ run' = [run EXCEPT ![p] = r]
    BY DEF AsoInv, AsoTypeOK, CheckWait
<1>2. r \in Command /\ r.pc = "due"
    BY <1>1 DEF Command
<1>3. Grows
    BY NothingGrows DEF AsoInv, CheckWait, bounds
<1>4. OnlyApprovedIsLive' /\ cut' = FALSE
    BY DEF AsoInv, OnlyApprovedIsLive, CheckWait
<1>5. r.pc \notin Node /\ r.pc # "execute"
    BY <1>2 DEF Node
<1>6. saved.paused /\ saved.node = "wait" /\ now >= saved.resumeAt
    BY DEF CheckWait
<1>7. saved' = saved /\ now' = now /\ cycles' = cycles
    BY DEF CheckWait, bounds
<1> QED BY <1>1, <1>2, <1>3, <1>4, <1>5, <1>6, <1>7, RunKeeps

LEMMA EarlyNodesKeep ==
    ASSUME AsoInv, NEW p \in Process, Monitor(p) \/ Analyze(p) \/ Decide(p)
    PROVE  AsoInv'
<1>1. ASSUME Monitor(p)
      PROVE  AsoInv'
    <2>1. PICK meta \in BOOLEAN : Goto(p, "analyze", [run[p].st EXCEPT !.meta = meta])
        BY <1>1 DEF Monitor, Metadata
    <2> PICK st : st = [run[p].st EXCEPT !.meta = meta]
        OBVIOUS
    <2>2. run[p].pc = "monitor" /\ "monitor" \in Node /\ "analyze" \in Node
        BY <1>1 DEF Monitor, In, Node
    <2>3. run[p].st \in State
        BY <2>2, InNode
    <2>4. st \in State /\ st.plan = run[p].st.plan /\ st.applied = run[p].st.applied
        BY <2>3 DEF State
    <2>5. UNCHANGED <<shape, live, approved, cut, bounds>>
        BY <1>1 DEF Monitor
    <2> QED BY <2>1, <2>2, <2>4, <2>5, MovesKeep DEF Preparing
<1>2. ASSUME Analyze(p)
      PROVE  AsoInv'
    <2>1. PICK found \in BOOLEAN : Goto(p, "decide", [run[p].st EXCEPT !.found = found])
        BY <1>2 DEF Analyze, Asked, Opportunities
    <2> PICK st : st = [run[p].st EXCEPT !.found = found]
        OBVIOUS
    <2>2. run[p].pc = "analyze" /\ "analyze" \in Node /\ "decide" \in Node
        BY <1>2 DEF Analyze, In, Node
    <2>3. run[p].st \in State
        BY <2>2, InNode
    <2>4. st \in State /\ st.plan = run[p].st.plan /\ st.applied = run[p].st.applied
        BY <2>3 DEF State
    <2>5. UNCHANGED <<shape, live, approved, cut, bounds>>
        BY <1>2 DEF Analyze
    <2> QED BY <2>1, <2>2, <2>4, <2>5, MovesKeep DEF Preparing
<1>3. ASSUME Decide(p)
      PROVE  AsoInv'
    <2>1. PICK node \in {"plan", "notify"} : Goto(p, node, [run[p].st EXCEPT !.found = FALSE])
        BY <1>3 DEF Decide
    <2> PICK st : st = [run[p].st EXCEPT !.found = FALSE]
        OBVIOUS
    <2>2. run[p].pc = "decide" /\ "decide" \in Node /\ node \in Node
        BY <1>3 DEF Decide, In, Node
    <2>3. run[p].st \in State
        BY <2>2, InNode
    <2>4. st \in State /\ st.plan = run[p].st.plan /\ st.applied = run[p].st.applied
        BY <2>3 DEF State
    <2>5. UNCHANGED <<shape, live, approved, cut, bounds>>
        BY <1>3 DEF Decide
    <2> QED BY <2>1, <2>2, <2>4, <2>5, MovesKeep DEF Preparing
<1> QED BY <1>1, <1>2, <1>3

LEMMA PlanKeeps ==
    ASSUME AsoInv, NEW p \in Process, Plan(p)
    PROVE  AsoInv'
<1>1. run[p].pc = "plan" /\ "plan" \in Node /\ "review" \in Node
    BY DEF Plan, In, Node
<1>2. run[p].st \in State /\ Sound("plan", run[p].st)
    BY <1>1, InNode
<1>3. run[p].st.applied = None
    BY <1>2 DEF Sound, Preparing
<1>4. /\ OnlyApprovedIsLive' /\ now' = now /\ cut' = cut /\ cycles' \in Nat
      /\ live' = live /\ approved' = approved
    BY DEF Plan, AsoInv, OnlyApprovedIsLive, AsoTypeOK
<1>5. plans \in Nat /\ plans <= MaxPlans
    BY AsoAssumption DEF AsoInv, AsoTypeOK
<1>6. PICK n : n = IF plans' = plans THEN 0 ELSE plans + 1
    OBVIOUS
<1> PICK st : st = [run[p].st EXCEPT !.plan = n]
    OBVIOUS
<1>7. CASE plans < MaxPlans /\ plans' = plans + 1
    <2>1. PICK s \in Shape : shape' = [shape EXCEPT ![plans + 1] = s]
        BY <1>5, <1>7 DEF Plan
    <2>2. Goto(p, "review", st)
        BY <1>5, <1>6, <1>7 DEF Plan
    <2>3. Grows
        <3>1. DOMAIN shape = 1 .. MaxPlans
            BY DEF AsoInv, AsoTypeOK
        <3>2. \A m \in 1 .. plans : shape[m] \in Shape
            BY DEF AsoInv, AsoTypeOK
        <3>3. DOMAIN shape' = 1 .. MaxPlans
            BY <2>1, <3>1
        <3>4. \A m \in 1 .. plans : shape'[m] = shape[m]
            BY <2>1, <3>1, <1>5, AsoAssumption
        <3>5. shape'[plans + 1] = s
            BY <2>1, <3>1, <1>5, <1>7, AsoAssumption
        <3>6. \A m \in 1 .. plans' : m = plans + 1 \/ m \in 1 .. plans
            BY <1>5, <1>7
        <3>7. \A m \in 1 .. plans' : shape'[m] \in Shape
            BY <3>2, <3>4, <3>5, <3>6
        <3> QED BY <1>4, <1>5, <1>7, <3>3, <3>4, <3>7, AsoAssumption DEF Grows
    <2>4. st \in State /\ st.plan = plans + 1 /\ st.applied = None
        BY <1>2, <1>3, <1>5, <1>6, <1>7 DEF State
    <2>5. Sound("review", st)'
        <3>1. st.plan <= plans'
            BY <2>4, <1>5, <1>7
        <3> QED BY <2>4, <3>1 DEF Sound
    <2> QED BY <1>1, <1>4, <2>2, <2>3, <2>4, <2>5, GotoKeeps
<1>8. CASE UNCHANGED <<shape, plans>>
    <2>1. Goto(p, "review", st)
        BY <1>5, <1>6, <1>8 DEF Plan
    <2>2. Grows
        BY <1>4, <1>8, NothingGrows DEF AsoInv
    <2>3. st \in State /\ st.plan = 0 /\ st.applied = None
        BY <1>2, <1>3, <1>6, <1>8 DEF State
    <2>4. Sound("review", st)'
        BY <2>3, <1>5, <1>8 DEF Sound
    <2> QED BY <1>1, <1>4, <2>1, <2>2, <2>3, <2>4, GotoKeeps
<1> QED BY <1>7, <1>8 DEF Plan

LEMMA ReviewKeeps ==
    ASSUME AsoInv, NEW p \in Process, Review(p)
    PROVE  AsoInv'
<1>1. run[p].pc = "review" /\ {"review", "notify", "execute", "plan"} \subseteq Node
    BY DEF Review, In, Node
<1>2. run[p].st \in State /\ Sound("review", run[p].st)
    BY <1>1, InNode
<1>3. run[p].st.applied = None
    BY <1>2 DEF Sound, Preparing
<1> PICK st : st = run[p].st
    OBVIOUS
<1>4. \E n : n = [run[p].st EXCEPT !.plan = 0]
    OBVIOUS
<1> PICK none : none = [run[p].st EXCEPT !.plan = 0]
    BY <1>4
<1>5. /\ st \in State /\ none \in State /\ none.plan = 0 /\ none.applied = None
      /\ st.applied = None /\ st.plan <= plans
    BY <1>2, <1>3 DEF State, Sound
<1>6. /\ shape' = shape /\ live' = live /\ cut' = cut /\ now' = now /\ cycles' = cycles
      /\ plans' = plans /\ approved \subseteq approved' /\ plans \in Nat /\ cycles' \in Nat
    BY AsoAssumption DEF Review, bounds, AsoInv, AsoTypeOK
<1>7. Grows
    BY <1>6, AsoAssumption DEF AsoInv, AsoTypeOK, Grows
<1>8. OnlyApprovedIsLive'
    BY <1>6 DEF AsoInv, OnlyApprovedIsLive
<1>9. CASE run[p].answer = "none" /\ Pause(p, 0) /\ approved' = approved
    <2>1. 0 \in Nat
        OBVIOUS
    <2> QED BY <1>1, <1>6, <1>9, <2>1, PauseKeeps
<1>10. CASE Goto(p, "notify", st)
    <2>1. Sound("notify", st)'
        BY <1>5, <1>6 DEF Sound, Preparing
    <2> QED BY <1>1, <1>5, <1>6, <1>7, <1>8, <1>10, <2>1, GotoKeeps
<1>11. CASE Goto(p, "execute", st) /\ st.plan \in approved'
    <2>1. Sound("execute", st)'
        BY <1>5, <1>6, <1>11 DEF Sound
    <2> QED BY <1>1, <1>5, <1>6, <1>7, <1>8, <1>11, <2>1, GotoKeeps
<1>12. CASE Goto(p, "plan", none)
    <2>1. Sound("plan", none)'
        BY <1>5, <1>6 DEF Sound
    <2> QED BY <1>1, <1>5, <1>6, <1>7, <1>8, <1>12, <2>1, GotoKeeps
<1>13. CASE Goto(p, "notify", none)
    <2>1. Sound("notify", none)'
        BY <1>5, <1>6 DEF Sound, Preparing
    <2> QED BY <1>1, <1>5, <1>6, <1>7, <1>8, <1>13, <2>1, GotoKeeps
<1> QED BY <1>9, <1>10, <1>11, <1>12, <1>13 DEF Review

LEMMA WaitKeeps ==
    ASSUME AsoInv, NEW p \in Process, Wait(p)
    PROVE  AsoInv'
<1>1. run[p].pc = "wait" /\ {"wait", "measure"} \subseteq Node
    BY DEF Wait, In, Node
<1>2. run[p].st \in State
    BY <1>1, InNode
<1> PICK st : st = run[p].st
    OBVIOUS
<1> PICK until : until = now + 1
    OBVIOUS
<1>3. until \in Nat
    BY DEF AsoInv, AsoTypeOK
<1>4. UNCHANGED <<shape, live, approved, cut, bounds>>
    BY DEF Wait
<1>5. CASE Raise(p)
    BY <1>4, <1>5, IdleKeeps DEF Raise, bounds
<1>6. CASE run[p].answer = "none" /\ Pause(p, until)
    BY <1>1, <1>3, <1>4, <1>6, PauseKeeps DEF bounds
<1>7. CASE st.applied # None /\ Goto(p, "measure", st)
    BY <1>1, <1>2, <1>4, <1>7, MovesKeep DEF Preparing
<1> QED BY <1>5, <1>6, <1>7 DEF Wait

LEMMA LateNodesKeep ==
    ASSUME AsoInv, NEW p \in Process, Measure(p) \/ Evaluate(p) \/ Notify(p)
    PROVE  AsoInv'
<1>1. ASSUME Measure(p)
      PROVE  AsoInv'
    <2>1. run[p].pc = "measure" /\ {"measure", "evaluate"} \subseteq Node
        BY <1>1 DEF Measure, In, Node
    <2>2. run[p].st \in State /\ Sound("measure", run[p].st)
        BY <2>1, InNode
    <2> PICK st : st = run[p].st
        OBVIOUS
    <2>3. st.applied # None
        BY <2>2 DEF Sound
    <2>4. Goto(p, "evaluate", st) /\ UNCHANGED <<shape, live, approved, cut, bounds>>
        BY <1>1 DEF Measure
    <2> QED BY <2>1, <2>2, <2>3, <2>4, MovesKeep DEF Preparing
<1>2. ASSUME Evaluate(p)
      PROVE  AsoInv'
    <2>1. run[p].pc = "evaluate" /\ {"evaluate", "notify"} \subseteq Node
        BY <1>2 DEF Evaluate, In, Node
    <2>2. run[p].st \in State
        BY <2>1, InNode
    <2>3. PICK v \in Verdicts : Goto(p, "notify", [run[p].st EXCEPT !.verdict = v])
        BY <1>2 DEF Evaluate, Asked, Verdicts
    <2> PICK st : st = [run[p].st EXCEPT !.verdict = v]
        OBVIOUS
    <2>4. st \in State /\ st.plan = run[p].st.plan /\ st.applied = run[p].st.applied
        BY <2>2 DEF State, Verdicts
    <2>5. UNCHANGED <<shape, live, approved, cut, bounds>>
        BY <1>2 DEF Evaluate
    <2> QED BY <2>1, <2>3, <2>4, <2>5, MovesKeep DEF Preparing
<1>3. ASSUME Notify(p)
      PROVE  AsoInv'
    <2>1. run[p].pc = "notify" /\ "notify" \in Node
        BY <1>3 DEF Notify, In, Node
    <2>2. run[p].st \in State
        BY <2>1, InNode
    <2> PICK st : st = run[p].st
        OBVIOUS
    <2>3. UNCHANGED <<shape, live, approved, cut, bounds>>
        BY <1>3 DEF Notify
    <2>4. CASE Raise(p)
        BY <2>3, <2>4, IdleKeeps DEF Raise, bounds
    <2>5. CASE Goto(p, "end", st)
        BY <2>1, <2>2, <2>3, <2>5, MovesKeep DEF Preparing
    <2> QED BY <2>4, <2>5, <1>3 DEF Notify
<1> QED BY <1>1, <1>2, <1>3

-----------------------------------------------------------------------------
(* execute. *)

LEMMA Executes ==
    ASSUME AsoInv, NEW p \in Process, In(p, "execute")
    PROVE  /\ run[p] \in Command /\ run[p].st \in State
           /\ Sound("execute", run[p].st) /\ Progress(run[p])
           /\ run[p].st.plan \in approved /\ run[p].st.applied = None
           /\ Changes(p) = ChangesOf(run[p].st) /\ Changes(p) \in Seq(STRING)
           /\ Changes(p) # <<>> => run[p].st.plan \in 1 .. plans
<1>1. run[p].pc = "execute" /\ "execute" \in Node
    BY DEF In, Node
<1>2. run[p] \in Command /\ run[p].st \in State /\ Sound("execute", run[p].st)
    BY <1>1, InNode
<1>3. Progress(run[p])
    BY <1>1 DEF AsoInv, RunsSound
<1>4. run[p].st.plan \in approved /\ run[p].st.applied = None /\ run[p].st.plan <= plans
    BY <1>2 DEF Sound, Preparing
<1>5. Changes(p) = ChangesOf(run[p].st)
    BY DEF Changes, ChangesOf
<1>6. \A st \in State : st.plan <= plans => ChangesOf(st) \in Seq(STRING)
    BY ChangesType DEF AsoInv
<1>7. Changes(p) # <<>> => run[p].st.plan \in 1 .. plans
    BY <1>2, <1>4, AsoAssumption DEF Changes, State, AsoInv, AsoTypeOK
<1> QED BY <1>2, <1>3, <1>4, <1>5, <1>6, <1>7

\* A request has been noted, and its effect is at most a change of this plan.
LEMMA NotedKeeps ==
    ASSUME AsoInv, NEW p \in Process, In(p, "execute"),
           UNCHANGED <<saved, shape, approved, cut, bounds>>,
           NEW got \in SUBSET Change, NEW err \in SUBSET Change, NEW n \in Nat,
           Noted(p, got, err, n), live \subseteq live',
           \A change \in live' : change \in live \/ change[1] = run[p].st.plan,
           NEW r, r = [run[p] EXCEPT !.got = @ \cup got, !.err = @ \cup err, !.at = n],
           Progress(r)'
    PROVE  AsoInv'
<1>1. run[p] \in Command /\ run[p].st.plan \in approved /\ Sound("execute", run[p].st)
    BY Executes
<1>2. r \in Command
    BY <1>1 DEF Command
<1>3. /\ r.pc = run[p].pc /\ r.st = run[p].st /\ r.latest = run[p].latest
      /\ r.answer = run[p].answer
    BY <1>1 DEF Command
<1>4. run' = [run EXCEPT ![p] = r]
    BY DEF Noted, AsoInv, AsoTypeOK
<1>5. Grows
    BY AsoAssumption DEF AsoInv, AsoTypeOK, Grows, bounds
<1>6. \A m, st : (st \in State /\ Sound(m, st)) => Sound(m, st)'
    BY <1>5, SoundGrows DEF AsoInv
<1>7. Sound(r.pc, r.st)' /\ r.pc # "due"
    BY <1>1, <1>3, <1>6 DEF In, Command
<1>8. OnlyApprovedIsLive'
    BY <1>1 DEF AsoInv, OnlyApprovedIsLive
<1>9. cut' = FALSE
    BY DEF AsoInv, AsoTypeOK
<1> QED BY <1>2, <1>3, <1>4, <1>5, <1>7, <1>8, <1>9, RunKeeps DEF bounds

LEMMA ExecuteNothingKeeps ==
    ASSUME AsoInv, NEW p \in Process, ExecuteNothing(p)
    PROVE  AsoInv'
<1>1. run[p].pc = "execute" /\ {"execute", "wait"} \subseteq Node
    BY DEF ExecuteNothing, In, Node
<1>2. run[p].st \in State
    BY <1>1, InNode
<1> PICK st : st = run[p].st
    OBVIOUS
<1>3. Goto(p, "wait", st) /\ UNCHANGED <<shape, live, approved, cut, bounds>>
    BY DEF ExecuteNothing
<1> QED BY <1>1, <1>2, <1>3, MovesKeep DEF Preparing

LEMMA ExecuteAppleKeeps ==
    ASSUME AsoInv, NEW p \in Process, ExecuteApple(p)
    PROVE  AsoInv'
<1>1. In(p, "execute") /\ UNCHANGED <<saved, shape, approved, cut, bounds>>
    BY DEF ExecuteApple
<1>2. PICK n : n = run[p].at + 1
    OBVIOUS
<1>3. PICK got, err :
          /\ Noted(p, got, err, n)
          /\ \/ got = {<<"ios", n>>} /\ err = {}
                /\ live' = live \cup {<<run[p].st.plan, <<"ios", n>>>>}
             \/ got = {} /\ err = {<<"ios", n>>}
                /\ live' \in {live, live \cup {<<run[p].st.plan, <<"ios", n>>>>}}
    BY <1>2 DEF ExecuteApple
<1>4. /\ run[p] \in Command /\ run[p].st \in State /\ Progress(run[p])
      /\ Changes(p) = ChangesOf(run[p].st) /\ Changes(p) \in Seq(STRING)
    BY <1>1, Executes
<1>5. n \in 1 .. Len(Changes(p)) /\ n \in Nat /\ run[p].at < Len(Changes(p))
    BY <1>2, <1>4 DEF ExecuteApple, Command
<1>6. got \in SUBSET Change /\ err \in SUBSET Change
    BY <1>3, <1>5 DEF Change
<1> PICK r : r = [run[p] EXCEPT !.got = @ \cup got, !.err = @ \cup err, !.at = n]
    OBVIOUS
<1>7. /\ r.st = run[p].st /\ r.at = n
      /\ r.got = run[p].got \cup got /\ r.err = run[p].err \cup err
    BY <1>4 DEF Command
<1>8. ChangesOf(r.st)' = Changes(p)
    BY <1>1, <1>4, <1>7 DEF ChangesOf
<1>9. Progress(r)'
    <2> DEFINE changes == Changes(p)
    <2>1. ASSUME NEW i \in DOMAIN changes, i <= n
          PROVE  <<"ios", i>> \in r.got \cup r.err
        <3>1. i = n \/ i <= run[p].at
            BY <1>2, <1>4, <2>1 DEF Command
        <3> QED BY <3>1, <1>3, <1>4, <1>7, <2>1 DEF Progress
    <2>2. ASSUME NEW c \in r.got
          PROVE  c[1] = "ios" /\ <<r.st.plan, c>> \in live'
        <3>1. CASE c \in run[p].got
            BY <3>1, <1>3, <1>4, <1>5, <1>7 DEF Progress, Command
        <3>2. CASE c \in got
            BY <3>2, <1>3, <1>7
        <3> QED BY <3>1, <3>2, <1>7
    <2>3. ~(r.at > Len(changes)) /\ ~(r.at > Len(changes) + 1)
        BY <1>4, <1>5, <1>7
    <2>4. \A i \in DOMAIN changes : i <= r.at => <<"ios", i>> \in r.got \cup r.err
        BY <1>7, <2>1
    <2>5. \A c \in r.got : c[1] = "ios" /\ <<r.st.plan, c>> \in live'
        BY <2>2
    <2> HIDE DEF changes
    <2> QED BY <1>8, <2>3, <2>4, <2>5 DEF Progress, changes
<1>10. live \subseteq live' /\ \A change \in live' : change \in live \/ change[1] = run[p].st.plan
    BY <1>3
<1> QED BY <1>1, <1>3, <1>5, <1>6, <1>9, <1>10, NotedKeeps

\* What a step for Google Play may assume.
LEMMA Playing ==
    ASSUME AsoInv, NEW p \in Process, In(p, "execute"), run[p].at >= Len(Changes(p)),
           UNCHANGED shape,
           NEW got \in SUBSET {<<"play", i>> : i \in Meant(p)},
           NEW err \in SUBSET {<<"play", i>> : i \in Meant(p)}, NEW n \in Nat, n >= run[p].at,
           n > Len(Changes(p)),
           \A i \in Meant(p) : <<"play", i>> \in run[p].got \cup got \cup run[p].err \cup err,
           n > Len(Changes(p)) + 1 => \A c \in run[p].got \cup got :
              c[1] = "play" => c \in run[p].err \cup err \/ <<run[p].st.plan, c>> \in live',
           live \subseteq live',
           NEW r, r = [run[p] EXCEPT !.got = @ \cup got, !.err = @ \cup err, !.at = n]
    PROVE  Progress(r)' /\ got \in SUBSET Change /\ err \in SUBSET Change
<1>1. /\ run[p] \in Command /\ run[p].st \in State /\ Progress(run[p])
      /\ Changes(p) = ChangesOf(run[p].st) /\ Changes(p) \in Seq(STRING)
    BY Executes
<1> DEFINE changes == Changes(p)
<1>2. Len(changes) \in Nat /\ DOMAIN changes = 1 .. Len(changes) /\ run[p].at \in Nat
    BY <1>1 DEF Command
<1>3. /\ r.st = run[p].st /\ r.at = n
      /\ r.got = run[p].got \cup got /\ r.err = run[p].err \cup err
    BY <1>1 DEF Command
<1>4. ChangesOf(r.st)' = changes
    BY <1>1, <1>3 DEF ChangesOf
<1>5. \A i \in Meant(p) : i \in DOMAIN changes /\ changes[i] \in Android /\ i \in Nat
    BY <1>2 DEF Meant
<1>6. \A i \in DOMAIN changes : <<"ios", i>> \in run[p].got \cup run[p].err
    <2>1. \A i \in DOMAIN changes : i <= run[p].at
        BY <1>2
    <2> QED BY <1>1, <2>1 DEF Progress
<1>7. ASSUME NEW c \in run[p].got
      PROVE  /\ c[1] = "ios" => <<r.st.plan, c>> \in live'
             /\ c[1] = "ios" \/ \E i \in DOMAIN changes :
                   changes[i] \in Android /\ c = <<"play", i>>
             /\ c[1] = "ios" \/ c[1] = "play"
    BY <1>1, <1>3 DEF Progress
<1>8. ASSUME NEW c \in got
      PROVE  c[1] = "play" /\ \E i \in DOMAIN changes :
                changes[i] \in Android /\ c = <<"play", i>>
    BY <1>5
<1>9. got \in SUBSET Change /\ err \in SUBSET Change
    BY <1>5 DEF Change
<1>10. /\ \A i \in DOMAIN changes : i <= r.at => <<"ios", i>> \in r.got \cup r.err
       /\ \A c \in r.got : c[1] = "ios" => <<r.st.plan, c>> \in live'
    BY <1>3, <1>6, <1>7, <1>8
<1>11. r.at <= Len(changes) => \A c \in r.got : c[1] = "ios"
    BY <1>2, <1>3
<1>12. \A c \in r.got : c[1] = "ios" \/ \E i \in DOMAIN changes :
          changes[i] \in Android /\ c = <<"play", i>>
    BY <1>3, <1>7, <1>8
<1>13. r.at > Len(changes) => \A i \in DOMAIN changes :
          changes[i] \in Android => <<"play", i>> \in r.got \cup r.err
    BY <1>3 DEF Meant
<1>14. r.at > Len(changes) + 1 => \A c \in r.got : c \in r.err \/ <<r.st.plan, c>> \in live'
    BY <1>3, <1>7, <1>8
<1>15. Progress(r)'
    BY <1>4, <1>10, <1>11, <1>12, <1>13, <1>14 DEF Progress
<1> QED BY <1>9, <1>15

LEMMA ExecutePlayKeeps ==
    ASSUME AsoInv, NEW p \in Process, ExecutePlay(p)
    PROVE  AsoInv'
<1>1. /\ In(p, "execute") /\ UNCHANGED <<saved, shape, approved, cut, bounds>>
      /\ live' = live /\ run[p].at = Len(Changes(p))
    BY DEF ExecutePlay
<1>2. Len(Changes(p)) \in Nat
    BY <1>1, Executes
<1> PICK meant : meant = {<<"play", i>> : i \in Meant(p)}
    OBVIOUS
<1>3. PICK got \in SUBSET meant, err \in SUBSET meant, n \in Nat :
          /\ Noted(p, got, err, n)
          /\ meant \subseteq got \cup err
          /\ n = Len(Changes(p)) + 1 \/ (n = Len(Changes(p)) + 2 /\ got = {})
    <2>1. CASE \E failed \in SUBSET Meant(p) : Edited(p, failed)
        <3>1. PICK failed \in SUBSET Meant(p) : Edited(p, failed)
            BY <2>1
        <3>2. PICK got : got = {<<"play", i>> : i \in Meant(p) \ failed}
            OBVIOUS
        <3>3. PICK err : err = {<<"play", i>> : i \in failed}
            OBVIOUS
        <3>4. PICK n : n = Len(Changes(p)) + 1
            OBVIOUS
        <3>5. Noted(p, got, err, n)
            BY <3>1, <3>2, <3>3, <3>4 DEF Edited
        <3>6. got \in SUBSET meant /\ err \in SUBSET meant /\ meant \subseteq got \cup err
            BY <3>2, <3>3
        <3> QED BY <3>4, <3>5, <3>6, <1>2
    <2>2. CASE Noted(p, {}, {<<"play", i>> : i \in Meant(p)}, Len(Changes(p)) + 2)
        <3>1. PICK n : n = Len(Changes(p)) + 2
            OBVIOUS
        <3>2. Noted(p, {}, meant, n) /\ n \in Nat
            BY <2>2, <3>1, <1>2
        <3> QED BY <3>1, <3>2
    <2> QED BY <2>1, <2>2 DEF ExecutePlay
<1> PICK r : r = [run[p] EXCEPT !.got = @ \cup got, !.err = @ \cup err, !.at = n]
    OBVIOUS
<1>4. Progress(run[p]) /\ Changes(p) = ChangesOf(run[p].st)
    BY <1>1, Executes
<1>5. n > Len(Changes(p)) + 1 => \A c \in run[p].got \cup got : c[1] # "play"
    <2>1. \A c \in run[p].got : c[1] = "ios"
        BY <1>1, <1>2, <1>4 DEF Progress
    <2> QED BY <1>2, <1>3, <2>1
<1>6. /\ \A i \in Meant(p) : <<"play", i>> \in run[p].got \cup got \cup run[p].err \cup err
      /\ run[p].at >= Len(Changes(p)) /\ n >= run[p].at /\ n > Len(Changes(p))
      /\ n \in Nat /\ live \subseteq live' /\ shape' = shape /\ In(p, "execute")
      /\ r = [run[p] EXCEPT !.got = @ \cup got, !.err = @ \cup err, !.at = n]
      /\ got \in SUBSET {<<"play", i>> : i \in Meant(p)}
      /\ err \in SUBSET {<<"play", i>> : i \in Meant(p)}
    BY <1>1, <1>2, <1>3
<1>7. Progress(r)' /\ got \in SUBSET Change /\ err \in SUBSET Change
    <2>1. n > Len(Changes(p)) + 1 => \A c \in run[p].got \cup got :
             c[1] = "play" => c \in run[p].err \cup err \/ <<run[p].st.plan, c>> \in live'
        BY <1>5
    <2> QED BY <1>6, <2>1, Playing
<1> QED BY <1>1, <1>3, <1>7, NotedKeeps

LEMMA ExecuteCommitKeeps ==
    ASSUME AsoInv, NEW p \in Process, ExecuteCommit(p)
    PROVE  AsoInv'
<1>1. /\ In(p, "execute") /\ UNCHANGED <<saved, shape, approved, cut, bounds>>
      /\ run[p].at = Len(Changes(p)) + 1
    BY DEF ExecuteCommit
<1>2. Len(Changes(p)) \in Nat
    BY <1>1, Executes
<1> PICK meant : meant = {<<"play", i>> : i \in Meant(p)}
    OBVIOUS
<1> PICK done : done = {<<run[p].st.plan, c>> : c \in {c \in run[p].got : c[1] = "play"}}
    OBVIOUS
<1>3. PICK n : n = Len(Changes(p)) + 2
    OBVIOUS
<1>4. PICK err : /\ Noted(p, {}, err, n)
                 /\ \/ err = {} /\ live' = live \cup done
                    \/ err = meant /\ live' \in {live, live \cup done}
    BY <1>3 DEF ExecuteCommit
<1> PICK r : r = [run[p] EXCEPT !.got = @ \cup {}, !.err = @ \cup err, !.at = n]
    OBVIOUS
<1>5. /\ Progress(run[p]) /\ Changes(p) = ChangesOf(run[p].st)
      /\ Changes(p) \in Seq(STRING) /\ run[p] \in Command
    BY <1>1, Executes
<1>6. ASSUME NEW c \in run[p].got, c[1] = "play"
      PROVE  c \in run[p].err \cup err \/ <<run[p].st.plan, c>> \in live'
    <2>1. CASE live' = live \cup done
        BY <1>6, <2>1
    <2>2. CASE err = meant
        <3>1. PICK i \in DOMAIN Changes(p) : Changes(p)[i] \in Android /\ c = <<"play", i>>
            BY <1>5, <1>6 DEF Progress
        <3> QED BY <2>2, <3>1 DEF Meant
    <2> QED BY <1>4, <2>1, <2>2
<1>7. \A i \in Meant(p) : <<"play", i>> \in run[p].got \cup run[p].err
    <2>1. run[p].at > Len(Changes(p))
        BY <1>1, <1>2
    <2> QED BY <1>5, <2>1 DEF Progress, Meant
<1>8. /\ run[p].at >= Len(Changes(p)) /\ n >= run[p].at /\ n > Len(Changes(p)) /\ n \in Nat
      /\ live \subseteq live' /\ shape' = shape
      /\ err \in SUBSET {<<"play", i>> : i \in Meant(p)}
    BY <1>1, <1>2, <1>3, <1>4
<1>9. PICK got : got = {}
    OBVIOUS
<1>10. Progress(r)' /\ got \in SUBSET Change /\ err \in SUBSET Change
    <2>1. /\ r = [run[p] EXCEPT !.got = @ \cup got, !.err = @ \cup err, !.at = n]
          /\ got \in SUBSET {<<"play", i>> : i \in Meant(p)}
          /\ \A i \in Meant(p) : <<"play", i>> \in run[p].got \cup got \cup run[p].err \cup err
          /\ \A c \in run[p].got \cup got :
                c[1] = "play" => c \in run[p].err \cup err \/ <<run[p].st.plan, c>> \in live'
        BY <1>6, <1>7, <1>9
    <2> QED BY <1>1, <1>8, <2>1, Playing
<1>11. \A change \in live' : change \in live \/ change[1] = run[p].st.plan
    BY <1>4
<1> QED BY <1>1, <1>4, <1>8, <1>9, <1>10, <1>11, NotedKeeps

LEMMA ExecuteRecordKeeps ==
    ASSUME AsoInv, NEW p \in Process, ExecuteRecord(p)
    PROVE  AsoInv'
<1>1. /\ In(p, "execute") /\ UNCHANGED <<shape, live, approved, cut, bounds>>
      /\ Changes(p) # <<>>
      /\ run[p].at = Len(Changes(p)) + (IF Meant(p) = {} THEN 0 ELSE 2)
    BY DEF ExecuteRecord
<1>2. /\ run[p] \in Command /\ run[p].st \in State /\ Progress(run[p])
      /\ Changes(p) = ChangesOf(run[p].st) /\ Changes(p) \in Seq(STRING)
      /\ run[p].st.plan \in 1 .. plans /\ run[p].st.plan \in Nat
    BY <1>1, Executes, AsoAssumption DEF AsoInv, AsoTypeOK
<1> DEFINE changes == Changes(p)
<1>3. Len(changes) \in Nat /\ DOMAIN changes = 1 .. Len(changes)
    BY <1>2
<1>4. shape[run[p].st.plan].changes = changes
    BY <1>2, AsoAssumption DEF ChangesOf, AsoInv, AsoTypeOK
<1>5. PICK done : done = [plan |-> run[p].st.plan, got |-> run[p].got, err |-> run[p].err]
    OBVIOUS
<1>6. PICK st : st = [run[p].st EXCEPT !.applied = done, !.meta = FALSE]
    OBVIOUS
<1>7. done \in Applied
    BY <1>2, <1>5 DEF Command, Applied
<1>8. st \in State /\ st.plan = run[p].st.plan /\ st.applied = done
    BY <1>2, <1>6, <1>7 DEF State
<1>9. Goto(p, "wait", st) /\ "wait" \in Node
    BY <1>5, <1>6 DEF ExecuteRecord, Node
<1>10. Grows
    BY <1>1, NothingGrows DEF AsoInv, bounds
<1>11. ASSUME NEW i \in DOMAIN changes
       PROVE  /\ <<"ios", i>> \in done.got \cup done.err
              /\ changes[i] \in Android => <<"play", i>> \in done.got \cup done.err
    <2>1. i <= run[p].at
        BY <1>1, <1>3
    <2>2. <<"ios", i>> \in done.got \cup done.err
        BY <1>2, <1>5, <2>1 DEF Progress
    <2>3. changes[i] \in Android => <<"play", i>> \in done.got \cup done.err
        <3>1. CASE changes[i] \in Android
            <4>1. run[p].at > Len(changes)
                BY <1>1, <1>3, <3>1 DEF Meant
            <4> QED BY <1>2, <1>5, <4>1 DEF Progress
        <3> QED BY <3>1
    <2> QED BY <2>2, <2>3
<1>12. ASSUME NEW c \in done.got
       PROVE  c \in done.err \/ <<done.plan, c>> \in live
    <2>1. CASE Meant(p) = {}
        <3>1. run[p].at <= Len(changes)
            BY <1>1, <1>3, <2>1
        <3> QED BY <1>2, <1>5, <3>1 DEF Progress
    <2>2. CASE Meant(p) # {}
        <3>1. run[p].at > Len(changes) + 1
            BY <1>1, <1>3, <2>2
        <3> QED BY <1>2, <1>5, <3>1 DEF Progress
    <2> QED BY <2>1, <2>2
<1>13. Honest(done)'
    BY <1>1, <1>2, <1>4, <1>5, <1>11, <1>12 DEF Honest, bounds
<1>14. Sound("wait", st)'
    BY <1>1, <1>2, <1>5, <1>8, <1>13, AsoAssumption DEF Sound, Preparing, bounds, AsoInv, AsoTypeOK
<1>15. OnlyApprovedIsLive' /\ now' = now /\ cut' = cut /\ cycles' \in Nat
    BY <1>1 DEF AsoInv, OnlyApprovedIsLive, bounds, AsoTypeOK
<1> QED BY <1>8, <1>9, <1>10, <1>14, <1>15, GotoKeeps

-----------------------------------------------------------------------------
(* The invariant. *)

LEMMA CrashKeeps ==
    ASSUME AsoInv, NEW p \in Process, Crash(p)
    PROVE  AsoInv'
BY IdleKeeps DEF Crash

LEMMA TickKeeps ==
    ASSUME AsoInv, Tick \/ UNCHANGED vars
    PROVE  AsoInv'
<1> USE DEF AsoInv
<1>1. /\ saved' = saved /\ run' = run /\ shape' = shape /\ live' = live /\ plans' = plans
      /\ approved' = approved /\ cut' = cut /\ cycles' = cycles
    BY DEF Tick, vars
<1>2. now \in Nat /\ now' \in Nat /\ now <= now'
    BY DEF Tick, vars, AsoTypeOK
<1>3. AsoTypeOK'
    BY <1>1, <1>2 DEF AsoTypeOK
<1>4. \A n, st : Sound(n, st)' <=> Sound(n, st)
    BY <1>1 DEF Sound, Honest
<1>5. \A r : Progress(r)' <=> Progress(r)
    BY <1>1 DEF Progress, ChangesOf
<1>6. Sound(saved.node, saved.st)' /\ RunsSound'
    BY <1>1, <1>4, <1>5 DEF RunsSound
<1>7. PausesOnce'
    BY <1>1, <1>2 DEF PausesOnce, AsoTypeOK, Checkpoint
<1>8. OneWriter' /\ OnlyApprovedIsLive' /\ ~cut'
    BY <1>1 DEF OneWriter, OnlyApprovedIsLive
<1> QED BY <1>3, <1>6, <1>7, <1>8

THEOREM AsoInitial == Init => AsoInv
<1> SUFFICES ASSUME Init
             PROVE  AsoInv
    OBVIOUS
<1>1. saved \in Checkpoint /\ saved.node = "none" /\ ~saved.paused /\ saved.st = Fresh(0)
    BY Idles DEF Init, Checkpoint
<1>2. run = [p \in Process |-> Idle] /\ Idle \in Command
    BY Idles DEF Init
<1>3. AsoTypeOK
    <2>1. plans = 0 /\ plans \in 0 .. MaxPlans
        BY AsoAssumption DEF Init
    <2>2. DOMAIN shape = 1 .. MaxPlans /\ \A n \in 1 .. plans : shape[n] \in Shape
        BY <2>1 DEF Init
    <2>3. now \in Nat /\ cycles \in Nat /\ cut \in BOOLEAN
        BY DEF Init
    <2> QED BY <1>1, <1>2, <2>1, <2>2, <2>3 DEF AsoTypeOK
<1>4. Sound(saved.node, saved.st)
    BY <1>1 DEF Init, Sound, Fresh, Preparing
<1>5. \A p \in Process : run[p].pc = "idle" /\ ~run[p].latest
    BY <1>2 DEF Idle
<1>6. RunsSound
    BY <1>5 DEF RunsSound, Node
<1>7. PausesOnce /\ OneWriter
    BY <1>5 DEF PausesOnce, OneWriter
<1>8. OnlyApprovedIsLive /\ ~cut
    BY DEF Init, OnlyApprovedIsLive
<1> QED BY <1>3, <1>4, <1>6, <1>7, <1>8 DEF AsoInv

THEOREM AsoInductive == AsoInv /\ [Next]_vars => AsoInv'
<1> SUFFICES ASSUME AsoInv, [Next]_vars
             PROVE  AsoInv'
    OBVIOUS
<1>1. ASSUME NEW p \in Process, RunCycle(p) \/ ResumeGraph(p) \/ CheckWait(p)
      PROVE  AsoInv'
    BY <1>1, RunCycleKeeps, ResumeGraphKeeps, CheckWaitKeeps
<1>2. ASSUME NEW p \in Process, Step(p)
      PROVE  AsoInv'
    <2>1. CASE CheckResumes(p)
        BY <2>1, CheckResumesKeeps
    <2>2. CASE Monitor(p) \/ Analyze(p) \/ Decide(p)
        BY <2>2, EarlyNodesKeep
    <2>3. CASE Plan(p)
        BY <2>3, PlanKeeps
    <2>4. CASE Review(p)
        BY <2>4, ReviewKeeps
    <2>5. CASE ExecuteNothing(p)
        BY <2>5, ExecuteNothingKeeps
    <2>6. CASE ExecuteApple(p)
        BY <2>6, ExecuteAppleKeeps
    <2>7. CASE ExecutePlay(p)
        BY <2>7, ExecutePlayKeeps
    <2>8. CASE ExecuteCommit(p)
        BY <2>8, ExecuteCommitKeeps
    <2>9. CASE ExecuteRecord(p)
        BY <2>9, ExecuteRecordKeeps
    <2>10. CASE Wait(p)
        BY <2>10, WaitKeeps
    <2>11. CASE Measure(p) \/ Evaluate(p) \/ Notify(p)
        BY <2>11, LateNodesKeep
    <2> QED BY <1>2, <2>1, <2>2, <2>3, <2>4, <2>5, <2>6, <2>7, <2>8, <2>9, <2>10, <2>11 DEF Step
<1>3. ASSUME NEW p \in Process, Crash(p)
      PROVE  AsoInv'
    BY <1>3, CrashKeeps
<1>4. CASE Tick \/ UNCHANGED vars
    BY <1>4, TickKeeps
<1> QED BY <1>1, <1>2, <1>3, <1>4 DEF Next

THEOREM AsoAlways == Spec => []AsoInv
BY AsoInitial, AsoInductive, PTL DEF Spec

-----------------------------------------------------------------------------
(* What the invariant gives. *)

\* What the stores have of a plan was approved by a person: commands of any
\* number of processes, in any order, overlapping or killed (aso/runner.py,
\* the review and execute nodes).
THEOREM ApprovedOnly == Spec => []OnlyApprovedIsLive
<1>1. AsoInv => OnlyApprovedIsLive
    BY DEF AsoInv
<1> QED BY <1>1, AsoAlways, PTL

\* changes_applied never lists as applied, and not also as an error, what a
\* store does not have, and forgets no change (aso/nodes/execute.py), for
\* plans of any length and any pattern of failed requests.
THEOREM HonestRecord == Spec => []RecordIsHonest
<1>1. AsoInv => RecordIsHonest
    BY DEF AsoInv, Sound, Honest, RecordIsHonest
<1> QED BY <1>1, AsoAlways, PTL

\* measure and evaluate always find the changes of the plan they are about:
\* run_cycle leaves nothing of an earlier cycle on the thread (aso/runner.py).
THEOREM OwnPlanMeasured == Spec => []MeasuresItsOwnPlan
<1>1. AsoInv => MeasuresItsOwnPlan
    BY DEF AsoInv, Sound, MeasuresItsOwnPlan
<1> QED BY <1>1, AsoAlways, PTL

\* check_wait_resume never ends a pause before its time, nor answers a review,
\* unless another command moved the pipeline between its two loads.
THEOREM WaitIsWaited == Spec => []NoEarlyResume
<1>1. AsoInv => NoEarlyResume
    BY DEF AsoInv, NoEarlyResume
<1> QED BY <1>1, AsoAlways, PTL
=============================================================================
