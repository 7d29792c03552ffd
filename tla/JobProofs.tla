----------------------------- MODULE JobProofs -----------------------------
(***************************************************************************)
(* Proofs about the scheduled jobs: CronScheduler and CronReports.         *)
(***************************************************************************)
EXTENDS CronScheduler, CronReports, FiniteSetTheorems, SequenceTheorems, TLAPS

-----------------------------------------------------------------------------
(* The runs of a job.                                                       *)
(*                                                                          *)
(* That a scheduled run is no second one rests on two facts: a job that is  *)
(* not flagged has no run but those started by hand, and a poll finds no    *)
(* task of the last poll.                                                   *)

Tasks == [job : Jobs, origin : {"poll", "manual"}]

\* The places of a queue with a task of the job, of one of the origins.
Queued(s, j, origins) == {i \in DOMAIN s : s[i].job = j /\ s[i].origin \in origins}

EitherWay == {"poll", "manual"}
ByHand == {"manual"}

CronTypes ==
    /\ up \in [Agents -> BOOLEAN]
    /\ queue \in [Agents -> Seq(Tasks)]
    /\ running \in [Agents -> [Jobs -> BOOLEAN]]
    /\ active \in [Agents -> [Jobs -> Nat]]
    /\ manual \in [Agents -> [Jobs -> Nat]]

\* What holds of one job in one process: its queue, how many runs are at work, the
\* flag, and how many were triggered.  The flag can be down while a run triggered by
\* hand is at work, and then only such runs are.
Within(q, j, act, flag, m) ==
    /\ act + Cardinality(Queued(q, j, EitherWay)) <= 1 + m
    /\ ~flag => act + Cardinality(Queued(q, j, ByHand)) <= m

AgentInv(a) ==
    /\ \A j \in Jobs : Within(queue[a], j, active[a][j], running[a][j], manual[a][j])
    /\ ~up[a] => queue[a] = <<>> /\ active[a] = Never

CronInv == CronTypes /\ \A a \in Agents : AgentInv(a)

LEMMA QueuedIsFinite ==
  ASSUME NEW s \in Seq(Tasks), NEW j, NEW origins
  PROVE  /\ IsFiniteSet(Queued(s, j, origins))
         /\ Cardinality(Queued(s, j, origins)) \in Nat
<1>1. IsFiniteSet(1 .. Len(s))
  BY FS_Interval
<1>2. Queued(s, j, origins) \in SUBSET (1 .. Len(s))
  BY DEF Queued
<1> QED
  BY <1>1, <1>2, FS_Subset, FS_CardinalityType

LEMMA FewerByHand ==
  ASSUME NEW s \in Seq(Tasks), NEW j
  PROVE  Cardinality(Queued(s, j, ByHand)) <= Cardinality(Queued(s, j, EitherWay))
<1>1. Queued(s, j, ByHand) \in SUBSET Queued(s, j, EitherWay)
  BY DEF Queued, ByHand, EitherWay
<1> QED
  BY <1>1, QueuedIsFinite, FS_Subset

\* The first task leaves: it is counted no more.
LEMMA TailQueued ==
  ASSUME NEW s \in Seq(Tasks), s # <<>>, NEW j, NEW origins
  PROVE  /\ Cardinality(Queued(Tail(s), j, origins)) <= Cardinality(Queued(s, j, origins))
         /\ Head(s).job = j /\ Head(s).origin \in origins =>
               Cardinality(Queued(Tail(s), j, origins)) + 1
                   <= Cardinality(Queued(s, j, origins))
<1> DEFINE S == Queued(s, j, origins)
           T == Queued(Tail(s), j, origins)
           f == [i \in T |-> i + 1]
<1>1. IsFiniteSet(S) /\ IsFiniteSet(S \ {1}) /\ Cardinality(S) \in Nat
        /\ Cardinality(S \ {1}) = IF 1 \in S THEN Cardinality(S) - 1 ELSE Cardinality(S)
  BY QueuedIsFinite, FS_RemoveElement
<1>2. \A i \in T : i \in 1 .. Len(s) - 1 /\ i + 1 \in S \ {1}
  BY DEF Queued
<1>3. f \in [T -> S \ {1}] /\ \A i, k \in T : f[i] = f[k] => i = k
  BY <1>2
<1>4. f \in Injection(T, S \ {1})
  BY <1>3 DEF Injection, IsInjective
<1> HIDE DEF f
<1>5. Cardinality(T) <= Cardinality(S \ {1})
  BY <1>1, <1>4, FS_Injection
<1>6. Tail(s) \in Seq(Tasks)
  OBVIOUS
<1>7. Cardinality(T) \in Nat
  BY <1>6, QueuedIsFinite
<1>8. Head(s).job = j /\ Head(s).origin \in origins => 1 \in S
  BY DEF Queued
<1> QED
  BY <1>1, <1>5, <1>7, <1>8

\* Tasks are added, of which at most one, at the place x, counts.
LEMMA MoreQueued ==
  ASSUME NEW s \in Seq(Tasks), NEW t \in Seq(Tasks), NEW x, NEW j, NEW origins,
         \A i \in DOMAIN s : i \in DOMAIN t /\ t[i] = s[i],
         \A i \in DOMAIN t \ DOMAIN s : t[i].job = j /\ t[i].origin \in origins => i = x
  PROVE  Cardinality(Queued(t, j, origins)) <= Cardinality(Queued(s, j, origins)) + 1
<1> DEFINE S == Queued(s, j, origins)
           T == Queued(t, j, origins)
<1>1. IsFiniteSet(S) /\ Cardinality(S) \in Nat
  BY QueuedIsFinite
<1>2. /\ IsFiniteSet(S \cup {x})
      /\ Cardinality(S \cup {x}) = IF x \in S THEN Cardinality(S) ELSE Cardinality(S) + 1
  BY <1>1, FS_AddElement
<1>3. T \in SUBSET (S \cup {x})
  BY DEF Queued
<1> HIDE DEF S, T
<1>4. Cardinality(T) <= Cardinality(S \cup {x})
  BY <1>2, <1>3, FS_Subset
<1>5. Cardinality(T) \in Nat
  BY QueuedIsFinite DEF T
<1> QED
  BY <1>1, <1>2, <1>4, <1>5 DEF S, T

\* Tasks are added, of which none counts.
LEMMA NoMoreQueued ==
  ASSUME NEW s \in Seq(Tasks), NEW t \in Seq(Tasks), NEW j, NEW origins,
         \A i \in DOMAIN s : i \in DOMAIN t /\ t[i] = s[i],
         \A i \in DOMAIN t \ DOMAIN s : ~(t[i].job = j /\ t[i].origin \in origins)
  PROVE  Cardinality(Queued(t, j, origins)) = Cardinality(Queued(s, j, origins))
<1>1. Queued(t, j, origins) = Queued(s, j, origins)
  BY DEF Queued
<1> QED
  BY <1>1

\* A step of one process leaves what is said of the others.
LEMMA OnlyOneAgent ==
  ASSUME CronInv, NEW a \in Agents, CronTypes', AgentInv(a)',
         \A b \in Agents \ {a} : /\ up'[b] = up[b] /\ queue'[b] = queue[b]
                                 /\ running'[b] = running[b] /\ active'[b] = active[b]
                                 /\ manual'[b] = manual[b]
  PROVE  CronInv'
BY DEF CronInv, AgentInv, Never

LEMMA StartKeeps ==
  ASSUME CronInv, NEW a \in Agents, Start(a)
  PROVE  CronInv'
<1>1. PICK j : j = Head(queue[a]).job
  OBVIOUS
<1>2. /\ queue[a] # <<>> /\ queue[a] \in Seq(Tasks)
      /\ running' = [running EXCEPT ![a][j] = TRUE]
      /\ active' = [active EXCEPT ![a][j] = @ + 1]
      /\ queue' = [queue EXCEPT ![a] = Tail(queue[a])]
      /\ UNCHANGED <<up, manual>>
  BY <1>1 DEF Start, CronInv, CronTypes
<1>3. j \in Jobs /\ Head(queue[a]).origin \in EitherWay /\ Tail(queue[a]) \in Seq(Tasks)
  <2>1. Head(queue[a]) \in Tasks /\ Tail(queue[a]) \in Seq(Tasks)
    BY <1>2
  <2> QED
    BY <1>1, <2>1 DEF Tasks, EitherWay
<1>4. CronTypes'
  BY <1>2, <1>3 DEF CronInv, CronTypes
<1>5. ASSUME NEW k \in Jobs
      PROVE  Within(queue[a], k, active[a][k], running[a][k], manual[a][k])'
  <2>1. /\ queue'[a] = Tail(queue[a]) /\ manual'[a][k] = manual[a][k]
        /\ active'[a][k] = (IF k = j THEN active[a][k] + 1 ELSE active[a][k])
        /\ k = j => running'[a][k]
        /\ k # j => running'[a][k] = running[a][k]
        /\ active[a][k] \in Nat /\ manual[a][k] \in Nat
    <3>1. CASE k = j
      BY <1>2, <1>3, <3>1 DEF CronInv, CronTypes
    <3>2. CASE k # j
      BY <1>2, <1>3, <3>2 DEF CronInv, CronTypes
    <3> QED
      BY <3>1, <3>2
  <2>2. Within(queue[a], k, active[a][k], running[a][k], manual[a][k])
    BY DEF CronInv, AgentInv
  <2>3. PICK q, r : q = queue[a] /\ r = Tail(queue[a])
    OBVIOUS
  <2>4. /\ Cardinality(Queued(q, k, EitherWay)) \in Nat
        /\ Cardinality(Queued(r, k, EitherWay)) \in Nat
        /\ Cardinality(Queued(q, k, ByHand)) \in Nat
        /\ Cardinality(Queued(r, k, ByHand)) \in Nat
    BY <1>2, <1>3, <2>3, QueuedIsFinite
  <2>5. /\ Cardinality(Queued(r, k, EitherWay)) <= Cardinality(Queued(q, k, EitherWay))
        /\ k = j => Cardinality(Queued(r, k, EitherWay)) + 1 <= Cardinality(Queued(q, k, EitherWay))
        /\ Cardinality(Queued(r, k, ByHand)) <= Cardinality(Queued(q, k, ByHand))
    BY <1>1, <1>2, <1>3, <2>3, TailQueued
  <2>6. /\ active[a][k] + Cardinality(Queued(q, k, EitherWay)) <= 1 + manual[a][k]
        /\ ~running[a][k] =>
              active[a][k] + Cardinality(Queued(q, k, ByHand)) <= manual[a][k]
    BY <2>2, <2>3 DEF Within
  <2>7. active'[a][k] + Cardinality(Queued(r, k, EitherWay)) <= 1 + manual[a][k]
    BY <2>1, <2>4, <2>5, <2>6
  <2>8. ASSUME ~running'[a][k]
        PROVE  active'[a][k] + Cardinality(Queued(r, k, ByHand)) <= manual[a][k]
    <3>1. k # j /\ ~running[a][k]
      BY <2>1, <2>8, Zenon
    <3>2. active'[a][k] = active[a][k]
      BY <2>1, <3>1
    <3>3. active[a][k] + Cardinality(Queued(q, k, ByHand)) <= manual[a][k]
      BY <2>6, <3>1
    <3> QED
      BY <2>1, <2>4, <2>5, <3>2, <3>3
  <2> QED
    BY <2>1, <2>3, <2>7, <2>8 DEF Within
<1>6. up[a]
  BY <1>2 DEF CronInv, AgentInv
<1>7. AgentInv(a)'
  BY <1>2, <1>5, <1>6 DEF AgentInv
<1>8. \A b \in Agents \ {a} : /\ queue'[b] = queue[b] /\ running'[b] = running[b]
                              /\ active'[b] = active[b]
  BY <1>2 DEF CronInv, CronTypes
<1> QED
  BY <1>2, <1>4, <1>7, <1>8, OnlyOneAgent

LEMMA FinishKeeps ==
  ASSUME CronInv, NEW a \in Agents, NEW j \in Jobs, Finish(a, j)
  PROVE  CronInv'
<1>1. /\ active[a][j] > 0
      /\ active' = [active EXCEPT ![a][j] = @ - 1]
      /\ running' = [running EXCEPT ![a][j] = FALSE]
      /\ UNCHANGED <<up, queue, manual>>
  BY DEF Finish
<1>2. active[a][j] - 1 \in Nat /\ queue[a] \in Seq(Tasks)
  BY <1>1 DEF CronInv, CronTypes
<1>3. CronTypes'
  BY <1>1, <1>2 DEF CronInv, CronTypes
<1>4. Within(queue[a], j, active[a][j] - 1, FALSE, manual[a][j])
  <2>1. active[a][j] + Cardinality(Queued(queue[a], j, EitherWay)) <= 1 + manual[a][j]
    BY DEF CronInv, AgentInv, Within
  <2>2. PICK q : q = queue[a]
    OBVIOUS
  <2>3. /\ Cardinality(Queued(q, j, ByHand)) <= Cardinality(Queued(q, j, EitherWay))
        /\ Cardinality(Queued(q, j, ByHand)) \in Nat
        /\ Cardinality(Queued(q, j, EitherWay)) \in Nat
    BY <1>2, <2>2, FewerByHand, QueuedIsFinite
  <2>4. active[a][j] \in Nat /\ manual[a][j] \in Nat
    BY DEF CronInv, CronTypes
  <2> QED
    BY <2>1, <2>2, <2>3, <2>4 DEF Within
<1>5. ASSUME NEW k \in Jobs
      PROVE  Within(queue[a], k, active[a][k], running[a][k], manual[a][k])'
  <2>1. CASE k = j
    <3>1. /\ queue'[a] = queue[a] /\ active'[a][k] = active[a][j] - 1
          /\ running'[a][k] = FALSE /\ manual'[a][k] = manual[a][j]
      BY <1>1, <2>1 DEF CronInv, CronTypes
    <3> QED
      BY <1>4, <2>1, <3>1 DEF Within
  <2>2. CASE k # j
    <3>1. /\ queue'[a] = queue[a] /\ active'[a][k] = active[a][k]
          /\ running'[a][k] = running[a][k] /\ manual'[a][k] = manual[a][k]
      BY <1>1, <2>2 DEF CronInv, CronTypes
    <3> QED
      BY <3>1 DEF CronInv, AgentInv, Within
  <2> QED
    BY <2>1, <2>2
<1>6. up[a]
  BY <1>1 DEF CronInv, AgentInv, Never
<1>7. AgentInv(a)'
  BY <1>1, <1>5, <1>6 DEF AgentInv
<1>8. \A b \in Agents \ {a} : running'[b] = running[b] /\ active'[b] = active[b]
  BY <1>1 DEF CronInv, CronTypes
<1> QED
  BY <1>1, <1>3, <1>7, <1>8, OnlyOneAgent

\* A run by hand makes room for itself.
LEMMA TriggerKeeps ==
  ASSUME CronInv, NEW a \in Agents, NEW j \in Jobs, Trigger(a, j)
  PROVE  CronInv'
<1>1. PICK task : task = [job |-> j, origin |-> "manual"]
  OBVIOUS
<1>2. /\ up[a] /\ ~running[a][j]
      /\ queue' = [queue EXCEPT ![a] = Append(queue[a], task)]
      /\ manual' = [manual EXCEPT ![a][j] = @ + 1]
      /\ UNCHANGED <<up, running, active>>
  BY <1>1 DEF Trigger, memoryVars, CronInv, CronTypes
<1>3. PICK q, r : q = queue[a] /\ r = Append(queue[a], task)
  OBVIOUS
<1>4. task \in Tasks /\ task.job = j /\ task.origin = "manual"
  BY <1>1 DEF Tasks
<1>5. q \in Seq(Tasks) /\ r \in Seq(Tasks) /\ queue'[a] = r
  BY <1>2, <1>3, <1>4 DEF CronInv, CronTypes
<1>6. /\ \A i \in DOMAIN q : i \in DOMAIN r /\ r[i] = q[i]
      /\ \A i \in DOMAIN r \ DOMAIN q : i = Len(q) + 1 /\ r[i] = task
  BY <1>3, <1>4, <1>5
<1>7. CronTypes'
  BY <1>2, <1>3, <1>5 DEF CronInv, CronTypes
<1>8. ASSUME NEW k \in Jobs
      PROVE  Within(queue[a], k, active[a][k], running[a][k], manual[a][k])'
  <2>1. /\ active'[a][k] = active[a][k] /\ running'[a][k] = running[a][k]
        /\ active[a][k] \in Nat /\ manual[a][k] \in Nat
        /\ manual'[a][k] = (IF k = j THEN manual[a][k] + 1 ELSE manual[a][k])
    BY <1>2 DEF CronInv, CronTypes
  <2>2. /\ active[a][k] + Cardinality(Queued(q, k, EitherWay)) <= 1 + manual[a][k]
        /\ ~running[a][k] =>
              active[a][k] + Cardinality(Queued(q, k, ByHand)) <= manual[a][k]
    BY <1>3 DEF CronInv, AgentInv, Within
  <2>3. /\ Cardinality(Queued(q, k, EitherWay)) \in Nat
        /\ Cardinality(Queued(r, k, EitherWay)) \in Nat
        /\ Cardinality(Queued(q, k, ByHand)) \in Nat
        /\ Cardinality(Queued(r, k, ByHand)) \in Nat
    BY <1>5, QueuedIsFinite
  <2>4. /\ Cardinality(Queued(r, k, EitherWay)) <= Cardinality(Queued(q, k, EitherWay)) + 1
        /\ Cardinality(Queued(r, k, ByHand)) <= Cardinality(Queued(q, k, ByHand)) + 1
        /\ k # j => /\ Cardinality(Queued(r, k, EitherWay))
                          = Cardinality(Queued(q, k, EitherWay))
                    /\ Cardinality(Queued(r, k, ByHand)) = Cardinality(Queued(q, k, ByHand))
    <3>1. PICK x : x = Len(q) + 1
      OBVIOUS
    <3>2. \A i \in DOMAIN r \ DOMAIN q : i = x
      BY <1>6, <3>1
    <3>3. k # j => \A i \in DOMAIN r \ DOMAIN q : r[i].job # k
      BY <1>4, <1>6
    <3> QED
      <4>1. ASSUME NEW origins
            PROVE  Cardinality(Queued(r, k, origins)) <= Cardinality(Queued(q, k, origins)) + 1
        BY <1>5, <1>6, <3>2, MoreQueued
      <4>2. ASSUME NEW origins, k # j
            PROVE  Cardinality(Queued(r, k, origins)) = Cardinality(Queued(q, k, origins))
        <5>1. \A i \in DOMAIN r \ DOMAIN q : ~(r[i].job = k /\ r[i].origin \in origins)
          BY <3>3, <4>2
        <5> QED
          BY <1>5, <1>6, <5>1, NoMoreQueued
      <4> QED
        BY <4>1, <4>2
  <2>5. active[a][k] + Cardinality(Queued(r, k, EitherWay)) <= 1 + manual'[a][k]
    BY <2>1, <2>2, <2>3, <2>4
  <2>6. ASSUME ~running[a][k]
        PROVE  active[a][k] + Cardinality(Queued(r, k, ByHand)) <= manual'[a][k]
    <3>1. active[a][k] + Cardinality(Queued(q, k, ByHand)) <= manual[a][k]
      BY <2>2, <2>6
    <3> QED
      BY <2>1, <2>3, <2>4, <3>1
  <2> QED
    BY <1>5, <2>1, <2>5, <2>6 DEF Within
<1>9. AgentInv(a)'
  BY <1>2, <1>8 DEF AgentInv
<1>10. \A b \in Agents \ {a} : queue'[b] = queue[b] /\ manual'[b] = manual[b]
  BY <1>2 DEF CronInv, CronTypes
<1> QED
  BY <1>2, <1>7, <1>9, <1>10, OnlyOneAgent

\* A poll finds no task of the last one, and adds one for each job that is due.
LEMMA PollAdds ==
  ASSUME CronInv, NEW a \in Agents, Poll(a)
  PROVE  \E r \in Seq(Tasks) :
            /\ queue' = [queue EXCEPT ![a] = r]
            /\ \A i \in DOMAIN queue[a] : i \in DOMAIN r /\ r[i] = queue[a][i]
            /\ \A i \in DOMAIN r \ DOMAIN queue[a] :
                  r[i].origin = "poll" /\ ShouldRun(a, r[i].job)
            /\ \A i, k \in DOMAIN r \ DOMAIN queue[a] : r[i].job = r[k].job => i = k
            /\ \A i \in Due(a) : \E k \in DOMAIN r : r[k].job = Registered[a][i]
<1> USE CronAssumption
<1>1. PICK n : n = Cardinality(Due(a))
  OBVIOUS
<1>2. n \in Nat /\ IsFiniteSet(Due(a))
  <2>1. IsFiniteSet(1 .. Len(Registered[a]))
    BY FS_Interval
  <2>2. Due(a) \in SUBSET (1 .. Len(Registered[a]))
    BY DEF Due
  <2> QED
    BY <1>1, <2>1, <2>2, FS_Subset, FS_CardinalityType
<1>3. PICK due \in [1 .. n -> Due(a)] :
        /\ \A i, k \in 1 .. n : i < k => due[i] < due[k]
        /\ queue' = [queue EXCEPT ![a] = queue[a] \o
               [i \in 1 .. n |-> [job |-> Registered[a][due[i]], origin |-> "poll"]]]
  <2>1. PICK due \in [1 .. n -> Due(a)] :
          /\ \A i, k \in DOMAIN due : i < k => due[i] < due[k]
          /\ queue' = [queue EXCEPT ![a] = queue[a] \o
               [i \in DOMAIN due |-> [job |-> Registered[a][due[i]], origin |-> "poll"]]]
    BY <1>1 DEF Poll
  <2>2. DOMAIN due = 1 .. n
    BY <2>1
  <2> QED
    BY <2>1, <2>2
<1>4. \A i \in 1 .. n : /\ due[i] \in 1 .. Len(Registered[a])
                        /\ Registered[a][due[i]] \in Jobs
                        /\ ShouldRun(a, Registered[a][due[i]])
  BY <1>3 DEF Due
<1>5. \A i, k \in 1 .. n : due[i] = due[k] => i = k
  BY <1>3, <1>4
<1>6. \A i, k \in 1 .. n : Registered[a][due[i]] = Registered[a][due[k]] => i = k
  BY <1>4, <1>5 DEF IsInjective
\* The places that are due are as many as the tasks, so none is left out.
<1>7. \A x \in Due(a) : \E i \in 1 .. n : due[i] = x
  <2>1. due \in Injection(1 .. n, Due(a))
    BY <1>3, <1>5 DEF Injection, IsInjective
  <2>2. Cardinality(1 .. n) = n
    BY <1>2, FS_Interval
  <2>3. due \in Surjection(1 .. n, Due(a))
    BY <1>1, <1>2, <2>1, <2>2, FS_Injection
  <2> QED
    BY <2>3 DEF Surjection
<1>8. PICK d : d = [i \in 1 .. n |-> [job |-> Registered[a][due[i]], origin |-> "poll"]]
  OBVIOUS
<1>9. d \in Seq(Tasks) /\ Len(d) = n
  <2>1. \A i \in 1 .. n : [job |-> Registered[a][due[i]], origin |-> "poll"] \in Tasks
    BY <1>4 DEF Tasks
  <2>2. d \in [1 .. n -> Tasks]
    BY <1>8, <2>1
  <2>3. d \in Seq(Tasks)
    BY <1>2, <2>2
  <2> QED
    BY <1>2, <2>2, <2>3
<1>10. \A i \in 1 .. n : d[i].job = Registered[a][due[i]] /\ d[i].origin = "poll"
  BY <1>8
<1>11. PICK q, r : q = queue[a] /\ r = queue[a] \o d
  OBVIOUS
<1>12. q \in Seq(Tasks) /\ r \in Seq(Tasks) /\ queue' = [queue EXCEPT ![a] = r]
  <2>1. q \in Seq(Tasks)
    BY <1>11 DEF CronInv, CronTypes
  <2>2. r \in Seq(Tasks)
    BY <1>9, <1>11, <2>1, ConcatProperties
  <2>3. queue' = [queue EXCEPT ![a] = r]
    BY <1>3, <1>8, <1>11
  <2> QED
    BY <2>1, <2>2, <2>3
<1>13. /\ \A i \in DOMAIN q : i \in DOMAIN r /\ r[i] = q[i]
       /\ \A i \in DOMAIN r \ DOMAIN q : i - Len(q) \in 1 .. n /\ r[i] = d[i - Len(q)]
       /\ \A i \in 1 .. n : Len(q) + i \in DOMAIN r /\ r[Len(q) + i] = d[i]
  <2>1. /\ Len(r) = Len(q) + Len(d)
        /\ \A i \in 1 .. Len(q) + Len(d) :
               r[i] = IF i <= Len(q) THEN q[i] ELSE d[i - Len(q)]
    BY <1>9, <1>11, <1>12, ConcatProperties
  <2>2. DOMAIN r = 1 .. Len(r) /\ DOMAIN q = 1 .. Len(q) /\ Len(q) \in Nat
    BY <1>12
  <2>3. ASSUME NEW i \in 1 .. n
        PROVE  Len(q) + i \in DOMAIN r /\ r[Len(q) + i] = d[i]
    <3>1. Len(q) + i \in 1 .. Len(r) /\ ~(Len(q) + i <= Len(q)) /\ Len(q) + i - Len(q) = i
      BY <1>2, <1>9, <2>1, <2>2
    <3> QED
      BY <2>1, <2>2, <3>1
  <2> QED
    BY <1>2, <1>9, <2>1, <2>2, <2>3
<1>14. \A i \in DOMAIN r \ DOMAIN q : r[i].origin = "poll" /\ ShouldRun(a, r[i].job)
  BY <1>4, <1>10, <1>13
<1>15. ASSUME NEW i \in DOMAIN r \ DOMAIN q, NEW k \in DOMAIN r \ DOMAIN q,
              r[i].job = r[k].job
       PROVE  i = k
  <2>1. i - Len(q) = k - Len(q)
    BY <1>6, <1>10, <1>13, <1>15
  <2>2. i \in Int /\ k \in Int /\ Len(q) \in Int
    BY <1>12
  <2> QED
    BY <2>1, <2>2
<1>16. ASSUME NEW x \in Due(a)
       PROVE  \E k \in DOMAIN r : r[k].job = Registered[a][x]
  BY <1>7, <1>10, <1>13
<1> QED
  BY <1>11, <1>12, <1>13, <1>14, <1>15, <1>16

\* The tasks of a poll are for jobs that are not flagged.
LEMMA PollKeeps ==
  ASSUME CronInv, NEW a \in Agents, Poll(a)
  PROVE  CronInv'
<1>1. PICK r \in Seq(Tasks) :
        /\ queue' = [queue EXCEPT ![a] = r]
        /\ \A i \in DOMAIN queue[a] : i \in DOMAIN r /\ r[i] = queue[a][i]
        /\ \A i \in DOMAIN r \ DOMAIN queue[a] :
              r[i].origin = "poll" /\ ShouldRun(a, r[i].job)
        /\ \A i, k \in DOMAIN r \ DOMAIN queue[a] : r[i].job = r[k].job => i = k
  BY PollAdds
<1>2. PICK q : q = queue[a]
  OBVIOUS
<1>3. /\ q \in Seq(Tasks)
      /\ \A i \in DOMAIN q : i \in DOMAIN r /\ r[i] = q[i]
      /\ \A i \in DOMAIN r \ DOMAIN q : r[i].origin = "poll" /\ ~running[a][r[i].job]
      /\ \A i, k \in DOMAIN r \ DOMAIN q : r[i].job = r[k].job => i = k
      /\ queue'[a] = r
  BY <1>1, <1>2 DEF CronInv, CronTypes, ShouldRun
<1>4. /\ \A i \in DOMAIN q : q[i].origin # "poll"
      /\ UNCHANGED <<up, running, active, manual>> /\ up[a]
  BY <1>2 DEF Poll, memoryVars
<1>5. CronTypes'
  BY <1>1, <1>4 DEF CronInv, CronTypes
<1>6. ASSUME NEW k \in Jobs
      PROVE  Within(r, k, active[a][k], running[a][k], manual[a][k])
  <2>1. active[a][k] \in Nat /\ manual[a][k] \in Nat
    BY DEF CronInv, CronTypes
  <2>2. /\ active[a][k] + Cardinality(Queued(q, k, EitherWay)) <= 1 + manual[a][k]
        /\ ~running[a][k] =>
              active[a][k] + Cardinality(Queued(q, k, ByHand)) <= manual[a][k]
    BY <1>2 DEF CronInv, AgentInv, Within
  <2>3. Queued(q, k, EitherWay) = Queued(q, k, ByHand)
    <3>1. \A i \in DOMAIN q : q[i] \in Tasks /\ q[i].origin # "poll"
      BY <1>3, <1>4
    <3> QED
      BY <3>1 DEF Queued, EitherWay, ByHand, Tasks
  <2>4. /\ Cardinality(Queued(q, k, ByHand)) \in Nat
        /\ Cardinality(Queued(r, k, EitherWay)) \in Nat
    BY <1>3, QueuedIsFinite
  <2>5. Cardinality(Queued(r, k, ByHand)) = Cardinality(Queued(q, k, ByHand))
    <3>1. \A i \in DOMAIN r \ DOMAIN q : ~(r[i].job = k /\ r[i].origin \in ByHand)
      BY <1>3 DEF ByHand
    <3> QED
      BY <1>3, <3>1, NoMoreQueued
  <2>6. CASE \E i \in DOMAIN r \ DOMAIN q : r[i].job = k
    <3>1. PICK x \in DOMAIN r \ DOMAIN q : r[x].job = k
      BY <2>6
    <3>2. ~running[a][k]
      BY <1>3, <3>1
    <3>3. \A i \in DOMAIN r \ DOMAIN q : r[i].job = k => i = x
      BY <1>3, <3>1
    <3>4. Cardinality(Queued(r, k, EitherWay)) <= Cardinality(Queued(q, k, EitherWay)) + 1
      BY <1>3, <3>3, MoreQueued
    <3>5. active[a][k] + Cardinality(Queued(q, k, ByHand)) <= manual[a][k]
      BY <2>2, <3>2
    <3>6. active[a][k] + Cardinality(Queued(r, k, EitherWay)) <= 1 + manual[a][k]
      <4>1. Cardinality(Queued(r, k, EitherWay)) <= Cardinality(Queued(q, k, ByHand)) + 1
        BY <2>3, <3>4
      <4>2. PICK before, after, busy, hand :
                 /\ before = Cardinality(Queued(q, k, ByHand))
                 /\ after = Cardinality(Queued(r, k, EitherWay))
                 /\ busy = active[a][k] /\ hand = manual[a][k]
        OBVIOUS
      <4>3. /\ before \in Nat /\ after \in Nat /\ after <= before + 1
            /\ busy \in Nat /\ hand \in Nat /\ busy + before <= hand
        BY <2>1, <2>4, <3>5, <4>1, <4>2
      <4>4. busy + after <= 1 + hand
        BY <4>3
      <4> QED
        BY <4>2, <4>4
    <3>7. active[a][k] + Cardinality(Queued(r, k, ByHand)) <= manual[a][k]
      BY <2>5, <3>5
    <3> QED
      BY <3>6, <3>7 DEF Within
  <2>7. CASE ~\E i \in DOMAIN r \ DOMAIN q : r[i].job = k
    <3>1. Cardinality(Queued(r, k, EitherWay)) = Cardinality(Queued(q, k, EitherWay))
      <4>1. \A i \in DOMAIN r \ DOMAIN q : ~(r[i].job = k /\ r[i].origin \in EitherWay)
        BY <2>7
      <4> QED
        BY <1>3, <4>1, NoMoreQueued
    <3> QED
      BY <2>2, <2>5, <3>1 DEF Within
  <2> QED
    BY <2>6, <2>7
<1>7. AgentInv(a)'
  <2>1. up'[a] /\ queue'[a] = r /\ running'[a] = running[a] /\ active'[a] = active[a]
          /\ manual'[a] = manual[a]
    BY <1>3, <1>4
  <2> QED
    BY <1>6, <2>1 DEF AgentInv, Within
<1>8. \A b \in Agents \ {a} : queue'[b] = queue[b]
  BY <1>1 DEF CronInv, CronTypes
<1> QED
  BY <1>4, <1>5, <1>7, <1>8, OnlyOneAgent

\* A process without tasks and runs.
LEMMA NoneIsWithin ==
  ASSUME NEW j, NEW flag, NEW m \in Nat
  PROVE  Within(<<>>, j, 0, flag, m)
<1>1. Queued(<<>>, j, EitherWay) = {} /\ Queued(<<>>, j, ByHand) = {}
  BY DEF Queued
<1>2. Cardinality(Queued(<<>>, j, EitherWay)) = 0 /\ Cardinality(Queued(<<>>, j, ByHand)) = 0
  BY <1>1, FS_EmptySet
<1>3. 0 + 0 <= 1 + m /\ 0 + 0 <= m
  OBVIOUS
<1> QED
  BY <1>2, <1>3 DEF Within

\* The process begins: no run of it is left from before.
LEMMA BootKeeps ==
  ASSUME CronInv, NEW a \in Agents, Boot(a)
  PROVE  CronInv'
<1>1. /\ ~up[a] /\ up' = [up EXCEPT ![a] = TRUE]
      /\ manual' = [manual EXCEPT ![a] = Never]
      /\ UNCHANGED <<queue, running, active>>
  BY DEF Boot
<1>2. CronTypes'
  BY <1>1 DEF CronInv, CronTypes, Never
<1>3. queue[a] = <<>> /\ active[a] = Never
  BY <1>1 DEF CronInv, AgentInv
<1>4. ASSUME NEW j \in Jobs
      PROVE  Within(queue[a], j, active[a][j], running[a][j], manual[a][j])'
  <2>1. queue'[a] = <<>> /\ active'[a][j] = 0 /\ manual'[a][j] = 0
    BY <1>1, <1>3 DEF Never, CronInv, CronTypes
  <2>2. PICK flag : flag = running'[a][j]
    OBVIOUS
  <2>3. Within(<<>>, j, 0, flag, 0)
    BY NoneIsWithin
  <2> QED
    BY <2>1, <2>2, <2>3 DEF Within
<1>5. AgentInv(a)'
  BY <1>1, <1>4 DEF AgentInv, CronInv, CronTypes
<1>6. \A b \in Agents \ {a} : up'[b] = up[b] /\ manual'[b] = manual[b]
  BY <1>1 DEF CronInv, CronTypes
<1> QED
  BY <1>1, <1>2, <1>5, <1>6, OnlyOneAgent

\* The process dies with all its runs.
LEMMA CrashKeeps ==
  ASSUME CronInv, NEW a \in Agents, Crash(a)
  PROVE  CronInv'
<1>1. /\ up' = [up EXCEPT ![a] = FALSE] /\ queue' = [queue EXCEPT ![a] = <<>>]
      /\ running' = [running EXCEPT ![a] = [j \in Jobs |-> FALSE]]
      /\ active' = [active EXCEPT ![a] = Never] /\ manual' = manual
  BY DEF Crash
<1>2. CronTypes'
  BY <1>1 DEF CronInv, CronTypes, Never
<1>3. queue'[a] = <<>> /\ active'[a] = Never
  BY <1>1 DEF CronInv, CronTypes
<1>4. ASSUME NEW j \in Jobs
      PROVE  Within(queue[a], j, active[a][j], running[a][j], manual[a][j])'
  <2>1. active'[a][j] = 0 /\ manual'[a][j] \in Nat
    BY <1>2, <1>3 DEF Never, CronTypes
  <2>2. PICK flag, m : flag = running'[a][j] /\ m = manual'[a][j]
    OBVIOUS
  <2>3. Within(<<>>, j, 0, flag, m)
    BY <2>1, <2>2, NoneIsWithin
  <2> QED
    BY <1>3, <2>1, <2>2, <2>3 DEF Within
<1>5. AgentInv(a)'
  BY <1>3, <1>4 DEF AgentInv, Never
<1>6. \A b \in Agents \ {a} : /\ up'[b] = up[b] /\ queue'[b] = queue[b]
                              /\ running'[b] = running[b] /\ active'[b] = active[b]
  BY <1>1 DEF CronInv, CronTypes
<1> QED
  BY <1>1, <1>2, <1>5, <1>6, OnlyOneAgent

LEMMA CronInvAlways == CronSpec => []CronInv
<1>1. CronInit => CronInv
  <2> SUFFICES ASSUME CronInit
               PROVE  CronInv
    OBVIOUS
  <2>1. CronTypes
    BY DEF CronInit, CronTypes, Never
  <2>2. ASSUME NEW a \in Agents
        PROVE  AgentInv(a)
    <3>1. queue[a] = <<>> /\ active[a] = Never /\ manual[a] = Never
      BY DEF CronInit
    <3>2. ASSUME NEW j \in Jobs
          PROVE  Within(queue[a], j, active[a][j], running[a][j], manual[a][j])
      <4>1. active[a][j] = 0 /\ manual[a][j] = 0
        BY <3>1 DEF Never
      <4> QED
        BY <3>1, <4>1, NoneIsWithin
    <3> QED
      BY <3>1, <3>2 DEF AgentInv
  <2> QED
    BY <2>1, <2>2 DEF CronInv
<1>2. CronInv /\ [CronNext]_vars => CronInv'
  <2> SUFFICES ASSUME CronInv, [CronNext]_vars
               PROVE  CronInv'
    OBVIOUS
  <2>1. ASSUME UNCHANGED <<up, queue, running, active, manual>>
        PROVE  CronInv'
    BY <2>1 DEF CronInv, CronTypes, AgentInv, Never
  <2>2. ASSUME NEW a \in Agents, NEW j \in Jobs, SetEnabled(a, j)
        PROVE  CronInv'
    BY <2>1, <2>2 DEF SetEnabled, historyVars
  <2>3. CASE Tick \/ UNCHANGED vars
    BY <2>1, <2>3 DEF Tick, vars, memoryVars, historyVars
  <2> QED
    BY <2>2, <2>3, BootKeeps, PollKeeps, StartKeeps, CrashKeeps, FinishKeeps, TriggerKeeps
    DEF CronNext
<1> QED
  BY <1>1, <1>2, PTL DEF CronSpec

\* For any agents, jobs and schedules: two runs of a job overlap in a process only
\* if one was triggered by hand (scheduler.py's _running, which is set when a run
\* begins and cleared by whichever run ends first).
THEOREM OverlapsAreByHand == CronSpec => []OverlapOnlyByHand
<1>1. CronInv => OverlapOnlyByHand
  <2> SUFFICES ASSUME CronInv, NEW a \in Agents, NEW j \in Jobs
               PROVE  active[a][j] + Cardinality({i \in DOMAIN queue[a] :
                                                    queue[a][i].job = j}) <= 1 + manual[a][j]
    BY DEF OverlapOnlyByHand
  <2>1. active[a][j] + Cardinality(Queued(queue[a], j, EitherWay)) <= 1 + manual[a][j]
    BY DEF CronInv, AgentInv, Within
  <2>2. \A i \in DOMAIN queue[a] : queue[a][i].origin \in EitherWay
    <3>1. queue[a] \in Seq(Tasks)
      BY DEF CronInv, CronTypes
    <3>2. \A i \in DOMAIN queue[a] : queue[a][i] \in Tasks
      BY <3>1
    <3> QED
      BY <3>2 DEF Tasks, EitherWay
  <2>3. {i \in DOMAIN queue[a] : queue[a][i].job = j} = Queued(queue[a], j, EitherWay)
    BY <2>2 DEF Queued
  <2> QED
    BY <2>1, <2>3
<1> QED
  BY <1>1, CronInvAlways, PTL

-----------------------------------------------------------------------------
(* The runs of an hour.                                                      *)
(*                                                                           *)
(* What a process knows of the last runs, and the file, name runs that took  *)
(* place.  While the process lives, or its run was saved, a calendar job     *)
(* that began this hour is known to have begun, so no poll starts it again;  *)
(* and a poll either excuses a job, finds it covered or queues it.           *)

HourTypes ==
    /\ now \in Nat /\ now >= HoursPerDay
    /\ enabled \in [Agents -> [Jobs -> BOOLEAN]]
    /\ last \in [Agents -> [Jobs -> Nat]] /\ file \in [Jobs -> Nat]
    /\ whole \in [Agents -> BOOLEAN] /\ polled \in [Agents -> BOOLEAN]
    /\ rewritten \in [Agents -> BOOLEAN]
    /\ excused \in [Agents -> SUBSET Jobs] /\ cut \in [Agents -> SUBSET Jobs]
    /\ starts \in [Agents -> [Jobs -> Nat]]

\* Some agent began the job at the time, if it is one.
Began(j, time) == time > 0 => time <= now /\ \E b \in Agents : <<b, j, time>> \in runs

Waits(a, j) == \E i \in DOMAIN queue[a] : queue[a][i].job = j

\* The places of the tasks of the last poll for the job.
ByPoll == {"poll"}

\* The run of this hour will be found: in memory, or in the file once no run of
\* the job is left to save it.
Recorded(a, j) ==
    /\ up[a] => last[a][j] = now /\ (active[a][j] > 0 \/ file[j] = now)
    /\ ~up[a] => file[j] = now

OnceAnHour(a, j) ==
    j \notin cut[a] /\ ~rewritten[a] =>
        /\ \A i, k \in Queued(queue[a], j, ByPoll) : i = k
        /\ starts[a][j] <= 1
        /\ starts[a][j] = 1 => Queued(queue[a], j, ByPoll) = {} /\ Recorded(a, j)

Attended(a, j) ==
    whole[a] /\ polled[a] /\ j \notin excused[a] => Covered(a, j) \/ Waits(a, j)

JobHour(a, j) ==
    /\ running[a][j] => active[a][j] > 0
    /\ Began(j, last[a][j])
    /\ whole[a] /\ last[a][j] = now => <<a, j, now>> \in runs
    /\ j \in JobsOf(a) => Attended(a, j)
    /\ j \in JobsOf(a) /\ Calendar(j) => OnceAnHour(a, j)

HourInv ==
    /\ HourTypes
    /\ \A j \in Jobs : Began(j, file[j])
    /\ \A a \in Agents : (whole[a] => up[a]) /\ \A j \in Jobs : JobHour(a, j)

LEMMA CoveredStays ==
  ASSUME NEW a, NEW j, Covered(a, j), now' = now, runs \subseteq runs', now \in Nat
  PROVE  Covered(a, j)'
BY DEF Covered, Hour, Weekday, Day

\* A run that begins covers the job for the hour.
LEMMA RunCovers ==
  ASSUME NEW a \in Agents, NEW j \in Jobs, now' \in Nat, <<a, j, now'>> \in runs'
  PROVE  Covered(a, j)'
<1>1. Schedule[j] \in Schedules /\ now' \in 0 .. now'
  BY CronAssumption
<1>2. CASE Schedule[j].kind = "daily"
  BY <1>2 DEF Covered
<1>3. CASE Schedule[j].kind = "weekly"
  BY <1>1, <1>3 DEF Covered
<1>4. CASE Schedule[j].kind = "periodic"
  <2>1. Schedule[j].interval \in Nat \ {0}
    BY <1>1, <1>4 DEF Schedules
  <2>2. now' - now' < Schedule[j].interval
    BY <2>1
  <2> QED
    BY <1>1, <1>4, <2>2 DEF Covered
<1> QED
  BY <1>1, <1>2, <1>3, <1>4 DEF Schedules

\* What a poll passes over, though it is neither paused nor at work, is covered.
LEMMA PassedIsCovered ==
  ASSUME HourInv, NEW a \in Agents, NEW j \in Jobs, whole[a], enabled[a][j],
         ~running[a][j], ~ShouldRun(a, j), now >= HoursPerDay
  PROVE  Covered(a, j)
<1>1. /\ Schedule[j] \in Schedules /\ HoursPerDay \in Nat
      /\ Schedule[j].kind = "periodic" => Schedule[j].interval <= HoursPerDay
  BY CronAssumption
<1>2. now \in Nat /\ last[a][j] \in Nat /\ Began(j, last[a][j])
  BY DEF HourInv, HourTypes, JobHour
<1>3. CASE Schedule[j].kind = "daily"
  BY <1>3 DEF Covered, ShouldRun, HourInv, JobHour
<1>4. ASSUME last[a][j] > 0
      PROVE  \E b \in Agents : <<b, j, last[a][j]>> \in runs /\ last[a][j] \in 0 .. now
  BY <1>2, <1>4 DEF Began
<1>5. CASE Schedule[j].kind = "weekly"
  <2>1. SUFFICES ASSUME Weekday(now) = Schedule[j].weekday, Hour(now) = Schedule[j].hour
                 PROVE  \E b \in Agents, h \in 0 .. now : <<b, j, h>> \in runs /\ Day(h) = Day(now)
    BY <1>5 DEF Covered
  <2>2. last[a][j] > 0 /\ Day(last[a][j]) = Day(now)
    BY <1>5, <2>1 DEF ShouldRun
  <2> QED
    BY <1>4, <2>2
<1>6. CASE Schedule[j].kind = "periodic"
  <2>1. Schedule[j].interval \in Nat /\ ~(now - last[a][j] >= Schedule[j].interval)
    BY <1>1, <1>6 DEF Schedules, ShouldRun
  <2>2. last[a][j] > 0
    BY <1>1, <1>2, <1>6, <2>1
  <2>3. now - last[a][j] < Schedule[j].interval
    BY <1>2, <2>1
  <2> QED
    BY <1>4, <1>6, <2>2, <2>3 DEF Covered
<1> QED
  BY <1>1, <1>3, <1>5, <1>6 DEF Schedules

\* A job of a process that a step has nothing to do with.
LEMMA HourKept ==
  ASSUME NEW a \in Agents, NEW j \in Jobs, JobHour(a, j), now \in Nat, now' = now,
         runs \subseteq runs', running'[a][j] = running[a][j],
         active'[a][j] = active[a][j], last'[a][j] = last[a][j],
         up'[a] = up[a], queue'[a] = queue[a], starts'[a][j] = starts[a][j],
         whole'[a] = whole[a], polled'[a] = polled[a], excused'[a] = excused[a],
         cut[a] \subseteq cut'[a],
         rewritten'[a] \/ (~rewritten[a] /\ (file[j] = now => file'[j] = now))
  PROVE  JobHour(a, j)'
<1>1. Began(j, last[a][j])'
  BY DEF JobHour, Began
<1>2. whole'[a] /\ last'[a][j] = now' => <<a, j, now'>> \in runs'
  BY DEF JobHour
<1>3. j \in JobsOf(a) => Attended(a, j)'
  <2>1. Covered(a, j) => Covered(a, j)'
    BY CoveredStays
  <2> QED
    BY <2>1 DEF JobHour, Attended, Waits
<1>4. j \in JobsOf(a) /\ Calendar(j) => OnceAnHour(a, j)'
  BY DEF JobHour, OnceAnHour, Recorded
<1>5. running'[a][j] => active'[a][j] > 0
  BY DEF JobHour
<1> QED
  BY <1>1, <1>2, <1>3, <1>4, <1>5 DEF JobHour, JobsOf, Calendar

\* The other processes, in a step that leaves the file as it is.
LEMMA OthersKept ==
  ASSUME HourInv, NEW a \in Agents, now' = now, runs \subseteq runs',
         \A b \in Agents \ {a} :
            /\ running'[b] = running[b] /\ active'[b] = active[b] /\ last'[b] = last[b]
            /\ up'[b] = up[b] /\ queue'[b] = queue[b] /\ starts'[b] = starts[b]
            /\ whole'[b] = whole[b] /\ polled'[b] = polled[b] /\ excused'[b] = excused[b]
            /\ cut'[b] = cut[b]
            /\ rewritten'[b] \/ (~rewritten[b] /\ file' = file)
  PROVE  \A b \in Agents \ {a} : (whole'[b] => up'[b]) /\ \A j \in Jobs : JobHour(b, j)'
<1> SUFFICES ASSUME NEW b \in Agents \ {a}
             PROVE  (whole'[b] => up'[b]) /\ \A j \in Jobs : JobHour(b, j)'
  OBVIOUS
<1>1. now \in Nat /\ (whole[b] => up[b]) /\ \A j \in Jobs : JobHour(b, j)
  BY DEF HourInv, HourTypes
<1>2. \A j \in Jobs : JobHour(b, j)'
  BY <1>1, HourKept
<1> QED
  BY <1>1, <1>2

\* A process is up and its hour is known; what is said of it is kept.
LEMMA OneHour ==
  ASSUME HourInv, NEW a \in Agents, HourTypes',
         \A j \in Jobs : Began(j, file[j])',
         \A b \in Agents \ {a} : (whole'[b] => up'[b]) /\ \A j \in Jobs : JobHour(b, j)',
         whole'[a] => up'[a], \A j \in Jobs : JobHour(a, j)'
  PROVE  HourInv'
BY DEF HourInv

LEMMA HourIsLate == ASSUME HourInv PROVE now \in Nat /\ now > 0
<1>1. now \in Nat /\ now >= HoursPerDay /\ HoursPerDay \in Nat \ {0}
  BY CronAssumption DEF HourInv, HourTypes
<1> QED
  BY <1>1

\* The process begins: it knows of the run of this hour if the file does.
LEMMA BootHour ==
  ASSUME CronInv, HourInv, NEW a \in Agents, Boot(a)
  PROVE  HourInv'
<1>1. PICK torn \in BOOLEAN :
        /\ last' = [last EXCEPT ![a] =
                       [j \in Jobs |-> IF ~torn /\ j \in JobsOf(a) THEN file[j] ELSE 0]]
        /\ rewritten' = [rewritten EXCEPT ![a] = @ \/ torn]
  BY DEF Boot
<1>2. /\ ~up[a] /\ up' = [up EXCEPT ![a] = TRUE]
      /\ UNCHANGED <<now, queue, enabled, running, active, file, whole, polled, excused,
                     starts, runs, cut>>
  BY DEF Boot
<1>3. HourTypes'
  BY <1>1, <1>2 DEF HourInv, HourTypes
<1>4. ~whole[a] /\ queue[a] = <<>> /\ up'[a]
  BY <1>2 DEF HourInv, HourTypes, CronInv, CronTypes, AgentInv
<1>5. \A j \in Jobs : last'[a][j] = IF ~torn /\ j \in JobsOf(a) THEN file[j] ELSE 0
  BY <1>1 DEF HourInv, HourTypes
<1>6. rewritten'[a] <=> rewritten[a] \/ torn
  BY <1>1 DEF HourInv, HourTypes
<1>7. ASSUME NEW j \in Jobs
      PROVE  JobHour(a, j)'
  <2>1. JobHour(a, j) /\ Began(j, file[j])
    BY DEF HourInv
  <2>2. running'[a][j] => active'[a][j] > 0
    BY <1>2, <2>1 DEF JobHour
  <2>3. Began(j, last[a][j])'
    <3>1. CASE ~torn /\ j \in JobsOf(a)
      BY <1>2, <1>5, <2>1, <3>1 DEF Began
    <3>2. CASE ~(~torn /\ j \in JobsOf(a))
      BY <1>5, <3>2 DEF Began
    <3> QED
      BY <3>1, <3>2
  <2>4. ~whole'[a]
    BY <1>2, <1>4
  <2>5. ASSUME j \in JobsOf(a), Calendar(j)
        PROVE  OnceAnHour(a, j)'
    <3>1. SUFFICES ASSUME j \notin cut'[a], ~rewritten'[a]
                   PROVE  /\ \A i, k \in Queued(queue'[a], j, ByPoll) : i = k
                          /\ starts'[a][j] <= 1
                          /\ starts'[a][j] = 1 =>
                                Queued(queue'[a], j, ByPoll) = {} /\ Recorded(a, j)'
      BY DEF OnceAnHour
    <3>2. OnceAnHour(a, j) /\ j \notin cut[a] /\ ~rewritten[a] /\ ~torn
      BY <1>2, <1>6, <2>1, <2>5, <3>1 DEF JobHour
    <3>3. last'[a][j] = file[j]
      BY <1>5, <2>5, <3>2
    <3>4. starts[a][j] = 1 => Recorded(a, j)'
      BY <1>2, <1>4, <3>2, <3>3 DEF OnceAnHour, Recorded
    <3> QED
      BY <1>2, <3>2, <3>4 DEF OnceAnHour
  <2> QED
    BY <2>2, <2>3, <2>4, <2>5 DEF JobHour, Attended
<1>8. \A b \in Agents \ {a} :
         /\ last'[b] = last[b] /\ up'[b] = up[b] /\ rewritten'[b] = rewritten[b]
  BY <1>1, <1>2 DEF HourInv, HourTypes, CronInv, CronTypes
<1>9. \A b \in Agents \ {a} : (whole'[b] => up'[b]) /\ \A j \in Jobs : JobHour(b, j)'
  <2>1. \A b \in Agents \ {a} : rewritten'[b] \/ (~rewritten[b] /\ file' = file)
    BY <1>2, <1>8
  <2> QED
    BY <1>2, <1>8, <2>1, OthersKept
<1>10. \A j \in Jobs : Began(j, file[j])'
  BY <1>2 DEF HourInv, Began
<1> QED
  BY <1>3, <1>4, <1>7, <1>9, <1>10, OneHour

\* A poll excuses a job, finds it covered or queues it.
LEMMA PollHour ==
  ASSUME CronInv, HourInv, NEW a \in Agents, Poll(a)
  PROVE  HourInv'
<1>1. PICK r \in Seq(Tasks) :
        /\ queue' = [queue EXCEPT ![a] = r]
        /\ \A i \in DOMAIN queue[a] : i \in DOMAIN r /\ r[i] = queue[a][i]
        /\ \A i \in DOMAIN r \ DOMAIN queue[a] :
              r[i].origin = "poll" /\ ShouldRun(a, r[i].job)
        /\ \A i, k \in DOMAIN r \ DOMAIN queue[a] : r[i].job = r[k].job => i = k
        /\ \A i \in Due(a) : \E k \in DOMAIN r : r[k].job = Registered[a][i]
  BY PollAdds
<1>2. /\ up[a] /\ \A i \in DOMAIN queue[a] : queue[a][i].origin # "poll"
      /\ polled' = [polled EXCEPT ![a] = TRUE]
      /\ excused' = [excused EXCEPT ![a] = @ \union
                        {j \in JobsOf(a) : ~enabled[a][j] \/ active[a][j] > 0}]
      /\ UNCHANGED <<now, up, enabled, running, active, last, file, whole, starts, runs,
                     cut, rewritten>>
  BY DEF Poll, memoryVars
<1>3. /\ queue'[a] = r
      /\ \A j \in JobsOf(a) : j \notin excused'[a] => enabled[a][j] /\ ~(active[a][j] > 0)
  BY <1>1, <1>2 DEF HourInv, HourTypes, CronInv, CronTypes
<1>4. HourTypes'
  <2>1. {j \in JobsOf(a) : ~enabled[a][j] \/ active[a][j] > 0} \in SUBSET Jobs
    BY CronAssumption DEF JobsOf, Range
  <2> QED
    BY <1>2, <2>1 DEF HourInv, HourTypes
<1>5. ASSUME NEW j \in Jobs
      PROVE  JobHour(a, j)'
  <2>1. JobHour(a, j) /\ now \in Nat /\ now > 0
    BY HourIsLate DEF HourInv
  <2>2. running'[a][j] => active'[a][j] > 0
    BY <1>2, <2>1 DEF JobHour
  <2>3. Began(j, last[a][j])' /\ (whole'[a] /\ last'[a][j] = now' => <<a, j, now'>> \in runs')
    BY <1>2, <2>1 DEF JobHour, Began
  <2>4. ASSUME j \in JobsOf(a)
        PROVE  Attended(a, j)'
    <3>1. SUFFICES ASSUME whole[a], j \notin excused'[a]
                   PROVE  Covered(a, j)' \/ Waits(a, j)'
      BY <1>2 DEF Attended
    <3>2. enabled[a][j] /\ ~running[a][j]
      BY <1>3, <2>1, <2>4, <3>1 DEF JobHour
    <3>3. CASE ShouldRun(a, j)
      <4>1. PICK i \in DOMAIN Registered[a] : Registered[a][i] = j
        BY <2>4 DEF JobsOf, Range
      <4>2. i \in Due(a)
        BY <3>3, <4>1 DEF Due
      <4>3. \E k \in DOMAIN r : r[k].job = j
        BY <1>1, <4>1, <4>2
      <4> QED
        BY <1>3, <4>3 DEF Waits
    <3>4. CASE ~ShouldRun(a, j)
      <4>1. now >= HoursPerDay
        BY DEF HourInv, HourTypes
      <4>2. Covered(a, j)
        BY <3>1, <3>2, <3>4, <4>1, PassedIsCovered
      <4> QED
        BY <1>2, <2>1, <4>2, CoveredStays
    <3> QED
      BY <3>3, <3>4
  <2>5. ASSUME j \in JobsOf(a), Calendar(j)
        PROVE  OnceAnHour(a, j)'
    <3>1. SUFFICES ASSUME j \notin cut[a], ~rewritten[a]
                   PROVE  /\ \A i, k \in Queued(r, j, ByPoll) : i = k
                          /\ starts[a][j] <= 1
                          /\ starts[a][j] = 1 => Queued(r, j, ByPoll) = {} /\ Recorded(a, j)'
      BY <1>2, <1>3 DEF OnceAnHour
    <3>2. OnceAnHour(a, j)
      BY <2>1, <2>5 DEF JobHour
    <3>3. \A i \in Queued(r, j, ByPoll) :
             i \in DOMAIN r \ DOMAIN queue[a] /\ r[i].job = j /\ ShouldRun(a, j)
      BY <1>1, <1>2 DEF Queued, ByPoll
    <3>4. \A i, k \in Queued(r, j, ByPoll) : i = k
      BY <1>1, <3>3
    <3>5. starts[a][j] = 1 => Recorded(a, j)
      BY <3>1, <3>2 DEF OnceAnHour
    <3>6. Recorded(a, j) => Recorded(a, j)'
      BY <1>2 DEF Recorded
    <3>7. last[a][j] = now => ~ShouldRun(a, j)
      BY <2>1, <2>5 DEF ShouldRun, Calendar
    <3>8. Recorded(a, j) => Queued(r, j, ByPoll) = {}
      BY <1>2, <3>3, <3>7 DEF Recorded
    <3> QED
      BY <3>1, <3>2, <3>4, <3>5, <3>6, <3>8 DEF OnceAnHour
  <2> QED
    BY <2>2, <2>3, <2>4, <2>5 DEF JobHour
<1>6. \A b \in Agents \ {a} :
         queue'[b] = queue[b] /\ polled'[b] = polled[b] /\ excused'[b] = excused[b]
  BY <1>1, <1>2 DEF HourInv, HourTypes, CronInv, CronTypes
<1>7. \A b \in Agents \ {a} : (whole'[b] => up'[b]) /\ \A j \in Jobs : JobHour(b, j)'
  <2>1. \A b \in Agents \ {a} : rewritten'[b] \/ (~rewritten[b] /\ file' = file)
    BY <1>2
  <2> QED
    BY <1>2, <1>6, <2>1, OthersKept
<1>8. \A j \in Jobs : Began(j, file[j])'
  BY <1>2 DEF HourInv, Began
<1>9. whole'[a] => up'[a]
  BY <1>2
<1> QED
  BY <1>4, <1>5, <1>7, <1>8, <1>9, OneHour

\* A run begins: its job is covered, and known in memory to have begun.
LEMMA StartHour ==
  ASSUME CronInv, HourInv, NEW a \in Agents, Start(a)
  PROVE  HourInv'
<1>1. PICK q, t : q = queue[a] /\ t = Tail(queue[a])
  OBVIOUS
<1>2. PICK j : j = Head(queue[a]).job
  OBVIOUS
<1>3. /\ q # <<>> /\ q \in Seq(Tasks) /\ queue' = [queue EXCEPT ![a] = t]
      /\ running' = [running EXCEPT ![a][j] = TRUE]
      /\ active' = [active EXCEPT ![a][j] = @ + 1]
      /\ last' = [last EXCEPT ![a][j] = now]
      /\ starts' = IF Head(queue[a]).origin = "poll"
                   THEN [starts EXCEPT ![a][j] = @ + 1] ELSE starts
      /\ runs' = runs \union {<<a, j, now>>}
      /\ UNCHANGED <<now, up, enabled, file, whole, polled, excused, cut, rewritten>>
  BY <1>1, <1>2 DEF Start, CronInv, CronTypes
<1>4. /\ q[1].job = j /\ j \in Jobs /\ Head(queue[a]).origin = q[1].origin
      /\ Len(t) = Len(q) - 1 /\ Len(q) \in Nat /\ Len(q) > 0 /\ t \in Seq(Tasks)
      /\ \A i \in 1 .. Len(t) : t[i] = q[i + 1] /\ i + 1 \in 1 .. Len(q)
  <2>1. q[1] \in Tasks /\ Head(q) = q[1] /\ t = Tail(q)
    BY <1>1, <1>3
  <2> QED
    BY <1>1, <1>2, <1>3, <2>1 DEF Tasks
<1>5. DOMAIN q = 1 .. Len(q) /\ DOMAIN t = 1 .. Len(t) /\ 1 \in DOMAIN q
  BY <1>3, <1>4
<1>6. up[a] /\ now \in Nat /\ now > 0
  BY <1>1, <1>3, HourIsLate DEF CronInv, AgentInv
<1>7. HourTypes'
  <2>1. starts' \in [Agents -> [Jobs -> Nat]]
    <3>1. CASE Head(queue[a]).origin = "poll"
      BY <1>3, <1>4, <3>1 DEF HourInv, HourTypes
    <3>2. CASE Head(queue[a]).origin # "poll"
      BY <1>3, <3>2 DEF HourInv, HourTypes
    <3> QED
      BY <3>1, <3>2
  <2> QED
    BY <1>3, <1>4, <1>6, <2>1 DEF HourInv, HourTypes
<1>8. /\ queue'[a] = t /\ running'[a][j] /\ active'[a][j] = active[a][j] + 1
      /\ active[a][j] \in Nat /\ starts[a][j] \in Nat
      /\ last'[a][j] = now /\ <<a, j, now>> \in runs'
      /\ q[1].origin = "poll" => starts'[a][j] = starts[a][j] + 1
      /\ q[1].origin # "poll" => starts'[a][j] = starts[a][j]
  <2>1. /\ running \in [Agents -> [Jobs -> BOOLEAN]] /\ active \in [Agents -> [Jobs -> Nat]]
        /\ last \in [Agents -> [Jobs -> Nat]] /\ queue \in [Agents -> Seq(Tasks)]
    BY DEF HourInv, HourTypes, CronInv, CronTypes
  <2>2. starts \in [Agents -> [Jobs -> Nat]]
    BY DEF HourInv, HourTypes
  <2>3. q[1].origin = "poll" => starts'[a][j] = starts[a][j] + 1
    BY <1>3, <1>4, <2>2
  <2>4. q[1].origin # "poll" => starts'[a][j] = starts[a][j]
    BY <1>3, <1>4
  <2>5. running'[a][j] /\ last'[a][j] = now /\ queue'[a] = t
    BY <1>3, <1>4, <2>1
  <2>6. active'[a][j] = active[a][j] + 1 /\ active[a][j] \in Nat
    BY <1>3, <1>4, <2>1
  <2> QED
    BY <1>3, <1>4, <2>2, <2>3, <2>4, <2>5, <2>6
<1>9. \A k \in Jobs \ {j} : /\ running'[a][k] = running[a][k] /\ active'[a][k] = active[a][k]
                            /\ last'[a][k] = last[a][k] /\ starts'[a][k] = starts[a][k]
  <2> SUFFICES ASSUME NEW k \in Jobs \ {j}
               PROVE  /\ running'[a][k] = running[a][k] /\ active'[a][k] = active[a][k]
                      /\ last'[a][k] = last[a][k] /\ starts'[a][k] = starts[a][k]
    OBVIOUS
  <2>1. starts'[a][k] = starts[a][k]
    <3>1. CASE Head(queue[a]).origin = "poll"
      BY <1>3, <3>1 DEF HourInv, HourTypes
    <3>2. CASE Head(queue[a]).origin # "poll"
      BY <1>3, <3>2
    <3> QED
      BY <3>1, <3>2
  <2> QED
    BY <1>3, <2>1 DEF HourInv, HourTypes, CronInv, CronTypes
<1>10. ASSUME NEW k, \A i, l \in Queued(q, k, ByPoll) : i = l
       PROVE  \A i, l \in Queued(t, k, ByPoll) : i = l
  <2>1. SUFFICES ASSUME NEW i \in Queued(t, k, ByPoll), NEW l \in Queued(t, k, ByPoll)
                 PROVE  i = l
    OBVIOUS
  <2>2. i + 1 \in Queued(q, k, ByPoll) /\ l + 1 \in Queued(q, k, ByPoll)
    BY <1>4, <1>5, <2>1 DEF Queued
  <2>3. i + 1 = l + 1 /\ i \in Int /\ l \in Int
    BY <1>5, <1>10, <2>1, <2>2 DEF Queued
  <2> QED
    BY <2>3
<1>11. \A k : Queued(q, k, ByPoll) = {} => Queued(t, k, ByPoll) = {}
  BY <1>4, <1>5 DEF Queued
<1>12. ASSUME NEW k \in Jobs
       PROVE  JobHour(a, k)'
  <2>1. JobHour(a, k)
    BY DEF HourInv
  <2>2. CASE k = j
    <3>1. running'[a][k] => active'[a][k] > 0
      BY <1>8, <2>2
    <3>2. Began(k, last[a][k])'
      BY <1>3, <1>6, <1>8, <2>2 DEF Began
    <3>3. whole'[a] /\ last'[a][k] = now' => <<a, k, now'>> \in runs'
      BY <1>3, <1>8, <2>2
    <3>4. now' \in Nat /\ <<a, k, now'>> \in runs'
      BY <1>3, <1>6, <1>8, <2>2
    <3>5. Covered(a, k)'
      BY <3>4, RunCovers
    <3>6. ASSUME k \in JobsOf(a), Calendar(k)
          PROVE  OnceAnHour(a, k)'
      <4>1. SUFFICES ASSUME k \notin cut[a], ~rewritten[a]
                     PROVE  /\ \A i, l \in Queued(t, k, ByPoll) : i = l
                            /\ starts'[a][k] <= 1
                            /\ starts'[a][k] = 1 =>
                                  Queued(t, k, ByPoll) = {} /\ Recorded(a, k)'
        BY <1>3, <1>8 DEF OnceAnHour
      <4>2. /\ \A i, l \in Queued(q, k, ByPoll) : i = l
            /\ starts[a][k] <= 1
            /\ starts[a][k] = 1 => Queued(q, k, ByPoll) = {}
        BY <1>1, <2>1, <3>6, <4>1 DEF JobHour, OnceAnHour
      <4>3. Recorded(a, k)'
        BY <1>3, <1>6, <1>8, <2>2 DEF Recorded
      <4>4. CASE q[1].origin = "poll"
        <5>1. 1 \in Queued(q, k, ByPoll)
          BY <1>4, <1>5, <2>2, <4>4 DEF Queued, ByPoll
        <5>2. starts'[a][k] = 1
          BY <1>8, <2>2, <4>2, <4>4, <5>1
        <5>3. \A i \in Queued(t, k, ByPoll) : i + 1 \in Queued(q, k, ByPoll) /\ i \in 1 .. Len(t)
          BY <1>4, <1>5 DEF Queued
        <5>4. Queued(t, k, ByPoll) = {}
          BY <1>4, <4>2, <5>1, <5>3
        <5> QED
          BY <4>3, <5>2, <5>4
      <4>5. CASE q[1].origin # "poll"
        BY <1>8, <1>10, <1>11, <2>2, <4>2, <4>3, <4>5
      <4> QED
        BY <4>4, <4>5
    <3> QED
      BY <3>1, <3>2, <3>3, <3>5, <3>6 DEF JobHour, Attended
  <2>3. CASE k # j
    <3>1. running'[a][k] => active'[a][k] > 0
      BY <1>9, <2>1, <2>3 DEF JobHour
    <3>2. Began(k, last[a][k])' /\ (whole'[a] /\ last'[a][k] = now' => <<a, k, now'>> \in runs')
      <4>1. /\ whole' = whole /\ now' = now /\ runs \subseteq runs'
            /\ last'[a][k] = last[a][k]
        BY <1>3, <1>9, <2>3
      <4>2. PICK time : time = last[a][k]
        OBVIOUS
      <4>3. Began(k, time) /\ last'[a][k] = time
        BY <2>1, <4>1, <4>2 DEF JobHour
      <4>4. Began(k, time)'
        BY <4>1, <4>3 DEF Began
      <4> QED
        BY <2>1, <4>1, <4>2, <4>3, <4>4 DEF JobHour
    <3>3. ASSUME k \in JobsOf(a)
          PROVE  Attended(a, k)'
      <4>1. Covered(a, k) => Covered(a, k)'
        BY <1>3, <1>6, CoveredStays
      <4>2. ASSUME Waits(a, k)
            PROVE  Waits(a, k)'
        <5>1. PICK i \in DOMAIN q : q[i].job = k
          BY <1>1, <4>2 DEF Waits
        <5>2. i # 1 /\ i \in 1 .. Len(q)
          BY <1>4, <1>5, <2>3, <5>1
        <5>3. i - 1 \in 1 .. Len(t) /\ i - 1 + 1 = i
          BY <1>4, <5>2
        <5>4. t[i - 1] = q[i]
          BY <1>4, <5>3
        <5> QED
          BY <1>5, <1>8, <5>1, <5>3, <5>4 DEF Waits
      <4> QED
        BY <1>3, <2>1, <3>3, <4>1, <4>2 DEF JobHour, Attended
    <3>4. ASSUME k \in JobsOf(a), Calendar(k)
          PROVE  OnceAnHour(a, k)'
      <4>1. OnceAnHour(a, k) /\ (Recorded(a, k) => Recorded(a, k)')
        BY <1>3, <1>9, <2>1, <2>3, <3>4 DEF JobHour, Recorded
      <4>2. starts'[a][k] = starts[a][k]
        BY <1>9, <2>3
      <4> QED
        BY <1>1, <1>3, <1>8, <1>10, <1>11, <4>1, <4>2 DEF OnceAnHour
    <3> QED
      BY <3>1, <3>2, <3>3, <3>4 DEF JobHour
  <2> QED
    BY <2>2, <2>3
<1>13. \A b \in Agents \ {a} : /\ queue'[b] = queue[b] /\ running'[b] = running[b]
                               /\ active'[b] = active[b] /\ last'[b] = last[b]
                               /\ starts'[b] = starts[b]
  <2>1. \A b \in Agents \ {a} : starts'[b] = starts[b]
    <3>1. CASE Head(queue[a]).origin = "poll"
      BY <1>3, <3>1 DEF HourInv, HourTypes
    <3>2. CASE Head(queue[a]).origin # "poll"
      BY <1>3, <3>2
    <3> QED
      BY <3>1, <3>2
  <2> QED
    BY <1>3, <2>1 DEF HourInv, HourTypes, CronInv, CronTypes
<1>14. \A b \in Agents \ {a} : (whole'[b] => up'[b]) /\ \A k \in Jobs : JobHour(b, k)'
  <2>1. \A b \in Agents \ {a} : rewritten'[b] \/ (~rewritten[b] /\ file' = file)
    BY <1>3
  <2> QED
    BY <1>3, <1>13, <2>1, OthersKept
<1>15. \A k \in Jobs : Began(k, file[k])'
  BY <1>3 DEF HourInv, Began
<1>16. whole'[a] => up'[a]
  BY <1>3, <1>6
<1> QED
  BY <1>7, <1>12, <1>14, <1>15, <1>16, OneHour

\* A run ends and what the process knows is saved: the other processes may find
\* less in the file than they saved.
LEMMA FinishHour ==
  ASSUME CronInv, HourInv, NEW a \in Agents, NEW j \in Jobs, Finish(a, j)
  PROVE  HourInv'
<1>1. /\ active[a][j] > 0 /\ active' = [active EXCEPT ![a][j] = @ - 1]
      /\ running' = [running EXCEPT ![a][j] = FALSE]
      /\ file' = [k \in Jobs |-> IF k \in JobsOf(a) THEN last[a][k] ELSE 0]
      /\ rewritten' = [b \in Agents |-> rewritten[b] \/ b # a]
      /\ UNCHANGED <<now, up, queue, enabled, last, whole, polled, excused, starts, runs, cut>>
  BY DEF Finish, Saved
<1>2. HourTypes'
  BY <1>1 DEF HourInv, HourTypes
<1>3. \A b \in Agents : /\ b # a => rewritten'[b]
                        /\ rewritten'[a] <=> rewritten[a]
  BY <1>1
<1>4. up[a] /\ now \in Nat
  BY <1>1, HourIsLate DEF CronInv, AgentInv, Never
<1>5. \A k \in Jobs : /\ k = j => ~running'[a][k]
                      /\ k # j => /\ running'[a][k] = running[a][k]
                                  /\ active'[a][k] = active[a][k]
  BY <1>1 DEF CronInv, CronTypes
<1>6. ASSUME NEW k \in Jobs
      PROVE  JobHour(a, k)'
  <2>1. JobHour(a, k)
    BY DEF HourInv
  <2>2. running'[a][k] => active'[a][k] > 0
    BY <1>5, <2>1 DEF JobHour
  <2>3. Began(k, last[a][k])' /\ (whole'[a] /\ last'[a][k] = now' => <<a, k, now'>> \in runs')
    BY <1>1, <2>1 DEF JobHour, Began
  <2>4. k \in JobsOf(a) => Attended(a, k)'
    <3>1. Covered(a, k) => Covered(a, k)'
      BY <1>1, <1>4, CoveredStays
    <3> QED
      BY <1>1, <2>1, <3>1 DEF JobHour, Attended, Waits
  <2>5. ASSUME k \in JobsOf(a), Calendar(k)
        PROVE  OnceAnHour(a, k)'
    <3>1. file'[k] = last[a][k]
      BY <1>1, <2>5
    <3>2. Recorded(a, k) => Recorded(a, k)'
      BY <1>1, <1>4, <3>1 DEF Recorded
    <3> QED
      BY <1>1, <1>3, <2>1, <2>5, <3>2 DEF JobHour, OnceAnHour
  <2> QED
    BY <2>2, <2>3, <2>4, <2>5 DEF JobHour
<1>7. \A b \in Agents \ {a} : running'[b] = running[b] /\ active'[b] = active[b]
  BY <1>1 DEF CronInv, CronTypes
<1>8. \A b \in Agents \ {a} : (whole'[b] => up'[b]) /\ \A k \in Jobs : JobHour(b, k)'
  <2>1. \A b \in Agents \ {a} : rewritten'[b] \/ (~rewritten[b] /\ file' = file)
    BY <1>3
  <2> QED
    BY <1>1, <1>7, <2>1, OthersKept
<1>9. \A k \in Jobs : Began(k, file[k])'
  <2>1. SUFFICES ASSUME NEW k \in Jobs
                 PROVE  Began(k, file[k])'
    OBVIOUS
  <2>2. JobHour(a, k)
    BY DEF HourInv
  <2>3. CASE k \in JobsOf(a)
    BY <1>1, <2>2, <2>3 DEF JobHour, Began
  <2>4. CASE k \notin JobsOf(a)
    BY <1>1, <2>4 DEF Began
  <2> QED
    BY <2>3, <2>4
<1>10. whole'[a] => up'[a]
  BY <1>1, <1>4
<1> QED
  BY <1>2, <1>6, <1>8, <1>9, <1>10, OneHour

LEMMA TriggerHour ==
  ASSUME CronInv, HourInv, NEW a \in Agents, NEW j \in Jobs, Trigger(a, j)
  PROVE  HourInv'
<1>1. PICK task : task = [job |-> j, origin |-> "manual"]
  OBVIOUS
<1>2. PICK q, r : q = queue[a] /\ r = Append(queue[a], task)
  OBVIOUS
<1>3. /\ up[a] /\ queue' = [queue EXCEPT ![a] = r]
      /\ UNCHANGED <<now, up, enabled, running, active, last, file, whole, polled, excused,
                     starts, runs, cut, rewritten>>
  BY <1>1, <1>2 DEF Trigger, memoryVars, CronInv, CronTypes
<1>4. /\ task \in Tasks /\ task.origin # "poll" /\ q \in Seq(Tasks) /\ queue'[a] = r
  BY <1>1, <1>2, <1>3 DEF Tasks, CronInv, CronTypes
<1>5. /\ \A i \in DOMAIN q : i \in DOMAIN r /\ r[i] = q[i]
      /\ \A i \in DOMAIN r \ DOMAIN q : r[i] = task
  BY <1>2, <1>4
<1>6. HourTypes' /\ now \in Nat
  BY <1>3 DEF HourInv, HourTypes
<1>7. ASSUME NEW k \in Jobs
      PROVE  JobHour(a, k)'
  <2>1. JobHour(a, k)
    BY DEF HourInv
  <2>2. running'[a][k] => active'[a][k] > 0
    BY <1>3, <2>1 DEF JobHour
  <2>3. Began(k, last[a][k])' /\ (whole'[a] /\ last'[a][k] = now' => <<a, k, now'>> \in runs')
    BY <1>3, <2>1 DEF JobHour, Began
  <2>4. k \in JobsOf(a) => Attended(a, k)'
    <3>1. Covered(a, k) => Covered(a, k)'
      BY <1>3, <1>6, CoveredStays
    <3>2. Waits(a, k) => Waits(a, k)'
      BY <1>2, <1>4, <1>5 DEF Waits
    <3> QED
      BY <1>3, <2>1, <3>1, <3>2 DEF JobHour, Attended
  <2>5. k \in JobsOf(a) /\ Calendar(k) => OnceAnHour(a, k)'
    <3>1. Queued(r, k, ByPoll) = Queued(q, k, ByPoll)
      BY <1>4, <1>5 DEF Queued, ByPoll
    <3>2. Recorded(a, k) => Recorded(a, k)'
      BY <1>3 DEF Recorded
    <3> QED
      BY <1>2, <1>3, <1>4, <2>1, <3>1, <3>2 DEF JobHour, OnceAnHour
  <2> QED
    BY <2>2, <2>3, <2>4, <2>5 DEF JobHour
<1>8. \A b \in Agents \ {a} : queue'[b] = queue[b]
  BY <1>3 DEF CronInv, CronTypes
<1>9. \A b \in Agents \ {a} : (whole'[b] => up'[b]) /\ \A k \in Jobs : JobHour(b, k)'
  <2>1. \A b \in Agents \ {a} : rewritten'[b] \/ (~rewritten[b] /\ file' = file)
    BY <1>3
  <2> QED
    BY <1>3, <1>8, <2>1, OthersKept
<1>10. \A k \in Jobs : Began(k, file[k])'
  BY <1>3 DEF HourInv, Began
<1>11. whole'[a] => up'[a]
  BY <1>3
<1> QED
  BY <1>6, <1>7, <1>9, <1>10, <1>11, OneHour

LEMMA SetEnabledHour ==
  ASSUME HourInv, NEW a \in Agents, NEW j \in Jobs, SetEnabled(a, j)
  PROVE  HourInv'
<1>1. /\ enabled' = [enabled EXCEPT ![a][j] = ~@]
      /\ UNCHANGED <<now, up, queue, running, active, last, file, whole, polled, excused,
                     starts, runs, cut, rewritten>>
  BY DEF SetEnabled, historyVars
<1>2. HourTypes'
  BY <1>1 DEF HourInv, HourTypes
<1>3. ASSUME NEW b \in Agents
      PROVE  (whole'[b] => up'[b]) /\ \A k \in Jobs : JobHour(b, k)'
  <2>1. rewritten'[b] \/ (~rewritten[b] /\ file' = file)
    BY <1>1
  <2>2. now \in Nat /\ (whole[b] => up[b]) /\ \A k \in Jobs : JobHour(b, k)
    BY HourIsLate DEF HourInv
  <2> QED
    BY <1>1, <2>1, <2>2, HourKept
<1>4. \A k \in Jobs : Began(k, file[k])'
  BY <1>1 DEF HourInv, Began
<1> QED
  BY <1>2, <1>3, <1>4 DEF HourInv

\* The process dies: the runs it cuts short are known, and the others are saved.
LEMMA CrashHour ==
  ASSUME CronInv, HourInv, NEW a \in Agents, Crash(a)
  PROVE  HourInv'
<1>1. PICK torn \in BOOLEAN :
        /\ file' = IF torn THEN Never ELSE file
        /\ rewritten' = [b \in Agents |-> rewritten[b] \/ torn]
  BY DEF Crash
<1>2. /\ up[a] /\ up' = [up EXCEPT ![a] = FALSE] /\ queue' = [queue EXCEPT ![a] = <<>>]
      /\ enabled' = [enabled EXCEPT ![a] = [k \in Jobs |-> TRUE]]
      /\ running' = [running EXCEPT ![a] = [k \in Jobs |-> FALSE]]
      /\ active' = [active EXCEPT ![a] = Never] /\ last' = [last EXCEPT ![a] = Never]
      /\ whole' = [whole EXCEPT ![a] = FALSE]
      /\ cut' = [cut EXCEPT ![a] = @ \union {k \in Jobs : active[a][k] > 0}]
      /\ UNCHANGED <<now, polled, excused, starts, runs>>
  BY DEF Crash
<1>3. HourTypes'
  <2>1. file' \in [Jobs -> Nat]
    BY <1>1 DEF HourInv, HourTypes, Never
  <2> QED
    BY <1>1, <1>2, <2>1 DEF HourInv, HourTypes, Never
<1>4. /\ ~up'[a] /\ queue'[a] = <<>> /\ ~whole'[a]
      /\ \A k \in Jobs : /\ ~running'[a][k] /\ last'[a][k] = 0
                         /\ k \notin cut'[a] => k \notin cut[a] /\ ~(active[a][k] > 0)
  BY <1>2 DEF HourInv, HourTypes, CronInv, CronTypes, Never
<1>5. ASSUME NEW k \in Jobs
      PROVE  JobHour(a, k)'
  <2>1. JobHour(a, k)
    BY DEF HourInv
  <2>2. Began(k, last[a][k])'
    BY <1>4 DEF Began
  <2>3. ASSUME k \in JobsOf(a), Calendar(k)
        PROVE  OnceAnHour(a, k)'
    <3>1. SUFFICES ASSUME k \notin cut'[a], ~rewritten'[a]
                   PROVE  starts[a][k] <= 1 /\ (starts[a][k] = 1 => Recorded(a, k)')
      BY <1>2, <1>4 DEF OnceAnHour, Queued
    <3>2. k \notin cut[a] /\ ~(active[a][k] > 0) /\ ~rewritten[a] /\ file' = file
      BY <1>1, <1>4, <3>1
    <3>3. OnceAnHour(a, k)
      BY <2>1, <2>3 DEF JobHour
    <3>4. Recorded(a, k) => Recorded(a, k)'
      BY <1>2, <1>4, <3>2 DEF Recorded
    <3> QED
      BY <3>2, <3>3, <3>4 DEF OnceAnHour
  <2> QED
    BY <1>4, <2>2, <2>3 DEF JobHour, Attended
<1>6. \A b \in Agents \ {a} :
         /\ up'[b] = up[b] /\ queue'[b] = queue[b] /\ running'[b] = running[b]
         /\ active'[b] = active[b] /\ last'[b] = last[b] /\ whole'[b] = whole[b]
         /\ cut'[b] = cut[b]
  BY <1>2 DEF HourInv, HourTypes, CronInv, CronTypes
<1>7. \A b \in Agents \ {a} : (whole'[b] => up'[b]) /\ \A k \in Jobs : JobHour(b, k)'
  <2>1. \A b \in Agents \ {a} : rewritten'[b] \/ (~rewritten[b] /\ file' = file)
    BY <1>1
  <2> QED
    BY <1>2, <1>6, <2>1, OthersKept
<1>8. \A k \in Jobs : Began(k, file[k])'
  BY <1>1, <1>2 DEF HourInv, Began, Never
<1> QED
  BY <1>3, <1>4, <1>5, <1>7, <1>8, OneHour

\* The next hour: no run of it has begun.
LEMMA TickHour ==
  ASSUME CronInv, HourInv, Tick
  PROVE  HourInv'
<1>1. /\ now' = now + 1 /\ whole' = up
      /\ polled' = [a \in Agents |-> FALSE] /\ excused' = [a \in Agents |-> {}]
      /\ starts' = [a \in Agents |-> Never] /\ cut' = [a \in Agents |-> {}]
      /\ rewritten' = [a \in Agents |-> FALSE]
      /\ UNCHANGED <<up, queue, enabled, running, active, last, file, runs>>
      /\ \A a \in Agents : queue[a] = <<>>
  BY DEF Tick, memoryVars
<1>2. now \in Nat /\ now > 0
  BY HourIsLate
<1>3. HourTypes'
  BY <1>1, <1>2, CronAssumption DEF HourInv, HourTypes, CronInv, CronTypes, Never
<1>4. ASSUME NEW k, NEW time \in Nat, Began(k, time)
      PROVE  Began(k, time)' /\ time # now'
  <2>1. CASE time > 0
    <3>1. time <= now /\ \E b \in Agents : <<b, k, time>> \in runs
      BY <1>4, <2>1 DEF Began
    <3>2. time <= now' /\ time # now'
      BY <1>1, <1>2, <1>4, <3>1
    <3> QED
      BY <1>1, <3>1, <3>2 DEF Began
  <2>2. CASE time = 0
    <3>1. ~(time > 0) /\ time # now'
      BY <1>1, <1>2, <2>2
    <3> QED
      BY <3>1 DEF Began
  <2> QED
    BY <1>4, <2>1, <2>2
<1>5. ASSUME NEW a \in Agents, NEW k \in Jobs
      PROVE  JobHour(a, k)'
  <2>1. JobHour(a, k) /\ last[a][k] \in Nat
    BY DEF HourInv, HourTypes
  <2>2. PICK time : time = last[a][k]
    OBVIOUS
  <2>3. Began(k, time)' /\ time # now' /\ last'[a][k] = time
    BY <1>1, <1>4, <2>1, <2>2 DEF JobHour
  <2>4. OnceAnHour(a, k)'
    BY <1>1 DEF OnceAnHour, Queued, Never
  <2>5. Attended(a, k)'
    BY <1>1 DEF Attended
  <2> QED
    BY <1>1, <2>1, <2>3, <2>4, <2>5 DEF JobHour
<1>6. ASSUME NEW k \in Jobs
      PROVE  Began(k, file[k])'
  <2>1. PICK time : time = file[k]
    OBVIOUS
  <2>2. time \in Nat /\ Began(k, time) /\ file'[k] = time
    BY <1>1, <2>1 DEF HourInv, HourTypes
  <2>3. Began(k, time)'
    BY <1>4, <2>2
  <2> QED
    BY <2>2, <2>3
<1>7. \A a \in Agents : whole'[a] => up'[a]
  BY <1>1
<1> QED
  BY <1>3, <1>5, <1>6, <1>7 DEF HourInv

LEMMA HourInvAlways == CronSpec => [](CronInv /\ HourInv)
<1>1. CronInit => HourInv
  <2> SUFFICES ASSUME CronInit
               PROVE  HourInv
    OBVIOUS
  <2>1. HourTypes
    BY CronAssumption DEF CronInit, HourTypes, Never
  <2>2. \A j \in Jobs : Began(j, file[j])
    BY DEF CronInit, Began, Never
  <2>3. ASSUME NEW a \in Agents, NEW j \in Jobs
        PROVE  JobHour(a, j)
    <3>1. /\ ~running[a][j] /\ last[a][j] = 0 /\ ~whole[a] /\ ~polled[a]
          /\ starts[a][j] = 0 /\ queue[a] = <<>>
      BY DEF CronInit, Never
    <3> QED
      BY <3>1 DEF JobHour, Began, Attended, OnceAnHour, Queued
  <2>4. \A a \in Agents : ~whole[a]
    BY DEF CronInit
  <2> QED
    BY <2>1, <2>2, <2>3, <2>4 DEF HourInv
<1>2. CronInv /\ HourInv /\ [CronNext]_vars => HourInv'
  <2> SUFFICES ASSUME CronInv, HourInv, [CronNext]_vars
               PROVE  HourInv'
    OBVIOUS
  <2>1. CASE UNCHANGED vars
    <3>1. UNCHANGED <<now, up, queue, enabled, running, active, last, file, whole, polled,
                      excused, starts, runs, cut, rewritten>>
      BY <2>1 DEF vars, memoryVars, historyVars
    <3>2. HourTypes'
      BY <3>1 DEF HourInv, HourTypes
    <3>3. \A a \in Agents : (whole'[a] => up'[a]) /\ \A j \in Jobs : JobHour(a, j)'
      <4>1. \A a \in Agents : rewritten'[a] \/ (~rewritten[a] /\ file' = file)
        BY <3>1
      <4>2. now \in Nat /\ \A a \in Agents : (whole[a] => up[a]) /\ \A j \in Jobs : JobHour(a, j)
        BY HourIsLate DEF HourInv
      <4> QED
        BY <3>1, <4>1, <4>2, HourKept
    <3>4. \A j \in Jobs : Began(j, file[j])'
      BY <3>1 DEF HourInv, Began
    <3> QED
      BY <3>2, <3>3, <3>4 DEF HourInv
  <2> QED
    BY <2>1, BootHour, PollHour, StartHour, CrashHour, FinishHour, SetEnabledHour,
       TriggerHour, TickHour DEF CronNext
<1> QED
  BY <1>1, <1>2, CronInvAlways, PTL DEF CronSpec

\* For any agents, jobs and schedules, whatever crashes, overlaps, is paused or is
\* triggered: a daily or weekly job begins twice in its hour only after a crash
\* that cut its run short, or where another process rewrote or tore the shared
\* state file (scheduler.py's _should_run and _save_state).
THEOREM SavedRunsStayDone == CronSpec => []SavedRunsNotRepeated
<1>1. HourInv => SavedRunsNotRepeated
  <2> SUFFICES ASSUME HourInv, NEW a \in Agents, NEW j \in JobsOf(a), Calendar(j),
                      starts[a][j] > 1, ~(j \in cut[a] \/ rewritten[a])
               PROVE  FALSE
    BY DEF SavedRunsNotRepeated
  <2>1. j \in Jobs
    BY CronAssumption DEF JobsOf, Range
  <2>2. OnceAnHour(a, j) /\ starts[a][j] \in Nat
    BY <2>1 DEF HourInv, HourTypes, JobHour
  <2> QED
    BY <2>2 DEF OnceAnHour
<1> QED
  BY <1>1, HourInvAlways, PTL

\* A process that is up from the beginning of the hour starts every job that is
\* due, unless a poll found the job paused or still at work: no crash, no clobbered
\* file and no run by hand makes it miss one (scheduler.py's _tick and _should_run).
THEOREM NoDueJobMissed == CronSpec => []DueJobsRun
<1>1. HourInv => DueJobsRun
  <2> SUFFICES ASSUME HourInv, NEW a \in Agents, whole[a], polled[a], queue[a] = <<>>,
                      NEW j \in JobsOf(a) \ excused[a]
               PROVE  Covered(a, j)
    BY DEF DueJobsRun
  <2>1. j \in Jobs
    BY CronAssumption DEF JobsOf, Range
  <2>2. Attended(a, j)
    BY <2>1 DEF HourInv, JobHour
  <2> QED
    BY <2>2 DEF Attended, Waits
<1> QED
  BY <1>1, HourInvAlways, PTL

-----------------------------------------------------------------------------
(* The messages of the reports.                                             *)
(*                                                                          *)
(* A message is sent by one sender at a time, the job itself or the handler *)
(* of the web server, and whoever sends has sent the parts below the next   *)
(* once and none from there on.                                             *)

Mails == [parts : 0 .. MaxParts, next : Nat, arrived : [1 .. MaxParts -> Int],
          result : {"none", "sent", "failed"}]

\* Where a job has nothing sent yet.
Early == {"gather", "ask", "keep", "groups", "batch"}
Places == Early \cup {"idle", "send", "plain", "post", "posted", "create"}

\* The parts below n have arrived once, the others not.
SentBelow(m, n) ==
    \A p \in 1 .. MaxParts : m.arrived[p] = IF p < n THEN 1 ELSE 0

Honest(m) ==
    /\ \A p \in 1 .. MaxParts : m.arrived[p] \in {0, 1}
    /\ m.result = "sent" => \A p \in 1 .. m.parts : m.arrived[p] = 1

\* Nothing of the job's message is on its way.
Unposted(j) == j \notin requests /\ handled[j] = -1

Sound(j) ==
    LET m == mail[j] IN
    /\ Honest(m)
    /\ at[j] \in Early => Unposted(j) /\ m.result = "none" /\ SentBelow(m, 1)
    /\ at[j] \in {"send", "plain"} =>
          /\ Unposted(j) /\ m.result = "none"
          /\ 1 <= m.next /\ m.next <= m.parts /\ SentBelow(m, m.next)
    /\ at[j] = "post" =>
          Unposted(j) /\ m.result = "none" /\ m.parts >= 1 /\ SentBelow(m, 1)
    /\ at[j] = "posted" =>
          /\ handled[j] = -1 /\ m.result = "none" /\ m.parts >= 1 /\ SentBelow(m, 1)
          /\ loop = j
    /\ j \in requests =>
          handled[j] = -1 /\ m.result # "sent" /\ m.parts >= 1 /\ SentBelow(m, 1)
    /\ handled[j] >= 0 =>
          /\ j \notin requests /\ m.result # "sent"
          /\ handled[j] < m.parts /\ SentBelow(m, handled[j] + 1)

ReportTypes ==
    /\ mail \in [Report -> Mails]
    /\ at \in [Report -> Places]
    /\ requests \subseteq Report
    /\ handled \in [Report -> -1 .. MaxParts]

ReportInv == ReportTypes /\ \A j \in Report : Sound(j)

\* No job is called as the free loop is.
LEMMA FreeIsNoReport == "free" \notin Report
  BY DEF Report

\* A step that touches one job, by the owner of the loop or while it is free,
\* leaves what is said of the other jobs.
LEMMA OnlyOneJob ==
  ASSUME ReportInv, NEW j \in Report, loop \in {j, "free"}, ReportTypes', Sound(j)',
         \A i \in Report \ {j} : /\ at'[i] = at[i] /\ mail'[i] = mail[i]
                                 /\ handled'[i] = handled[i]
                                 /\ i \in requests' <=> i \in requests
  PROVE  ReportInv'
<1>1. SUFFICES ASSUME NEW i \in Report, i # j
               PROVE  Sound(i)'
  BY DEF ReportInv
<1>2. Sound(i) /\ at'[i] = at[i] /\ mail'[i] = mail[i] /\ handled'[i] = handled[i]
        /\ (i \in requests' <=> i \in requests)
  BY <1>1 DEF ReportInv
<1>3. at[i] # "posted"
  BY <1>1, <1>2, FreeIsNoReport DEF Sound
<1> QED
  BY <1>2, <1>3 DEF Sound, Unposted, SentBelow, Honest

\* A job that goes on before it sends, or is over, and touches no message.
LEMMA EarlyMove ==
  ASSUME ReportInv, NEW j \in Report, loop \in {j, "free"},
         NEW to \in Early \cup {"idle"}, at' = [at EXCEPT ![j] = to],
         at[j] \in Early \/ to = "idle", UNCHANGED <<mail, web_server>>
  PROVE  ReportInv'
<1>1. ReportTypes'
  BY DEF ReportInv, ReportTypes, Places, web_server
<1>2. at'[j] = to
  BY DEF ReportInv, ReportTypes
<1>3. Sound(j)'
  BY <1>2 DEF ReportInv, Sound, Unposted, SentBelow, Honest, web_server, Early
<1>4. \A i \in Report \ {j} : at'[i] = at[i]
  BY DEF ReportInv, ReportTypes
<1> QED
  BY <1>1, <1>3, <1>4, OnlyOneJob DEF web_server

\* The same of the steps as they are written.
LEMMA EarlyGoes ==
  ASSUME ReportInv, NEW j \in Report, NEW from, NEW to \in Early \cup {"idle"},
         Goes(j, from, to), from \in Early \/ to = "idle", UNCHANGED <<mail, web_server>>
  PROVE  ReportInv'
BY EarlyMove DEF Goes

\* One more of the next part, when those below it have arrived once.
LEMMA PartArrives ==
  ASSUME NEW m \in Mails, 1 <= m.next, m.next <= m.parts, SentBelow(m, m.next),
         NEW n \in {0, 1}
  PROVE  LET r == Arrives(m, n) IN
         /\ r \in Mails
         /\ r.parts = m.parts /\ r.next = m.next /\ r.result = m.result
         /\ \A p \in 1 .. MaxParts : r.arrived[p] \in {0, 1}
         /\ n = 1 => SentBelow(r, m.next + 1)
<1> USE ReportAssumption
<1>1. PICK arrived : arrived = [m.arrived EXCEPT ![m.next] = @ + n]
  OBVIOUS
<1>2. Arrives(m, n) = [m EXCEPT !.arrived = arrived]
  BY <1>1 DEF Arrives, Mails
<1>3. m.next \in 1 .. MaxParts /\ arrived \in [1 .. MaxParts -> Int]
  BY <1>1 DEF Mails
<1>4. \A p \in 1 .. MaxParts :
        arrived[p] = IF p < m.next THEN 1 ELSE IF p = m.next THEN n ELSE 0
  BY <1>1, <1>3 DEF Mails, SentBelow
<1>5. PICK r : r = [m EXCEPT !.arrived = arrived]
  OBVIOUS
<1>6. r \in Mails /\ r.parts = m.parts /\ r.next = m.next /\ r.result = m.result
        /\ r.arrived = arrived
  BY <1>3, <1>5 DEF Mails
<1>7. \A p \in 1 .. MaxParts : r.arrived[p] \in {0, 1}
  BY <1>4, <1>6
<1>8. n = 1 => SentBelow(r, m.next + 1)
  <2>1. SUFFICES ASSUME n = 1, NEW p \in 1 .. MaxParts
                 PROVE  r.arrived[p] = IF p < m.next + 1 THEN 1 ELSE 0
    BY DEF SentBelow
  <2>2. arrived[p] = IF p < m.next THEN 1 ELSE IF p = m.next THEN 1 ELSE 0
    BY <1>4, <2>1
  <2> QED
    BY <1>3, <1>6, <2>2
<1> QED
  BY <1>2, <1>5, <1>6, <1>7, <1>8

\* A message that is sent no further, as far as it came.
LEMMA MessageEnds ==
  ASSUME ReportInv, NEW j \in Report, NEW from, NEW m \in Mails,
         NEW result \in {"sent", "failed"}, Ends(j, from, m, result),
         UNCHANGED web_server, Unposted(j),
         \A p \in 1 .. MaxParts : m.arrived[p] \in {0, 1},
         result = "sent" => \A p \in 1 .. m.parts : m.arrived[p] = 1
  PROVE  ReportInv'
<1>1. PICK r : r = [m EXCEPT !.result = result]
  OBVIOUS
<1>2. r \in Mails /\ r.parts = m.parts /\ r.arrived = m.arrived /\ r.result = result
  BY <1>1 DEF Mails
<1>3. mail' = [mail EXCEPT ![j] = r] /\ at' = [at EXCEPT ![j] = After(j)] /\ loop = j
  BY <1>1 DEF Ends, Goes
<1>4. After(j) \in {"idle", "create"}
  BY DEF After
<1>5. ReportTypes'
  BY <1>2, <1>3, <1>4 DEF ReportInv, ReportTypes, Places, web_server
<1>6. mail'[j] = r /\ at'[j] = After(j) /\ Unposted(j)'
  BY <1>3 DEF ReportInv, ReportTypes, Unposted, web_server
<1>7. Honest(r)
  BY <1>2 DEF Honest
<1>8. Sound(j)'
  BY <1>4, <1>6, <1>7 DEF Sound, Unposted, Early, Honest
<1>9. \A i \in Report \ {j} : at'[i] = at[i] /\ mail'[i] = mail[i]
  BY <1>3 DEF ReportInv, ReportTypes
<1> QED
  BY <1>3, <1>5, <1>8, <1>9, OnlyOneJob DEF web_server

\* A part that arrived is the last one, or the next one follows.
LEMMA PartIsDone ==
  ASSUME ReportInv, NEW j \in Report, NEW from \in {"send", "plain"}, PartDone(j, from),
         UNCHANGED web_server
  PROVE  ReportInv'
<1> USE ReportAssumption
<1>1. at[j] = from /\ loop = j
  BY DEF PartDone, Ends, Goes
<1>2. mail[j] \in Mails /\ Sound(j)
  BY DEF ReportInv, ReportTypes
<1>3. /\ Unposted(j) /\ mail[j].result = "none"
      /\ 1 <= mail[j].next /\ mail[j].next <= mail[j].parts
      /\ SentBelow(mail[j], mail[j].next)
  BY <1>1, <1>2 DEF Sound
<1>4. PICK m : m = Arrives(mail[j], 1)
  OBVIOUS
<1>5. /\ m \in Mails
      /\ m.parts = mail[j].parts /\ m.next = mail[j].next /\ m.result = "none"
      /\ \A p \in 1 .. MaxParts : m.arrived[p] \in {0, 1}
      /\ SentBelow(m, m.next + 1)
  BY <1>2, <1>3, <1>4, PartArrives
<1>6. CASE m.next = m.parts
  <2>1. Ends(j, from, m, "sent")
    BY <1>4, <1>6 DEF PartDone, Message
  <2>2. \A p \in 1 .. m.parts : m.arrived[p] = 1
    BY <1>5, <1>6 DEF SentBelow, Mails
  <2> QED
    BY <1>3, <1>5, <2>1, <2>2, MessageEnds
<1>7. CASE m.next # m.parts
  <2>1. PICK r : r = [m EXCEPT !.next = @ + 1]
    OBVIOUS
  <2>2. /\ r \in Mails /\ r.parts = m.parts /\ r.next = m.next + 1
        /\ r.arrived = m.arrived /\ r.result = "none"
    BY <1>5, <2>1 DEF Mails
  <2>3. mail' = [mail EXCEPT ![j] = r] /\ at' = [at EXCEPT ![j] = "send"]
    BY <1>4, <1>7, <2>1 DEF PartDone, Message, Goes
  <2>4. ReportTypes'
    BY <2>2, <2>3 DEF ReportInv, ReportTypes, Places, web_server
  <2>5. mail'[j] = r /\ at'[j] = "send" /\ Unposted(j)'
    BY <1>3, <2>3 DEF ReportInv, ReportTypes, Unposted, web_server
  <2>6. Honest(r)
    BY <1>5, <2>2 DEF Honest
  <2>7. 1 <= r.next /\ r.next <= r.parts /\ SentBelow(r, r.next)
    BY <1>3, <1>5, <1>7, <2>2 DEF SentBelow, Mails
  <2>8. Sound(j)'
    BY <2>2, <2>5, <2>6, <2>7 DEF Sound, Unposted, Early, Honest, SentBelow
  <2>9. \A i \in Report \ {j} : at'[i] = at[i] /\ mail'[i] = mail[i]
    BY <2>3 DEF ReportInv, ReportTypes
  <2> QED
    BY <1>1, <2>4, <2>8, <2>9, OnlyOneJob DEF web_server
<1> QED
  BY <1>6, <1>7

\* A part that is lost, whether it arrived or not, ends the message.
LEMMA PartIsLost ==
  ASSUME ReportInv, NEW j \in Report, NEW from \in {"send", "plain"}, PartLost(j, from),
         UNCHANGED web_server
  PROVE  ReportInv'
<1>1. PICK n \in {0, 1} : Ends(j, from, Arrives(mail[j], n), "failed")
  BY DEF PartLost, Message
<1>2. at[j] = from /\ mail[j] \in Mails /\ Sound(j)
  BY <1>1 DEF Ends, Goes, ReportInv, ReportTypes
<1>3. /\ Unposted(j) /\ 1 <= mail[j].next /\ mail[j].next <= mail[j].parts
      /\ SentBelow(mail[j], mail[j].next)
  BY <1>2 DEF Sound
<1>4. PICK m : m = Arrives(mail[j], n)
  OBVIOUS
<1>5. m \in Mails /\ \A p \in 1 .. MaxParts : m.arrived[p] \in {0, 1}
  BY <1>2, <1>3, <1>4, PartArrives
<1> QED
  BY <1>1, <1>3, <1>4, <1>5, MessageEnds

LEMMA SendPartKeeps ==
  ASSUME ReportInv, NEW j \in Report, SendPart(j)
  PROVE  ReportInv'
<1>1. UNCHANGED web_server
  BY DEF SendPart
<1>2. CASE PartDone(j, "send") \/ PartLost(j, "send")
  BY <1>1, <1>2, PartIsDone, PartIsLost
<1>3. CASE Goes(j, "send", "plain") /\ UNCHANGED mail
  <2>1. at[j] = "send" /\ loop = j /\ at' = [at EXCEPT ![j] = "plain"]
    BY <1>3 DEF Goes
  <2>2. ReportTypes'
    BY <1>1, <1>3, <2>1 DEF ReportInv, ReportTypes, Places, web_server
  <2>3. at'[j] = "plain" /\ \A i \in Report \ {j} : at'[i] = at[i]
    BY <2>1 DEF ReportInv, ReportTypes
  <2>4. Sound(j)'
    BY <1>1, <1>3, <2>1, <2>3
    DEF ReportInv, Sound, Unposted, SentBelow, Honest, web_server, Early
  <2> QED
    BY <1>1, <1>3, <2>1, <2>2, <2>3, <2>4, OnlyOneJob DEF web_server
<1> QED
  BY <1>2, <1>3 DEF SendPart

\* The message goes to the bridge's own server, or nobody listens.
LEMMA PostKeeps ==
  ASSUME ReportInv, NEW j \in Report, PostMessage(j)
  PROVE  ReportInv'
<1>1. at[j] = "post" /\ loop = j /\ Sound(j) /\ mail[j] \in Mails
  BY DEF PostMessage, Ends, Goes, ReportInv, ReportTypes
<1>2. Unposted(j) /\ mail[j].result = "none" /\ mail[j].parts >= 1 /\ SentBelow(mail[j], 1)
  BY <1>1 DEF Sound
<1>3. CASE Goes(j, "post", "posted") /\ requests' = requests \cup {j} /\ UNCHANGED mail
  <2>1. handled' = handled /\ at' = [at EXCEPT ![j] = "posted"] /\ loop' = j
    BY <1>3 DEF PostMessage, Goes
  <2>2. ReportTypes'
    BY <1>3, <2>1 DEF ReportInv, ReportTypes, Places
  <2>3. at'[j] = "posted" /\ \A i \in Report \ {j} : at'[i] = at[i]
    BY <2>1 DEF ReportInv, ReportTypes
  <2>4. handled'[j] = -1 /\ mail'[j] = mail[j] /\ Honest(mail[j])
    BY <1>1, <1>2, <1>3, <2>1 DEF Unposted, Sound
  <2>5. Sound(j)'
    BY <1>2, <2>1, <2>3, <2>4 DEF Sound, Honest, SentBelow, Early
  <2>6. \A i \in Report \ {j} : i \in requests' <=> i \in requests
    BY <1>3
  <2> QED
    BY <1>1, <1>3, <2>1, <2>2, <2>3, <2>5, <2>6, OnlyOneJob
<1>4. CASE Ends(j, "post", Message(j), "failed") /\ UNCHANGED requests
  <2>1. UNCHANGED web_server
    BY <1>4 DEF PostMessage, web_server
  <2>2. \A p \in 1 .. MaxParts : mail[j].arrived[p] \in {0, 1}
    BY <1>1 DEF Sound, Honest
  <2> QED
    BY <1>1, <1>2, <1>4, <2>1, <2>2, MessageEnds DEF Message
<1> QED
  BY <1>3, <1>4 DEF PostMessage

\* The post ends; its request is at the server still.
LEMMA TimeOutKeeps ==
  ASSUME ReportInv, NEW j \in Report, PostTimesOut(j)
  PROVE  ReportInv'
<1>1. at[j] = "posted" /\ loop = j /\ Sound(j) /\ mail[j] \in Mails /\ UNCHANGED web_server
  BY DEF PostTimesOut, Ends, Goes, ReportInv, ReportTypes
<1>2. handled[j] = -1 /\ mail[j].parts >= 1 /\ SentBelow(mail[j], 1) /\ Honest(mail[j])
  BY <1>1 DEF Sound
<1>3. PICK r : r = [mail[j] EXCEPT !.result = "failed"]
  OBVIOUS
<1>4. /\ r \in Mails /\ r.parts = mail[j].parts /\ r.arrived = mail[j].arrived
      /\ r.result = "failed"
  BY <1>1, <1>3 DEF Mails
<1>5. mail' = [mail EXCEPT ![j] = r] /\ at' = [at EXCEPT ![j] = After(j)]
  BY <1>3 DEF PostTimesOut, Ends, Goes, Message
<1>6. After(j) \in {"idle", "create"}
  BY DEF After
<1>7. ReportTypes'
  BY <1>1, <1>4, <1>5, <1>6 DEF ReportInv, ReportTypes, Places, web_server
<1>8. mail'[j] = r /\ at'[j] = After(j) /\ handled'[j] = -1
  BY <1>1, <1>2, <1>5 DEF ReportInv, ReportTypes, web_server
<1>9. Honest(r) /\ SentBelow(r, 1)
  BY <1>2, <1>4 DEF Honest, SentBelow
<1>10. Sound(j)'
  BY <1>2, <1>4, <1>6, <1>8, <1>9 DEF Sound, Early, Honest, SentBelow
<1>11. \A i \in Report \ {j} : at'[i] = at[i] /\ mail'[i] = mail[i]
  BY <1>5 DEF ReportInv, ReportTypes
<1> QED
  BY <1>1, <1>7, <1>10, <1>11, OnlyOneJob DEF web_server

\* The server comes to the request.
LEMMA AcceptKeeps ==
  ASSUME ReportInv, Accept
  PROVE  ReportInv'
<1> USE ReportAssumption
<1>1. PICK j \in requests : /\ requests' = requests \ {j}
                            /\ handled' \in {handled, [handled EXCEPT ![j] = 0]}
  BY DEF Accept
<1>2. j \in Report /\ Sound(j) /\ loop = "free" /\ mail[j] \in Mails
        /\ UNCHANGED <<at, mail, loop>>
  BY <1>1 DEF Accept, ReportInv, ReportTypes
<1>3. handled[j] = -1 /\ mail[j].result # "sent" /\ mail[j].parts >= 1
        /\ SentBelow(mail[j], 1) /\ Honest(mail[j])
  BY <1>1, <1>2 DEF Sound
<1>4. handled'[j] \in {-1, 0} /\ ReportTypes'
      /\ \A i \in Report \ {j} : handled'[i] = handled[i]
  <2>1. CASE handled' = handled
    BY <1>1, <1>2, <1>3, <2>1 DEF ReportInv, ReportTypes
  <2>2. CASE handled' = [handled EXCEPT ![j] = 0]
    BY <1>1, <1>2, <2>2 DEF ReportInv, ReportTypes
  <2> QED
    BY <1>1, <2>1, <2>2
<1>5. at[j] \notin Early /\ at[j] \notin {"send", "plain", "post", "posted"}
  BY <1>1, <1>2, FreeIsNoReport DEF Sound, Unposted
<1>6. j \notin requests'
  BY <1>1
<1>7. SentBelow(mail[j], 0 + 1)
  BY <1>3
<1>8. Sound(j)'
  BY <1>2, <1>3, <1>4, <1>5, <1>6, <1>7 DEF Sound, Honest, SentBelow, Mails
<1>9. \A i \in Report \ {j} : i \in requests' <=> i \in requests
  BY <1>1
<1> QED
  BY <1>2, <1>4, <1>8, <1>9, OnlyOneJob

\* The handler of the server sends the next part, when the job is long over.
LEMMA HandlerKeeps ==
  ASSUME ReportInv, HandlerSends
  PROVE  ReportInv'
<1> USE ReportAssumption
<1>1. PICK j \in Report :
        /\ handled[j] + 1 > 0
        /\ \/ /\ mail' = [mail EXCEPT ![j].arrived[handled[j] + 1] = @ + 1]
              /\ handled' = [handled EXCEPT ![j] = IF handled[j] + 1 = mail[j].parts
                                                   THEN -1 ELSE handled[j] + 1]
           \/ /\ \E k \in {0, 1} :
                    mail' = [mail EXCEPT ![j].arrived[handled[j] + 1] = @ + k]
              /\ handled' = [handled EXCEPT ![j] = -1]
  BY DEF HandlerSends
<1>2. /\ handled[j] \in -1 .. MaxParts /\ Sound(j) /\ mail[j] \in Mails
      /\ loop = "free" /\ UNCHANGED <<at, requests, loop>>
  BY DEF HandlerSends, ReportInv, ReportTypes
<1>3. /\ handled[j] >= 0 /\ j \notin requests /\ mail[j].result # "sent"
      /\ handled[j] < mail[j].parts /\ SentBelow(mail[j], handled[j] + 1)
  BY <1>1, <1>2 DEF Sound
<1>4. PICK n : n = handled[j] + 1
  OBVIOUS
<1>5. n \in 1 .. MaxParts /\ n <= mail[j].parts /\ mail[j].parts \in Int
        /\ SentBelow(mail[j], n)
  <2>1. mail[j].parts \in 0 .. MaxParts
    BY <1>2 DEF Mails
  <2> QED
    BY <1>2, <1>3, <1>4, <2>1
<1>6. PICK k \in {0, 1} :
        /\ mail' = [mail EXCEPT ![j].arrived[n] = @ + k]
        /\ \/ handled' = [handled EXCEPT ![j] = -1]
           \/ k = 1 /\ n # mail[j].parts /\ handled' = [handled EXCEPT ![j] = n]
  <2>1. CASE /\ mail' = [mail EXCEPT ![j].arrived[handled[j] + 1] = @ + 1]
             /\ handled' = [handled EXCEPT ![j] = IF handled[j] + 1 = mail[j].parts
                                                  THEN -1 ELSE handled[j] + 1]
    <3>1. mail' = [mail EXCEPT ![j].arrived[n] = @ + 1]
      BY <1>4, <2>1
    <3>2. handled' = [handled EXCEPT ![j] = IF n = mail[j].parts THEN -1 ELSE n]
      BY <1>4, <2>1
    <3>3. CASE n = mail[j].parts
      BY <3>1, <3>2, <3>3
    <3>4. CASE n # mail[j].parts
      BY <3>1, <3>2, <3>4
    <3> QED
      BY <3>3, <3>4
  <2>2. CASE /\ \E k \in {0, 1} :
                   mail' = [mail EXCEPT ![j].arrived[handled[j] + 1] = @ + k]
             /\ handled' = [handled EXCEPT ![j] = -1]
    BY <1>4, <2>2
  <2> QED
    BY <1>1, <2>1, <2>2
<1>7. PICK h \in {-1, n} : /\ handled' = [handled EXCEPT ![j] = h]
                           /\ h = -1 \/ (k = 1 /\ n # mail[j].parts)
  BY <1>6
<1>8. PICK arrived : arrived = [mail[j].arrived EXCEPT ![n] = @ + k]
  OBVIOUS
<1>9. PICK r : r = [mail[j] EXCEPT !.arrived = arrived]
  OBVIOUS
<1>10. mail' = [mail EXCEPT ![j] = r]
  BY <1>6, <1>8, <1>9
<1>11. arrived \in [1 .. MaxParts -> Int]
  <2>1. PICK old : old = mail[j].arrived
    OBVIOUS
  <2>2. old \in [1 .. MaxParts -> Int] /\ arrived = [old EXCEPT ![n] = @ + k]
    BY <1>2, <1>8, <2>1 DEF Mails
  <2>3. \A p \in 1 .. MaxParts : old[p] + k \in Int
    BY <2>2
  <2> QED
    BY <1>5, <2>2, <2>3
<1>12. \A p \in 1 .. MaxParts :
          arrived[p] = IF p < n THEN 1 ELSE IF p = n THEN k ELSE 0
  <2>1. PICK old : old = mail[j].arrived
    OBVIOUS
  <2>2. old \in [1 .. MaxParts -> Int] /\ arrived = [old EXCEPT ![n] = @ + k]
    BY <1>2, <1>8, <2>1 DEF Mails
  <2>3. \A p \in 1 .. MaxParts : old[p] = IF p < n THEN 1 ELSE 0
    BY <1>5, <2>1 DEF SentBelow
  <2>4. ASSUME NEW p \in 1 .. MaxParts
        PROVE  arrived[p] = IF p < n THEN 1 ELSE IF p = n THEN k ELSE 0
    <3>1. CASE p = n
      <4>1. arrived[p] = old[p] + k /\ old[p] = 0
        BY <1>5, <2>2, <2>3, <3>1
      <4> QED
        BY <1>5, <3>1, <4>1
    <3>2. CASE p # n
      <4>1. arrived[p] = old[p]
        BY <2>2, <3>2
      <4> QED
        BY <2>3, <3>2, <4>1
    <3> QED
      BY <3>1, <3>2
  <2> QED
    BY <2>4
<1>13. /\ r \in Mails /\ r.parts = mail[j].parts /\ r.arrived = arrived
       /\ r.result = mail[j].result
  BY <1>2, <1>9, <1>11 DEF Mails
<1>14. Honest(r) /\ (k = 1 => SentBelow(r, n + 1))
  BY <1>3, <1>5, <1>12, <1>13 DEF Honest, SentBelow
<1>15. h = -1 \/ (h = n /\ h > 0 /\ h < r.parts /\ k = 1)
  BY <1>5, <1>7, <1>13
<1>16. ReportTypes'
  BY <1>2, <1>5, <1>7, <1>13, <1>10 DEF ReportInv, ReportTypes
<1>17. mail'[j] = r /\ handled'[j] = h /\ at'[j] = at[j]
       /\ \A i \in Report \ {j} : mail'[i] = mail[i] /\ handled'[i] = handled[i]
  BY <1>2, <1>7, <1>10 DEF ReportInv, ReportTypes
<1>18. at[j] \notin Early /\ at[j] \notin {"send", "plain", "post", "posted"}
  BY <1>2, <1>3, FreeIsNoReport DEF Sound, Unposted
<1>19. Sound(j)'
  BY <1>2, <1>3, <1>13, <1>14, <1>15, <1>17, <1>18
  DEF Sound, Honest, SentBelow
<1> QED
  BY <1>2, <1>16, <1>17, <1>19, OnlyOneJob

\* A run of a job begins with a new message.
LEMMA BeginKeeps ==
  ASSUME ReportInv, NEW j \in Report, Begin(j)
  PROVE  ReportInv'
<1> USE ReportAssumption
<1>1. /\ loop = "free" /\ Unposted(j) /\ UNCHANGED web_server
      /\ mail' = [mail EXCEPT ![j] = NoMail] /\ at' = [at EXCEPT ![j] = "gather"]
  BY DEF Begin, Unposted
<1>2. NoMail \in Mails /\ NoMail.result = "none" /\ SentBelow(NoMail, 1) /\ Honest(NoMail)
  BY DEF NoMail, Mails, SentBelow, Honest
<1>3. ReportTypes'
  BY <1>1, <1>2 DEF ReportInv, ReportTypes, Places, Early, web_server
<1>4. mail'[j] = NoMail /\ at'[j] = "gather" /\ Unposted(j)'
      /\ \A i \in Report \ {j} : at'[i] = at[i] /\ mail'[i] = mail[i]
  BY <1>1 DEF ReportInv, ReportTypes, Unposted, web_server
<1>5. Sound(j)'
  BY <1>2, <1>4 DEF Sound, Unposted, Early, Honest, SentBelow
<1> QED
  BY <1>1, <1>3, <1>4, <1>5, OnlyOneJob DEF web_server

\* The job has something to tell.
LEMMA TellsKeeps ==
  ASSUME ReportInv, NEW j \in Report, Tells(j)
  PROVE  ReportInv'
<1> USE ReportAssumption
<1>1. PICK n \in 1 .. MaxParts :
        mail' = [mail EXCEPT ![j] = [mail[j] EXCEPT !.parts = n, !.next = 1]]
  BY DEF Tells
<1>2. PICK to \in {"send", "post"} : Goes(j, "keep", to)
  BY DEF Tells
<1>3. at[j] = "keep" /\ loop = j /\ at' = [at EXCEPT ![j] = to] /\ UNCHANGED web_server
        /\ Sound(j) /\ mail[j] \in Mails
  BY <1>2 DEF Tells, Goes, ReportInv, ReportTypes
<1>4. Unposted(j) /\ mail[j].result = "none" /\ SentBelow(mail[j], 1) /\ Honest(mail[j])
  BY <1>3 DEF Sound, Early
<1>5. PICK r : r = [mail[j] EXCEPT !.parts = n, !.next = 1]
  OBVIOUS
<1>6. /\ r \in Mails /\ r.parts = n /\ r.next = 1 /\ r.arrived = mail[j].arrived
      /\ r.result = "none"
  <2>1. n \in 0 .. MaxParts
    OBVIOUS
  <2> QED
    BY <1>3, <1>4, <1>5, <2>1 DEF Mails
<1>7. ReportTypes'
  BY <1>1, <1>3, <1>5, <1>6 DEF ReportInv, ReportTypes, Places, web_server
<1>8. mail'[j] = r /\ at'[j] = to /\ Unposted(j)'
      /\ \A i \in Report \ {j} : at'[i] = at[i] /\ mail'[i] = mail[i]
  BY <1>1, <1>3, <1>4, <1>5 DEF ReportInv, ReportTypes, Unposted, web_server
<1>9. Honest(r) /\ SentBelow(r, 1) /\ r.parts >= 1
  BY <1>4, <1>6 DEF Honest, SentBelow
<1>10. Sound(j)'
  BY <1>6, <1>8, <1>9 DEF Sound, Unposted, Early, Honest, SentBelow
<1> QED
  BY <1>3, <1>7, <1>8, <1>10, OnlyOneJob DEF web_server

\* What has been sent stays sent when the process dies.
LEMMA KillKeeps ==
  ASSUME ReportInv, Kill
  PROVE  ReportInv'
<1>1. /\ at' = [j \in Report |-> "idle"] /\ requests' = {}
      /\ handled' = [j \in Report |-> -1] /\ mail' = mail
  BY DEF Kill
<1>2. ReportTypes'
  BY <1>1, ReportAssumption DEF ReportInv, ReportTypes, Places
<1>3. SUFFICES ASSUME NEW j \in Report
               PROVE  Sound(j)'
  BY <1>2 DEF ReportInv
<1>4. at'[j] = "idle" /\ handled'[j] = -1 /\ Honest(mail'[j]) /\ j \notin requests'
  BY <1>1 DEF ReportInv, Sound
<1> QED
  BY <1>4 DEF Sound, Early, Honest

\* The steps by which a job comes to have something to tell, or is over.
LEMMA GathersKeep ==
  ASSUME ReportInv,
         \/ HeartbeatGathers \/ NewsGathers \/ PeopleGathers \/ MarketGathers
         \/ ExpensesGathers \/ EmailGathers \/ ImproveGathers \/ ModelGathers
  PROVE  ReportInv'
<1>1. PICK j \in Report, to \in {"idle", "ask"} : Goes(j, "gather", to) /\ Nothing
  BY DEF HeartbeatGathers, NewsGathers, PeopleGathers, MarketGathers, ExpensesGathers,
         EmailGathers, ImproveGathers, ModelGathers, Gathers, Report
<1> QED
  BY <1>1, EarlyGoes DEF Nothing, Early

LEMMA AsksKeep ==
  ASSUME ReportInv,
         \/ HeartbeatAsks \/ NewsAsks \/ PeopleAsks \/ MarketAsks \/ ExpensesAsks
         \/ ImproveAsks \/ ModelAsks
  PROVE  ReportInv'
<1>1. PICK j \in Report, to \in {"idle", "keep"} :
         Goes(j, "ask", to) /\ UNCHANGED <<mail, web_server>>
  BY DEF HeartbeatAsks, NewsAsks, PeopleAsks, MarketAsks, ExpensesAsks, ImproveAsks,
         ModelAsks, Asks, Nothing, Report
<1> QED
  BY <1>1, EarlyGoes DEF Early

LEMMA KeepsKeep ==
  ASSUME ReportInv, \/ \E j \in Report : Keeps(j)
                    \/ StaysQuiet \/ CreateSkills
  PROVE  ReportInv'
<1>1. PICK j \in Report, from \in {"keep", "create"}, to \in {"keep", "idle"} :
         Goes(j, from, to) /\ UNCHANGED <<mail, web_server>> /\ (from = "keep" \/ to = "idle")
  BY DEF Keeps, StaysQuiet, CreateSkills, Nothing, Report
<1> QED
  BY <1>1, EarlyGoes DEF Early

LEMMA GroupsKeep ==
  ASSUME ReportInv,
         \/ LoadGroups \/ FetchGroup \/ BeginSummary \/ SummarizeBatch
         \/ SummarizeCategory \/ SynthesizeDigest
  PROVE  ReportInv'
<1>1. "groups" \in Report
  BY DEF Report
<1>2. UNCHANGED <<mail, web_server>>
  BY DEF LoadGroups, FetchGroup, BeginSummary, SummarizeBatch, SummarizeCategory,
         SynthesizeDigest, Nothing
<1>3. CASE LoadGroups \/ SummarizeBatch \/ SummarizeCategory \/ SynthesizeDigest
  <2>1. PICK from \in Early, to \in Early \cup {"idle"} : Goes("groups", from, to)
    BY <1>3 DEF LoadGroups, SummarizeBatch, SummarizeCategory, SynthesizeDigest, Early
  <2> QED
    BY <1>1, <1>2, <2>1, EarlyGoes
<1>4. CASE FetchGroup
  <2>1. at["groups"] \in Early /\ loop = "free"
    BY <1>4 DEF FetchGroup, Early
  <2>2. at' = [at EXCEPT !["groups"] = at["groups"]]
    BY <1>1, <1>4 DEF FetchGroup, ReportInv, ReportTypes
  <2>3. PICK to : to = at["groups"]
    OBVIOUS
  <2> QED
    BY <1>1, <1>2, <2>1, <2>2, <2>3, EarlyMove
<1>5. CASE BeginSummary
  BY <1>1, <1>2, <1>5, EarlyMove DEF BeginSummary, Early
<1> QED
  BY <1>3, <1>4, <1>5

LEMMA ReportStepKeeps ==
  ASSUME ReportInv, ReportStep
  PROVE  ReportInv'
<1>1. ASSUME NEW j \in Report, SendPlain(j)
      PROVE  ReportInv'
  BY <1>1, PartIsDone, PartIsLost DEF SendPlain
<1> QED
  BY <1>1, GathersKeep, AsksKeep, KeepsKeep, GroupsKeep, AcceptKeeps, HandlerKeeps,
     TellsKeeps, SendPartKeeps, PostKeeps, TimeOutKeeps
  DEF ReportStep

LEMMA ReportInvAlways == ReportSpec => []ReportInv
<1>1. ReportInit => ReportInv
  <2> SUFFICES ASSUME ReportInit
               PROVE  ReportInv
    OBVIOUS
  <2>1. NoMail \in Mails /\ Honest(NoMail)
    BY ReportAssumption DEF NoMail, Mails, Honest
  <2>2. ReportTypes
    BY <2>1, ReportAssumption DEF ReportInit, ReportTypes, Places
  <2>3. ASSUME NEW j \in Report
        PROVE  Sound(j)
    <3>1. mail[j] = NoMail /\ at[j] = "idle" /\ j \notin requests /\ handled[j] = -1
      BY DEF ReportInit
    <3> QED
      BY <2>1, <3>1 DEF Sound, Early, Honest
  <2> QED
    BY <2>2, <2>3 DEF ReportInv
<1>2. ReportInv /\ [ReportNext]_reportVars => ReportInv'
  <2> SUFFICES ASSUME ReportInv, [ReportNext]_reportVars
               PROVE  ReportInv'
    OBVIOUS
  <2>1. CASE QuietEnds \/ UNCHANGED reportVars
    BY <2>1 DEF QuietEnds, reportVars, web_server, ReportInv, ReportTypes, Sound,
                Unposted, Honest, SentBelow
  <2> QED
    BY <2>1, ReportStepKeeps, BeginKeeps, KillKeeps DEF ReportNext
<1> QED
  BY <1>1, <1>2, PTL DEF ReportSpec

\* For any number of parts: no part of a message arrives twice, however sending it
\* failed and was tried again, and what was told to be sent has arrived whole
\* (notify.py).
THEOREM DeliveriesAreHonest == ReportSpec => []DeliveryIsHonest
<1>1. ReportInv => DeliveryIsHonest
  <2> SUFFICES ASSUME ReportInv, NEW j \in Report
               PROVE  /\ \A p \in 1 .. MaxParts : mail[j].arrived[p] <= 1
                      /\ mail[j].result = "sent" =>
                            \A p \in 1 .. mail[j].parts : mail[j].arrived[p] = 1
    BY DEF DeliveryIsHonest
  <2>1. Honest(mail[j])
    BY DEF ReportInv, Sound
  <2> QED
    BY <2>1 DEF Honest
<1> QED
  BY <1>1, ReportInvAlways, PTL
=============================================================================
