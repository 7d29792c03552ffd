----------------------------- MODULE LoopGuard -----------------------------
(***************************************************************************)
(* The loop detector (security/loop_detector.py): the tool calls of a turn *)
(* and what check says of them after each.  A call has a tool, a digest of *)
(* its arguments and one of its result, which is missing when it is empty. *)
(***************************************************************************)
EXTENDS Integers, Sequences, FiniteSets

CONSTANTS
    ToolCall,   \* the calls that are recorded: [tool, args, result]
    NoResult,   \* the digest of an empty result
    Warn, Critical, Break,   \* the thresholds
    Window,     \* calls that the second and the third detector look at
    Least,      \* calls before anything is detected; before a ping-pong is; ...
    LeastPingPong,
    LeastPolls,
    MaxCallsSeen   \* bound: calls in a turn

\* The code's are 10, 20, 30 and 20.
ASSUME GuardAssumption ==
    /\ {Warn, Critical, Break, Window, Least} \subseteq Nat
    /\ 0 < Warn /\ Warn < Critical /\ Critical < Break
    /\ Window < Break

VARIABLE recorded

guardVars == recorded

GuardInit == recorded = <<>>

\* The last n elements.
LastOf(s, n) == IF Len(s) <= n THEN s ELSE SubSeq(s, Len(s) - n + 1, Len(s))

Graded(count) == IF count >= Break THEN "circuit_breaker"
                 ELSE IF count >= Critical THEN "critical"
                 ELSE IF count >= Warn THEN "warning"
                 ELSE "ok"

\* The key of a call, and how often it was called.
Key(call) == <<call.tool, call.args>>
Repeats(key) == Cardinality({i \in DOMAIN recorded : Key(recorded[i]) = key})

\* The level of the first of the elements that is not ok.
FirstAlarm(levels) ==
    LET alarms == {i \in DOMAIN levels : levels[i] # "ok"}
    IN  IF alarms = {} THEN "ok"
        ELSE levels[CHOOSE i \in alarms : \A k \in alarms : i <= k]

\* The key with Warn repeats that was called first decides, whatever the others
\* have.
GenericRepeat ==
    FirstAlarm([i \in DOMAIN recorded |-> Graded(Repeats(Key(recorded[i])))])

\* Do more than eight in ten of the calls change between two tools?
Alternates(calls) ==
    LET switches == {i \in 2 .. Len(calls) : calls[i].tool # calls[i - 1].tool} IN
    /\ Len(calls) >= LeastPingPong
    /\ Cardinality({calls[i].tool : i \in DOMAIN calls}) = 2
    /\ 10 * Cardinality(switches) > 8 * (Len(calls) - 1)

\* Mutant: all of the history instead of the window.
PingPongEver == IF Alternates(recorded) THEN Graded(Len(recorded)) ELSE "ok"

PingPong ==
    LET recent == LastOf(recorded, Window)
    IN  IF Alternates(recent) THEN Graded(Len(recent)) ELSE "ok"

\* A tool's last Warn results in the window are the same.
PollNoProgress ==
    LET recent == LastOf(recorded, Window)
        answered == {i \in DOMAIN recent : recent[i].result # NoResult}
        of(tool) == {i \in answered : recent[i].tool = tool}
        last(tool) == {i \in of(tool) : Cardinality({k \in of(tool) : k > i}) < Warn}
        same(tool) == Cardinality({recent[i].result : i \in last(tool)}) = 1
        level(tool) == IF Cardinality(of(tool)) >= LeastPolls /\ same(tool)
                       THEN Graded(Cardinality(of(tool))) ELSE "ok"
    IN  IF Cardinality(answered) < LeastPolls THEN "ok"
        ELSE FirstAlarm([i \in DOMAIN recent |->
                            IF i \in answered THEN level(recent[i].tool) ELSE "ok"])

CheckLoops == IF Len(recorded) < Least THEN "ok"
              ELSE FirstAlarm(<<GenericRepeat, PingPong, PollNoProgress>>)

RecordCall ==
    /\ Len(recorded) < MaxCallsSeen
    /\ \E call \in ToolCall : recorded' = Append(recorded, call)

ResetGuard == recorded' = <<>>

GuardNext == RecordCall \/ ResetGuard

GuardSpec == GuardInit /\ [][GuardNext]_guardVars

-----------------------------------------------------------------------------

\* The circuit breaker, which aborts the turn, trips for nothing but a call
\* that was repeated Break times: the two detectors that look at a window never
\* count that far.  A repeated call never goes unnoticed, and the only one that
\* is repeated decides the level itself.
BreakerMeansRepeats ==
    LET keys == {Key(recorded[i]) : i \in DOMAIN recorded}
        repeated == {k \in keys : Repeats(k) >= Warn}
    IN
    Len(recorded) >= Least =>
        /\ CheckLoops = "circuit_breaker" => \E k \in repeated : Repeats(k) >= Break
        /\ repeated # {} => CheckLoops # "ok"
        /\ \A k \in repeated : repeated = {k} => CheckLoops = Graded(Repeats(k))

=============================================================================
