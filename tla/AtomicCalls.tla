---------------------------- MODULE AtomicCalls ----------------------------
(***************************************************************************)
(* What SafeDB promises to the stores that call it, with no connections,   *)
(* locks, transactions or attempts: a call that returns has written all    *)
(* its rows in one step, one that raises or whose process dies has written *)
(* none.  What a call that raised had written may come to light once, when *)
(* a later init_schema ends.                                               *)
(***************************************************************************)
EXTENDS Naturals

CONSTANTS
    CallId,      \* the numbers of the calls
    Kind,        \* the methods
    RowsOf(_, _) \* the rows that a call of a method writes

VARIABLES
    stored,      \* the rows that other connections see
    told,        \* told[n]: what the caller of n knows
    method       \* method[n]: what it called

callVars == <<stored, told, method>>

CallsInit ==
    /\ stored = {}
    /\ told = [n \in CallId |-> "none"]
    /\ method \in [CallId -> Kind]

Answer(n, outcome) ==
    /\ told[n] = "pending"
    /\ told' = [told EXCEPT ![n] = outcome]
    /\ UNCHANGED method

Ask(n, k) ==
    /\ told[n] = "none"
    /\ told' = [told EXCEPT ![n] = "pending"]
    /\ method' = [method EXCEPT ![n] = k]
    /\ UNCHANGED stored

Return(n) ==
    /\ Answer(n, "done")
    /\ stored' = stored \union RowsOf(n, method[n])

Raise(n) ==
    /\ Answer(n, "raised")
    /\ UNCHANGED stored

\* init_schema commits what it finds: rows of a call that raised, none of which
\* is stored.
ComeToLight(n) ==
    /\ method[n] = "schema"
    /\ \E outcome \in {"done", "raised"} : Answer(n, outcome)
    /\ \E m \in CallId :
        \E left \in SUBSET RowsOf(m, method[m]) :
            /\ told[m] = "raised" /\ left \intersect stored = {}
            /\ stored' = stored \union left

\* A process dies with every call that is under way in it.
Die(dead) ==
    /\ \A n \in dead : told[n] = "pending"
    /\ told' = [n \in CallId |-> IF n \in dead THEN "crashed" ELSE told[n]]
    /\ UNCHANGED <<stored, method>>

CallsNext ==
    \/ \E n \in CallId : \/ \E k \in Kind : Ask(n, k)
                         \/ Return(n) \/ Raise(n) \/ ComeToLight(n)
    \/ \E dead \in SUBSET CallId : Die(dead)

CallsSpec == CallsInit /\ [][CallsNext]_callVars
=============================================================================
