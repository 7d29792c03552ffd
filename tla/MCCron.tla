------------------------------- MODULE MCCron -------------------------------
(***************************************************************************)
(* Two agents.  Both have a daily job; one has a weekly job, the other a   *)
(* periodic one, and these two can be triggered by hand.  Days have two    *)
(* hours and weeks two days.                                               *)
(***************************************************************************)
EXTENDS CronScheduler, TLC

CONSTANTS a1, a2, digest, retention, heartbeat

MCSchedule ==
    digest :> [kind |-> "daily", hour |-> 1]
        @@ retention :> [kind |-> "weekly", hour |-> 1, weekday |-> 1]
        @@ heartbeat :> [kind |-> "periodic", interval |-> 2]

MCRegistered == a1 :> <<digest, retention>> @@ a2 :> <<heartbeat, digest>>
=============================================================================
