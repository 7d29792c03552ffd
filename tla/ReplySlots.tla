----------------------------- MODULE ReplySlots -----------------------------
(***************************************************************************)
(* What the swarm ledger promises about implicit (tier 2) replies, with no *)
(* claims, clock or handlers: each message has one slot that at most one   *)
(* agent holds, and gives it out only while fewer than Cap of the replies  *)
(* it gave out have been settled.  A holder may lose the slot at any time  *)
(* (its claim expires, it gives up, its process dies), which frees it for  *)
(* others; a reply that arrives after that is outside the promise.         *)
(***************************************************************************)
EXTENDS Integers, FiniteSets

CONSTANTS Agents, Msgs, Cap, Nobody

VARIABLES
    holder,   \* holder[m]: the agent that may answer m now, or Nobody
    settled   \* settled[m]: the agents whose replies to m used up the cap

slotVars == <<holder, settled>>

SlotsInit ==
    /\ holder = [m \in Msgs |-> Nobody]
    /\ settled = [m \in Msgs |-> {}]

\* Slots lost together: one sweep, or one crash, may end several.
Without(lost) == [m \in Msgs |-> IF m \in lost THEN Nobody ELSE holder[m]]

Lose(lost) ==
    /\ holder' = Without(lost)
    /\ UNCHANGED settled

\* The sweep and the verdict are one transaction, so a slot may be freed and
\* given out in one step.
Grant(a, m, lost) ==
    /\ Without(lost)[m] = Nobody
    /\ Cardinality(settled[m]) < Cap
    /\ holder' = [Without(lost) EXCEPT ![m] = a]
    /\ UNCHANGED settled

Settled(a, m) ==
    /\ holder[m] = a
    /\ holder' = [holder EXCEPT ![m] = Nobody]
    /\ settled' = [settled EXCEPT ![m] = @ \union {a}]

SlotsNext ==
    \/ \E lost \in SUBSET Msgs :
        \/ Lose(lost)
        \/ \E a \in Agents, m \in Msgs : Grant(a, m, lost)
    \/ \E a \in Agents, m \in Msgs : Settled(a, m)

SlotsSpec == SlotsInit /\ [][SlotsNext]_slotVars
=============================================================================
