------------------------------ MODULE MCSwarm ------------------------------
(***************************************************************************)
(* Small swarms for TLC, and the refinement of ReplySlots.                 *)
(***************************************************************************)
EXTENDS SwarmBridge

\* "u1" is a user's question in a topic and "p1" an agent's answer to it.
MCQuestion == [m \in PeerMsgs |-> "u1"]
MCParent == [m \in PeerMsgs |-> "topic"]
MCAuthor == [m \in PeerMsgs |-> 1]

\* No message names an agent, "reply" is the user's reply to agent 1, and "owned"
\* is posted in a topic of agent 1.
MCAddressed == [m \in Msgs |-> {}]
MCRepliedTo == [m \in Msgs |-> IF m = "reply" THEN {1} ELSE {}]
MCOwner == [m \in Msgs |-> IF m = "owned" THEN 1 ELSE NoOwner]

\* Tier 1 sleeps less than tier 2 and tier 2 less than tier 3, with the spread
\* of tier 2 kept so that etas can tie and can differ.
MCDelays == <<{1}, {1, 2}, {2}>>
UnitDelays == <<{1}, {1}, {1}>>

----------------------------------------------------------------------------
HolderOf(m) ==
    IF \E a \in Agents : Holds(a, m)
    THEN CHOOSE a \in Agents : Holds(a, m)
    ELSE NoOwner

SettledOn(m) ==
    {a \in Agents : /\ claims[a][m].state = "sent"
                    /\ claims[a][m].tier = 2
                    /\ <<a, m>> \notin lapsed}

Slots == INSTANCE ReplySlots WITH
    Cap <- MaxImplicit,
    Nobody <- NoOwner,
    holder <- [m \in Msgs |-> HolderOf(m)],
    settled <- [m \in Msgs |-> SettledOn(m)]

\* Each step of the handlers and the ledger is a step of the slots or changes
\* none of them.
ImplementsReplySlots == Slots!SlotsSpec
=============================================================================
