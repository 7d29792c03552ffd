---------------------------- MODULE SwarmBridge ----------------------------
(***************************************************************************)
(* The group-message handlers of every agent process                       *)
(* (kronos/bridge.py, handle_message, group branch) competing for the      *)
(* right to answer through the shared ledger of SwarmLedger.               *)
(*                                                                         *)
(* A handler is a pair <<a, m>>: agent a handling message m.  Each action  *)
(* is the stretch of a handler between two awaits, or, where two ledger    *)
(* transactions follow each other with no await, one of the two: the other *)
(* processes can commit in between.                                        *)
(***************************************************************************)
EXTENDS SwarmLedger

CONSTANTS
    Author,           \* Author[m]: the agent that posted the peer message m
    Question,         \* Question[m]: the user message that it answered
    Addressed,        \* Addressed[m]: the agents m names or mentions
    RepliedTo,        \* RepliedTo[m]: the agent m replies to, if it is one
    Owner,            \* Owner[m]: owner agent of m's topic, or NoOwner
    NoOwner,
    Delays,           \* Delays[t]: the sleeps decide() draws for tier t
    MaxPeerReplies,   \* MAX_PEER_REPLIES of the post-delay recheck
    MaxTime,          \* bound of the model: the clock stops there
    MaxFaults         \* bound of the model: crashes and failures, all agents

ASSUME BridgeAssumption ==
    /\ Author \in [PeerMsgs -> Agents]
    /\ Question \in [PeerMsgs -> UserMsgs]
    /\ Addressed \in [Msgs -> SUBSET Agents]
    /\ RepliedTo \in [Msgs -> SUBSET Agents]
    /\ NoOwner \notin Agents
    /\ Owner \in [Msgs -> Agents \union {NoOwner}]
    /\ \A t \in 1..3 : Delays[t] \subseteq Nat \ {0}
    /\ MaxPeerReplies \in Nat
    /\ MaxTime \in Nat
    /\ MaxFaults \in Nat

VARIABLES
    pc,          \* pc[a][m]: where the handler is
    delivered,   \* the <<a, m>> whose reply Telegram accepted
    replies,     \* metric replies_total
    avoided,     \* metric duplicate_replies_avoided
    faults

ledgerVars == <<claims, lapsed, now>>
vars == <<claims, lapsed, now, pc, delivered, replies, avoided, faults>>

Steps == {"idle", "waiting", "rechecked", "losing", "composing", "posted", "done"}

At(a, m, step) == pc[a][m] = step

Goto(a, m, step) == pc' = [pc EXCEPT ![a][m] = step]

\* The tier decide() gives agent a for message m; 0 when it must skip: its own
\* message, or one that addresses only others.  A reply addresses the agent it
\* replies to and is unaddressed to the others.  Tiers 2 and 3 are only what the
\* router may answer: an LLM call decides whether it does.
TierFor(a, m) ==
    IF m \in PeerMsgs /\ Author[m] = a THEN 0
    ELSE IF a \in Addressed[m] \union RepliedTo[m] THEN 1
    ELSE IF Addressed[m] # {} THEN 0
    ELSE IF m \in PeerMsgs THEN 3 ELSE 2

\* Peer replies to m that the chat shows.
PeerReplies(a, m) == {b \in Agents \ {a} : <<b, m>> \in delivered}

\* The peer message m is the reply of its author to a question.
Posted(m) == m \in PeerMsgs => <<Author[m], Question[m]>> \in delivered

Fault == faults < MaxFaults /\ faults' = faults + 1

----------------------------------------------------------------------------
BridgeInit ==
    /\ LedgerInit
    /\ pc = [a \in Agents |-> [m \in Msgs |-> "idle"]]
    /\ delivered = {}
    /\ replies = 0
    /\ avoided = 0
    /\ faults = 0

\* decide() says yes: claim the reply and sleep until its eta.  A handler whose
\* decide() says no leaves no trace: it stays "idle".
Decide(a, m) ==
    /\ At(a, m, "idle")
    /\ Posted(m)
    /\ Owner[m] = NoOwner
    /\ TierFor(a, m) > 0
    /\ \E d \in Delays[TierFor(a, m)] :
        /\ now + d <= MaxTime
        /\ ClaimReply(a, m, TierFor(a, m), now + d)
    /\ Goto(a, m, "waiting")
    /\ UNCHANGED <<now, delivered, replies, avoided, faults>>

\* A message in a topic owned by a: claimed as tier 1, with no arbitration.
DecideOwned(a, m) ==
    /\ At(a, m, "idle")
    /\ Owner[m] = a
    /\ m \in UserMsgs
    /\ ClaimReply(a, m, 1, now)
    /\ Goto(a, m, "composing")
    /\ UNCHANGED <<now, delivered, replies, avoided, faults>>

\* After the sleep, should_still_respond() counts the peers' replies to m.  It
\* may see fewer: only the latest 20 messages are read, in a topic a reply
\* points to the topic's root, and a failed lookup counts as no reply at all.
\* Too many: cancel_claim and return.
Recheck(a, m) ==
    /\ At(a, m, "waiting")
    /\ claims[a][m].eta <= now
    /\ \E seen \in 0..Cardinality(PeerReplies(a, m)) :
        IF TierFor(a, m) # 1 /\ seen >= MaxPeerReplies
        THEN /\ CancelClaim(a, m)
             /\ Goto(a, m, "done")
             /\ avoided' = avoided + 1
        ELSE /\ Goto(a, m, "rechecked")
             /\ UNCHANGED <<claims, lapsed, avoided>>
    /\ UNCHANGED <<now, delivered, replies, faults>>

\* can_send_claim: sweep, then decide on the swept table.
Arbitrate(a, m) ==
    /\ At(a, m, "rechecked")
    /\ CanSendClaim
    /\ Goto(a, m, IF MayAnswer(Swept, a, m, TierFor(a, m))
                  THEN "composing" ELSE "losing")
    /\ UNCHANGED <<now, delivered, replies, avoided, faults>>

\* The loser cancels its claim in a transaction of its own.
StandDown(a, m) ==
    /\ At(a, m, "losing")
    /\ CancelClaim(a, m)
    /\ Goto(a, m, "done")
    /\ avoided' = avoided + 1
    /\ UNCHANGED <<now, delivered, replies, faults>>

\* A peer reaction whose answer is PASS.
Pass(a, m) ==
    /\ At(a, m, "composing")
    /\ TierFor(a, m) = 3
    /\ CancelClaim(a, m)
    /\ Goto(a, m, "done")
    /\ UNCHANGED <<now, delivered, replies, avoided, faults>>

\* Telegram accepts the reply, at the end of an LLM call of any length.
Post(a, m) ==
    /\ At(a, m, "composing")
    /\ delivered' = delivered \union {<<a, m>>}
    /\ Goto(a, m, "posted")
    /\ UNCHANGED <<ledgerVars, replies, avoided, faults>>

\* The Bot API refuses the reply: logged, and the handler goes on.
PostRefused(a, m) ==
    /\ At(a, m, "composing")
    /\ Fault
    /\ Goto(a, m, "posted")
    /\ UNCHANGED <<ledgerVars, delivered, replies, avoided>>

\* A voice or image message that cannot be read, or an exception from the
\* user-session send: the handler ends and its claim stays as it is.
Abandon(a, m) ==
    /\ At(a, m, "composing")
    /\ Fault
    /\ Goto(a, m, "done")
    /\ UNCHANGED <<ledgerVars, delivered, replies, avoided>>

\* mark_sent, whatever the send returned, and the reply metrics.
Settle(a, m) ==
    /\ At(a, m, "posted")
    /\ MarkSent(a, m)
    /\ replies' = replies + 1
    /\ Goto(a, m, "done")
    /\ UNCHANGED <<now, delivered, avoided, faults>>

\* The process of agent a dies and restarts: its handlers are gone, its rows
\* stay.  Messages it has not received yet are handled after the restart.
Crash(a) ==
    /\ Fault
    /\ \E m \in Msgs : pc[a][m] \notin {"idle", "done"}
    /\ pc' = [pc EXCEPT ![a] = [m \in Msgs |->
                 IF pc[a][m] = "idle" THEN "idle" ELSE "done"]]
    /\ UNCHANGED <<ledgerVars, delivered, replies, avoided>>

Tick ==
    /\ now < MaxTime
    /\ now' = now + 1
    /\ UNCHANGED <<claims, lapsed, pc, delivered, replies, avoided, faults>>

Handle(a, m) ==
    \/ Decide(a, m)
    \/ DecideOwned(a, m)
    \/ Recheck(a, m)
    \/ Arbitrate(a, m)
    \/ StandDown(a, m)
    \/ Pass(a, m)
    \/ Post(a, m)
    \/ PostRefused(a, m)
    \/ Abandon(a, m)
    \/ Settle(a, m)

Next ==
    \/ \E a \in Agents, m \in Msgs : Handle(a, m)
    \/ \E a \in Agents : Crash(a)
    \/ Tick

Spec == BridgeInit /\ [][Next]_vars

\* asyncio runs every ready handler and every sleep ends; nothing obliges a
\* message to be answered, or anything to fail.
Advance(a, m) ==
    \/ Recheck(a, m)
    \/ Arbitrate(a, m)
    \/ StandDown(a, m)
    \/ Pass(a, m)
    \/ Post(a, m)
    \/ Settle(a, m)

Fairness ==
    /\ WF_vars(Tick)
    /\ \A a \in Agents, m \in Msgs : WF_vars(Advance(a, m))

FairSpec == Spec /\ Fairness

----------------------------------------------------------------------------
(* Properties. *)

\* Every variable keeps its type: a claim is only ever in one of the states the
\* arbitration queries of swarm_store.py know.
TypeOK ==
    /\ LedgerTypeOK
    /\ pc \in [Agents -> [Msgs -> Steps]]
    /\ delivered \subseteq Agents \X Msgs
    /\ replies \in Nat
    /\ avoided \in Nat
    /\ faults \in 0..MaxFaults

\* An implicit (tier 2) reply is in the hands of a: it won the arbitration, its
\* row is still 'claimed', and it is composing, posted, or posted and then died
\* before it could mark the row.
Holds(a, m) ==
    /\ claims[a][m].state = "claimed"
    /\ claims[a][m].tier = 2
    /\ pc[a][m] \in {"composing", "posted"} \/ <<a, m>> \in delivered

\* can_send_claim's "exactly one wins": while claims do not expire, no two
\* agents hold the tier-2 reply to one message, in spite of can_send_claim
\* leaving the winner's row as it found it.
OneHolder ==
    \A m \in Msgs : \A a, b \in Agents :
        Holds(a, m) /\ Holds(b, m) => a = b

\* The tier-2 replies to m that reached the chat from claims that never expired.
TimelyReplies(m) ==
    {c \in delivered : /\ c[2] = m
                       /\ claims[c[1]][m].tier = 2
                       /\ c \notin lapsed}

\* The cap of DEFAULT_MAX_IMPLICIT_REPLIES holds for all the replies whose claim
\* lived until they were marked, across crashes and failed sends: every reply
\* over the cap is one whose claim had expired.
CapUnlessLapsed ==
    \A m \in Msgs : Cardinality(TimelyReplies(m)) <= MaxImplicit

\* A message some agent claimed at tier 2 is answered: the losers stand down
\* only for someone who does answer.
Answered(m) == \E c \in delivered : RootOf(c[2], TierFor(c[1], c[2])) = m

ClaimedIsAnswered ==
    \A m \in Msgs :
        (\E a \in Agents : claims[a][m].tier = 2 /\ claims[a][m].state = "claimed")
            ~> Answered(m)

\* An explicitly addressed agent that took the message answers it, whatever the
\* others hold: no cap and no peer check.
AddressedAnswers ==
    \A a \in Agents, m \in Msgs :
        (claims[a][m].tier = 1) ~> (<<a, m>> \in delivered)

\* swarm_store.py:58, "Hard cap on non-explicit substantive replies to one root
\* user message.  Applies to Tier 2 and Tier 3".
HardCap == \A m \in Msgs : Cardinality(SentFor(claims, m)) <= MaxImplicit

----------------------------------------------------------------------------
(* The inductive invariant behind OneHolder and CapUnlessLapsed. *)

\* A handler has a row once it has decided, and the row stays 'claimed' until
\* the handler gives it up or the sweep takes it.
RowsFollowHandlers ==
    \A a \in Agents, m \in Msgs :
        /\ At(a, m, "idle") => claims[a][m] = NoRow
        /\ pc[a][m] \in {"waiting", "rechecked", "losing", "composing", "posted"}
              => claims[a][m].state = "claimed" \/ <<a, m>> \in lapsed
        /\ pc[a][m] \in {"waiting", "rechecked"}
              => claims[a][m].tier = TierFor(a, m)

\* A handler past its sleep has an eta in the past, and a delivered reply is
\* that of a handler past composing.
RepliesFollowEtas ==
    \A a \in Agents, m \in Msgs :
        /\ pc[a][m] \in {"rechecked", "losing", "composing", "posted"}
              => claims[a][m].eta <= now
        /\ <<a, m>> \in delivered =>
              /\ pc[a][m] \in {"posted", "done"}
              /\ claims[a][m].eta <= now
              /\ claims[a][m].state \in {"claimed", "sent"} \/ <<a, m>> \in lapsed

\* The holder comes before every other tier-2 claim on the message: those that
\* were there when it won, and those that came later with later etas.
HolderIsFirst ==
    \A m \in Msgs : \A a, b \in Agents :
        /\ Holds(a, m)
        /\ a # b
        /\ claims[b][m].state = "claimed"
        /\ claims[b][m].tier = 2
        => Before(claims, <<a, m>>, <<b, m>>)

\* The holder and the replies already marked fit under the cap together.
Counted(m) ==
    {c \in Agents \X Msgs :
        /\ c[2] = m
        /\ claims[c[1]][m].tier = 2
        /\ \/ claims[c[1]][m].state = "sent" /\ c \notin lapsed
           \/ Holds(c[1], m)}

CountedFit == \A m \in Msgs : Cardinality(Counted(m)) <= MaxImplicit

IInv ==
    /\ TypeOK
    /\ RowsFollowHandlers
    /\ RepliesFollowEtas
    /\ HolderIsFirst
    /\ CountedFit
=============================================================================
