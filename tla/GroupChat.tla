----------------------------- MODULE GroupChat -----------------------------
(***************************************************************************)
(* One group and what the agents make of its messages: the ingress of      *)
(* bridge.py, the topics, the router (group_router.py), the journal of     *)
(* messages and the feedback in the shared ledger (swarm_store.py).        *)
(*                                                                         *)
(* The claims that decide which of the willing agents answers are those of *)
(* SwarmBridge: here an agent that is willing answers or stands down.      *)
(* Telegram is external: it numbers the messages, tells every agent of     *)
(* each, and says in a message's header what the message replies to.  In a *)
(* forum every message hangs on the root of its topic, which a user made.  *)
(***************************************************************************)
EXTENDS Integers, FiniteSets, Sequences

CONSTANTS
    Peer,           \* the agents in the group
    Listed,          \* those whose user names agents.yaml has
    User,           \* the whitelisted user
    Stranger,       \* anybody else
    TopicOwner,     \* the agent whose topic an owned one is
    MaxMsgs,        \* bound: messages of the group
    MaxPosts,       \* bound: those of people
    MaxFeedback,    \* bound: reactions with an emoji
    MaxDeaths       \* bound: deaths of an agent's process

ASSUME GroupAssumption ==
    /\ Listed \subseteq Peer /\ TopicOwner \in Peer
    /\ User # Stranger /\ {User, Stranger} \cap Peer = {}
    /\ "unknown" \notin Peer

VARIABLES
    layout,     \* what the messages' headers are, and how the topic is routed
    chat,       \* the messages; their numbers are Telegram's
    pc,         \* pc[a][m]: where agent a's handler of message m is
    cooling,    \* cooling[a]: a peer reaction less than five minutes ago
    journal,    \* rows of swarm_messages
    feedback,   \* rows of feedback: message, agent to its credit, kind
    emojis, deaths

groupVars == <<layout, chat, pc, cooling, journal, feedback, emojis, deaths>>

Id == 1 .. MaxMsgs
Posted == 1 .. Len(chat)

GroupInit ==
    /\ layout \in {"group", "general", "topic", "owned", "silent"}
    /\ chat = <<>> /\ journal = {} /\ feedback = {}
    /\ pc = [a \in Peer |-> [m \in Id |-> "new"]]
    /\ cooling = [a \in Peer |-> FALSE]
    /\ emojis = 0 /\ deaths = 0

-----------------------------------------------------------------------------
(* Headers, topics, addressing. *)

Hangs == layout \in {"topic", "owned", "silent"}

\* _extract_topic_id: the root of the topic, or whatever the message replies to,
\* or what that itself hung on (reply_to_top_id); 0 is none.
TopicsOf(parent) ==
    IF Hangs \/ parent = 0 THEN {0} ELSE {parent, chat[parent].topic} \ {0}

\* The author of what get_reply_message finds; the root of a topic is a user's.
ParentAuthor(m) ==
    IF chat[m].parent # 0 THEN chat[chat[m].parent].from
    ELSE IF Hangs THEN User ELSE "nobody"

\* _resolve_topic_route: a message of the general topic that replies to another
\* seems to be of a topic that nobody configured.
Route(m) ==
    CASE layout \in {"owned", "silent"} -> layout
      [] layout = "general" /\ chat[m].topic # 0 -> "silent"
      [] OTHER -> "swarm"

IsPeer(a, who) == who \notin {a, User}

\* _analyze_addressing: the names in the text; the reply counts for the agent
\* that is replied to, when the lookup works, and for no other.
ToMe(a, m, replied) == a \in chat[m].names \/ (replied /\ ParentAuthor(m) = a)
ToOther(a, m, replied) == chat[m].names # {} /\ ~ToMe(a, m, replied)

\* _peer_replies_to_user.
UserRooted(m) == ParentAuthor(m) = User

-----------------------------------------------------------------------------
(* People. *)

Posting(who, parent, topic, names, why) ==
    [from |-> who, parent |-> parent, topic |-> topic, names |-> names, why |-> why]

Says ==
    /\ Len(chat) < MaxMsgs
    /\ Cardinality({m \in Posted : chat[m].from \notin Peer}) < MaxPosts
    /\ \E who \in {User, Stranger}, p \in IF Hangs THEN {0} ELSE {0} \cup Posted,
          names \in {{}} \cup {{a} : a \in Peer} :
        \E t \in TopicsOf(p) : chat' = Append(chat, Posting(who, p, t, names, "said"))
    /\ UNCHANGED <<layout, pc, cooling, journal, feedback, emojis, deaths>>

-----------------------------------------------------------------------------
(* The handlers of the agents. *)

\* Tiers 1, 2 and 3.
Willing == {"explicit", "relevant", "reaction"}

Goto(a, m, place) == pc' = [pc EXCEPT ![a][m] = place]

\* INSERT OR IGNORE: the first row of a message in a topic stays.
Recorded(row) ==
    IF \E r \in journal : r.msg = row.msg /\ r.topic = row.topic THEN journal
    ELSE journal \cup {row}

\* What the recorder's registry makes of the author.
NameOf(who) == IF who \in Listed THEN who ELSE "unknown"

\* Mutant: the row bears the name of the agent that writes it.
InboundRowOwnName(a, m) ==
    LET who == chat[m].from IN
    [msg |-> m, topic |-> chat[m].topic,
     kind |-> IF IsPeer(a, who) THEN "agent" ELSE "user",
     name |-> IF IsPeer(a, who) THEN a ELSE "unknown"]

InboundRow(a, m) ==
    LET who == chat[m].from IN
    [msg |-> m, topic |-> chat[m].topic,
     kind |-> IF IsPeer(a, who) THEN "agent" ELSE "user",
     name |-> IF IsPeer(a, who) THEN NameOf(who) ELSE "unknown"]

\* record_inbound_message, then the topic: only its owner goes on in an owned
\* one, and only for people.
Ingress(a, m) ==
    /\ m \in Posted /\ pc[a][m] = "new"
    /\ IF chat[m].from = a THEN Goto(a, m, "done") /\ UNCHANGED journal
       ELSE /\ journal' = Recorded(InboundRow(a, m))
            /\ Goto(a, m,
                 IF Route(m) = "swarm" THEN "routing"
                 ELSE IF Route(m) = "owned" /\ a = TopicOwner /\ chat[m].from = User
                 THEN "explicit" ELSE "done")
    /\ UNCHANGED <<layout, chat, cooling, feedback, emojis, deaths>>

\* _check_relevance: a model is asked whether the text is the agent's business.
CheckRelevance == {"relevant", "done"}

\* GroupRouter.decide up to the question whether a peer's message calls for a
\* reaction.
\* (That a reaction is not given twice to one message never speaks: each
\* message is handled once.)
Decide(a, m) ==
    /\ pc[a][m] = "routing"
    /\ \E replied \in BOOLEAN :
        LET user == ~IsPeer(a, chat[m].from) IN
        \E to \in IF ToOther(a, m, replied) THEN {"done"}
                  ELSE IF ToMe(a, m, replied) THEN {"explicit"}
                  ELSE IF user THEN CheckRelevance
                  ELSE IF cooling[a] THEN {"done"} ELSE {"judging"} :
            Goto(a, m, to)
    /\ UNCHANGED <<layout, chat, cooling, journal, feedback, emojis, deaths>>

\* _should_react_to_peer, after awaits: the cooldown begins only now.
Judge(a, m) ==
    /\ pc[a][m] = "judging"
    /\ \/ UserRooted(m) /\ Goto(a, m, "reaction")
          /\ cooling' = [cooling EXCEPT ![a] = TRUE]
       \/ Goto(a, m, "done") /\ UNCHANGED cooling
    /\ UNCHANGED <<layout, chat, journal, feedback, emojis, deaths>>

\* Arbitration, PASS, or an answer that cannot be sent: see SwarmBridge.
StandsDown(a, m) ==
    /\ pc[a][m] \in Willing
    /\ Goto(a, m, "done")
    /\ UNCHANGED <<layout, chat, cooling, journal, feedback, emojis, deaths>>

\* A message with a topic is answered in it: where there is none in truth, the
\* answer replies to the message taken for its root, or to nothing when the Bot
\* API does not know that topic.  Otherwise it replies to the message.
ParentsOfAnswer(m) ==
    IF Hangs THEN {0} ELSE IF chat[m].topic # 0 THEN {chat[m].topic, 0} ELSE {m}

Answers(a, m) ==
    /\ pc[a][m] \in Willing /\ Len(chat) < MaxMsgs
    /\ \E p \in ParentsOfAnswer(m) : \E t \in TopicsOf(p) :
          chat' = Append(chat, Posting(a, p, t, {}, pc[a][m]))
    /\ pc' = [pc EXCEPT ![a][m] = "sent"]
    /\ UNCHANGED <<layout, cooling, journal, feedback, emojis, deaths>>

\* record_outbound_message, under the topic of the message that was answered; a
\* voice message is not recorded.
Outbound(a, m) ==
    /\ pc[a][m] = "sent"
    /\ \E n \in Posted :
        /\ chat[n].from = a /\ n > m
        /\ journal' \in {journal, Recorded([msg |-> n, topic |-> chat[m].topic,
                                            kind |-> "agent", name |-> a])}
    /\ Goto(a, m, "done")
    /\ UNCHANGED <<layout, chat, cooling, feedback, emojis, deaths>>

CoolDown(a) ==
    /\ cooling[a] /\ cooling' = [cooling EXCEPT ![a] = FALSE]
    /\ UNCHANGED <<layout, chat, pc, journal, feedback, emojis, deaths>>

AgentDies(a) ==
    /\ deaths < MaxDeaths /\ deaths' = deaths + 1
    /\ pc' = [pc EXCEPT ![a] = [m \in Id |-> IF m \in Posted THEN "done" ELSE "new"]]
    /\ cooling' = [cooling EXCEPT ![a] = FALSE]
    /\ UNCHANGED <<layout, chat, journal, feedback, emojis>>

-----------------------------------------------------------------------------
(* Feedback. *)

\* One row for a message and an agent: the last emoji counts.  A neutral one
\* behaves like the others.
AddFeedback(m, credit, kind) ==
    feedback' = {f \in feedback : f.msg # m \/ f.agent # credit}
                \cup {[msg |-> m, agent |-> credit, kind |-> kind]}

\* handle_reaction in the process of agent a.  The chat of the update is that of
\* the rows, or its negative, only in a group that is no supergroup.
HandleReaction(a) ==
    /\ emojis < MaxFeedback /\ emojis' = emojis + 1
    /\ layout = "group"
    /\ \E r \in {r \in journal : r.kind = "agent"}, kind \in {"positive", "negative"} :
          AddFeedback(r.msg, IF r.name = "unknown" THEN a ELSE r.name, kind)
    /\ UNCHANGED <<layout, chat, pc, cooling, journal, deaths>>

\* prune_old_messages: the oldest rows go.
Prune ==
    /\ journal # {}
    /\ \E m \in Posted : journal' = {r \in journal : r.msg > m}
    /\ UNCHANGED <<layout, chat, pc, cooling, feedback, emojis, deaths>>

GroupNext ==
    \/ Says \/ Prune
    \/ \E a \in Peer : CoolDown(a) \/ AgentDies(a) \/ HandleReaction(a)
    \/ \E a \in Peer, m \in Id :
        \/ Ingress(a, m) \/ Decide(a, m) \/ Judge(a, m)
        \/ StandsDown(a, m) \/ Answers(a, m) \/ Outbound(a, m)

GroupSpec == GroupInit /\ [][GroupNext]_groupVars

-----------------------------------------------------------------------------
(* Properties. *)

\* group_router.py, Guard 3: "Peer-to-peer chains do not trigger reactions
\* (otherwise bots debate each other forever)".
NoPeerDebate ==
    \A a \in Peer, m \in Posted : pc[a][m] = "reaction" => chat[m].why # "reaction"

\* Whichever process wrote the row of a message first, and whichever sees the
\* emoji, the feedback on a message of an agent of the registry is to the credit
\* of that agent.
FeedbackFindsItsAuthor ==
    \A f \in feedback : chat[f.msg].from \in Listed => f.agent = chat[f.msg].from

=============================================================================
