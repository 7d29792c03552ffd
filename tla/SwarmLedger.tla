---------------------------- MODULE SwarmLedger ----------------------------
(***************************************************************************)
(* The reply_claims table of the shared swarm ledger                       *)
(* (kronos/swarm_store.py, class SwarmStore): what every agent process     *)
(* reads and writes, through IMMEDIATE SQLite transactions, before it may  *)
(* answer a group message.                                                 *)
(*                                                                         *)
(* Every operator below that primes a variable is one transaction of the   *)
(* store.  The table is modelled for one chat and one topic: every query   *)
(* of the store is keyed by (chat_id, topic_id) except the lazy expiry,    *)
(* which sweeps the whole table, as Swept does here over all the messages. *)
(***************************************************************************)
EXTENDS Integers, FiniteSets

CONSTANTS
    Agents,        \* agent names; numbers stand for names, in SQLite's text order
    UserMsgs,      \* messages a whitelisted user posted
    PeerMsgs,      \* messages another agent posted as a reply to a user message
    Roots,         \* roots of forum topics, which nobody claims
    Parent,        \* Parent[m]: what the peer message m replies to in its header
    Expiry,        \* CLAIM_EXPIRY_SECONDS
    MaxImplicit    \* DEFAULT_MAX_IMPLICIT_REPLIES

Msgs == UserMsgs \union PeerMsgs

ASSUME LedgerAssumption ==
    /\ Agents \subseteq Nat
    /\ IsFiniteSet(Agents)
    /\ IsFiniteSet(UserMsgs)
    /\ IsFiniteSet(PeerMsgs)
    /\ UserMsgs \intersect PeerMsgs = {}
    /\ Parent \in [PeerMsgs -> UserMsgs \union Roots]
    /\ Expiry \in Nat
    /\ MaxImplicit \in Nat \ {0}

VARIABLES
    claims,   \* claims[a][m]: the row UNIQUE(chat, topic, trigger m, agent a)
    lapsed,   \* history: the rows <<a, m>> that lazy expiry has ever expired
    now       \* time.time(): one clock, all the processes share the host

ClaimStates == {"none", "claimed", "sent", "cancelled", "expired"}

Row == [state : ClaimStates, tier : 0..3, eta : Nat, created : Nat]

NoRow == [state |-> "none", tier |-> 0, eta |-> 0, created |-> 0]

\* The message a claim competes for: the triggering message, or for a peer
\* reaction (tier 3) what that replies to.  In a topic an answer replies to the
\* topic's root, and out of one its own topic is the question, so that reactions
\* do not compete with the answers to the question: GroupChat has the headers.
RootOf(m, tier) == IF tier = 3 THEN Parent[m] ELSE m

LedgerInit ==
    /\ claims = [a \in Agents |-> [m \in Msgs |-> NoRow]]
    /\ lapsed = {}
    /\ now = 0

----------------------------------------------------------------------------
(* Reading the table. *)

ActiveFor(tbl, root) ==
    {c \in Agents \X Msgs :
        /\ tbl[c[1]][c[2]].state = "claimed"
        /\ RootOf(c[2], tbl[c[1]][c[2]].tier) = root}

\* The replies the anti-flood cap counts: SELECT COUNT(*) ... AND tier > 1.
SentFor(tbl, root) ==
    {c \in Agents \X Msgs :
        /\ tbl[c[1]][c[2]].state = "sent"
        /\ tbl[c[1]][c[2]].tier > 1
        /\ RootOf(c[2], tbl[c[1]][c[2]].tier) = root}

\* Mutant: equal etas beat each other, so that no row of a tie comes first.
BeforeTieLoses(tbl, c, d) ==
    LET r == tbl[c[1]][c[2]]
        s == tbl[d[1]][d[2]]
    IN  \/ r.tier < s.tier
        \/ r.tier = s.tier /\ r.eta <= s.eta /\ c[1] # d[1]

\* ORDER BY tier ASC, eta_ts ASC, agent_name ASC, as a strict order on rows.
\* (A tie between two rows of one agent may be listed either way; the winner
\* lookup returns the agent's name, so it does not matter.)
Before(tbl, c, d) ==
    LET r == tbl[c[1]][c[2]]
        s == tbl[d[1]][d[2]]
    IN  \/ r.tier < s.tier
        \/ r.tier = s.tier /\ r.eta < s.eta
        \/ r.tier = s.tier /\ r.eta = s.eta /\ c[1] < d[1]

\* Mutant: any active claim of the agent will do.
WinnerIsAnyActive(tbl, a, root) ==
    \E c \in ActiveFor(tbl, root) : c[1] = a

\* The winner lookup names this agent.  The row found need not be the row of
\* the trigger being arbitrated: only the name is compared.
WinnerIs(tbl, a, root) ==
    \E c \in ActiveFor(tbl, root) :
        /\ c[1] = a
        /\ \A d \in ActiveFor(tbl, root) : ~Before(tbl, d, c)

\* Mutant: the sweep forgets WHERE state = 'claimed'.
StaleAnyState(tbl, a, m) ==
    /\ tbl[a][m].state # "none"
    /\ now - tbl[a][m].created > Expiry

Stale(tbl, a, m) ==
    /\ tbl[a][m].state = "claimed"
    /\ now - tbl[a][m].created > Expiry

\* UPDATE ... SET state = 'expired' WHERE state = 'claimed' AND too old.
Swept ==
    [a \in Agents |-> [m \in Msgs |->
        IF Stale(claims, a, m)
        THEN [claims[a][m] EXCEPT !.state = "expired"]
        ELSE claims[a][m]]]

\* Mutant: off by one at the cap.
CapReachedLate(tbl, root) == Cardinality(SentFor(tbl, root)) > MaxImplicit

\* The verdict of can_send_claim on a table already swept.
CapReached(tbl, root) == Cardinality(SentFor(tbl, root)) >= MaxImplicit

\* Mutant: explicit addressing goes through the cap and the winner lookup too.
MayAnswerNoBypass(tbl, a, m, tier) ==
    /\ ~CapReached(tbl, RootOf(m, tier))
    /\ WinnerIs(tbl, a, RootOf(m, tier))

MayAnswer(tbl, a, m, tier) ==
    \/ tier = 1
    \/ /\ ~CapReached(tbl, RootOf(m, tier))
       /\ WinnerIs(tbl, a, RootOf(m, tier))

----------------------------------------------------------------------------
(* The transactions that write the table. *)

\* claim_reply: INSERT OR IGNORE, so an existing row keeps every column.
ClaimReply(a, m, tier, eta) ==
    /\ claims' = IF claims[a][m].state = "none"
                 THEN [claims EXCEPT ![a][m] =
                         [state |-> "claimed", tier |-> tier, eta |-> eta,
                          created |-> now]]
                 ELSE claims
    /\ UNCHANGED lapsed

\* can_send_claim: the sweep commits whatever the verdict is.
CanSendClaim ==
    /\ claims' = Swept
    /\ lapsed' = lapsed \union {c \in Agents \X Msgs : Stale(claims, c[1], c[2])}

\* mark_sent: no condition on the state the row is in.
MarkSent(a, m) ==
    /\ claims' = [claims EXCEPT ![a][m].state = "sent"]
    /\ UNCHANGED lapsed

\* Mutant: a state name the queries do not know.
CancelClaimMisspelt(a, m) ==
    /\ claims' = IF claims[a][m].state = "claimed"
                 THEN [claims EXCEPT ![a][m].state = "canceled"]
                 ELSE claims
    /\ UNCHANGED lapsed

\* cancel_claim: only a row still 'claimed'.
CancelClaim(a, m) ==
    /\ claims' = IF claims[a][m].state = "claimed"
                 THEN [claims EXCEPT ![a][m].state = "cancelled"]
                 ELSE claims
    /\ UNCHANGED lapsed

LedgerTypeOK ==
    /\ claims \in [Agents -> [Msgs -> Row]]
    /\ lapsed \subseteq Agents \X Msgs
    /\ now \in Nat
=============================================================================
