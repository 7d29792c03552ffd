---------------------------- MODULE AgentSession ----------------------------
(***************************************************************************)
(* Conversation turns of one thread: KronosAgent.ainvoke (kronos/graph.py) *)
(* as the bridges call it, over the session table and the session-search   *)
(* index that SessionStore (kronos/session.py) writes.                     *)
(*                                                                         *)
(* A turn reads the whole history, runs the model and writes the whole     *)
(* history back.  Only the Telegram bridge holds _agent_lock meanwhile; the *)
(* Discord bridge does not, and /clear does not.  Each action is a stretch *)
(* of the coroutine between two awaits.                                    *)
(***************************************************************************)
EXTENDS Naturals, Sequences, SequencesExt

CONSTANTS
    Turns,        \* what is asked on the thread; a turn is asked once
    Reactions,    \* the turns that are peer reactions (persist_user_turn=False)
    NoTurn,
    MaxHistory,   \* MAX_HISTORY of the session store
    MaxMessages,  \* MAX_MESSAGES: compaction above this many
    KeepRecent,   \* KEEP_RECENT
    MaxClears,    \* bound of the model: /clear commands
    MaxFaults     \* bound of the model: exceptions and crashes

ASSUME SessionAssumption ==
    /\ Reactions \subseteq Turns
    /\ NoTurn \notin Turns
    \* Messages come in pairs, and both limits are even: 30 and 6.
    /\ MaxHistory \in Nat \ {0} /\ MaxHistory % 2 = 0
    /\ MaxMessages \in Nat \ {0}
    /\ KeepRecent \in Nat \ {0} /\ KeepRecent % 2 = 0
    \* What compaction leaves, the table holds: 6 <= 30 <= 30.
    /\ KeepRecent <= MaxMessages /\ MaxMessages <= MaxHistory
    /\ MaxClears \in Nat
    /\ MaxFaults \in Nat

VARIABLES
    locking,    \* the bridge holds _agent_lock around ainvoke (never changes)
    memory,     \* long-term memory is enabled (never changes)
    lock,       \* _agent_lock: the turn that holds it, or NoTurn
    pc,         \* pc[t]: where the turn is
    draft,      \* draft[t]: its persisted_history
    session,    \* the row of the sessions table
    index,      \* rows of session_messages: what was indexed, at which position
    summarised, \* the turns that compaction folded into a summary
    jobs,       \* store_memories_background calls still in the executor
    remembered, \* the <<question, answer>> pairs given to long-term memory
    log,        \* history: the answers in the order their save was committed
    forgotten,  \* history: the turns committed before the last /clear
    overlapped, \* history: the turns with a loaded history at a /clear
    clears,
    faults

settings == <<locking, memory>>
turnVars == <<lock, pc, draft>>
recallVars == <<summarised, jobs, remembered>>
clearVars == <<forgotten, overlapped, clears>>
vars == <<settings, turnVars, session, index, recallVars, log, clearVars, faults>>

\* The roles a message may have.  A model may answer with an empty string, and
\* a rejected question is answered with the block message.
Answers == {"answer", "blank"}

Msg(t, role) == [turn |-> t, role |-> role]

TurnsOf(s) == {s[i].turn : i \in DOMAIN s}

----------------------------------------------------------------------------
(* What is done to a history on its way to the table. *)

\* Mutant: keeps one message less, so an answer may lose its question.
LatestShort(s, n) == IF Len(s) > n THEN SubSeq(s, Len(s) - n + 2, Len(s)) ELSE s

\* messages[-n:]
Latest(s, n) == IF Len(s) > n THEN SubSeq(s, Len(s) - n + 1, Len(s)) ELSE s

\* Mutant: a turn whose answer is empty is not compacted.
TooLongIfAnswered(s) == memory /\ Len(s) > MaxMessages /\ Last(s).role = "answer"

TooLong(s) == memory /\ Len(s) > MaxMessages

\* Compaction with the "summarize" engine: a summary and the most recent
\* messages.  The summary goes to long-term memory; as a system message, it is
\* left out of the save.  (The configured strategy does not matter: ainvoke
\* asks for the default one.)
Compacted(s) == IF TooLong(s) THEN Latest(s, KeepRecent) ELSE s
Dropped(s) == TurnsOf(s) \ TurnsOf(Compacted(s))

\* Mutant: the block message passes for an answer.
MemoryPairAnyText(s) ==
    LET users == {i \in DOMAIN s : s[i].role = "user"}
        spoken == {i \in DOMAIN s : s[i].role \in {"answer", "blocked"}}
        last(I) == CHOOSE i \in I : \A j \in I : j <= i
    IN  IF users = {} \/ spoken = {}
        THEN {}
        ELSE {<<s[last(users)].turn, s[last(spoken)].turn>>}

\* The pair store_memories_background picks from the history: the last question
\* with the last answer that is neither empty nor a block message, if any.
MemoryPair(s) ==
    LET users == {i \in DOMAIN s : s[i].role = "user"}
        spoken == {i \in DOMAIN s : s[i].role = "answer"}
        last(I) == CHOOSE i \in I : \A j \in I : j <= i
    IN  IF users = {} \/ spoken = {}
        THEN {}
        ELSE {<<s[last(users)].turn, s[last(spoken)].turn>>}

\* Mutant: only the questions are offered.
IndexedQuestions(s) == {<<i, s[i]>> : i \in {j \in DOMAIN s : s[j].role = "user"}}

\* _index_to_swarm_fts: INSERT OR IGNORE by the fingerprint of the position, the
\* role and the content.  Empty messages are skipped.
Indexed(s) == {<<i, s[i]>> : i \in {j \in DOMAIN s : s[j].role # "blank"}}

----------------------------------------------------------------------------
SessionInit ==
    /\ locking \in BOOLEAN
    /\ memory \in BOOLEAN
    /\ lock = NoTurn
    /\ pc = [t \in Turns |-> "idle"]
    /\ draft = [t \in Turns |-> <<>>]
    /\ session = <<>>
    /\ index = {}
    /\ summarised = {}
    /\ jobs = {}
    /\ remembered = {}
    /\ log = <<>>
    /\ forgotten = {}
    /\ overlapped = {}
    /\ clears = 0
    /\ faults = 0

Fault == faults < MaxFaults /\ faults' = faults + 1

\* The turn ends: its reply, or an error text, goes to the chat and the lock,
\* if it was taken, is released.
End(t, step) ==
    /\ pc' = [pc EXCEPT ![t] = step]
    /\ draft' = [draft EXCEPT ![t] = <<>>]
    /\ lock' = IF lock = t THEN NoTurn ELSE lock

\* A message of the thread arrives.
Ask(t) ==
    /\ pc[t] = "idle"
    /\ pc' = [pc EXCEPT ![t] = "asked"]
    /\ UNCHANGED <<settings, lock, draft, session, index, recallVars, log,
                   clearVars, faults>>

\* Mutant: the turn does not wait for the lock.
LoadAtOnce(t) ==
    /\ pc[t] = "asked"
    /\ lock' = IF locking THEN t ELSE NoTurn
    /\ draft' = [draft EXCEPT ![t] = Append(session, Msg(t, "user"))]
    /\ pc' = [pc EXCEPT ![t] = "thinking"]
    /\ UNCHANGED <<settings, session, index, recallVars, log, clearVars, faults>>

\* Take the lock, load the history and validate the question.
Load(t) ==
    /\ pc[t] = "asked"
    /\ lock = NoTurn
    /\ lock' = IF locking THEN t ELSE NoTurn
    /\ draft' = [draft EXCEPT ![t] = Append(session, Msg(t, "user"))]
    /\ pc' = [pc EXCEPT ![t] = "thinking"]
    /\ UNCHANGED <<settings, session, index, recallVars, log, clearVars, faults>>

\* The question is blocked: no model and no memory, but it is saved with the
\* block message, unless the turn is a reaction.
Block(t) ==
    /\ pc[t] = "asked"
    /\ lock = NoTurn
    /\ IF t \in Reactions
       THEN End(t, "replied")
       ELSE /\ lock' = IF locking THEN t ELSE NoTurn
            /\ draft' = [draft EXCEPT ![t] =
                            session \o <<Msg(t, "user"), Msg(t, "blocked")>>]
            /\ pc' = [pc EXCEPT ![t] = "saving"]
    /\ UNCHANGED <<settings, session, index, recallVars, log, clearVars, faults>>

\* The model answers.  A reaction ends here.  Any other turn starts the memory
\* job, compacts the history (blocking the event loop meanwhile) and goes on to
\* save it.
Respond(t) ==
    /\ pc[t] = "thinking"
    /\ IF t \in Reactions
       THEN End(t, "replied") /\ UNCHANGED <<summarised, jobs>>
       ELSE \E role \in Answers :
            LET history == Append(draft[t], Msg(t, role)) IN
            /\ draft' = [draft EXCEPT ![t] = Compacted(history)]
            /\ summarised' = summarised \union Dropped(history)
            /\ jobs' = IF memory THEN jobs \union MemoryPair(history) ELSE jobs
            /\ pc' = [pc EXCEPT ![t] = "saving"]
            /\ UNCHANGED lock
    /\ UNCHANGED <<settings, session, index, remembered, log, clearVars, faults>>

\* save: one upsert of the trimmed history, committed.
Save(t) ==
    /\ pc[t] = "saving"
    /\ session' = Latest(draft[t], MaxHistory)
    /\ draft' = [draft EXCEPT ![t] = Latest(@, MaxHistory)]
    /\ log' = Append(log, Last(draft[t]))
    /\ pc' = [pc EXCEPT ![t] = "indexing"]
    /\ UNCHANGED <<settings, lock, index, recallVars, clearVars, faults>>

\* The save goes on to offer every message of the history to the search index.
Index(t) ==
    /\ pc[t] = "indexing"
    /\ index' = index \union Indexed(draft[t])
    /\ End(t, "replied")
    /\ UNCHANGED <<settings, session, recallVars, log, clearVars, faults>>

\* The model or the database raises: the bridge answers with an error text.
Fail(t) ==
    /\ pc[t] \in {"thinking", "saving"}
    /\ Fault
    /\ End(t, "failed")
    /\ UNCHANGED <<settings, session, index, recallVars, log, clearVars>>

\* store_memories_background, in a thread of the executor.
Remember(pair) ==
    /\ pair \in jobs
    /\ jobs' = jobs \ {pair}
    /\ remembered' = remembered \union {pair}
    /\ UNCHANGED <<settings, turnVars, session, index, summarised, log, clearVars,
                   faults>>

\* Mutant: the row of another thread is deleted.
ClearElsewhere ==
    /\ clears < MaxClears
    /\ clears' = clears + 1
    /\ forgotten' = TurnsOf(log)
    /\ overlapped' = overlapped \union {t \in Turns : pc[t] \in {"thinking", "saving"}}
    /\ UNCHANGED <<settings, turnVars, session, index, recallVars, log, faults>>

\* /clear and /reset delete the row, whatever is in flight.
Clear ==
    /\ clears < MaxClears
    /\ clears' = clears + 1
    /\ session' = <<>>
    /\ forgotten' = TurnsOf(log)
    /\ overlapped' = overlapped \union {t \in Turns : pc[t] \in {"thinking", "saving"}}
    /\ UNCHANGED <<settings, turnVars, index, recallVars, log, faults>>

\* The process dies and restarts: turns, lock and executor are gone.
Crash ==
    /\ Fault
    /\ lock' = NoTurn
    /\ pc' = [t \in Turns |->
                 IF pc[t] \in {"idle", "replied", "failed"} THEN pc[t] ELSE "lost"]
    /\ draft' = [t \in Turns |-> <<>>]
    /\ jobs' = {}
    /\ UNCHANGED <<settings, session, index, summarised, remembered, log, clearVars>>

Turn(t) ==
    \/ Ask(t)
    \/ Load(t)
    \/ Block(t)
    \/ Respond(t)
    \/ Save(t)
    \/ Index(t)
    \/ Fail(t)

SessionNext ==
    \/ \E t \in Turns : Turn(t)
    \/ \E q, a \in Turns : Remember(<<q, a>>)
    \/ Clear
    \/ Crash

SessionSpec == SessionInit /\ [][SessionNext]_vars

----------------------------------------------------------------------------
(* Properties. *)

\* The history is whole turns, each question followed by its own answer: neither
\* trimming nor compaction, each of which counts messages and not turns, ever
\* leaves a question without its answer or an answer without its question.
TurnsStayWhole ==
    /\ Len(session) % 2 = 0
    /\ \A i \in 1..(Len(session) \div 2) :
        /\ session[2*i - 1].role = "user"
        /\ session[2*i].role # "user"
        /\ session[2*i - 1].turn = session[2*i].turn

\* Behind the lock no turn overwrites another: the answers in the history are
\* always the most recently committed ones, in order, whatever is cleared,
\* compacted, lost or in flight.
HistoryIsRecent ==
    locking =>
        LET n == Len(session) \div 2 IN
        /\ n <= Len(log)
        /\ \A i \in 1..n : session[2*i] = log[Len(log) - n + i]

\* With long-term memory a turn leaves the history only by /clear or by way of
\* a summary, unless a blocked question pushed it out: the block path saves
\* without compacting.
NothingDroppedUnread ==
    locking /\ memory =>
        \A t \in TurnsOf(log) :
            \/ t \in TurnsOf(session) \union forgotten \union summarised
            \/ \E i \in DOMAIN log : log[i].role = "blocked"

\* /clear forgets every turn committed before it, unless a turn had loaded the
\* history by then: its save brings back what it had read.
ForgottenUnlessOverlapped ==
    TurnsOf(session) \intersect forgotten # {} =>
        \E t \in overlapped : pc[t] \in {"indexing", "replied", "lost"}

\* What the session search indexed covers the history once the last turn saved
\* has been indexed: a crash between the save and the index is made good by the
\* next turn.
SearchCoversHistory ==
    session # <<>> /\ pc[Last(session).turn] = "replied" =>
        \A i \in DOMAIN session :
            session[i].role # "blank" => \E j \in 1..MaxHistory : <<j, session[i]>> \in index

\* Long-term memory pairs a question with its own answer or, when the model said
\* nothing, with the answer of an earlier turn.  A block message is never
\* remembered as an answer, nor a blocked question.
MemoryIsFaithful ==
    \A pair \in jobs \union remembered :
        \A i \in DOMAIN log :
            /\ log[i].turn = pair[2] => log[i].role = "answer"
            /\ log[i].turn = pair[1] /\ pair[1] # pair[2] => log[i].role = "blank"

\* graph.py:294, "Clear conversation history for a thread."
ClearForgets == TurnsOf(session) \intersect forgotten = {}
=============================================================================
