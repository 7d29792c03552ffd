---------------------------- MODULE AgentEngine ----------------------------
(***************************************************************************)
(* A message from a bridge through the agent: the cost guard, the lock     *)
(* around the agent, the supervisor's tool loop, the loops of the agents   *)
(* it delegates to, time-outs and cancellation, and the cost log.          *)
(*                                                                         *)
(* The Telegram bridge checks the budget and then waits for the lock; the  *)
(* Discord bridge of the same process does neither, and both write the log.*)
(* A chat has one message in flight; a message costs one unit.  Providers  *)
(* and tools are external: a call to a model returns or raises in the end  *)
(* (the clients have time-outs of their own), a tool may hang.             *)
(***************************************************************************)
EXTENDS Integers, Sequences, FiniteSets

CONSTANTS
    Chat,         \* chats with a message to the agent
    Discord,      \* those of them that are Discord channels
    DailyLimit,   \* daily_limit, in messages
    SupTurns,     \* max_turns of the supervisor's loop
    SubTurns,     \* MAX_REACT_TURNS, of a delegate's loop
    Batches,      \* the lists of tool calls a model can answer with
    MaxMessages,  \* bound: messages sent
    MaxBreaks     \* bound: restarts and failures to write the cost log

ASSUME EngineAssumption ==
    /\ IsFiniteSet(Chat)
    /\ Discord \subseteq Chat
    /\ DailyLimit \in Nat \ {0}
    /\ SupTurns \in Nat /\ SubTurns \in Nat

VARIABLES
    chat,      \* chat[c]: pc, loops (supervisor, delegate), tool that runs
    queue,     \* the chats that hold or wait for the agent's lock, in order
    counted,   \* cost.jsonl as get_daily_cost reads it today
    torn,      \* cost.jsonl has an incomplete line
    spent,     \* the messages that passed the guard and were answered
    unlogged,  \* those whose cost could not be written
    threads,   \* time-out tools whose thread still runs
    messages, breaks

engineVars == <<chat, queue, counted, torn, spent, unlogged, threads, messages, breaks>>
costs == <<counted, torn, spent, unlogged>>

\* A tool is a coroutine ("async"), a function that langchain runs in a thread
\* ("thread"), another agent ("delegate") or a name nobody knows ("unknown").
Kind == {"async", "thread", "delegate", "unknown"}

Loop == [turn |-> 0, todo |-> <<>>]
Away == [pc |-> "idle", loops |-> <<>>, tool |-> "none"]

EngineInit ==
    /\ chat = [c \in Chat |-> Away]
    /\ queue = <<>>
    /\ counted = 0
    /\ torn = FALSE
    /\ spent = 0
    /\ unlogged = 0
    /\ threads = {}
    /\ messages = 0
    /\ breaks = 0

-----------------------------------------------------------------------------
(* The bridge. *)

\* Mutant: the limit is one more.
WithinBudgetMore == counted <= DailyLimit

\* check_budget: the cost of the day so far; record_cost has no caller, so the
\* limit per session never applies.
WithinBudget == counted < DailyLimit

\* A message comes: refused over budget, or it waits for the agent.
HandleMessage(c) ==
    /\ c \notin Discord /\ chat[c].pc = "idle"
    /\ messages < MaxMessages
    /\ messages' = messages + 1
    /\ IF WithinBudget
       THEN /\ chat' = [chat EXCEPT ![c].pc = "waiting"]
            /\ queue' = Append(queue, c)
       ELSE UNCHANGED <<chat, queue>>
    /\ UNCHANGED <<costs, threads, breaks>>

\* on_message: the agent's turn begins at once, or the message is rejected.
HandleDiscord(c) ==
    /\ c \in Discord /\ chat[c].pc = "idle"
    /\ messages < MaxMessages
    /\ messages' = messages + 1
    /\ \/ chat' = [chat EXCEPT ![c].pc = "agent", ![c].loops = <<Loop>>]
       \/ chat' = [chat EXCEPT ![c].pc = "logging"]
    /\ UNCHANGED <<queue, costs, threads, breaks>>

\* A turn on Discord that raised is answered with the error and not logged.
DiscordFails(c) ==
    /\ c \in Discord /\ chat[c].pc = "logging"
    /\ chat' = [chat EXCEPT ![c] = Away]
    /\ UNCHANGED <<queue, costs, threads, messages, breaks>>

\* The lock is free: the agent's turn begins, or validate_input rejects it.
AskAgent(c) ==
    /\ chat[c].pc = "waiting" /\ Head(queue) = c
    /\ \/ /\ chat' = [chat EXCEPT ![c].pc = "agent", ![c].loops = <<Loop>>]
          /\ UNCHANGED queue
       \/ /\ chat' = [chat EXCEPT ![c].pc = "logging"]
          /\ queue' = Tail(queue)
    /\ UNCHANGED <<costs, threads, messages, breaks>>

\* get_daily_cost reads up to the first line that is incomplete.
Readable(n) == IF torn THEN counted ELSE counted + n

\* log_request: the cost of the message is appended, or an error is caught and
\* nothing, or a part of the line, is in the file.
LogRequest(c) ==
    /\ chat[c].pc = "logging"
    /\ chat' = [chat EXCEPT ![c] = Away]
    /\ spent' = IF c \in Discord THEN spent ELSE spent + 1
    /\ \/ /\ counted' = Readable(1)
          /\ UNCHANGED <<torn, unlogged, breaks>>
       \/ /\ breaks < MaxBreaks
          /\ breaks' = breaks + 1
          /\ unlogged' = IF c \in Discord THEN unlogged ELSE unlogged + 1
          /\ torn' \in {torn, TRUE}
          /\ UNCHANGED counted
    /\ UNCHANGED <<queue, threads, messages>>

-----------------------------------------------------------------------------
(* The loops. *)

In(c, level) ==
    chat[c].pc = "agent" /\ Len(chat[c].loops) = level /\ chat[c].tool = "none"
Todo(c) == chat[c].loops[Len(chat[c].loops)].todo
Bound(level) == IF level = 1 THEN SupTurns ELSE SubTurns

\* The current call of the innermost loop has its tool message.
Answered(loops) == [loops EXCEPT ![Len(loops)].todo = Tail(@)]

\* The loop of level has returned: to the caller of the agent, or as the answer
\* to the delegation.
Return(c, level) ==
    IF level = 1
    THEN /\ chat' = [chat EXCEPT ![c] = [Away EXCEPT !.pc = "logging"]]
         /\ queue' = IF c \in Discord THEN queue ELSE Tail(queue)
    ELSE /\ chat' = [chat EXCEPT ![c].loops = Answered(<<@[1]>>)]
         /\ UNCHANGED queue

\* The calls a model's answer has.  Codex answers in text; what has no name or
\* no arguments is left out, and without a call left the text is the answer.
Parsed(batch) == SelectSeq(batch, LAMBDA k : k \in Kind)

\* What is left of an answer are calls: all that the proofs use of SelectSeq.
ASSUME BatchesAssumption == \A batch \in Batches : Parsed(batch) \in Seq(Kind)

\* A delegate has no delegates.
Answers(level) ==
    {<<>>} \cup {b \in {Parsed(batch) : batch \in Batches} :
                    level = 1 \/ \A i \in DOMAIN b : b[i] # "delegate"}

\* A turn of the loop: the model answers or raises, which both end the loop,
\* or asks for tools.
AskModel(c, level) ==
    /\ In(c, level) /\ Todo(c) = <<>>
    /\ chat[c].loops[level].turn < Bound(level)
    /\ \E calls \in Answers(level) :
          IF calls = <<>> THEN Return(c, level)
          ELSE /\ chat' = [chat EXCEPT
                             ![c].loops[level] = [turn |-> @.turn + 1, todo |-> calls]]
               /\ UNCHANGED queue
    /\ UNCHANGED <<costs, threads, messages, breaks>>

\* Mutant: the loop goes on until the model stops asking.
OutOfTurnsResets(c, level) ==
    /\ In(c, level) /\ Todo(c) = <<>>
    /\ chat[c].loops[level].turn = Bound(level)
    /\ chat' = [chat EXCEPT ![c].loops[level].turn = 0]
    /\ UNCHANGED <<queue, costs, threads, messages, breaks>>

\* The loop has used up its turns.
OutOfTurns(c, level) ==
    /\ In(c, level) /\ Todo(c) = <<>>
    /\ chat[c].loops[level].turn = Bound(level)
    /\ Return(c, level)
    /\ UNCHANGED <<costs, threads, messages, breaks>>

\* The next call of the batch: an error for an unknown name, a new loop for a
\* delegation, or a tool that begins.
ExecuteTool(c) ==
    LET kind == Head(Todo(c)) IN
    /\ \E level \in 1 .. 2 : In(c, level)
    /\ Todo(c) # <<>>
    /\ chat' = [chat EXCEPT
                  ![c].loops = CASE kind = "unknown"  -> Answered(@)
                                 [] kind = "delegate" -> Append(@, Loop)
                                 [] OTHER             -> @,
                  ![c].tool = IF kind \in {"async", "thread"} THEN kind ELSE @]
    /\ UNCHANGED <<queue, costs, threads, messages, breaks>>

\* The tool returns or raises: the model is told either way.
ToolEnds(c) ==
    /\ chat[c].tool # "none"
    /\ chat' = [chat EXCEPT ![c].tool = "none", ![c].loops = Answered(@)]
    /\ UNCHANGED <<queue, costs, threads, messages, breaks>>

\* What the cancellation of a running tool leaves: a thread cannot be stopped.
Cancelled(kind) == IF kind = "thread" THEN {kind} ELSE {}

\* TOOL_TIMEOUT_SECONDS have passed.
ToolTimesOut(c) ==
    /\ chat[c].tool # "none"
    /\ threads' = threads \cup Cancelled(chat[c].tool)
    /\ chat' = [chat EXCEPT ![c].tool = "none", ![c].loops = Answered(@)]
    /\ UNCHANGED <<queue, costs, messages, breaks>>

\* The same time-out holds for a delegation: the delegate's whole loop is
\* cancelled, in whatever call it is.
DelegationTimesOut(c) ==
    /\ chat[c].pc = "agent" /\ Len(chat[c].loops) = 2
    /\ threads' = threads \cup Cancelled(chat[c].tool)
    /\ chat' = [chat EXCEPT ![c].tool = "none",
                            ![c].loops = Answered(<<@[1]>>)]
    /\ UNCHANGED <<queue, costs, messages, breaks>>

\* A tool that was given up takes effect all the same.
ThreadEnds ==
    \E kind \in threads :
        /\ threads' = threads \ {kind}
        /\ UNCHANGED <<chat, queue, costs, messages, breaks>>

\* The process restarts: whatever ran is gone, the log stays.
EngineCrash ==
    /\ breaks < MaxBreaks
    /\ breaks' = breaks + 1
    /\ chat' = [c \in Chat |-> Away]
    /\ queue' = <<>>
    /\ threads' = {}
    /\ UNCHANGED <<costs, messages>>

-----------------------------------------------------------------------------

\* The bridge and the agent go on with the message of c.
EngineStep(c) ==
    \/ AskAgent(c) \/ LogRequest(c)
    \/ \E level \in 1 .. 2 : AskModel(c, level) \/ OutOfTurns(c, level)
    \/ ExecuteTool(c) \/ ToolTimesOut(c)

EngineNext ==
    \/ \E c \in Chat : \/ HandleMessage(c) \/ HandleDiscord(c) \/ EngineStep(c)
                       \/ DiscordFails(c) \/ ToolEnds(c) \/ DelegationTimesOut(c)
    \/ ThreadEnds
    \/ EngineCrash

EngineSpec == EngineInit /\ [][EngineNext]_engineVars

\* Every coroutine that can go on does; that tools return is not assumed.
EngineFairness == \A c \in Chat : WF_engineVars(EngineStep(c))

-----------------------------------------------------------------------------
(* Properties. *)

\* The cost guard checks before the lock and the cost is logged after it:
\* still, what the guarded messages spent and what of them is under way never
\* exceeds the limit by more than the messages that may be in flight and those
\* whose cost was not logged, as long as the log is readable.
BudgetHolds ==
    ~torn => spent - unlogged
                 + Cardinality({c \in Chat \ Discord : chat[c].pc # "idle"})
             < DailyLimit + Cardinality(Chat \ Discord)

\* A message that got past the guard, or needed none, is answered: no tool,
\* delegate or model keeps the agent's lock for ever.
MessageIsAnswered ==
    \A c \in Chat : chat[c].pc # "idle" ~> chat[c].pc = "idle"

=============================================================================
