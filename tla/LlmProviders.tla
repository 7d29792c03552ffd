---------------------------- MODULE LlmProviders ----------------------------
(***************************************************************************)
(* The language models' providers (llm.py): chains in order of preference, *)
(* cooldowns after failures, and two ways to use them.                     *)
(*   - invoke_with_fallback walks a chain and notes who failed; it is      *)
(*     called by no code of the program (Caller is empty there);           *)
(*   - get_model picks one model, which the agents then call themselves.   *)
(* Both run in threads that share the state of the providers.              *)
(***************************************************************************)
EXTENDS Integers, Sequences, SequencesExt

CONSTANTS
    Provider,   \* the providers that can be configured
    Chains,     \* the chains of the tiers
    Caller,     \* threads in invoke_with_fallback
    User,       \* threads that call the model they were given
    Cooldown,   \* COOLDOWN_SECONDS
    Forever,    \* bound: the clock
    MaxCalls    \* bound: calls begun

ASSUME ChainsAssumption == Chains \subseteq Seq(Provider)

VARIABLES
    ready,      \* the providers with a model and the key they need
    cooling,    \* _cooldowns: until when, 0 for none
    clock,
    call,       \* call[t]: chain, position, pass, who failed in this call
    model,      \* model[u]: the provider u was given, at most one
    begun

llmVars == <<ready, cooling, clock, call, model, begun>>

NoCall == [pc |-> "idle", chain |-> <<>>, at |-> 1, pass |-> 1, failed |-> {}]

LlmInit ==
    /\ ready \in SUBSET Provider
    /\ cooling = [p \in Provider |-> 0]
    /\ clock = 1
    /\ call = [t \in Caller |-> NoCall]
    /\ model = [u \in User |-> {}]
    /\ begun = 0

Available(p) == clock >= cooling[p]

\* The models that can be had of a chain, whatever their cooldown.
Usable(chain) == ToSet(chain) \cap ready

-----------------------------------------------------------------------------
(* invoke_with_fallback. *)

InvokeWithFallback(t) ==
    /\ call[t].pc \in {"idle", "answered", "raised"}
    /\ begun < MaxCalls
    /\ begun' = begun + 1
    /\ \E chain \in Chains :
          call' = [call EXCEPT ![t] = [NoCall EXCEPT !.pc = "walking", !.chain = chain]]
    /\ UNCHANGED <<ready, cooling, clock, model>>

\* Mutant: the last resort is the first provider of the chain only.
TryNextFirstOnly(t) ==
    LET c == call[t] IN
    /\ c.pc = "walking"
    /\ call' = [call EXCEPT ![t] =
         IF c.at > Len(c.chain) \/ (c.pass = 2 /\ c.at > 1)
         THEN IF c.pass = 1 THEN [c EXCEPT !.pass = 2, !.at = 1]
              ELSE [c EXCEPT !.pc = "raised"]
         ELSE IF c.chain[c.at] \in ready /\ (c.pass = 2 \/ Available(c.chain[c.at]))
              THEN [c EXCEPT !.pc = "invoking"]
              ELSE [c EXCEPT !.at = @ + 1]]
    /\ UNCHANGED <<ready, cooling, clock, model, begun>>

\* The next provider of the chain: passed over without a key or, in the first
\* pass, while it cools down.  The second pass is the last resort.
TryNext(t) ==
    LET c == call[t] IN
    /\ c.pc = "walking"
    /\ call' = [call EXCEPT ![t] =
         IF c.at > Len(c.chain)
         THEN IF c.pass = 1 THEN [c EXCEPT !.pass = 2, !.at = 1]
              ELSE [c EXCEPT !.pc = "raised"]
         ELSE IF c.chain[c.at] \in ready /\ (c.pass = 2 \/ Available(c.chain[c.at]))
              THEN [c EXCEPT !.pc = "invoking"]
              ELSE [c EXCEPT !.at = @ + 1]]
    /\ UNCHANGED <<ready, cooling, clock, model, begun>>

\* The provider answers, which ends its cooldown, ...
Invoked(t) ==
    /\ call[t].pc = "invoking"
    /\ cooling' = [cooling EXCEPT ![call[t].chain[call[t].at]] = 0]
    /\ call' = [call EXCEPT ![t].pc = "answered"]
    /\ UNCHANGED <<ready, clock, model, begun>>

\* ... or fails, which begins one in the first pass only.
InvokeFails(t) ==
    LET p == call[t].chain[call[t].at] IN
    /\ call[t].pc = "invoking"
    /\ cooling' = IF call[t].pass = 1
                  THEN [cooling EXCEPT ![p] = clock + Cooldown] ELSE cooling
    /\ call' = [call EXCEPT ![t].pc = "walking", ![t].at = @ + 1,
                            ![t].failed = @ \cup {p}]
    /\ UNCHANGED <<ready, clock, model, begun>>

-----------------------------------------------------------------------------
(* get_model, and what its callers do with the model. *)

\* The first of the chain that is available, or else the first usable one.
FirstOf(chain, set) == chain[CHOOSE i \in DOMAIN chain :
                                /\ chain[i] \in set
                                /\ \A j \in 1 .. i - 1 : chain[j] \notin set]

Picked(chain) ==
    LET warm == {p \in Usable(chain) : Available(p)}
    IN  FirstOf(chain, IF warm # {} THEN warm ELSE Usable(chain))

\* Without a usable provider get_model raises, and nothing begins.
GetModel(u) ==
    /\ model[u] = {}
    /\ begun < MaxCalls
    /\ begun' = begun + 1
    /\ \E chain \in Chains :
          /\ Usable(chain) # {}
          /\ model' = [model EXCEPT ![u] = {Picked(chain)}]
    /\ UNCHANGED <<ready, cooling, clock, call>>

\* The model answers, or raises: react_loop and the others catch that and give
\* up, and nobody is told that the provider has failed, so no cooldown begins.
UseModel(u) ==
    /\ model[u] # {}
    /\ model' = [model EXCEPT ![u] = {}]
    /\ UNCHANGED <<ready, cooling, clock, call, begun>>

LlmTick ==
    /\ clock < Forever
    /\ clock' = clock + 1
    /\ UNCHANGED <<ready, cooling, call, model, begun>>

LlmNext ==
    \/ \E t \in Caller : \/ InvokeWithFallback(t) \/ TryNext(t)
                         \/ Invoked(t) \/ InvokeFails(t)
    \/ \E u \in User : GetModel(u) \/ UseModel(u)
    \/ LlmTick

LlmSpec == LlmInit /\ [][LlmNext]_llmVars

-----------------------------------------------------------------------------
(* Properties. *)

\* A call with fallback raises only when every provider of its chain that can
\* be used has failed in this very call, whatever cooldowns other threads set,
\* cleared or let run out meanwhile; and it never asks one that is not ready.
RaisesOnlyAfterAll ==
    \A t \in Caller :
        /\ call[t].pc = "raised" => Usable(call[t].chain) \subseteq call[t].failed
        /\ call[t].failed \subseteq ready

=============================================================================
