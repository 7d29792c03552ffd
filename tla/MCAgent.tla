------------------------------ MODULE MCAgent ------------------------------
(***************************************************************************)
(* Instances of the components an agent's turn uses.  They share no state, *)
(* so each behaviour lets one of them run, the one in focus, and the       *)
(* states are those of every component, not of their product.              *)
(***************************************************************************)
EXTENDS AgentEngine, LlmProviders, ExpenseLedger, LoopGuard, ToolGateway

CONSTANTS a, b, c1, c2, c3, t1, t2, s1, n1, n2, d1, p1, p2, p3

VARIABLE focus

MCBatches == {<<"thread", "async">>, <<"delegate", "thread">>, <<"unknown", "bad">>}
MCChains == {<<p1, p2, p3>>, <<p2, p1>>}
\* Two tools, three arguments each; the first tool's results repeat.
MCToolCall == {[tool |-> a, args |-> n, result |-> n \div 2] : n \in 1 .. 3} \cup
              {[tool |-> b, args |-> n, result |-> n - 1] : n \in 1 .. 3}

agentVars == <<focus, engineVars, llmVars, ledgerVars, guardVars, gatewayVars>>

Init ==
    /\ focus \in {"engine", "llm", "ledger", "guard", "gateway"}
    /\ EngineInit /\ LlmInit /\ LedgerInit /\ GuardInit /\ GatewayInit
    /\ focus # "llm" => ready = Provider
    /\ focus # "gateway" => agentTools = Static

Next ==
    /\ UNCHANGED focus
    /\ \/ /\ focus = "engine" /\ EngineNext
          /\ UNCHANGED <<llmVars, ledgerVars, guardVars, gatewayVars>>
       \/ /\ focus = "llm" /\ LlmNext
          /\ UNCHANGED <<engineVars, ledgerVars, guardVars, gatewayVars>>
       \/ /\ focus = "ledger" /\ LedgerNext
          /\ UNCHANGED <<engineVars, llmVars, guardVars, gatewayVars>>
       \/ /\ focus = "guard" /\ GuardNext
          /\ UNCHANGED <<engineVars, llmVars, ledgerVars, gatewayVars>>
       \/ /\ focus = "gateway" /\ GatewayNext
          /\ UNCHANGED <<engineVars, llmVars, ledgerVars, guardVars>>

Spec == Init /\ [][Next]_agentVars /\ (focus = "engine" => EngineFairness)

=============================================================================
