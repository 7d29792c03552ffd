----------------------------- MODULE AgentProofs -----------------------------
(***************************************************************************)
(* Proofs about the parts of an agent's turn: the providers it falls back  *)
(* on, the servers its tools come from, the budget its turns use, the lock *)
(* they hold and the loops that let it go, the breaker that ends a turn    *)
(* that repeats itself, and the money its expense tool deducts.            *)
(***************************************************************************)
EXTENDS AgentEngine, LlmProviders, ToolGateway, LoopGuard, ExpenseLedger,
        FiniteSetTheorems, SequenceTheorems, WellFoundedInduction, TLAPS

-----------------------------------------------------------------------------
(* The providers: the second pass has asked whatever it left behind.         *)

CallRecord == [pc : {"idle", "walking", "invoking", "answered", "raised"},
               chain : Seq(Provider), at : Nat \ {0}, pass : {1, 2},
               failed : SUBSET Provider]

\* Of the call c: who failed was ready, and so is the one that is asked; in the
\* second pass every usable provider before it has failed.
Asked(c) ==
    /\ c.failed \subseteq ready
    /\ c.pc = "invoking" => c.at <= Len(c.chain) /\ c.chain[c.at] \in ready
    /\ c.pc \in {"walking", "invoking"} /\ c.pass = 2 =>
          \A i \in 1 .. Len(c.chain) :
              i < c.at /\ c.chain[i] \in ready => c.chain[i] \in c.failed
    /\ c.pc = "raised" => Usable(c.chain) \subseteq c.failed

LlmInv == /\ call \in [Caller -> CallRecord]
          /\ \A t \in Caller : Asked(call[t])

\* One call goes on.
LEMMA CallStep ==
    ASSUME LlmInv, NEW t \in Caller, NEW c \in CallRecord, Asked(c),
           ready' = ready, call' = [call EXCEPT ![t] = c]
    PROVE  LlmInv'
BY DEF LlmInv, Asked, Usable

\* Every step of the providers keeps the invariant.
THEOREM LlmInductive == LlmInv /\ [LlmNext]_llmVars => LlmInv'
<1> SUFFICES ASSUME LlmInv, [LlmNext]_llmVars
             PROVE  LlmInv'
    OBVIOUS
<1>1. ASSUME NEW t \in Caller, InvokeWithFallback(t)
      PROVE  LlmInv'
    <2>1. PICK chain \in Chains :
              call' = [call EXCEPT ![t] = [NoCall EXCEPT !.pc = "walking", !.chain = chain]]
        BY <1>1 DEF InvokeWithFallback
    <2>2. PICK c : c = [NoCall EXCEPT !.pc = "walking", !.chain = chain]
        OBVIOUS
    <2>3. c = [pc |-> "walking", chain |-> chain, at |-> 1, pass |-> 1, failed |-> {}]
        BY <2>2 DEF NoCall
    <2>4. c \in CallRecord /\ Asked(c)
        BY <2>3, ChainsAssumption DEF CallRecord, Asked
    <2> QED BY <1>1, <2>1, <2>2, <2>4, CallStep DEF InvokeWithFallback
<1>2. ASSUME NEW t \in Caller, TryNext(t)
      PROVE  LlmInv'
    <2>1. PICK c : c = call[t]
        OBVIOUS
    <2>2. c \in CallRecord /\ Asked(c) /\ c.pc = "walking" /\ ready' = ready
        BY <1>2, <2>1 DEF LlmInv, TryNext
    <2>3. CASE c.at > Len(c.chain) /\ c.pass = 1
        <3>1. PICK d : d = [c EXCEPT !.pass = 2, !.at = 1]
            OBVIOUS
        <3>2. d = [pc |-> "walking", chain |-> c.chain, at |-> 1, pass |-> 2,
                   failed |-> c.failed]
            BY <2>2, <3>1 DEF CallRecord
        <3>3. d \in CallRecord
            BY <2>2, <3>2 DEF CallRecord
        <3>4. Asked(d)
            BY <2>2, <3>2 DEF Asked
        <3>5. call' = [call EXCEPT ![t] = d]
            BY <1>2, <2>1, <2>3, <3>1 DEF TryNext
        <3> QED BY <2>2, <3>3, <3>4, <3>5, CallStep
    <2>4. CASE c.at > Len(c.chain) /\ c.pass = 2
        <3>1. PICK d : d = [c EXCEPT !.pc = "raised"]
            OBVIOUS
        <3>2. Usable(c.chain) \subseteq c.failed
            BY <2>2, <2>4 DEF Usable, ToSet, CallRecord, Asked
        <3>3. d \in CallRecord /\ Asked(d)
            BY <2>2, <3>1, <3>2 DEF CallRecord, Asked
        <3>4. c.pass # 1
            BY <2>4
        <3>5. call' = [call EXCEPT ![t] =
                IF c.at > Len(c.chain)
                THEN IF c.pass = 1 THEN [c EXCEPT !.pass = 2, !.at = 1]
                     ELSE [c EXCEPT !.pc = "raised"]
                ELSE call'[t]]
            BY <1>2, <2>1, <2>4 DEF TryNext
        <3>6. call' = [call EXCEPT ![t] = d]
            BY <2>4, <3>1, <3>4, <3>5
        <3> QED BY <2>2, <3>3, <3>6, CallStep
    <2>5. CASE /\ ~(c.at > Len(c.chain))
               /\ c.chain[c.at] \in ready /\ (c.pass = 2 \/ Available(c.chain[c.at]))
        <3>1. PICK d : d = [c EXCEPT !.pc = "invoking"]
            OBVIOUS
        <3>2. d \in CallRecord /\ Asked(d)
            BY <2>2, <2>5, <3>1 DEF CallRecord, Asked
        <3>3. call' = [call EXCEPT ![t] = d]
            BY <1>2, <2>1, <2>5, <3>1 DEF TryNext
        <3> QED BY <2>2, <3>2, <3>3, CallStep
    <2>6. CASE /\ ~(c.at > Len(c.chain))
               /\ ~(c.chain[c.at] \in ready /\ (c.pass = 2 \/ Available(c.chain[c.at])))
        <3>1. PICK d : d = [c EXCEPT !.at = @ + 1]
            OBVIOUS
        <3>2. d \in CallRecord /\ Asked(d)
            BY <2>2, <2>6, <3>1 DEF CallRecord, Asked
        <3>3. call' = [call EXCEPT ![t] = d]
            BY <1>2, <2>1, <2>6, <3>1 DEF TryNext
        <3> QED BY <2>2, <3>2, <3>3, CallStep
    <2> QED BY <2>2, <2>3, <2>4, <2>5, <2>6 DEF CallRecord
<1>3. ASSUME NEW t \in Caller, Invoked(t)
      PROVE  LlmInv'
    <2>1. PICK c : c = call[t]
        OBVIOUS
    <2>2. PICK d : d = [c EXCEPT !.pc = "answered"]
        OBVIOUS
    <2>3. d \in CallRecord /\ Asked(d)
        BY <2>1, <2>2 DEF LlmInv, CallRecord, Asked
    <2>4. call' = [call EXCEPT ![t] = d] /\ ready' = ready
        BY <1>3, <2>1, <2>2 DEF Invoked, LlmInv
    <2> QED BY <2>3, <2>4, CallStep
<1>4. ASSUME NEW t \in Caller, InvokeFails(t)
      PROVE  LlmInv'
    <2>1. PICK c, p : c = call[t] /\ p = c.chain[c.at]
        OBVIOUS
    <2>2. PICK d : d = [c EXCEPT !.pc = "walking", !.at = @ + 1, !.failed = @ \cup {p}]
        OBVIOUS
    <2>3. c \in CallRecord /\ Asked(c) /\ c.pc = "invoking"
        BY <1>4, <2>1 DEF LlmInv, InvokeFails
    <2>4. p \in Provider /\ p \in ready
        BY <2>1, <2>3 DEF CallRecord, Asked
    <2>5. d = [pc |-> "walking", chain |-> c.chain, at |-> c.at + 1, pass |-> c.pass,
               failed |-> c.failed \cup {p}]
        BY <2>2, <2>3 DEF CallRecord
    <2>6. d \in CallRecord
        BY <2>3, <2>4, <2>5 DEF CallRecord
    <2>7. \A i \in 1 .. Len(c.chain) : i < c.at + 1 => i < c.at \/ i = c.at
        BY <2>3 DEF CallRecord
    <2>8. Asked(d)
        BY <2>1, <2>3, <2>4, <2>5, <2>7 DEF Asked
    <2>9. call' = [call EXCEPT ![t] = d] /\ ready' = ready
        BY <1>4, <2>1, <2>2 DEF InvokeFails, LlmInv
    <2> QED BY <2>6, <2>8, <2>9, CallStep
<1>5. ASSUME ready' = ready, call' = call
      PROVE  LlmInv'
    BY <1>5 DEF LlmInv, Asked, Usable
<1>6. ASSUME NEW u \in User, GetModel(u) \/ UseModel(u)
      PROVE  LlmInv'
    BY <1>5, <1>6 DEF GetModel, UseModel
<1>7. CASE LlmTick \/ UNCHANGED llmVars
    BY <1>5, <1>7 DEF LlmTick, llmVars
<1> QED BY <1>1, <1>2, <1>3, <1>4, <1>6, <1>7 DEF LlmNext

\* Callers that share the cooldowns and set them for one another, in any chains:
\* a call raises only after each provider of its chain that can be used failed in
\* that call (llm.py's invoke_with_fallback).
THEOREM LastResortIsTried == LlmSpec => []RaisesOnlyAfterAll
<1>1. LlmInit => LlmInv
    BY DEF LlmInit, LlmInv, NoCall, CallRecord, Asked
<1>2. LlmInv => RaisesOnlyAfterAll
    BY DEF LlmInv, Asked, RaisesOnlyAfterAll
<1> QED BY <1>1, <1>2, LlmInductive, PTL DEF LlmSpec

-----------------------------------------------------------------------------
(* The servers: the gateway in use and its registry differ only about the      *)
(* server that a call is just changing.                                        *)

ManageRecord == [pc : {"idle", "making", "made", "writing", "written", "loading"},
                 name : Dynamic \cup {Missing}, config : Config \cup {Missing},
                 uses : Manager \cup {Missing}, loads : SUBSET Dynamic]

Creates(t) == manage[t].pc \in {"making", "made"}
Changes(t) == manage[t].pc \in {"writing", "written"}

\* A thread that makes the gateway is alone, and finds the registry as it read
\* it; one that changes a server uses the gateway, and no other changes that one.
Alone(t) ==
    /\ Creates(t) => /\ gateway = Missing /\ manage[t].name \in Dynamic
                     /\ \A u \in Manager \ {t} : ~Creates(u) /\ ~Changes(u)
    /\ manage[t].pc = "made" => memory[t] = registry
    /\ Changes(t) => /\ manage[t].uses = gateway /\ gateway # Missing
                     /\ manage[t].name \in Dynamic
                     /\ \A u \in Manager \ {t} : Changes(u) => manage[u].name # manage[t].name
    /\ manage[t].pc = "written" => registry[manage[t].name] = manage[t].config
    /\ manage[t].pc \in {"idle", "loading"} => manage[t].name = Missing

InMemory ==
    gateway # Missing =>
        \A n \in Dynamic : (\A t \in Manager : Changes(t) => manage[t].name # n) =>
            memory[gateway][n] = registry[n]

GatewayInv ==
    /\ registry \in [Dynamic -> Config \cup {Missing}]
    /\ memory \in [Manager -> [Dynamic -> Config \cup {Missing}]]
    /\ gateway \in Manager \cup {Missing}
    /\ manage \in [Manager -> ManageRecord]
    /\ ~overlapped => InMemory /\ \A t \in Manager : Alone(t)

\* Every step of the gateway keeps the invariant.
THEOREM GatewayInductive == GatewayInv /\ [GatewayNext]_gatewayVars => GatewayInv'
<1> SUFFICES ASSUME GatewayInv, [GatewayNext]_gatewayVars
             PROVE  GatewayInv'
    OBVIOUS
<1> USE GatewayAssumption
<1>0. /\ manage \in [Manager -> ManageRecord]
      /\ \A t \in Manager : manage[t] \in ManageRecord
    BY DEF GatewayInv
<1>1. ASSUME NEW t \in Manager, GetGateway(t)
      PROVE  GatewayInv'
    <2>1. PICK n \in Dynamic, c \in Config \cup {Missing} :
              /\ manage' = [manage EXCEPT ![t] =
                    [NoManage EXCEPT !.pc = IF gateway = Missing THEN "making" ELSE "writing",
                                     !.name = n, !.config = c, !.uses = gateway]]
              /\ overlapped' = (overlapped \/ \E u \in Manager \ {t} :
                    /\ manage[u].pc \in {"making", "made", "writing", "written"}
                    /\ manage[u].name = n \/ manage[u].pc \in {"making", "made"})
        BY <1>1 DEF GetGateway
    <2>2. PICK place, d : /\ place = IF gateway = Missing THEN "making" ELSE "writing"
                          /\ d = [NoManage EXCEPT !.pc = place, !.name = n, !.config = c,
                                                  !.uses = gateway]
        OBVIOUS
    <2>0. d = [pc |-> place, name |-> n, config |-> c, uses |-> gateway, loads |-> {}]
        BY <2>2 DEF NoManage
    <2>3. d \in ManageRecord /\ manage' = [manage EXCEPT ![t] = d]
        <3>1. manage' = [manage EXCEPT ![t] =
                  [NoManage EXCEPT !.pc = place, !.name = n, !.config = c, !.uses = gateway]]
            BY <2>1, <2>2
        <3>2. d \in ManageRecord
            BY <2>0, <2>2 DEF ManageRecord, GatewayInv
        <3> QED BY <2>2, <3>1, <3>2
    <2>4. /\ registry' = registry /\ memory' = memory /\ gateway' = gateway
          /\ manage[t].pc = "idle"
        BY <1>1 DEF GetGateway
    <2>5. /\ manage' \in [Manager -> ManageRecord] /\ manage'[t] = d
          /\ \A u \in Manager \ {t} : manage'[u] = manage[u]
        BY <2>3 DEF GatewayInv
    <2>6. ASSUME ~overlapped'
          PROVE  InMemory' /\ \A u \in Manager : Alone(u)'
        <3>1. /\ InMemory /\ \A u \in Manager : Alone(u)
              /\ \A u \in Manager \ {t} :
                    /\ ~Creates(u)
                    /\ Changes(u) => manage[u].name # n
            BY <2>1, <2>6 DEF GatewayInv, Creates, Changes
        <3>2. gateway = Missing => \A u \in Manager : ~Changes(u)
            BY <3>1 DEF Alone
        <3>3. /\ d.pc \in {"making", "writing"} /\ d.name = n /\ d.uses = gateway
              /\ d.pc = "making" <=> gateway = Missing
            BY <2>0, <2>2
        <3>4. InMemory'
            BY <2>4, <2>5, <3>1 DEF InMemory, Changes
        <3>5. Alone(t)'
            BY <2>4, <2>5, <3>1, <3>2, <3>3 DEF Alone, Creates, Changes
        <3>6. ASSUME NEW u \in Manager \ {t}
              PROVE  Alone(u)'
            BY <2>4, <2>5, <3>1, <3>3 DEF Alone, Creates, Changes
        <3> QED BY <3>4, <3>5, <3>6
    <2> QED BY <2>4, <2>5, <2>6 DEF GatewayInv
<1>2. ASSUME NEW t \in Manager, MakeGateway(t)
      PROVE  GatewayInv'
    <2>1. PICK d : d = [manage[t] EXCEPT !.pc = "made"]
        OBVIOUS
    <2>2. /\ manage' = [manage EXCEPT ![t] = d] /\ manage[t].pc = "making"
          /\ memory' = [memory EXCEPT ![t] = registry]
          /\ registry' = registry /\ gateway' = gateway /\ overlapped' = overlapped
        BY <1>2, <2>1 DEF MakeGateway, GatewayInv
    <2>3. d \in ManageRecord /\ d.pc = "made" /\ d.name = manage[t].name
        BY <1>0, <2>1 DEF ManageRecord
    <2>4. /\ manage' \in [Manager -> ManageRecord] /\ manage'[t] = d
          /\ \A u \in Manager \ {t} : manage'[u] = manage[u]
        BY <2>2, <2>3 DEF GatewayInv
    <2>5. /\ memory'[t] = registry /\ \A u \in Manager \ {t} : memory'[u] = memory[u]
          /\ memory' \in [Manager -> [Dynamic -> Config \cup {Missing}]]
        BY <2>2 DEF GatewayInv
    <2>6. ASSUME ~overlapped
          PROVE  InMemory' /\ \A u \in Manager : Alone(u)'
        <3>1. Alone(t) /\ \A u \in Manager : Alone(u)
            BY <2>6 DEF GatewayInv
        <3>2. /\ gateway = Missing /\ manage[t].name \in Dynamic
              /\ \A u \in Manager \ {t} : ~Creates(u) /\ ~Changes(u)
            BY <2>2, <3>1 DEF Alone, Creates
        <3>3. Alone(t)'
            BY <2>2, <2>3, <2>4, <2>5, <3>2 DEF Alone, Creates, Changes
        <3>4. ASSUME NEW u \in Manager \ {t}
              PROVE  Alone(u)'
            BY <2>2, <2>4, <2>5, <3>1, <3>2 DEF Alone, Creates, Changes
        <3> QED BY <2>2, <3>2, <3>3, <3>4 DEF InMemory
    <2> QED BY <2>2, <2>4, <2>5, <2>6 DEF GatewayInv
<1>3. ASSUME NEW t \in Manager, PutGateway(t)
      PROVE  GatewayInv'
    <2>1. PICK d : d = [manage[t] EXCEPT !.pc = "writing", !.uses = t]
        OBVIOUS
    <2>2. /\ manage' = [manage EXCEPT ![t] = d] /\ manage[t].pc = "made" /\ gateway' = t
          /\ memory' = memory /\ registry' = registry /\ overlapped' = overlapped
        BY <1>3, <2>1 DEF PutGateway, GatewayInv
    <2>3. d \in ManageRecord /\ d.pc = "writing" /\ d.uses = t /\ d.name = manage[t].name
        <3>1. PICK o \in ManageRecord : o = manage[t]
            BY <1>0
        <3>2. d = [o EXCEPT !.pc = "writing", !.uses = t]
            BY <2>1, <3>1
        <3> QED BY <3>1, <3>2 DEF ManageRecord
    <2>4. /\ manage' \in [Manager -> ManageRecord] /\ manage'[t] = d
          /\ \A u \in Manager \ {t} : manage'[u] = manage[u]
        BY <2>2, <2>3 DEF GatewayInv
    <2>5. ASSUME ~overlapped
          PROVE  InMemory' /\ \A u \in Manager : Alone(u)'
        <3>1. \A u \in Manager : Alone(u)
            BY <2>5 DEF GatewayInv
        <3>2. /\ memory[t] = registry /\ manage[t].name \in Dynamic
              /\ \A u \in Manager \ {t} : ~Creates(u) /\ ~Changes(u)
            BY <2>2, <3>1 DEF Alone, Creates
        <3>3. Alone(t)'
            BY <2>2, <2>3, <2>4, <3>2 DEF Alone, Creates, Changes
        <3>4. ASSUME NEW u \in Manager \ {t}
              PROVE  Alone(u)'
            BY <2>2, <2>4, <3>1, <3>2 DEF Alone, Creates, Changes
        <3> QED BY <2>2, <3>2, <3>3, <3>4 DEF InMemory
    <2> QED BY <2>2, <2>4, <2>5 DEF GatewayInv
<1>4. ASSUME NEW t \in Manager, WriteRegistry(t)
      PROVE  GatewayInv'
    <2>1. PICK d, n, c : /\ d = [manage[t] EXCEPT !.pc = "written"]
                         /\ n = manage[t].name /\ c = manage[t].config
        OBVIOUS
    <2>2. /\ manage' = [manage EXCEPT ![t] = d] /\ manage[t].pc = "writing"
          /\ registry' = [registry EXCEPT ![n] = c]
          /\ gateway' = gateway /\ memory' = memory /\ overlapped' = overlapped
        BY <1>4, <2>1 DEF WriteRegistry, GatewayInv
    <2>3. /\ d \in ManageRecord /\ d.pc = "written" /\ d.name = n /\ d.config = c
          /\ d.uses = manage[t].uses /\ c \in Config \cup {Missing}
        BY <1>0, <2>1 DEF ManageRecord
    <2>4. /\ manage' \in [Manager -> ManageRecord] /\ manage'[t] = d
          /\ \A u \in Manager \ {t} : manage'[u] = manage[u]
        BY <2>2, <2>3 DEF GatewayInv
    <2>5. registry' \in [Dynamic -> Config \cup {Missing}]
        BY <2>2, <2>3 DEF GatewayInv
    <2>6. ASSUME ~overlapped
          PROVE  InMemory' /\ \A u \in Manager : Alone(u)'
        <3>1. InMemory /\ \A u \in Manager : Alone(u)
            BY <2>6 DEF GatewayInv
        <3>2. /\ manage[t].uses = gateway /\ gateway # Missing /\ n \in Dynamic
              /\ \A u \in Manager \ {t} : ~Creates(u) /\ (Changes(u) => manage[u].name # n)
            BY <2>1, <2>2, <3>1 DEF Alone, Changes, Creates
        <3>3. registry'[n] = c /\ \A m \in Dynamic \ {n} : registry'[m] = registry[m]
            BY <2>2, <3>2 DEF GatewayInv
        <3>4. Alone(t)'
            BY <2>2, <2>3, <2>4, <3>2, <3>3 DEF Alone, Creates, Changes
        <3>5. ASSUME NEW u \in Manager \ {t}
              PROVE  Alone(u)'
            BY <2>2, <2>3, <2>4, <3>1, <3>2, <3>3 DEF Alone, Creates, Changes
        <3>6. InMemory'
            <4>1. Changes(t) /\ Changes(t)' /\ \A u \in Manager \ {t} : Changes(u)' <=> Changes(u)
                BY <2>2, <2>3, <2>4 DEF Changes
            <4> SUFFICES ASSUME NEW m \in Dynamic,
                                \A u \in Manager : Changes(u)' => manage'[u].name # m
                         PROVE  memory[gateway][m] = registry'[m]
                BY <2>2 DEF InMemory
            <4>2. m # n /\ \A u \in Manager : Changes(u) => manage[u].name # m
                BY <2>1, <2>3, <2>4, <4>1
            <4> QED BY <3>1, <3>2, <3>3, <4>2 DEF InMemory
        <3> QED BY <3>4, <3>5, <3>6
    <2> QED BY <2>2, <2>4, <2>5, <2>6 DEF GatewayInv
<1>5. ASSUME NEW t \in Manager, WriteMemory(t)
      PROVE  GatewayInv'
    <2>1. PICK g, n, c : g = manage[t].uses /\ n = manage[t].name /\ c = manage[t].config
        OBVIOUS
    <2>2. /\ manage' = [manage EXCEPT ![t] = NoManage] /\ manage[t].pc = "written"
          /\ memory' = [memory EXCEPT ![g][n] = c]
          /\ gateway' = gateway /\ registry' = registry /\ overlapped' = overlapped
        BY <1>5, <2>1 DEF WriteMemory, GatewayInv
    <2>3. /\ NoManage \in ManageRecord /\ NoManage.pc = "idle" /\ NoManage.name = Missing
          /\ c \in Config \cup {Missing}
        BY <1>0, <2>1 DEF ManageRecord, NoManage
    <2>4. /\ manage' \in [Manager -> ManageRecord] /\ manage'[t] = NoManage
          /\ \A u \in Manager \ {t} : manage'[u] = manage[u]
        BY <2>2, <2>3 DEF GatewayInv
    <2>5. memory' \in [Manager -> [Dynamic -> Config \cup {Missing}]]
        BY <2>2, <2>3 DEF GatewayInv
    <2>6. ASSUME ~overlapped
          PROVE  InMemory' /\ \A u \in Manager : Alone(u)'
        <3>1. InMemory /\ \A u \in Manager : Alone(u)
            BY <2>6 DEF GatewayInv
        <3>2. /\ g = gateway /\ gateway # Missing /\ gateway \in Manager /\ n \in Dynamic
              /\ registry[n] = c /\ \A u \in Manager \ {t} : ~Creates(u)
            BY <2>1, <2>2, <3>1 DEF Alone, Changes, Creates, GatewayInv
        <3>3. /\ memory'[gateway][n] = c
              /\ \A m \in Dynamic \ {n} : memory'[gateway][m] = memory[gateway][m]
            BY <2>2, <3>2 DEF GatewayInv
        <3>4. Alone(t)'
            BY <2>3, <2>4 DEF Alone, Creates, Changes
        <3>5. ASSUME NEW u \in Manager \ {t}
              PROVE  Alone(u)'
            BY <2>2, <2>3, <2>4, <3>1, <3>2 DEF Alone, Creates, Changes
        <3>6. InMemory'
            <4>1. ~Changes(t)' /\ \A u \in Manager \ {t} : Changes(u)' <=> Changes(u)
                BY <2>3, <2>4 DEF Changes
            <4> SUFFICES ASSUME NEW m \in Dynamic,
                                \A u \in Manager : Changes(u)' => manage'[u].name # m
                         PROVE  memory'[gateway][m] = registry[m]
                BY <2>2 DEF InMemory
            <4>2. CASE m = n
                BY <3>2, <3>3, <4>2
            <4>3. CASE m # n
                <5>1. \A u \in Manager : Changes(u) => manage[u].name # m
                    BY <2>1, <2>4, <4>1, <4>3
                <5> QED BY <3>1, <3>2, <3>3, <4>3, <5>1 DEF InMemory
            <4> QED BY <4>2, <4>3
        <3> QED BY <3>4, <3>5, <3>6
    <2> QED BY <2>2, <2>4, <2>5, <2>6 DEF GatewayInv
<1>6. ASSUME NEW t \in Manager, Reload(t) \/ Reloaded(t)
      PROVE  GatewayInv'
    <2>1. PICK d \in ManageRecord :
              /\ manage' = [manage EXCEPT ![t] = d] /\ manage[t].pc \in {"idle", "loading"}
              /\ d.pc \in {"idle", "loading"} /\ d.name = Missing
        <3>1. PICK d, set : d = [NoManage EXCEPT !.pc = "loading", !.loads = set]
                            /\ set = Named(memory[gateway])
            OBVIOUS
        <3>2. d = [pc |-> "loading", name |-> Missing, config |-> Missing,
                   uses |-> Missing, loads |-> set]
            BY <3>1 DEF NoManage
        <3>3. set \subseteq Dynamic
            BY <3>1 DEF Named
        <3>4. d \in ManageRecord /\ d.pc = "loading" /\ d.name = Missing
            BY <3>2, <3>3 DEF ManageRecord
        <3>5. NoManage \in ManageRecord /\ NoManage.pc = "idle" /\ NoManage.name = Missing
            BY DEF ManageRecord, NoManage
        <3>6. CASE Reload(t)
            BY <3>1, <3>4, <3>6 DEF Reload
        <3>7. CASE Reloaded(t)
            BY <3>5, <3>7 DEF Reloaded
        <3> QED BY <1>6, <3>6, <3>7
    <2>2. /\ registry' = registry /\ memory' = memory /\ gateway' = gateway
          /\ overlapped' = overlapped
        BY <1>6 DEF Reload, Reloaded
    <2>3. /\ manage' \in [Manager -> ManageRecord] /\ manage'[t] = d
          /\ \A u \in Manager \ {t} : manage'[u] = manage[u]
        BY <2>1 DEF GatewayInv
    <2>4. /\ \A u \in Manager : (Changes(u)' <=> Changes(u)) /\ (Creates(u)' <=> Creates(u))
          /\ \A u \in Manager : Changes(u) => u # t
        BY <2>1, <2>3 DEF Creates, Changes
    <2>5. ASSUME ~overlapped
          PROVE  InMemory' /\ \A u \in Manager : Alone(u)'
        <3>1. InMemory /\ \A u \in Manager : Alone(u)
            BY <2>5 DEF GatewayInv
        <3>2. Alone(t)'
            BY <2>1, <2>3 DEF Alone, Creates, Changes
        <3>3. ASSUME NEW u \in Manager \ {t}
              PROVE  Alone(u)'
            BY <2>2, <2>3, <2>4, <3>1 DEF Alone
        <3>4. InMemory'
            BY <2>2, <2>3, <2>4, <3>1 DEF InMemory
        <3> QED BY <3>2, <3>3, <3>4
    <2> QED BY <2>2, <2>3, <2>5 DEF GatewayInv
<1>7. CASE GatewayRestart
    <2>1. /\ manage' = [t \in Manager |-> NoManage] /\ gateway' = Missing
          /\ memory' = [t \in Manager |-> Blank] /\ registry' = registry
        BY <1>7 DEF GatewayRestart
    <2>2. NoManage \in ManageRecord /\ NoManage.pc = "idle" /\ NoManage.name = Missing
        BY DEF ManageRecord, NoManage
    <2>3. Blank \in [Dynamic -> Config \cup {Missing}]
        BY DEF Blank
    <2>4. InMemory' /\ \A t \in Manager : Alone(t)'
        BY <2>1, <2>2 DEF InMemory, Alone, Creates, Changes
    <2> QED BY <2>1, <2>2, <2>3, <2>4 DEF GatewayInv
<1>8. ASSUME UNCHANGED <<registry, gateway, memory, manage, overlapped>>
      PROVE  GatewayInv'
    BY <1>8 DEF GatewayInv, InMemory, Alone, Creates, Changes
<1>9. CASE CreateTool \/ UNCHANGED gatewayVars
    BY <1>8, <1>9 DEF CreateTool, gatewayVars
<1> QED BY <1>1, <1>2, <1>3, <1>4, <1>5, <1>6, <1>7, <1>9 DEF GatewayNext

\* Threads that add and remove servers, make the gateway without a lock, reload
\* and restart: for every server that no call is about, the gateway in use knows
\* what the registry says, unless calls overlapped (gateway.py's get_gateway).
THEOREM GatewayKnows == GatewaySpec => []MemoryIsRegistry
<1>1. GatewayInit => GatewayInv
    <2> SUFFICES ASSUME GatewayInit
                 PROVE  GatewayInv
        OBVIOUS
    <2>1. NoManage \in ManageRecord /\ NoManage.pc = "idle" /\ NoManage.name = Missing
        BY DEF ManageRecord, NoManage
    <2>2. InMemory /\ \A t \in Manager : Alone(t)
        BY <2>1 DEF GatewayInit, InMemory, Alone, Creates, Changes
    <2> QED BY <2>1, <2>2 DEF GatewayInit, GatewayInv, Blank
<1>2. GatewayInv => MemoryIsRegistry
    BY DEF GatewayInv, InMemory, MemoryIsRegistry
<1> QED BY <1>1, <1>2, GatewayInductive, PTL DEF GatewaySpec

-----------------------------------------------------------------------------
(* The budget: what the guarded chats have spent and are about to spend.       *)

Guarded == Chat \ Discord
Busy == {c \in Guarded : chat[c].pc # "idle"}

Shaped(r) == r = [pc |-> r.pc, loops |-> r.loops, tool |-> r.tool]

\* While the log can be read, it has at least what was spent and written.
BudgetInv ==
    /\ DOMAIN chat = Chat /\ \A c \in Chat : Shaped(chat[c])
    /\ counted \in Nat /\ spent \in Nat /\ unlogged \in Nat /\ torn \in BOOLEAN
    /\ ~torn => spent - unlogged <= counted
    /\ ~torn => spent - unlogged + Cardinality(Busy) < DailyLimit + Cardinality(Guarded)

LEMMA GuardedCounts ==
    ASSUME NEW S \in SUBSET Guarded
    PROVE  /\ IsFiniteSet(S) /\ Cardinality(S) \in Nat
           /\ Cardinality(Guarded) \in Nat /\ Cardinality(S) <= Cardinality(Guarded)
<1>1. IsFiniteSet(Guarded)
    BY EngineAssumption, FS_Subset DEF Guarded
<1> QED BY <1>1, FS_Subset, FS_CardinalityType

\* A chat goes on, and is guarded and busy only if it was.
LEMMA GoesOn ==
    ASSUME BudgetInv, NEW c \in Chat, NEW r, Shaped(r), chat' = [chat EXCEPT ![c] = r],
           UNCHANGED costs, c \in Discord \/ chat[c].pc # "idle" \/ r.pc = "idle"
    PROVE  BudgetInv'
<1>1. DOMAIN chat' = Chat /\ chat'[c] = r /\ \A d \in Chat \ {c} : chat'[d] = chat[d]
    BY DEF BudgetInv
<1>2. Busy' \subseteq Busy
    BY <1>1 DEF Busy, Guarded
<1>3. Cardinality(Busy') \in Nat /\ Cardinality(Busy) \in Nat
      /\ Cardinality(Busy') <= Cardinality(Busy) /\ Cardinality(Guarded) \in Nat
    BY <1>2, GuardedCounts, FS_Subset DEF Busy
<1>4. \A d \in Chat : Shaped(chat[d])'
    BY <1>1 DEF BudgetInv, Shaped
<1> QED BY <1>1, <1>3, <1>4, EngineAssumption DEF BudgetInv, costs

LEMMA NothingSpent ==
    ASSUME BudgetInv, chat' = chat, UNCHANGED costs
    PROVE  BudgetInv'
BY DEF BudgetInv, Busy, Shaped, costs

\* Every step of the engine keeps the invariant.
THEOREM BudgetInductive == BudgetInv /\ [EngineNext]_engineVars => BudgetInv'
<1> SUFFICES ASSUME BudgetInv, [EngineNext]_engineVars
             PROVE  BudgetInv'
    OBVIOUS
<1>0. \A c \in Chat : Shaped(chat[c])
    BY DEF BudgetInv
<1>1. ASSUME NEW c \in Chat, HandleMessage(c)
      PROVE  BudgetInv'
    <2>1. UNCHANGED costs
        BY <1>1 DEF HandleMessage
    <2>2. CASE ~WithinBudget
        BY <1>1, <2>1, <2>2, NothingSpent DEF HandleMessage
    <2>3. CASE WithinBudget
        <3>1. PICK r : r = [chat[c] EXCEPT !.pc = "waiting"]
            OBVIOUS
        <3>2. chat' = [chat EXCEPT ![c] = r]
            BY <1>1, <2>3, <3>1 DEF HandleMessage, BudgetInv
        <3>3. Shaped(r)
            BY <1>0, <3>1 DEF Shaped
        <3>4. DOMAIN chat' = Chat /\ chat'[c] = r /\ \A d \in Chat \ {c} : chat'[d] = chat[d]
            BY <3>2 DEF BudgetInv
        <3>5. Busy' \subseteq Guarded
            BY DEF Busy
        <3>6. Cardinality(Busy') \in Nat /\ Cardinality(Guarded) \in Nat
              /\ Cardinality(Busy') <= Cardinality(Guarded)
            BY <3>5, GuardedCounts
        <3>7. ~torn => spent - unlogged + Cardinality(Busy') < DailyLimit + Cardinality(Guarded)
            BY <2>3, <3>6, EngineAssumption DEF BudgetInv, WithinBudget
        <3>8. \A d \in Chat : Shaped(chat[d])'
            BY <3>3, <3>4, <1>0 DEF Shaped
        <3> QED BY <2>1, <3>4, <3>7, <3>8 DEF BudgetInv, costs
    <2> QED BY <2>2, <2>3
<1>2. ASSUME NEW c \in Chat, HandleDiscord(c)
      PROVE  BudgetInv'
    <2>1. UNCHANGED costs /\ c \in Discord
        BY <1>2 DEF HandleDiscord
    <2>2. CASE chat' = [chat EXCEPT ![c].pc = "agent", ![c].loops = <<Loop>>]
        <3>1. PICK r : r = [chat[c] EXCEPT !.pc = "agent", !.loops = <<Loop>>]
            OBVIOUS
        <3>2. chat' = [chat EXCEPT ![c] = r]
            BY <2>2, <3>1 DEF BudgetInv
        <3>3. Shaped(r)
            BY <1>0, <3>1 DEF Shaped
        <3> QED BY <2>1, <3>2, <3>3, GoesOn
    <2>3. CASE chat' = [chat EXCEPT ![c].pc = "logging"]
        <3>1. PICK r : r = [chat[c] EXCEPT !.pc = "logging"]
            OBVIOUS
        <3>2. chat' = [chat EXCEPT ![c] = r]
            BY <2>3, <3>1 DEF BudgetInv
        <3>3. Shaped(r)
            BY <1>0, <3>1 DEF Shaped
        <3> QED BY <2>1, <3>2, <3>3, GoesOn
    <2> QED BY <1>2, <2>2, <2>3 DEF HandleDiscord
<1>3. ASSUME NEW c \in Chat, DiscordFails(c)
      PROVE  BudgetInv'
    <2>1. Shaped(Away)
        BY DEF Away, Shaped
    <2>2. UNCHANGED costs /\ c \in Discord /\ chat' = [chat EXCEPT ![c] = Away]
        BY <1>3 DEF DiscordFails
    <2> QED BY <2>1, <2>2, GoesOn
<1>4. ASSUME NEW c \in Chat, AskAgent(c)
      PROVE  BudgetInv'
    <2>1. UNCHANGED costs /\ chat[c].pc # "idle"
        BY <1>4 DEF AskAgent
    <2>2. CASE chat' = [chat EXCEPT ![c].pc = "agent", ![c].loops = <<Loop>>]
        <3>1. PICK r : r = [chat[c] EXCEPT !.pc = "agent", !.loops = <<Loop>>]
            OBVIOUS
        <3>2. chat' = [chat EXCEPT ![c] = r]
            BY <2>2, <3>1 DEF BudgetInv
        <3>3. Shaped(r)
            BY <1>0, <3>1 DEF Shaped
        <3> QED BY <2>1, <3>2, <3>3, GoesOn
    <2>3. CASE chat' = [chat EXCEPT ![c].pc = "logging"]
        <3>1. PICK r : r = [chat[c] EXCEPT !.pc = "logging"]
            OBVIOUS
        <3>2. chat' = [chat EXCEPT ![c] = r]
            BY <2>3, <3>1 DEF BudgetInv
        <3>3. Shaped(r)
            BY <1>0, <3>1 DEF Shaped
        <3> QED BY <2>1, <3>2, <3>3, GoesOn
    <2> QED BY <1>4, <2>2, <2>3 DEF AskAgent
<1>5. ASSUME NEW c \in Chat, LogRequest(c)
      PROVE  BudgetInv'
    <2>1. /\ chat[c].pc = "logging" /\ chat' = [chat EXCEPT ![c] = Away]
          /\ spent' = IF c \in Discord THEN spent ELSE spent + 1
          /\ \/ /\ counted' = (IF torn THEN counted ELSE counted + 1)
                /\ torn' = torn /\ unlogged' = unlogged
             \/ /\ unlogged' = IF c \in Discord THEN unlogged ELSE unlogged + 1
                /\ torn' \in {torn, TRUE} /\ counted' = counted
        BY <1>5 DEF LogRequest, Readable
    <2>2. Away.pc = "idle" /\ Shaped(Away)
        BY DEF Away, Shaped
    <2>3. DOMAIN chat' = Chat /\ chat'[c] = Away /\ \A d \in Chat \ {c} : chat'[d] = chat[d]
        BY <2>1 DEF BudgetInv
    <2>4. Busy' = Busy \ {c} /\ (c \notin Discord => c \in Busy)
        BY <2>1, <2>2, <2>3 DEF Busy, Guarded
    <2>5. /\ Cardinality(Busy) \in Nat /\ Cardinality(Guarded) \in Nat
          /\ Cardinality(Busy') \in Nat /\ Cardinality(Busy') <= Cardinality(Busy)
          /\ c \notin Discord => Cardinality(Busy') = Cardinality(Busy) - 1
        <3>1. Busy \subseteq Guarded
            BY DEF Busy
        <3>2. IsFiniteSet(Busy)
            BY <3>1, GuardedCounts
        <3> QED BY <2>4, <3>1, <3>2, GuardedCounts, FS_RemoveElement, FS_Subset
    <2>6. \A d \in Chat : Shaped(chat[d])'
        BY <2>2, <2>3, <1>0 DEF Shaped
    <2>7. counted' \in Nat /\ spent' \in Nat /\ unlogged' \in Nat
        <3>1. counted \in Nat /\ spent \in Nat /\ unlogged \in Nat
            BY DEF BudgetInv
        <3>2. counted' \in {counted, counted + 1}
            BY <2>1
        <3>3. spent' \in {spent, spent + 1}
            BY <2>1
        <3>4. unlogged' \in {unlogged, unlogged + 1}
            BY <2>1
        <3> QED BY <3>1, <3>2, <3>3, <3>4
    <2>8. torn' \in BOOLEAN /\ (torn => torn')
        BY <2>1 DEF BudgetInv
    <2>9. CASE ~torn'
        <3>1. ~torn
            BY <2>8, <2>9
        <3>2. /\ spent' - unlogged' <= counted'
              /\ spent' - unlogged' + Cardinality(Busy') < DailyLimit + Cardinality(Guarded)
            <4>1. /\ counted \in Nat /\ spent \in Nat /\ unlogged \in Nat
                  /\ spent - unlogged <= counted /\ DailyLimit \in Nat
                  /\ spent - unlogged + Cardinality(Busy) < DailyLimit + Cardinality(Guarded)
                BY <3>1, EngineAssumption DEF BudgetInv
            <4>2. CASE c \in Discord
                <5>1. /\ spent' = spent /\ unlogged' = unlogged
                      /\ counted' = counted \/ counted' = counted + 1
                    BY <2>1, <3>1, <4>2
                <5> QED BY <2>5, <4>1, <5>1
            <4>3. CASE c \notin Discord
                <5>1. /\ spent' = spent + 1
                      /\ \/ counted' = counted + 1 /\ unlogged' = unlogged
                         \/ counted' = counted /\ unlogged' = unlogged + 1
                    BY <2>1, <3>1, <4>3
                <5>2. Cardinality(Busy') = Cardinality(Busy) - 1
                    BY <2>5, <4>3
                <5> QED BY <2>5, <4>1, <5>1, <5>2
            <4> QED BY <4>2, <4>3
        <3> QED BY <2>3, <2>6, <2>7, <2>8, <3>2 DEF BudgetInv
    <2>10. CASE torn'
        BY <2>3, <2>6, <2>7, <2>8, <2>10 DEF BudgetInv
    <2> QED BY <2>8, <2>9, <2>10
<1>6. ASSUME NEW c \in Chat, NEW level \in 1 .. 2, Return(c, level), UNCHANGED costs,
             chat[c].pc = "agent"
      PROVE  BudgetInv'
    <2>1. CASE level = 1
        <3>1. PICK r : r = [Away EXCEPT !.pc = "logging"]
            OBVIOUS
        <3>2. Shaped(r)
            BY <3>1 DEF Away, Shaped
        <3> QED BY <1>6, <2>1, <3>1, <3>2, GoesOn DEF Return
    <2>2. CASE level # 1
        <3>1. PICK r : r = [chat[c] EXCEPT !.loops = Answered(<<@[1]>>)]
            OBVIOUS
        <3>2. chat' = [chat EXCEPT ![c] = r]
            BY <1>6, <2>2, <3>1 DEF Return, BudgetInv
        <3>3. Shaped(r)
            BY <1>0, <3>1 DEF Shaped
        <3> QED BY <1>6, <3>2, <3>3, GoesOn
    <2> QED BY <2>1, <2>2
<1>7. ASSUME NEW c \in Chat, NEW level \in 1 .. 2, AskModel(c, level)
      PROVE  BudgetInv'
    <2>1. UNCHANGED costs /\ chat[c].pc = "agent"
        BY <1>7 DEF AskModel, In
    <2>2. PICK calls \in Answers(level) :
              IF calls = <<>> THEN Return(c, level)
              ELSE /\ chat' = [chat EXCEPT
                                 ![c].loops[level] = [turn |-> @.turn + 1, todo |-> calls]]
                   /\ UNCHANGED queue
        BY <1>7 DEF AskModel
    <2>3. CASE calls # <<>>
        <3>1. PICK r : r = [chat[c] EXCEPT !.loops[level] = [turn |-> @.turn + 1, todo |-> calls]]
            OBVIOUS
        <3>2. chat' = [chat EXCEPT ![c] = r]
            BY <2>2, <2>3, <3>1 DEF BudgetInv
        <3>3. Shaped(r)
            BY <1>0, <3>1 DEF Shaped
        <3> QED BY <2>1, <3>2, <3>3, GoesOn
    <2> QED BY <1>6, <2>1, <2>2, <2>3
<1>8. ASSUME NEW c \in Chat, NEW level \in 1 .. 2, OutOfTurns(c, level)
      PROVE  BudgetInv'
    BY <1>6, <1>8 DEF OutOfTurns, In
<1>9. ASSUME NEW c \in Chat, NEW tool, NEW loops, UNCHANGED costs,
             chat' = [chat EXCEPT ![c].tool = tool, ![c].loops = loops]
      PROVE  BudgetInv'
    <2>1. PICK r : r = [chat[c] EXCEPT !.tool = tool, !.loops = loops]
        OBVIOUS
    <2>2. chat' = [chat EXCEPT ![c] = r]
        BY <1>9, <2>1 DEF BudgetInv
    <2>3. Shaped(r) /\ r.pc = chat[c].pc
        <3>1. PICK old : old = chat[c]
            OBVIOUS
        <3>2. old = [pc |-> old.pc, loops |-> old.loops, tool |-> old.tool]
            BY <1>0, <3>1 DEF Shaped
        <3>3. r = [old EXCEPT !.tool = tool, !.loops = loops]
            BY <2>1, <3>1
        <3>4. r = [pc |-> old.pc, loops |-> loops, tool |-> tool]
            BY <3>2, <3>3
        <3> QED BY <3>1, <3>4 DEF Shaped
    <2>4. CASE chat[c].pc = "idle"
        BY <1>9, <2>2, <2>3, <2>4, GoesOn
    <2>5. CASE chat[c].pc # "idle"
        BY <1>9, <2>2, <2>3, <2>5, GoesOn
    <2> QED BY <2>4, <2>5
<1>10. ASSUME NEW c \in Chat, ExecuteTool(c)
       PROVE  BudgetInv'
    <2>1. PICK kind : kind = Head(Todo(c))
        OBVIOUS
    <2>2. PICK loops, tool :
              /\ loops = CASE kind = "unknown"  -> Answered(chat[c].loops)
                           [] kind = "delegate" -> Append(chat[c].loops, Loop)
                           [] OTHER             -> chat[c].loops
              /\ tool = IF kind \in {"async", "thread"} THEN kind ELSE chat[c].tool
        OBVIOUS
    <2>3. PICK r : r = [chat[c] EXCEPT !.loops = loops, !.tool = tool]
        OBVIOUS
    <2>4. chat' = [chat EXCEPT ![c] = r]
        BY <1>10, <2>1, <2>2, <2>3 DEF ExecuteTool, BudgetInv
    <2>5. Shaped(r)
        BY <1>0, <2>3 DEF Shaped
    <2>6. chat[c].pc # "idle" /\ UNCHANGED costs
        BY <1>10 DEF ExecuteTool, In
    <2> QED BY <2>4, <2>5, <2>6, GoesOn
<1>11. ASSUME NEW c \in Chat, ToolEnds(c) \/ ToolTimesOut(c) \/ DelegationTimesOut(c)
       PROVE  BudgetInv'
    <2>1. UNCHANGED costs
        BY <1>11 DEF ToolEnds, ToolTimesOut, DelegationTimesOut
    <2>2. \E loops : chat' = [chat EXCEPT ![c].tool = "none", ![c].loops = loops]
        <3>1. CASE ToolEnds(c) \/ ToolTimesOut(c)
            <4>1. chat' = [chat EXCEPT ![c].tool = "none", ![c].loops = Answered(chat[c].loops)]
                BY <3>1 DEF ToolEnds, ToolTimesOut, BudgetInv
            <4> QED BY <4>1
        <3>2. CASE DelegationTimesOut(c)
            <4>1. chat' = [chat EXCEPT ![c].tool = "none",
                                       ![c].loops = Answered(<<chat[c].loops[1]>>)]
                BY <3>2 DEF DelegationTimesOut, BudgetInv
            <4> QED BY <4>1
        <3> QED BY <1>11, <3>1, <3>2
    <2> QED BY <1>9, <2>1, <2>2
<1>12. CASE EngineCrash
    <2>1. chat' = [c \in Chat |-> Away] /\ UNCHANGED costs
        BY <1>12 DEF EngineCrash
    <2>2. Away.pc = "idle" /\ Shaped(Away)
        BY DEF Away, Shaped
    <2>3. Busy' = {}
        BY <2>1, <2>2 DEF Busy, Guarded
    <2>4. Cardinality(Busy') <= Cardinality(Busy) /\ Cardinality(Busy') \in Nat
          /\ Cardinality(Busy) \in Nat /\ Cardinality(Guarded) \in Nat
        BY <2>3, GuardedCounts, FS_EmptySet DEF Busy
    <2>5. \A c \in Chat : Shaped(chat[c])'
        BY <2>1, <2>2 DEF Shaped
    <2> QED BY <2>1, <2>4, <2>5, EngineAssumption DEF BudgetInv, costs
<1>13. CASE ThreadEnds \/ UNCHANGED engineVars
    BY <1>13, NothingSpent DEF ThreadEnds, engineVars, costs
<1> QED BY <1>1, <1>2, <1>3, <1>4, <1>5, <1>7, <1>8, <1>10, <1>11, <1>12, <1>13
        DEF EngineNext, EngineStep

\* Messages that pass the guard before they wait for the lock, an unguarded
\* bridge that writes the same log, failures to write it, restarts: the day's
\* messages exceed the limit by no more than the chats that can be in flight and
\* what was not written (bridge.py's check_budget, cost_guardian.py).
THEOREM BudgetIsKept == EngineSpec => []BudgetHolds
<1>1. EngineInit => BudgetInv
    <2> SUFFICES ASSUME EngineInit
                 PROVE  BudgetInv
        OBVIOUS
    <2>1. Away.pc = "idle" /\ Shaped(Away)
        BY DEF Away, Shaped
    <2>2. Busy = {}
        BY <2>1 DEF EngineInit, Busy, Guarded
    <2>3. Cardinality(Busy) = 0 /\ Cardinality(Guarded) \in Nat
        BY <2>2, GuardedCounts, FS_EmptySet
    <2>4. DOMAIN chat = Chat /\ \A c \in Chat : Shaped(chat[c])
        BY <2>1 DEF EngineInit, Shaped
    <2>5. /\ counted = 0 /\ spent = 0 /\ unlogged = 0
        BY DEF EngineInit
    <2>6. torn = FALSE
        BY DEF EngineInit
    <2>7. /\ spent - unlogged <= counted
          /\ spent - unlogged + Cardinality(Busy) < DailyLimit + Cardinality(Guarded)
        BY <2>3, <2>5, EngineAssumption
    <2> QED BY <2>4, <2>5, <2>6, <2>7 DEF BudgetInv
<1>2. BudgetInv => BudgetHolds
    BY DEF BudgetInv, BudgetHolds, Busy, Guarded
<1> QED BY <1>1, <1>2, BudgetInductive, PTL DEF EngineSpec

-----------------------------------------------------------------------------
(* The loops of a message in the agent, and what its steps leave to do.      *)

Loops(bound, kinds) == [turn : 0 .. bound, todo : Seq(kinds)]
SupLoops == Loops(SupTurns, Kind)
SubLoops == Loops(SubTurns, Kind \ {"delegate"})
Running == {"none", "async", "thread"}
Outside == {"idle", "waiting", "logging"}

\* What a chat can be: outside the agent, in the supervisor's loop, or in a
\* delegate's, for a call that the supervisor's batch begins with.
Supervises(r) ==
    \E sup \in SupLoops, tool \in Running :
        /\ r = [pc |-> "agent", loops |-> <<sup>>, tool |-> tool]
        /\ tool # "none" => sup.todo # <<>>
Delegates(r) ==
    \E sup \in SupLoops, sub \in SubLoops, tool \in Running :
        /\ r = [pc |-> "agent", loops |-> <<sup, sub>>, tool |-> tool]
        /\ sup.todo # <<>>
        /\ tool # "none" => sub.todo # <<>>
InTurn(r) ==
    \/ \E pc \in Outside : r = [pc |-> pc, loops |-> <<>>, tool |-> "none"]
    \/ Supervises(r)
    \/ Delegates(r)

\* A loop goes forward: it has had one more turn, or one call of its batch less
\* is left.
Forward(l, m) ==
    \/ m.turn > l.turn
    \/ m.turn = l.turn /\ Len(m.todo) < Len(l.todo)

\* The supervisor goes forward, or, while it stands still, a delegate begins, goes
\* forward, or a tool begins.
Advances(r, s) ==
    \/ Forward(r.loops[1], s.loops[1])
    \/ /\ s.loops[1] = r.loops[1]
       /\ \/ Len(r.loops) = 1 /\ Len(s.loops) = 2
          \/ Len(r.loops) = 2 /\ Len(s.loops) = 2 /\ Forward(r.loops[2], s.loops[2])
          \/ s.loops = r.loops /\ r.tool = "none" /\ s.tool # "none"

LEMMA AnsweredOne ==
    ASSUME NEW sup, sup = [turn |-> sup.turn, todo |-> sup.todo]
    PROVE  Answered(<<sup>>) = <<[turn |-> sup.turn, todo |-> Tail(sup.todo)]>>
<1>1. PICK l : l = [sup EXCEPT !.todo = Tail(@)]
    OBVIOUS
<1>2. l = [turn |-> sup.turn, todo |-> Tail(sup.todo)]
    BY <1>1
<1>3. Answered(<<sup>>) = [<<sup>> EXCEPT ![1] = l]
    BY <1>1 DEF Answered
<1>4. [<<sup>> EXCEPT ![1] = l] = <<l>>
    OBVIOUS
<1> QED BY <1>2, <1>3, <1>4

LEMMA AnsweredTwo ==
    ASSUME NEW sup, NEW sub, sub = [turn |-> sub.turn, todo |-> sub.todo]
    PROVE  Answered(<<sup, sub>>) = <<sup, [turn |-> sub.turn, todo |-> Tail(sub.todo)]>>
<1>1. PICK l : l = [sub EXCEPT !.todo = Tail(@)]
    OBVIOUS
<1>2. l = [turn |-> sub.turn, todo |-> Tail(sub.todo)]
    BY <1>1
<1>3. Answered(<<sup, sub>>) = [<<sup, sub>> EXCEPT ![2] = l]
    BY <1>1 DEF Answered
<1>4. [<<sup, sub>> EXCEPT ![2] = l] = <<sup, l>>
    OBVIOUS
<1> QED BY <1>2, <1>3, <1>4

LEMMA CallDone ==
    ASSUME NEW bound \in Nat, NEW kinds, NEW l \in Loops(bound, kinds), l.todo # <<>>
    PROVE  /\ [turn |-> l.turn, todo |-> Tail(l.todo)] \in Loops(bound, kinds)
           /\ Forward(l, [turn |-> l.turn, todo |-> Tail(l.todo)])
<1>1. PICK todo \in Seq(kinds) : todo = l.todo
    BY DEF Loops
<1>2. PICK n \in Nat : n = Len(todo)
    BY <1>1
<1>3. n > 0 /\ Len(Tail(todo)) = n - 1 /\ Tail(todo) \in Seq(kinds)
    BY <1>1, <1>2
<1> QED BY <1>1, <1>2, <1>3 DEF SupLoops, SubLoops, Loops, Forward


\* What a step of a message in the agent comes to.
Outcome(c, s) ==
    /\ InTurn(s) /\ chat' = [chat EXCEPT ![c] = s]
    /\ \/ s.pc = "logging" /\ queue' = IF c \in Discord THEN queue ELSE Tail(queue)
       \/ s.pc = "agent" /\ queue' = queue /\ Advances(chat[c], s)

LEMMA LoopsInUse ==
    ASSUME NEW c \in Chat, InTurn(chat[c]), chat[c].pc = "agent"
    PROVE  \/ Len(chat[c].loops) = 1 /\ Supervises(chat[c])
           \/ Len(chat[c].loops) = 2 /\ Delegates(chat[c])
<1>1. CASE Supervises(chat[c])
    <2>1. PICK sup \in SupLoops : chat[c].loops = <<sup>>
        BY <1>1 DEF Supervises
    <2> QED BY <1>1, <2>1
<1>2. CASE Delegates(chat[c])
    <2>1. PICK sup \in SupLoops, sub \in SubLoops : chat[c].loops = <<sup, sub>>
        BY <1>2 DEF Delegates
    <2> QED BY <1>2, <2>1
<1> QED BY <1>1, <1>2 DEF InTurn, Outside

LEMMA ReturnSteps ==
    ASSUME NEW c \in Chat, DOMAIN chat = Chat, InTurn(chat[c]), NEW level \in 1 .. 2,
           In(c, level), Return(c, level)
    PROVE  \E s : Outcome(c, s)
<1>1. CASE level = 1
    <2>1. PICK s : s = [Away EXCEPT !.pc = "logging"]
        OBVIOUS
    <2>2. s = [pc |-> "logging", loops |-> <<>>, tool |-> "none"]
        BY <2>1 DEF Away
    <2>3. InTurn(s) /\ s.pc = "logging"
        BY <2>2 DEF InTurn, Outside
    <2> QED BY <1>1, <2>1, <2>3 DEF Return, Outcome
<1>2. CASE level = 2
    <2>1. PICK sup \in SupLoops, sub \in SubLoops, tool \in Running :
              /\ chat[c] = [pc |-> "agent", loops |-> <<sup, sub>>, tool |-> tool]
              /\ sup.todo # <<>>
              /\ tool # "none" => sub.todo # <<>>
        BY <1>2, LoopsInUse DEF Delegates, In
    <2>2. PICK l : l = [turn |-> sup.turn, todo |-> Tail(sup.todo)]
        OBVIOUS
    <2>3. l \in SupLoops /\ Forward(sup, l)
        BY <2>1, <2>2, CallDone, EngineAssumption DEF SupLoops, SubLoops
    <2>4. Answered(<<sup>>) = <<l>>
        BY <2>2, AnsweredOne DEF SupLoops, Loops
    <2>5. PICK s : s = [chat[c] EXCEPT !.loops = Answered(<<@[1]>>)]
        OBVIOUS
    <2>6. chat' = [chat EXCEPT ![c] = s] /\ queue' = queue
        BY <1>2, <2>5 DEF Return
    <2>7. s = [pc |-> "agent", loops |-> <<l>>, tool |-> "none"]
        <3>1. tool = "none"
            BY <2>1 DEF In
        <3> QED BY <2>1, <2>4, <2>5, <3>1
    <2>8. InTurn(s)
        BY <2>3, <2>7 DEF InTurn, Supervises, Delegates, Running
    <2>9. Advances(chat[c], s)
        BY <2>1, <2>3, <2>7 DEF Advances
    <2> QED BY <2>6, <2>7, <2>8, <2>9 DEF Outcome
<1> QED BY <1>1, <1>2

LEMMA ToolSteps ==
    ASSUME NEW c \in Chat, DOMAIN chat = Chat, InTurn(chat[c]), chat[c].tool # "none",
           chat' = [chat EXCEPT ![c].tool = "none", ![c].loops = Answered(@)],
           queue' = queue
    PROVE  chat[c].pc = "agent" /\ \E s : Outcome(c, s)
<1>1. chat[c].pc = "agent"
    BY DEF InTurn, Supervises, Delegates
<1>2. PICK s : s = [chat[c] EXCEPT !.tool = "none", !.loops = Answered(@)]
    OBVIOUS
<1>3. chat' = [chat EXCEPT ![c] = s]
    BY <1>2
<1>4. CASE Len(chat[c].loops) # 2
    <2>1. PICK sup \in SupLoops, tool \in Running :
              /\ chat[c] = [pc |-> "agent", loops |-> <<sup>>, tool |-> tool]
              /\ tool # "none" => sup.todo # <<>>
        BY <1>1, <1>4, LoopsInUse DEF Supervises
    <2>2. PICK l : l = [turn |-> sup.turn, todo |-> Tail(sup.todo)]
        OBVIOUS
    <2>3. l \in SupLoops /\ Forward(sup, l)
        BY <2>1, <2>2, CallDone, EngineAssumption DEF SupLoops, SubLoops
    <2>4. Answered(<<sup>>) = <<l>>
        BY <2>2, AnsweredOne DEF SupLoops, Loops
    <2>5. s = [pc |-> "agent", loops |-> <<l>>, tool |-> "none"]
        <3>1. s = [chat[c] EXCEPT !.tool = "none", !.loops = Answered(chat[c].loops)]
            BY <1>2
        <3>2. chat[c].loops = <<sup>>
            BY <2>1
        <3>3. PICK r : r = chat[c]
            OBVIOUS
        <3>4. r = [pc |-> "agent", loops |-> <<sup>>, tool |-> tool]
            BY <2>1, <3>3
        <3>5. s = [r EXCEPT !.tool = "none", !.loops = <<l>>]
            BY <2>4, <3>1, <3>2, <3>3
        <3> QED BY <3>4, <3>5
    <2>6. InTurn(s)
        BY <2>3, <2>5 DEF InTurn, Supervises, Delegates, Running
    <2>7. Advances(chat[c], s)
        BY <2>1, <2>3, <2>5 DEF Advances
    <2> QED BY <1>1, <1>3, <2>5, <2>6, <2>7 DEF Outcome
<1>5. CASE Len(chat[c].loops) = 2
    <2>1. PICK sup \in SupLoops, sub \in SubLoops, tool \in Running :
              /\ chat[c] = [pc |-> "agent", loops |-> <<sup, sub>>, tool |-> tool]
              /\ sup.todo # <<>>
              /\ tool # "none" => sub.todo # <<>>
        BY <1>1, <1>5, LoopsInUse DEF Delegates
    <2>2. PICK l : l = [turn |-> sub.turn, todo |-> Tail(sub.todo)]
        OBVIOUS
    <2>3. l \in SubLoops /\ Forward(sub, l)
        BY <2>1, <2>2, CallDone, EngineAssumption DEF SupLoops, SubLoops
    <2>4. Answered(<<sup, sub>>) = <<sup, l>>
        BY <2>2, AnsweredTwo DEF SubLoops, Loops
    <2>5. s = [pc |-> "agent", loops |-> <<sup, l>>, tool |-> "none"]
        <3>1. s = [chat[c] EXCEPT !.tool = "none", !.loops = Answered(chat[c].loops)]
            BY <1>2
        <3>2. chat[c].loops = <<sup, sub>>
            BY <2>1
        <3>3. PICK r : r = chat[c]
            OBVIOUS
        <3>4. r = [pc |-> "agent", loops |-> <<sup, sub>>, tool |-> tool]
            BY <2>1, <3>3
        <3>5. s = [r EXCEPT !.tool = "none", !.loops = <<sup, l>>]
            BY <2>4, <3>1, <3>2, <3>3
        <3> QED BY <3>4, <3>5
    <2>6. InTurn(s)
        BY <2>1, <2>3, <2>5 DEF InTurn, Supervises, Delegates, Running
    <2>7. Advances(chat[c], s)
        BY <2>1, <2>3, <2>5 DEF Advances
    <2> QED BY <1>1, <1>3, <2>5, <2>6, <2>7 DEF Outcome
<1> QED BY <1>4, <1>5

LEMMA DelegationSteps ==
    ASSUME NEW c \in Chat, DOMAIN chat = Chat, InTurn(chat[c]), DelegationTimesOut(c)
    PROVE  \E s : Outcome(c, s)
<1>1. PICK sup \in SupLoops, sub \in SubLoops, tool \in Running :
          /\ chat[c] = [pc |-> "agent", loops |-> <<sup, sub>>, tool |-> tool]
          /\ sup.todo # <<>>
          /\ tool # "none" => sub.todo # <<>>
    BY LoopsInUse DEF Delegates, DelegationTimesOut
<1>2. PICK l : l = [turn |-> sup.turn, todo |-> Tail(sup.todo)]
    OBVIOUS
<1>3. l \in SupLoops /\ Forward(sup, l)
    BY <1>1, <1>2, CallDone, EngineAssumption DEF SupLoops, SubLoops
<1>4. Answered(<<sup>>) = <<l>>
    BY <1>2, AnsweredOne DEF SupLoops, Loops
<1>5. PICK s : s = [chat[c] EXCEPT !.tool = "none", !.loops = Answered(<<@[1]>>)]
    OBVIOUS
<1>6. chat' = [chat EXCEPT ![c] = s] /\ queue' = queue
    BY <1>5 DEF DelegationTimesOut
<1>7. s = [pc |-> "agent", loops |-> <<l>>, tool |-> "none"]
    <2>1. chat[c].loops[1] = sup
        BY <1>1
    <2>2. PICK r : r = chat[c]
        OBVIOUS
    <2>3. r = [pc |-> "agent", loops |-> <<sup, sub>>, tool |-> tool]
        BY <1>1, <2>2
    <2>4. s = [r EXCEPT !.tool = "none", !.loops = <<l>>]
        BY <1>4, <1>5, <2>1, <2>2
    <2> QED BY <2>3, <2>4
<1>8. InTurn(s)
    BY <1>3, <1>7 DEF InTurn, Supervises, Delegates, Running
<1>9. Advances(chat[c], s)
    BY <1>1, <1>3, <1>7 DEF Advances
<1> QED BY <1>6, <1>7, <1>8, <1>9 DEF Outcome

LEMMA AppendOne ==
    ASSUME NEW sup, NEW sub
    PROVE  Append(<<sup>>, sub) = <<sup, sub>>
<1>1. PICK S : S = {sup, sub}
    OBVIOUS
<1>2. sup \in S /\ sub \in S
    BY <1>1
<1>3. <<sup>> \in Seq(S) /\ <<sup, sub>> \in Seq(S)
    BY <1>2
<1>4. PICK one, two : one = <<sup>> /\ two = <<sup, sub>> /\ one \in Seq(S) /\ two \in Seq(S)
    BY <1>3
<1>5. Len(one) = 1 /\ one[1] = sup /\ Len(two) = 2 /\ two[1] = sup /\ two[2] = sub
    BY <1>4
<1>6. PICK app : app = Append(one, sub)
    OBVIOUS
<1>7. app \in Seq(S) /\ Len(app) = 2 /\ app[1] = sup /\ app[2] = sub
    BY <1>2, <1>4, <1>5, <1>6, AppendProperties
<1>8. \A i \in 1 .. Len(app) : i = 1 \/ i = 2
    BY <1>7
<1>9. app = two
    BY <1>4, <1>5, <1>7, <1>8, SeqEqual
<1> QED BY <1>4, <1>6, <1>9

LEMMA CallsAreKnown ==
    ASSUME NEW level \in 1 .. 2, NEW calls \in Answers(level)
    PROVE  calls \in Seq(Kind) /\ (level = 2 => calls \in Seq(Kind \ {"delegate"}))
<1>1. calls \in Seq(Kind)
    <2>1. CASE calls = <<>>
        BY <2>1
    <2>2. CASE calls # <<>>
        <3>1. PICK batch \in Batches : calls = Parsed(batch)
            BY <2>2 DEF Answers
        <3> QED BY <3>1, BatchesAssumption
    <2> QED BY <2>1, <2>2
<1>2. CASE level = 2
    <2>1. \A i \in 1 .. Len(calls) : calls[i] \in Kind \ {"delegate"}
        BY <1>1, <1>2 DEF Answers
    <2> QED BY <1>1, <2>1, SeqDef
<1> QED BY <1>1, <1>2

LEMMA AskSteps ==
    ASSUME NEW c \in Chat, DOMAIN chat = Chat, InTurn(chat[c]), NEW level \in 1 .. 2,
           AskModel(c, level)
    PROVE  \E s : Outcome(c, s)
<1>1. PICK calls \in Answers(level) :
          IF calls = <<>> THEN Return(c, level)
          ELSE /\ chat' = [chat EXCEPT
                             ![c].loops[level] = [turn |-> @.turn + 1, todo |-> calls]]
               /\ UNCHANGED queue
    BY DEF AskModel
<1>2. In(c, level) /\ chat[c].loops[level].turn < Bound(level)
    BY DEF AskModel
<1>3. calls \in Seq(Kind) /\ (level = 2 => calls \in Seq(Kind \ {"delegate"}))
    BY CallsAreKnown
<1>4. CASE calls = <<>>
    BY <1>1, <1>2, <1>4, ReturnSteps
<1>5. CASE calls # <<>> /\ level = 1
    <2>1. PICK sup \in SupLoops, tool \in Running :
              /\ chat[c] = [pc |-> "agent", loops |-> <<sup>>, tool |-> tool]
              /\ tool # "none" => sup.todo # <<>>
        BY <1>2, <1>5, LoopsInUse DEF Supervises, In
    <2>2. PICK l : l = [turn |-> sup.turn + 1, todo |-> calls]
        OBVIOUS
    <2>3. l \in SupLoops /\ Forward(sup, l)
        BY <1>2, <1>3, <1>5, <2>1, <2>2, EngineAssumption DEF SupLoops, SubLoops, Loops, Forward, Bound
    <2>4. PICK r : r = chat[c]
        OBVIOUS
    <2>5. r = [pc |-> "agent", loops |-> <<sup>>, tool |-> tool] /\ r.loops = <<sup>>
        BY <2>1, <2>4
    <2>6. PICK loops : loops = [r.loops EXCEPT ![1] = l]
        OBVIOUS
    <2>7. loops = <<l>>
        BY <2>5, <2>6
    <2>8. PICK s : s = [r EXCEPT !.loops = loops]
        OBVIOUS
    <2>9. chat' = [chat EXCEPT ![c] = s] /\ queue' = queue
        BY <1>1, <1>5, <2>2, <2>4, <2>5, <2>6, <2>8
    <2>10. s = [pc |-> "agent", loops |-> <<l>>, tool |-> tool]
        BY <2>5, <2>7, <2>8
    <2>11. InTurn(s)
        BY <1>5, <2>2, <2>3, <2>10 DEF InTurn, Supervises
    <2>12. Advances(chat[c], s)
        BY <2>1, <2>3, <2>10 DEF Advances
    <2> QED BY <2>9, <2>10, <2>11, <2>12 DEF Outcome
<1>6. CASE calls # <<>> /\ level = 2
    <2>1. PICK sup \in SupLoops, sub \in SubLoops, tool \in Running :
              /\ chat[c] = [pc |-> "agent", loops |-> <<sup, sub>>, tool |-> tool]
              /\ sup.todo # <<>>
              /\ tool # "none" => sub.todo # <<>>
        BY <1>2, <1>6, LoopsInUse DEF Delegates, In
    <2>2. PICK l : l = [turn |-> sub.turn + 1, todo |-> calls]
        OBVIOUS
    <2>3. l \in SubLoops /\ Forward(sub, l)
        BY <1>2, <1>3, <1>6, <2>1, <2>2, EngineAssumption DEF SupLoops, SubLoops, Loops, Forward, Bound
    <2>4. PICK r : r = chat[c]
        OBVIOUS
    <2>5. r = [pc |-> "agent", loops |-> <<sup, sub>>, tool |-> tool] /\ r.loops = <<sup, sub>>
        BY <2>1, <2>4
    <2>6. PICK loops : loops = [r.loops EXCEPT ![2] = l]
        OBVIOUS
    <2>7. loops = <<sup, l>>
        BY <2>5, <2>6
    <2>8. PICK s : s = [r EXCEPT !.loops = loops]
        OBVIOUS
    <2>9. chat' = [chat EXCEPT ![c] = s] /\ queue' = queue
        BY <1>1, <1>6, <2>2, <2>4, <2>5, <2>6, <2>8
    <2>10. s = [pc |-> "agent", loops |-> <<sup, l>>, tool |-> tool]
        BY <2>5, <2>7, <2>8
    <2>11. InTurn(s)
        BY <1>6, <2>1, <2>2, <2>3, <2>10 DEF InTurn, Delegates
    <2>12. Advances(chat[c], s)
        BY <2>1, <2>3, <2>10 DEF Advances
    <2> QED BY <2>9, <2>10, <2>11, <2>12 DEF Outcome
<1> QED BY <1>4, <1>5, <1>6

LEMMA ExecuteSteps ==
    ASSUME NEW c \in Chat, DOMAIN chat = Chat, InTurn(chat[c]), ExecuteTool(c)
    PROVE  \E s : Outcome(c, s)
<1>1. PICK level \in 1 .. 2 : In(c, level)
    BY DEF ExecuteTool
<1>2. PICK kind : kind = Head(Todo(c))
    OBVIOUS
<1>3. PICK r : r = chat[c]
    OBVIOUS
<1>4. PICK loops :
          loops = CASE kind = "unknown"  -> Answered(r.loops)
                    [] kind = "delegate" -> Append(r.loops, Loop)
                    [] OTHER             -> r.loops
    OBVIOUS
<1>5. PICK tool : tool = IF kind \in {"async", "thread"} THEN kind ELSE r.tool
    OBVIOUS
<1>6. PICK s : s = [r EXCEPT !.tool = tool, !.loops = loops]
    OBVIOUS
<1>7. chat' = [chat EXCEPT ![c] = s] /\ queue' = queue
    BY <1>2, <1>3, <1>4, <1>5, <1>6 DEF ExecuteTool
<1>8. Loop \in SubLoops
    BY EngineAssumption DEF Loop, SubLoops, Loops
<1>9. CASE level = 1
    <2>1. PICK sup \in SupLoops :
              r = [pc |-> "agent", loops |-> <<sup>>, tool |-> "none"]
        <3>1. PICK sup \in SupLoops, tool1 \in Running :
                  r = [pc |-> "agent", loops |-> <<sup>>, tool |-> tool1]
            BY <1>1, <1>3, <1>9, LoopsInUse DEF Supervises, In
        <3>2. tool1 = "none"
            BY <1>1, <1>3, <3>1 DEF In
        <3> QED BY <3>1, <3>2
    <2>2. Len(r.loops) = 1 /\ r.loops = <<sup>> /\ Todo(c) = sup.todo
        BY <1>3, <2>1 DEF Todo
    <2>3. sup.todo \in Seq(Kind) /\ sup.todo # <<>> /\ kind \in Kind
        BY <1>2, <2>2 DEF SupLoops, Loops, ExecuteTool
    <2>4. CASE kind = "unknown"
        <3>1. PICK l : l = [turn |-> sup.turn, todo |-> Tail(sup.todo)]
            OBVIOUS
        <3>2. l \in SupLoops /\ Forward(sup, l)
            BY <2>3, <3>1, CallDone, EngineAssumption DEF SupLoops, SubLoops
        <3>3. loops = <<l>> /\ tool = "none"
            BY <1>4, <1>5, <2>1, <2>2, <2>4, <3>1, AnsweredOne DEF SupLoops, Loops
        <3>4. s = [pc |-> "agent", loops |-> <<l>>, tool |-> "none"]
            BY <1>6, <2>1, <3>3
        <3>5. InTurn(s)
            BY <3>2, <3>4 DEF InTurn, Supervises, Running
        <3>6. Advances(chat[c], s)
            BY <1>3, <2>2, <3>2, <3>4 DEF Advances
        <3> QED BY <1>7, <3>4, <3>5, <3>6 DEF Outcome
    <2>5. CASE kind = "delegate"
        <3>1. loops = <<sup, Loop>> /\ tool = "none"
            <4>1. loops = Append(r.loops, Loop) /\ tool = r.tool
                BY <1>4, <1>5, <2>5
            <4> QED BY <2>1, <2>2, <4>1, AppendOne
        <3>2. s = [pc |-> "agent", loops |-> <<sup, Loop>>, tool |-> "none"]
            BY <1>6, <2>1, <3>1
        <3>3. InTurn(s)
            BY <1>8, <2>3, <3>2 DEF InTurn, Delegates, Running
        <3>4. Advances(chat[c], s)
            BY <1>3, <2>2, <3>2 DEF Advances
        <3> QED BY <1>7, <3>2, <3>3, <3>4 DEF Outcome
    <2>6. CASE kind \in {"async", "thread"}
        <3>1. loops = <<sup>> /\ tool = kind
            BY <1>4, <1>5, <2>2, <2>6
        <3>2. s = [pc |-> "agent", loops |-> <<sup>>, tool |-> kind]
            BY <1>6, <2>1, <3>1
        <3>3. InTurn(s)
            BY <2>3, <2>6, <3>2 DEF InTurn, Supervises, Running
        <3>4. Advances(chat[c], s)
            BY <1>3, <2>1, <2>2, <2>6, <3>2 DEF Advances
        <3> QED BY <1>7, <3>2, <3>3, <3>4 DEF Outcome
    <2> QED BY <2>3, <2>4, <2>5, <2>6 DEF Kind
<1>10. CASE level = 2
    <2>1. PICK sup \in SupLoops, sub \in SubLoops :
              /\ r = [pc |-> "agent", loops |-> <<sup, sub>>, tool |-> "none"]
              /\ sup.todo # <<>>
        <3>1. PICK sup \in SupLoops, sub \in SubLoops, tool1 \in Running :
                  /\ r = [pc |-> "agent", loops |-> <<sup, sub>>, tool |-> tool1]
                  /\ sup.todo # <<>>
            BY <1>1, <1>3, <1>10, LoopsInUse DEF Delegates, In
        <3>2. tool1 = "none"
            BY <1>1, <1>3, <3>1 DEF In
        <3> QED BY <3>1, <3>2
    <2>2. Len(r.loops) = 2 /\ r.loops = <<sup, sub>> /\ Todo(c) = sub.todo
        BY <1>3, <2>1 DEF Todo
    <2>3. sub.todo \in Seq(Kind \ {"delegate"}) /\ sub.todo # <<>> /\ kind \in Kind \ {"delegate"}
        BY <1>2, <2>2 DEF SubLoops, Loops, ExecuteTool
    <2>4. CASE kind = "unknown"
        <3>1. PICK l : l = [turn |-> sub.turn, todo |-> Tail(sub.todo)]
            OBVIOUS
        <3>2. l \in SubLoops /\ Forward(sub, l)
            BY <2>3, <3>1, CallDone, EngineAssumption DEF SupLoops, SubLoops
        <3>3. loops = <<sup, l>> /\ tool = "none"
            BY <1>4, <1>5, <2>1, <2>2, <2>4, <3>1, AnsweredTwo DEF SubLoops, Loops
        <3>4. s = [pc |-> "agent", loops |-> <<sup, l>>, tool |-> "none"]
            BY <1>6, <2>1, <3>3
        <3>5. InTurn(s)
            BY <2>1, <3>2, <3>4 DEF InTurn, Delegates, Running
        <3>6. Advances(chat[c], s)
            BY <1>3, <2>2, <3>2, <3>4 DEF Advances
        <3> QED BY <1>7, <3>4, <3>5, <3>6 DEF Outcome
    <2>5. CASE kind \in {"async", "thread"}
        <3>1. loops = <<sup, sub>> /\ tool = kind
            BY <1>4, <1>5, <2>2, <2>5
        <3>2. s = [pc |-> "agent", loops |-> <<sup, sub>>, tool |-> kind]
            BY <1>6, <2>1, <3>1
        <3>3. InTurn(s)
            BY <2>1, <2>3, <2>5, <3>2 DEF InTurn, Delegates, Running
        <3>4. Advances(chat[c], s)
            BY <1>3, <2>1, <2>2, <2>5, <3>2 DEF Advances
        <3> QED BY <1>7, <3>2, <3>3, <3>4 DEF Outcome
    <2> QED BY <2>3, <2>4, <2>5 DEF Kind
<1> QED BY <1>9, <1>10

TurnInv ==
    /\ DOMAIN chat = Chat
    /\ \A c \in Chat : InTurn(chat[c])
    /\ \A c \in Discord : chat[c].pc # "waiting"

\* The three things that a step of c can be to the lock: c keeps it, its place in
\* the queue or its absence; c begins to wait; c lets the lock go.
Stays(c, s) ==
    /\ queue' = queue
    /\ c \in Guarded => (s.pc \in {"waiting", "agent"} <=> chat[c].pc \in {"waiting", "agent"})
    /\ c \in Guarded /\ s.pc = "agent" /\ chat[c].pc # "agent" => Head(queue) = c
Joins(c, s) ==
    /\ c \in Guarded /\ chat[c].pc = "idle" /\ s.pc = "waiting"
    /\ queue' = Append(queue, c)
Leaves(c, s) ==
    /\ c \in Guarded /\ s.pc = "logging"
    /\ chat[c].pc = "waiting" => Head(queue) = c
    /\ chat[c].pc \in {"waiting", "agent"}
    /\ queue' = Tail(queue)

ChatStep(c, s) ==
    /\ chat' = [chat EXCEPT ![c] = s] /\ InTurn(s)
    /\ c \in Discord => s.pc # "waiting"
    /\ Stays(c, s) \/ Joins(c, s) \/ Leaves(c, s)
    /\ chat[c].pc = "agent" /\ s.pc = "agent" => s = chat[c] \/ Advances(chat[c], s)

LEMMA Elsewhere ==
    ASSUME TurnInv, NEW c \in Chat, chat[c].pc # "agent", NEW pc \in Outside, NEW s,
           s = [chat[c] EXCEPT !.pc = pc]
    PROVE  InTurn(s) /\ s.pc = pc
<1>1. PICK old \in Outside : chat[c] = [pc |-> old, loops |-> <<>>, tool |-> "none"]
    BY DEF TurnInv, InTurn, Supervises, Delegates
<1>2. s = [pc |-> pc, loops |-> <<>>, tool |-> "none"]
    BY <1>1
<1> QED BY <1>2 DEF InTurn

LEMMA Begins ==
    ASSUME TurnInv, NEW c \in Chat, chat[c].pc # "agent", NEW s,
           s = [chat[c] EXCEPT !.pc = "agent", !.loops = <<Loop>>]
    PROVE  InTurn(s) /\ s.pc = "agent"
<1>1. PICK r : r = chat[c]
    OBVIOUS
<1>2. PICK old \in Outside : r = [pc |-> old, loops |-> <<>>, tool |-> "none"]
    BY <1>1 DEF TurnInv, InTurn, Supervises, Delegates
<1>3. PICK loops, none : loops = <<Loop>> /\ none = <<>>
    OBVIOUS
<1>4. s = [r EXCEPT !.pc = "agent", !.loops = loops] /\ r = [pc |-> old, loops |-> none, tool |-> "none"]
    BY <1>1, <1>2, <1>3
<1>5. s = [pc |-> "agent", loops |-> loops, tool |-> "none"]
    BY <1>4
<1>6. Loop \in SupLoops
    BY EngineAssumption DEF Loop, SupLoops, Loops
<1> QED BY <1>3, <1>5, <1>6 DEF InTurn, Supervises, Running

LEMMA IsAway == InTurn(Away) /\ Away.pc = "idle"
BY DEF InTurn, Away, Outside

LEMMA InsideSteps ==
    ASSUME TurnInv, NEW c \in Chat,
           \/ \E level \in 1 .. 2 : AskModel(c, level) \/ OutOfTurns(c, level)
           \/ ExecuteTool(c) \/ ToolEnds(c) \/ ToolTimesOut(c) \/ DelegationTimesOut(c)
    PROVE  \E s : ChatStep(c, s)
<1>1. DOMAIN chat = Chat /\ InTurn(chat[c])
    BY DEF TurnInv
<1>2. chat[c].pc = "agent" /\ \E s : Outcome(c, s)
    <2>1. CASE \E level \in 1 .. 2 : AskModel(c, level)
        BY <1>1, <2>1, AskSteps DEF AskModel, In
    <2>2. CASE \E level \in 1 .. 2 : OutOfTurns(c, level)
        BY <1>1, <2>2, ReturnSteps DEF OutOfTurns, In
    <2>3. CASE ExecuteTool(c)
        BY <1>1, <2>3, ExecuteSteps DEF ExecuteTool, In
    <2>4. CASE ToolEnds(c) \/ ToolTimesOut(c)
        BY <1>1, <2>4, ToolSteps DEF ToolEnds, ToolTimesOut
    <2>5. CASE DelegationTimesOut(c)
        BY <1>1, <2>5, DelegationSteps DEF DelegationTimesOut
    <2> QED BY <2>1, <2>2, <2>3, <2>4, <2>5
<1>3. PICK s : Outcome(c, s)
    BY <1>2
<1>4. ASSUME s.pc = "logging"
      PROVE  Stays(c, s) \/ Leaves(c, s)
    <2>1. queue' = IF c \in Discord THEN queue ELSE Tail(queue)
        BY <1>3, <1>4 DEF Outcome, Advances
    <2>2. CASE c \in Discord
        BY <2>1, <2>2 DEF Stays, Guarded
    <2>3. CASE c \notin Discord
        BY <1>2, <1>4, <2>1, <2>3 DEF Leaves, Guarded, Stays
    <2> QED BY <2>2, <2>3
<1>5. s.pc = "agent" => Stays(c, s)
    BY <1>2, <1>3 DEF Outcome, Stays
<1> QED BY <1>3, <1>4, <1>5 DEF ChatStep, Outcome

LEMMA OutsideSteps ==
    ASSUME TurnInv, NEW c \in Chat,
           HandleMessage(c) \/ HandleDiscord(c) \/ DiscordFails(c) \/ AskAgent(c) \/ LogRequest(c)
    PROVE  UNCHANGED <<chat, queue>> \/ \E s : ChatStep(c, s)
<1> USE DEF ChatStep, Guarded
<1>1. PICK waits, begins, leaves :
          /\ waits = [chat[c] EXCEPT !.pc = "waiting"]
          /\ begins = [chat[c] EXCEPT !.pc = "agent", !.loops = <<Loop>>]
          /\ leaves = [chat[c] EXCEPT !.pc = "logging"]
    OBVIOUS
<1>2. chat[c].pc # "agent"
    BY DEF HandleMessage, HandleDiscord, DiscordFails, AskAgent, LogRequest
<1>3. /\ InTurn(waits) /\ waits.pc = "waiting"
      /\ InTurn(begins) /\ begins.pc = "agent"
      /\ InTurn(leaves) /\ leaves.pc = "logging"
    BY <1>1, <1>2, Elsewhere, Begins DEF Outside
<1>4. CASE HandleMessage(c)
    <2>1. CASE WithinBudget
        <3>1. chat' = [chat EXCEPT ![c] = waits] /\ queue' = Append(queue, c)
            BY <1>1, <1>4, <2>1 DEF HandleMessage, TurnInv
        <3>2. Joins(c, waits)
            BY <1>3, <1>4, <3>1 DEF HandleMessage, Joins
        <3>3. c \notin Discord
            BY <1>4 DEF HandleMessage
        <3> QED BY <1>2, <1>3, <3>1, <3>2, <3>3
    <2>2. CASE ~WithinBudget
        BY <1>4, <2>2 DEF HandleMessage
    <2> QED BY <2>1, <2>2
<1>5. CASE HandleDiscord(c)
    <2>1. c \in Discord /\ queue' = queue
          /\ (chat' = [chat EXCEPT ![c] = begins] \/ chat' = [chat EXCEPT ![c] = leaves])
        BY <1>1, <1>5 DEF HandleDiscord, TurnInv
    <2>2. \A s : Stays(c, s)
        BY <2>1 DEF Stays
    <2> QED BY <1>2, <1>3, <2>1, <2>2
<1>6. CASE AskAgent(c)
    <2>1. chat[c].pc = "waiting" /\ Head(queue) = c /\ c \notin Discord
        BY <1>6 DEF AskAgent, TurnInv
    <2>2. CASE chat' = [chat EXCEPT ![c] = begins] /\ queue' = queue
        <3>1. Stays(c, begins)
            BY <1>3, <2>1, <2>2 DEF Stays
        <3> QED BY <1>2, <1>3, <2>2, <3>1
    <2>3. CASE chat' = [chat EXCEPT ![c] = leaves] /\ queue' = Tail(queue)
        <3>1. Leaves(c, leaves)
            BY <1>3, <2>1, <2>3 DEF Leaves
        <3> QED BY <1>2, <1>3, <2>3, <3>1
    <2> QED BY <1>1, <1>6, <2>2, <2>3 DEF AskAgent, TurnInv
<1>7. CASE DiscordFails(c) \/ LogRequest(c)
    <2>1. chat[c].pc = "logging" /\ queue' = queue /\ chat' = [chat EXCEPT ![c] = Away]
        BY <1>7 DEF DiscordFails, LogRequest
    <2>2. Stays(c, Away)
        BY <2>1, IsAway DEF Stays
    <2> QED BY <1>2, <2>1, <2>2, IsAway
<1> QED BY <1>4, <1>5, <1>6, <1>7

\* Every step is one of a chat, or leaves chats and queue alone, or is a restart.
LEMMA EngineSteps ==
    ASSUME TurnInv, [EngineNext]_engineVars
    PROVE  \/ \E c \in Chat : \E s : ChatStep(c, s)
           \/ UNCHANGED <<chat, queue>>
           \/ chat' = [c \in Chat |-> Away] /\ queue' = <<>>
<1>1. ASSUME NEW c \in Chat,
             \/ HandleMessage(c) \/ HandleDiscord(c) \/ EngineStep(c)
             \/ DiscordFails(c) \/ ToolEnds(c) \/ DelegationTimesOut(c)
      PROVE  UNCHANGED <<chat, queue>> \/ \E s : ChatStep(c, s)
    BY <1>1, InsideSteps, OutsideSteps DEF EngineStep
<1>2. ThreadEnds => UNCHANGED <<chat, queue>>
    BY DEF ThreadEnds
<1>3. EngineCrash => chat' = [c \in Chat |-> Away] /\ queue' = <<>>
    BY DEF EngineCrash
<1>4. UNCHANGED engineVars => UNCHANGED <<chat, queue>>
    BY DEF engineVars
<1> QED BY <1>1, <1>2, <1>3, <1>4 DEF EngineNext

\* Every step keeps the chats in one of these shapes.
LEMMA TurnInductive == TurnInv /\ [EngineNext]_engineVars => TurnInv'
<1> SUFFICES ASSUME TurnInv, [EngineNext]_engineVars
             PROVE  TurnInv'
    OBVIOUS
<1>1. ASSUME NEW c \in Chat, NEW s, ChatStep(c, s)
      PROVE  TurnInv'
    <2>1. /\ DOMAIN chat' = Chat /\ chat'[c] = s /\ \A d \in Chat \ {c} : chat'[d] = chat[d]
          /\ InTurn(s) /\ (c \in Discord => s.pc # "waiting")
        BY <1>1 DEF ChatStep, TurnInv
    <2>2. \A d \in Chat : InTurn(chat[d])'
        BY <2>1 DEF TurnInv, InTurn, Supervises, Delegates
    <2> QED BY <2>1, <2>2, EngineAssumption DEF TurnInv
<1>2. CASE UNCHANGED <<chat, queue>>
    BY <1>2 DEF TurnInv, InTurn, Supervises, Delegates
<1>3. CASE chat' = [c \in Chat |-> Away] /\ queue' = <<>>
    BY <1>3, IsAway, EngineAssumption DEF TurnInv, InTurn, Supervises, Delegates
<1> QED BY <1>1, <1>2, <1>3, EngineSteps

LEMMA TurnInitial == EngineInit => TurnInv
BY IsAway, EngineAssumption DEF EngineInit, TurnInv

-----------------------------------------------------------------------------
(* The agent's lock: one message at a time has it, and none that is gone.    *)

Queued(c) == \E i \in DOMAIN queue : queue[i] = c

LockInv ==
    /\ DOMAIN chat = Chat
    /\ queue \in Seq(Guarded)
    /\ \A i, k \in DOMAIN queue : queue[i] = queue[k] => i = k
    /\ \A c \in Guarded : chat[c].pc \in {"waiting", "agent"} <=> Queued(c)
    /\ \A i \in DOMAIN queue : chat[queue[i]].pc = "agent" => i = 1

LEMMA StaysInQueue ==
    ASSUME LockInv, NEW c \in Chat, NEW r, chat' = [chat EXCEPT ![c] = r], queue' = queue,
           c \in Guarded => (r.pc \in {"waiting", "agent"} <=> chat[c].pc \in {"waiting", "agent"}),
           c \in Guarded /\ r.pc = "agent" /\ chat[c].pc # "agent" => Head(queue) = c
    PROVE  LockInv'
<1>1. DOMAIN chat' = Chat /\ chat'[c] = r /\ \A d \in Chat \ {c} : chat'[d] = chat[d]
    BY DEF LockInv
<1>2. \A d \in Guarded : (chat'[d].pc \in {"waiting", "agent"} <=> Queued(d)')
    BY <1>1 DEF LockInv, Queued, Guarded
<1>3. ASSUME NEW i \in DOMAIN queue, chat'[queue[i]].pc = "agent"
      PROVE  i = 1
    <2>1. queue[i] \in Guarded /\ 1 \in DOMAIN queue /\ Head(queue) = queue[1]
        BY <1>3 DEF LockInv
    <2>2. CASE queue[i] = c /\ chat[c].pc # "agent"
        BY <1>1, <1>3, <2>1, <2>2 DEF LockInv
    <2>3. CASE ~(queue[i] = c /\ chat[c].pc # "agent")
        BY <1>1, <1>3, <2>1, <2>3 DEF LockInv, Guarded
    <2> QED BY <2>2, <2>3
<1> QED BY <1>1, <1>2, <1>3 DEF LockInv

LEMMA JoinsQueue ==
    ASSUME LockInv, NEW c \in Guarded, NEW r, chat' = [chat EXCEPT ![c] = r],
           queue' = Append(queue, c), chat[c].pc = "idle", r.pc = "waiting"
    PROVE  LockInv'
<1>1. DOMAIN chat' = Chat /\ chat'[c] = r /\ \A d \in Chat \ {c} : chat'[d] = chat[d]
    BY DEF LockInv, Guarded
<1>2. PICK n \in Nat : n = Len(queue) /\ DOMAIN queue = 1 .. n
    BY DEF LockInv
<1>3. /\ queue' \in Seq(Guarded) /\ DOMAIN queue' = 1 .. n + 1
      /\ queue'[n + 1] = c /\ \A i \in 1 .. n : queue'[i] = queue[i] /\ queue[i] \in Guarded
    BY <1>2 DEF LockInv
<1>4. \A i \in 1 .. n : queue[i] # c
    BY <1>2 DEF LockInv, Queued
<1>5. \A i, k \in DOMAIN queue' : queue'[i] = queue'[k] => i = k
    BY <1>2, <1>3, <1>4 DEF LockInv
<1>6. ASSUME NEW d \in Guarded
      PROVE  chat'[d].pc \in {"waiting", "agent"} <=> Queued(d)'
    <2>1. CASE d = c
        BY <1>1, <1>3, <2>1 DEF Queued
    <2>2. CASE d # c
        <3>1. Queued(d)' <=> Queued(d)
            BY <1>2, <1>3, <2>2 DEF Queued
        <3> QED BY <1>1, <2>2, <3>1 DEF LockInv, Guarded
    <2> QED BY <2>1, <2>2
<1>7. \A i \in DOMAIN queue' : chat'[queue'[i]].pc = "agent" => i = 1
    <2>1. \A i \in 1 .. n : chat'[queue'[i]].pc = "agent" => i = 1
        BY <1>1, <1>2, <1>3, <1>4 DEF LockInv, Guarded
    <2>2. chat'[queue'[n + 1]].pc # "agent"
        BY <1>1, <1>3
    <2>3. \A i \in 1 .. n + 1 : i \in 1 .. n \/ i = n + 1
        OBVIOUS
    <2> QED BY <1>3, <2>1, <2>2, <2>3
<1> QED BY <1>1, <1>3, <1>5, <1>6, <1>7 DEF LockInv

LEMMA LeavesQueue ==
    ASSUME LockInv, NEW c \in Guarded, NEW r, chat' = [chat EXCEPT ![c] = r],
           queue' = Tail(queue), Queued(c), Head(queue) = c, r.pc \notin {"waiting", "agent"}
    PROVE  LockInv'
<1>1. DOMAIN chat' = Chat /\ chat'[c] = r /\ \A d \in Chat \ {c} : chat'[d] = chat[d]
    BY DEF LockInv, Guarded
<1>2. PICK n \in Nat : n = Len(queue) /\ DOMAIN queue = 1 .. n
    BY DEF LockInv
<1>3. n > 0 /\ queue[1] = c
    BY <1>2 DEF LockInv, Queued
<1>4. /\ queue' \in Seq(Guarded) /\ DOMAIN queue' = 1 .. n - 1
      /\ \A i \in 1 .. n - 1 : queue'[i] = queue[i + 1] /\ i + 1 \in 1 .. n
    BY <1>2, <1>3 DEF LockInv
<1>5. ASSUME NEW i \in 1 .. n - 1
      PROVE  queue'[i] \in Guarded /\ queue'[i] # c
    <2>1. queue'[i] = queue[i + 1] /\ i + 1 \in 1 .. n /\ 1 \in 1 .. n /\ i + 1 # 1
        BY <1>2, <1>3, <1>4
    <2> QED BY <1>2, <1>3, <2>1 DEF LockInv
<1>6. \A i, k \in DOMAIN queue' : queue'[i] = queue'[k] => i = k
    <2>1. ASSUME NEW i \in 1 .. n - 1, NEW k \in 1 .. n - 1, queue'[i] = queue'[k]
          PROVE  i = k
        <3>1. i + 1 = k + 1
            BY <1>2, <1>4, <2>1 DEF LockInv
        <3> QED BY <3>1
    <2> QED BY <1>4, <2>1
<1>7. ASSUME NEW d \in Guarded
      PROVE  chat'[d].pc \in {"waiting", "agent"} <=> Queued(d)'
    <2>1. CASE d = c
        BY <1>1, <1>4, <1>5, <2>1 DEF Queued
    <2>2. CASE d # c
        <3>1. ASSUME Queued(d)
              PROVE  Queued(d)'
            <4>1. PICK i \in 1 .. n : queue[i] = d
                BY <1>2, <3>1 DEF Queued
            <4>2. i # 1
                BY <1>3, <2>2, <4>1
            <4>3. i - 1 \in 1 .. n - 1 /\ (i - 1) + 1 = i
                BY <4>2
            <4>4. queue'[i - 1] = d
                BY <1>4, <4>1, <4>3
            <4> QED BY <1>4, <4>3, <4>4 DEF Queued
        <3>2. Queued(d)' => Queued(d)
            BY <1>2, <1>4 DEF Queued
        <3> QED BY <1>1, <2>2, <3>1, <3>2 DEF LockInv, Guarded
    <2> QED BY <2>1, <2>2
<1>8. \A i \in 1 .. n - 1 : chat'[queue'[i]].pc # "agent"
    <2>1. ASSUME NEW i \in 1 .. n - 1, chat'[queue'[i]].pc = "agent"
          PROVE  FALSE
        <3>1. chat[queue[i + 1]].pc = "agent"
            BY <1>1, <1>4, <1>5, <2>1 DEF Guarded
        <3>2. i + 1 = 1
            BY <1>2, <1>4, <3>1 DEF LockInv
        <3> QED BY <3>2
    <2> QED BY <2>1
<1> QED BY <1>1, <1>4, <1>6, <1>7, <1>8 DEF LockInv

LEMMA LockInductive == TurnInv /\ LockInv /\ [EngineNext]_engineVars => LockInv'
<1> SUFFICES ASSUME TurnInv, LockInv, [EngineNext]_engineVars
             PROVE  LockInv'
    OBVIOUS
<1>1. ASSUME NEW c \in Chat, NEW s, ChatStep(c, s)
      PROVE  LockInv'
    <2>1. chat' = [chat EXCEPT ![c] = s]
        BY <1>1 DEF ChatStep
    <2>2. CASE Stays(c, s)
        BY <2>1, <2>2, StaysInQueue DEF Stays
    <2>3. CASE Joins(c, s)
        BY <2>1, <2>3, JoinsQueue DEF Joins
    <2>4. CASE Leaves(c, s)
        <3>1. Queued(c) /\ Head(queue) = c /\ c \in Guarded /\ queue' = Tail(queue)
            BY <2>4 DEF Leaves, LockInv, Queued
        <3> QED BY <2>1, <2>4, <3>1, LeavesQueue DEF Leaves
    <2> QED BY <1>1, <2>2, <2>3, <2>4 DEF ChatStep
<1>2. CASE UNCHANGED <<chat, queue>>
    BY <1>2 DEF LockInv, Queued
<1>3. CASE chat' = [c \in Chat |-> Away] /\ queue' = <<>>
    BY <1>3, IsAway DEF LockInv, Queued, Guarded
<1> QED BY <1>1, <1>2, <1>3, EngineSteps

\* The lock passes from message to message: whoever waits is in its queue, only
\* the first of the queue is in the agent, and the first is never a message that
\* has been answered, cancelled or forgotten.
LockIsPassedOn ==
    /\ \A c, d \in Guarded : chat[c].pc = "agent" /\ chat[d].pc = "agent" => c = d
    /\ \A c \in Guarded : chat[c].pc = "waiting" => Queued(c)
    /\ queue # <<>> => chat[Head(queue)].pc \in {"waiting", "agent"}

\* A step of c that leaves c where it was in the queue.
THEOREM LockPasses == EngineSpec => []LockIsPassedOn
<1>1. EngineInit => LockInv
    BY IsAway DEF EngineInit, LockInv, Queued, Guarded
<1>2. LockInv => LockIsPassedOn
    <2> SUFFICES ASSUME LockInv
                 PROVE  LockIsPassedOn
        OBVIOUS
    <2>1. ASSUME NEW c \in Guarded, chat[c].pc = "agent"
          PROVE  queue[1] = c
        BY <2>1 DEF LockInv, Queued
    <2>2. queue # <<>> => chat[Head(queue)].pc \in {"waiting", "agent"}
        <3>1. ASSUME queue # <<>>
              PROVE  1 \in DOMAIN queue /\ Head(queue) = queue[1] /\ queue[1] \in Guarded
            BY <3>1 DEF LockInv
        <3> QED BY <3>1 DEF LockInv, Queued
    <2> QED BY <2>1, <2>2 DEF LockInv, LockIsPassedOn
<1> QED BY <1>1, <1>2, TurnInitial, TurnInductive, LockInductive, PTL DEF EngineSpec

-----------------------------------------------------------------------------
(* A message in the agent goes forward.                                      *)

TurnsAreCounted ==
    \A c \in Chat : chat[c].pc = "agent" =>
        /\ chat[c].loops[1].turn <= SupTurns
        /\ Len(chat[c].loops) = 2 => chat[c].loops[2].turn <= SubTurns

GoesForward ==
    \A c \in Chat : chat[c].pc = "agent" =>
        \/ chat'[c] = chat[c]
        \/ chat'[c].pc # "agent"
        \/ Advances(chat[c], chat'[c])

\* No loop takes more turns than it is allowed, and whatever step changes a message
\* in the agent ends its turn there or takes it forward: the supervisor begins a
\* turn or has an answer to a call, or, for the same call, its delegate does, or a
\* tool begins.  Batches being finite, the lock is held for finitely many steps,
\* whatever models, tools and time-outs do (engine.py:120-201).
TurnsGoForward == []TurnsAreCounted /\ [][GoesForward]_engineVars

LEMMA ForwardStep == TurnInv /\ [EngineNext]_engineVars => GoesForward
<1> SUFFICES ASSUME TurnInv, [EngineNext]_engineVars
             PROVE  GoesForward
    OBVIOUS
<1>1. ASSUME NEW c \in Chat, NEW s, ChatStep(c, s)
      PROVE  GoesForward
    <2>1. /\ chat'[c] = s /\ \A d \in Chat \ {c} : chat'[d] = chat[d]
          /\ InTurn(s)
          /\ chat[c].pc = "agent" /\ s.pc = "agent" => s = chat[c] \/ Advances(chat[c], s)
        BY <1>1 DEF ChatStep, TurnInv
    <2> QED BY <2>1 DEF GoesForward
<1>2. CASE UNCHANGED <<chat, queue>>
    BY <1>2 DEF GoesForward
<1>3. CASE chat' = [c \in Chat |-> Away] /\ queue' = <<>>
    BY <1>3, IsAway DEF GoesForward
<1> QED BY <1>1, <1>2, <1>3, EngineSteps

\* The bounds of the two loops are all that ends a turn whose model never stops
\* asking for tools.
THEOREM LoopsEnd == EngineSpec => TurnsGoForward
<1>1. TurnInv => TurnsAreCounted
    <2> SUFFICES ASSUME TurnInv, NEW c \in Chat, chat[c].pc = "agent"
                 PROVE  /\ chat[c].loops[1].turn <= SupTurns
                        /\ Len(chat[c].loops) = 2 => chat[c].loops[2].turn <= SubTurns
        BY DEF TurnsAreCounted
    <2>1. InTurn(chat[c])
        BY DEF TurnInv
    <2>2. CASE Supervises(chat[c])
        <3>1. PICK sup \in SupLoops : chat[c].loops = <<sup>>
            BY <2>2 DEF Supervises
        <3> QED BY <3>1 DEF SupLoops, Loops
    <2>3. CASE Delegates(chat[c])
        <3>1. PICK sup \in SupLoops, sub \in SubLoops : chat[c].loops = <<sup, sub>>
            BY <2>3 DEF Delegates
        <3> QED BY <3>1 DEF SupLoops, SubLoops, Loops
    <2> QED BY <2>1, <2>2, <2>3 DEF InTurn, Outside
<1> QED BY <1>1, TurnInitial, TurnInductive, ForwardStep, PTL DEF EngineSpec, TurnsGoForward

-----------------------------------------------------------------------------
(* The loop detector: what the breaker counts is repeated calls.             *)

LEMMA HasFirst ==
    ASSUME NEW n \in Nat, NEW T \in SUBSET (1 .. n), T # {}
    PROVE  \E i \in T : \A k \in T : i <= k
<1>1. T \subseteq Nat
    OBVIOUS
<1>2. PICK i \in T : \A k \in T : ~(<<k, i>> \in OpToRel(<, Nat))
    BY <1>1, NatLessThanWellFounded, WFMin
<1>3. \A k \in T : ~(k < i)
    BY <1>1, <1>2 DEF OpToRel
<1> QED BY <1>1, <1>3

\* The first alarm is the level of an element, if any raises one.
LEMMA AlarmOfOne ==
    ASSUME NEW n \in Nat, NEW levels, DOMAIN levels = 1 .. n
    PROVE  \/ FirstAlarm(levels) = "ok" /\ \A i \in 1 .. n : levels[i] = "ok"
           \/ \E i \in 1 .. n : levels[i] # "ok" /\ FirstAlarm(levels) = levels[i]
<1>1. PICK alarms \in SUBSET (1 .. n) : alarms = {i \in DOMAIN levels : levels[i] # "ok"}
    OBVIOUS
<1>2. CASE alarms = {}
    BY <1>1, <1>2 DEF FirstAlarm
<1>3. CASE alarms # {}
    <2>1. \E i \in alarms : \A k \in alarms : i <= k
        BY <1>3, HasFirst
    <2>2. PICK i : i = CHOOSE j \in alarms : \A k \in alarms : j <= k
        OBVIOUS
    <2>3. i \in alarms
        BY <2>1, <2>2
    <2>4. FirstAlarm(levels) = levels[i]
        BY <1>1, <1>3, <2>2 DEF FirstAlarm
    <2> QED BY <1>1, <2>3, <2>4
<1> QED BY <1>2, <1>3

\* It is the first element's, if that is one.
LEMMA AlarmAtOnce ==
    ASSUME NEW n \in Nat, NEW levels, DOMAIN levels = 1 .. n, 1 \in 1 .. n, levels[1] # "ok"
    PROVE  FirstAlarm(levels) = levels[1]
<1>1. PICK alarms \in SUBSET (1 .. n) : alarms = {i \in DOMAIN levels : levels[i] # "ok"}
    OBVIOUS
<1>2. 1 \in alarms /\ \A k \in alarms : 1 <= k
    BY <1>1
<1>3. PICK i : i = CHOOSE j \in alarms : \A k \in alarms : j <= k
    OBVIOUS
<1>4. i \in alarms /\ \A k \in alarms : i <= k
    BY <1>2, <1>3
<1>5. i = 1
    BY <1>2, <1>4
<1>6. FirstAlarm(levels) = levels[i]
    BY <1>1, <1>2, <1>3 DEF FirstAlarm
<1> QED BY <1>5, <1>6

LEMMA Grades ==
    ASSUME NEW count \in Nat
    PROVE  /\ Graded(count) = "circuit_breaker" <=> count >= Break
           /\ Graded(count) = "ok" <=> count < Warn
<1>1. /\ Warn \in Nat /\ Critical \in Nat /\ Break \in Nat
      /\ Warn < Critical /\ Critical < Break
    BY GuardAssumption
<1>2. CASE count >= Break
    <2>1. ~(count < Warn)
        BY <1>1, <1>2
    <2>2. Graded(count) = "circuit_breaker"
        BY <1>2 DEF Graded
    <2> QED BY <1>2, <2>1, <2>2
<1>3. CASE ~(count >= Break) /\ count >= Critical
    <2>1. ~(count < Warn)
        BY <1>1, <1>3
    <2>2. Graded(count) = "critical"
        BY <1>3 DEF Graded
    <2> QED BY <1>3, <2>1, <2>2
<1>4. CASE ~(count >= Break) /\ ~(count >= Critical) /\ count >= Warn
    <2>1. Graded(count) = "warning" /\ ~(count < Warn)
        BY <1>1, <1>4 DEF Graded
    <2> QED BY <1>4, <2>1
<1>5. CASE ~(count >= Break) /\ ~(count >= Critical) /\ ~(count >= Warn)
    <2>1. Graded(count) = "ok" /\ count < Warn
        BY <1>1, <1>5 DEF Graded
    <2> QED BY <1>5, <2>1
<1> QED BY <1>2, <1>3, <1>4, <1>5

\* The calls a detector looks at are no more than the window.
LEMMA WindowIsShort ==
    ASSUME NEW s \in Seq(ToolCall)
    PROVE  /\ LastOf(s, Window) \in Seq(ToolCall)
           /\ Len(LastOf(s, Window)) \in Nat
           /\ Len(LastOf(s, Window)) < Break
<1>1. Window \in Nat /\ Break \in Nat /\ Window < Break
    BY GuardAssumption
<1>2. CASE Len(s) <= Window
    BY <1>1, <1>2 DEF LastOf
<1>3. CASE Len(s) > Window
    <2>1. PICK m : m = Len(s) - Window + 1
        OBVIOUS
    <2>2. m \in Nat /\ m > 0 /\ Len(s) \in Nat /\ Len(s) - m + 1 = Window
        BY <1>1, <1>3, <2>1
    <2>3. /\ SubSeq(s, m, Len(s)) \in Seq(ToolCall)
          /\ Len(SubSeq(s, m, Len(s))) = IF m <= Len(s) THEN Len(s) - m + 1 ELSE 0
        BY <2>2, SubSeqProperties
    <2>4. LastOf(s, Window) = SubSeq(s, m, Len(s))
        BY <1>1, <1>3, <2>1 DEF LastOf
    <2>5. PICK size : size = Len(LastOf(s, Window))
        OBVIOUS
    <2>6. size \in Nat /\ size < Break
        BY <1>1, <2>2, <2>3, <2>4, <2>5
    <2> QED BY <2>3, <2>4, <2>5, <2>6
<1> QED BY <1>1, <1>2, <1>3

LEMMA PingPongNeverBreaks ==
    ASSUME recorded \in Seq(ToolCall)
    PROVE  PingPong # "circuit_breaker"
<1>1. PICK recent : recent = LastOf(recorded, Window)
    OBVIOUS
<1>2. Len(recent) \in Nat /\ Len(recent) < Break
    BY <1>1, WindowIsShort
<1>3. Break \in Nat
    BY GuardAssumption
<1>4. Graded(Len(recent)) # "circuit_breaker"
    BY <1>2, <1>3, Grades
<1> QED BY <1>1, <1>4 DEF PingPong

LEMMA PollNeverBreaks ==
    ASSUME recorded \in Seq(ToolCall)
    PROVE  PollNoProgress # "circuit_breaker"
<1> DEFINE recent == LastOf(recorded, Window)
           answered == {i \in DOMAIN recent : recent[i].result # NoResult}
           of(tool) == {i \in answered : recent[i].tool = tool}
           last(tool) == {i \in of(tool) : Cardinality({k \in of(tool) : k > i}) < Warn}
           same(tool) == Cardinality({recent[i].result : i \in last(tool)}) = 1
           level(tool) == IF Cardinality(of(tool)) >= LeastPolls /\ same(tool)
                          THEN Graded(Cardinality(of(tool))) ELSE "ok"
           levels == [i \in DOMAIN recent |->
                         IF i \in answered THEN level(recent[i].tool) ELSE "ok"]
<1>1. /\ recent \in Seq(ToolCall) /\ Len(recent) \in Nat /\ Len(recent) < Break
      /\ DOMAIN recent = 1 .. Len(recent) /\ Break \in Nat
    BY WindowIsShort, GuardAssumption
<1>2. ASSUME NEW tool
      PROVE  level(tool) # "circuit_breaker"
    <2>1. PICK at, size : at = of(tool) /\ size = Cardinality(at)
        OBVIOUS
    <2>2. at \subseteq 1 .. Len(recent)
        BY <1>1, <2>1
    <2>3. IsFiniteSet(1 .. Len(recent)) /\ Cardinality(1 .. Len(recent)) = Len(recent)
        <3>1. PICK n \in Nat : n = Len(recent)
            BY <1>1
        <3>2. IsFiniteSet(1 .. n) /\ Cardinality(1 .. n) = n
            BY FS_Interval
        <3> QED BY <3>1, <3>2
    <2>4. size \in Nat /\ size <= Len(recent)
        BY <2>1, <2>2, <2>3, FS_Subset, FS_CardinalityType
    <2>5. ~(size >= Break)
        BY <1>1, <2>4
    <2>6. Graded(size) # "circuit_breaker"
        BY <2>4, <2>5, Grades
    <2> QED BY <2>1, <2>6
<1>3. PollNoProgress = IF Cardinality(answered) < LeastPolls THEN "ok" ELSE FirstAlarm(levels)
    BY DEF PollNoProgress
<1>4. FirstAlarm(levels) # "circuit_breaker"
    <2> HIDE DEF level
    <2>1. PICK n, ls : n = Len(recent) /\ ls = levels
        OBVIOUS
    <2>2. n \in Nat /\ DOMAIN ls = 1 .. n /\ \A i \in 1 .. n : ls[i] # "circuit_breaker"
        BY <1>1, <1>2, <2>1
    <2>3. FirstAlarm(ls) # "circuit_breaker"
        BY <2>2, AlarmOfOne
    <2> QED BY <2>1, <2>3
<1> QED BY <1>3, <1>4

LEMMA RepeatsAreCounted ==
    ASSUME recorded \in Seq(ToolCall), NEW key
    PROVE  Repeats(key) \in Nat
<1>1. IsFiniteSet(1 .. Len(recorded)) /\ DOMAIN recorded = 1 .. Len(recorded)
    BY FS_Interval
<1>2. PICK at : at = {i \in DOMAIN recorded : Key(recorded[i]) = key}
    OBVIOUS
<1>3. IsFiniteSet(at)
    BY <1>1, <1>2, FS_Subset
<1>4. Cardinality(at) \in Nat
    BY <1>3, FS_CardinalityType
<1> QED BY <1>2, <1>4 DEF Repeats

\* Of the keys that were repeated one decides, if there is any.
LEMMA GenericIsOfOne ==
    ASSUME recorded \in Seq(ToolCall)
    PROVE  \/ /\ GenericRepeat = "ok"
              /\ \A i \in DOMAIN recorded : Repeats(Key(recorded[i])) < Warn
           \/ \E i \in DOMAIN recorded :
                 /\ Repeats(Key(recorded[i])) >= Warn
                 /\ GenericRepeat = Graded(Repeats(Key(recorded[i])))
<1>1. PICK n, levels : /\ n = Len(recorded)
                       /\ levels = [i \in DOMAIN recorded |-> Graded(Repeats(Key(recorded[i])))]
    OBVIOUS
<1>2. n \in Nat /\ DOMAIN recorded = 1 .. n /\ DOMAIN levels = 1 .. n
    BY <1>1
<1>3. ASSUME NEW i \in 1 .. n
      PROVE  /\ levels[i] = Graded(Repeats(Key(recorded[i])))
             /\ levels[i] = "ok" <=> Repeats(Key(recorded[i])) < Warn
             /\ levels[i] # "ok" => Repeats(Key(recorded[i])) >= Warn
    <2>1. PICK count : count = Repeats(Key(recorded[i]))
        OBVIOUS
    <2>2. count \in Nat /\ Warn \in Nat
        BY <2>1, RepeatsAreCounted, GuardAssumption
    <2>3. levels[i] = Graded(count)
        BY <1>1, <1>2, <2>1
    <2>4. Graded(count) = "ok" <=> count < Warn
        BY <2>2, Grades
    <2>5. ~(count < Warn) => count >= Warn
        BY <2>2
    <2> QED BY <2>1, <2>3, <2>4, <2>5
<1>4. GenericRepeat = FirstAlarm(levels)
    BY <1>1 DEF GenericRepeat
<1>5. CASE FirstAlarm(levels) = "ok" /\ \A i \in 1 .. n : levels[i] = "ok"
    BY <1>2, <1>3, <1>4, <1>5
<1>6. CASE \E i \in 1 .. n : levels[i] # "ok" /\ FirstAlarm(levels) = levels[i]
    BY <1>2, <1>3, <1>4, <1>6
<1> QED BY <1>2, <1>5, <1>6, AlarmOfOne

\* The detectors in their order.
LEMMA LoopsChecked ==
    ASSUME recorded \in Seq(ToolCall), Len(recorded) >= Least
    PROVE  /\ CheckLoops = "circuit_breaker" => GenericRepeat = "circuit_breaker"
           /\ GenericRepeat # "ok" => CheckLoops = GenericRepeat
<1>1. PICK g, p, q, levels : /\ g = GenericRepeat /\ p = PingPong /\ q = PollNoProgress
                             /\ levels = <<g, p, q>>
    OBVIOUS
<1>2. /\ DOMAIN levels = 1 .. 3 /\ 3 \in Nat /\ 1 \in 1 .. 3
      /\ levels[1] = g /\ levels[2] = p /\ levels[3] = q
    BY <1>1
<1>3. p # "circuit_breaker" /\ q # "circuit_breaker"
    BY <1>1, PingPongNeverBreaks, PollNeverBreaks
<1>4. CheckLoops = FirstAlarm(levels)
    <2>1. Len(recorded) \in Nat /\ Least \in Nat
        BY GuardAssumption
    <2> QED BY <1>1, <2>1 DEF CheckLoops
<1>5. ASSUME FirstAlarm(levels) = "circuit_breaker"
      PROVE  g = "circuit_breaker"
    <2>1. \E i \in 1 .. 3 : levels[i] = "circuit_breaker"
        BY <1>2, <1>5, AlarmOfOne
    <2> QED BY <1>2, <1>3, <2>1
<1>6. g # "ok" => FirstAlarm(levels) = g
    BY <1>2, AlarmAtOnce
<1> QED BY <1>1, <1>4, <1>5, <1>6

GuardInv == recorded \in Seq(ToolCall)

\* The circuit breaker, which aborts the turn, trips for nothing but a call that
\* was repeated Break times; a repeated call never goes unnoticed, and the only one
\* decides the level itself.
THEOREM BreakerIsHonest == GuardSpec => []BreakerMeansRepeats
<1>1. GuardInit => GuardInv
    BY DEF GuardInit, GuardInv
<1>2. GuardInv /\ [GuardNext]_guardVars => GuardInv'
    <2> SUFFICES ASSUME recorded \in Seq(ToolCall), [GuardNext]_guardVars
                 PROVE  recorded' \in Seq(ToolCall)
        BY DEF GuardInv
    <2>1. CASE RecordCall
        BY <2>1 DEF RecordCall
    <2>2. CASE ResetGuard
        BY <2>2 DEF ResetGuard
    <2>3. CASE UNCHANGED guardVars
        BY <2>3 DEF guardVars
    <2> QED BY <2>1, <2>2, <2>3 DEF GuardNext
<1>3. GuardInv => BreakerMeansRepeats
    <2> SUFFICES ASSUME recorded \in Seq(ToolCall)
                 PROVE  BreakerMeansRepeats
        BY DEF GuardInv
    <2> DEFINE repeated ==
            {k \in {Key(recorded[i]) : i \in DOMAIN recorded} : Repeats(k) >= Warn}
    <2>1. SUFFICES ASSUME Len(recorded) >= Least
                   PROVE  /\ CheckLoops = "circuit_breaker" =>
                                 \E k \in repeated : Repeats(k) >= Break
                          /\ repeated # {} => CheckLoops # "ok"
                          /\ \A k \in repeated :
                                repeated = {k} => CheckLoops = Graded(Repeats(k))
        BY DEF BreakerMeansRepeats
    <2>2. Warn \in Nat /\ Break \in Nat
        BY GuardAssumption
    <2>3. CASE /\ GenericRepeat = "ok"
               /\ \A i \in DOMAIN recorded : Repeats(Key(recorded[i])) < Warn
        <3>1. repeated = {}
            <4>1. SUFFICES ASSUME NEW i \in DOMAIN recorded, Repeats(Key(recorded[i])) >= Warn
                           PROVE  FALSE
                OBVIOUS
            <4>2. PICK count : count = Repeats(Key(recorded[i]))
                OBVIOUS
            <4>3. count \in Nat /\ count >= Warn /\ count < Warn
                BY <2>3, <4>1, <4>2, RepeatsAreCounted
            <4> QED BY <2>2, <4>3
        <3>2. CheckLoops # "circuit_breaker"
            BY <2>1, <2>3, LoopsChecked
        <3> QED BY <3>1, <3>2
    <2>4. CASE \E i \in DOMAIN recorded :
                  /\ Repeats(Key(recorded[i])) >= Warn
                  /\ GenericRepeat = Graded(Repeats(Key(recorded[i])))
        <3>1. PICK i \in DOMAIN recorded :
                  /\ Repeats(Key(recorded[i])) >= Warn
                  /\ GenericRepeat = Graded(Repeats(Key(recorded[i])))
            BY <2>4
        <3>2. PICK key, count : key = Key(recorded[i]) /\ count = Repeats(key)
            OBVIOUS
        <3>3. key \in repeated /\ count \in Nat /\ count >= Warn
            BY <3>1, <3>2, RepeatsAreCounted
        <3>4. Graded(count) # "ok"
            BY <2>2, <3>3, Grades
        <3>5. CheckLoops = Graded(count)
            BY <2>1, <3>1, <3>2, <3>4, LoopsChecked
        <3>6. CheckLoops = "circuit_breaker" => count >= Break
            BY <3>3, <3>5, Grades
        <3> QED BY <3>2, <3>3, <3>4, <3>5, <3>6
    <2> QED BY <2>3, <2>4, GenericIsOfOne
<1> QED BY <1>1, <1>2, <1>3, PTL DEF GuardSpec

-----------------------------------------------------------------------------
(* The budget: what remains in the tranches is what was not deducted.        *)

\* f gives what remains in the first tranches of s.
Sums(f, s, n) ==
    f = [i \in 0 .. n |-> IF i = 0 THEN 0 ELSE f[i - 1] + s[i]]

\* There is such a function, up to every tranche: the least one up to which there
\* is none would follow one up to which there is.
LEMMA SumsExist ==
    ASSUME NEW s \in Seq(Int)
    PROVE  \A n \in 0 .. Len(s) : \E f \in [0 .. n -> Int] : Sums(f, s, n)
<1>1. Len(s) \in Nat
    OBVIOUS
<1>2. PICK T : T = {n \in 0 .. Len(s) : ~(\E f \in [0 .. n -> Int] : Sums(f, s, n))}
    OBVIOUS
<1> T \subseteq Nat
    BY <1>1, <1>2
<1>3. SUFFICES ASSUME T # {}
               PROVE  FALSE
    BY <1>2
<1>4. PICK n \in T : \A k \in T : ~(<<k, n>> \in OpToRel(<, Nat))
    BY <1>3, NatLessThanWellFounded, WFMin
<1>5. n \in 0 .. Len(s) /\ \A k \in T : ~(k < n)
    BY <1>2, <1>4 DEF OpToRel
<1>6. CASE n = 0
    <2>1. PICK f : f = [i \in 0 .. 0 |-> 0]
        OBVIOUS
    <2>2. f \in [0 .. n -> Int] /\ Sums(f, s, n)
        BY <1>6, <2>1 DEF Sums
    <2> QED BY <1>2, <2>2
<1>7. CASE n # 0
    <2>1. PICK m : m = n - 1
        OBVIOUS
    <2>2. m \in 0 .. Len(s) /\ m \notin T /\ n = m + 1 /\ n \in 1 .. Len(s) /\ m \in Nat
        BY <1>1, <1>5, <1>7, <2>1
    <2>3. PICK g \in [0 .. m -> Int] : Sums(g, s, m)
        BY <1>2, <2>2
    <2>4. PICK f : f = [i \in 0 .. n |-> IF i = n THEN g[m] + s[n] ELSE g[i]]
        OBVIOUS
    <2>5. s[n] \in Int
        BY <2>2
    <2>6. f \in [0 .. n -> Int]
        BY <2>2, <2>3, <2>4, <2>5
    <2>7. \A i \in 0 .. m : g[i] = IF i = 0 THEN 0 ELSE g[i - 1] + s[i]
        BY <2>3 DEF Sums
    <2>8. ASSUME NEW i \in 0 .. n
          PROVE  f[i] = IF i = 0 THEN 0 ELSE f[i - 1] + s[i]
        <3>1. CASE i = n
            <4>1. f[i] = g[m] + s[n] /\ i # 0 /\ i - 1 = m /\ i - 1 \in 0 .. n /\ i - 1 # n
                BY <2>2, <2>4, <3>1
            <4>2. f[i - 1] = g[m]
                BY <2>4, <4>1
            <4> QED BY <3>1, <4>1, <4>2
        <3>2. CASE i # n
            <4>1. i \in 0 .. m /\ f[i] = g[i]
                BY <2>2, <2>4, <3>2
            <4>2. CASE i = 0
                BY <2>7, <4>1, <4>2
            <4>3. CASE i # 0
                <5>1. i - 1 \in 0 .. n /\ i - 1 # n
                    BY <2>2, <4>1, <4>3
                <5>2. f[i - 1] = g[i - 1]
                    BY <2>4, <5>1
                <5> QED BY <2>7, <4>1, <4>3, <5>2
            <4> QED BY <4>2, <4>3
        <3> QED BY <3>1, <3>2
    <2>9. Sums(f, s, n)
        <3>1. f = [i \in 0 .. n |-> f[i]]
            BY <2>4
        <3> QED BY <2>8, <3>1 DEF Sums
    <2> QED BY <1>2, <2>6, <2>9
<1> QED BY <1>6, <1>7

LEMMA SumsUnique ==
    ASSUME NEW n \in Nat, NEW s, NEW f, NEW g, Sums(f, s, n), Sums(g, s, n)
    PROVE  f = g
<1>1. PICK T : T = {i \in 0 .. n : f[i] # g[i]}
    OBVIOUS
<1>2. T \subseteq Nat
    BY <1>1
<1>3. ASSUME T # {}
      PROVE  FALSE
    <2>1. PICK i \in T : \A k \in T : ~(<<k, i>> \in OpToRel(<, Nat))
        BY <1>2, <1>3, NatLessThanWellFounded, WFMin
    <2>2. i \in 0 .. n /\ f[i] # g[i] /\ \A k \in T : ~(k < i)
        BY <1>1, <1>2, <2>1 DEF OpToRel
    <2>3. /\ f[i] = IF i = 0 THEN 0 ELSE f[i - 1] + s[i]
          /\ g[i] = IF i = 0 THEN 0 ELSE g[i - 1] + s[i]
        BY <2>2 DEF Sums
    <2>4. CASE i = 0
        BY <2>2, <2>3, <2>4
    <2>5. CASE i # 0
        <3>1. i - 1 \in 0 .. n /\ i - 1 < i
            BY <2>2, <2>5
        <3>2. f[i - 1] = g[i - 1]
            BY <1>1, <2>2, <3>1
        <3> QED BY <2>2, <2>3, <2>5, <3>2
    <2> QED BY <2>4, <2>5
<1>4. \A i \in 0 .. n : f[i] = g[i]
    BY <1>1, <1>3
<1>5. f = [i \in 0 .. n |-> f[i]] /\ g = [i \in 0 .. n |-> g[i]]
    BY DEF Sums
<1> QED BY <1>4, <1>5

LEMMA UpToSums ==
    ASSUME NEW s \in Seq(Int)
    PROVE  UpTo(s) \in [0 .. Len(s) -> Int] /\ Sums(UpTo(s), s, Len(s))
<1>1. Len(s) \in Nat /\ Len(s) \in 0 .. Len(s)
    OBVIOUS
<1>2. PICK f \in [0 .. Len(s) -> Int] : Sums(f, s, Len(s))
    BY <1>1, SumsExist
<1>3. UpTo(s) = CHOOSE g : Sums(g, s, Len(s))
    BY DEF UpTo, Sums
<1>4. Sums(UpTo(s), s, Len(s))
    BY <1>2, <1>3
<1>5. UpTo(s) = f
    BY <1>1, <1>2, <1>4, SumsUnique
<1> QED BY <1>2, <1>4, <1>5

\* Whatever adds up as the tranches do gives what remains of them.
LEMMA RemainingIs ==
    ASSUME NEW s \in Seq(Int), NEW f \in [0 .. Len(s) -> Int], f[0] = 0,
           \A i \in 1 .. Len(s) : f[i] = f[i - 1] + s[i]
    PROVE  Remaining(s) = f[Len(s)]
<1>1. Len(s) \in Nat
    OBVIOUS
<1>2. \A i \in 0 .. Len(s) : f[i] = IF i = 0 THEN 0 ELSE f[i - 1] + s[i]
    BY <1>1
<1>3. Sums(f, s, Len(s))
    BY <1>2 DEF Sums
<1>4. f = UpTo(s)
    BY <1>1, <1>3, UpToSums, SumsUnique
<1> QED BY <1>4 DEF Remaining

\* What the code does to the tranches, and what it does to what remains of them.
LEMMA UpToSteps ==
    ASSUME NEW s \in Seq(Int)
    PROVE  /\ UpTo(s) \in [0 .. Len(s) -> Int] /\ UpTo(s)[0] = 0
           /\ \A i \in 1 .. Len(s) :
                 i - 1 \in 0 .. Len(s) /\ UpTo(s)[i] = UpTo(s)[i - 1] + s[i]
           /\ Remaining(s) = UpTo(s)[Len(s)] /\ Remaining(s) \in Int
<1>1. PICK f, n : f = UpTo(s) /\ n = Len(s)
    OBVIOUS
<1>2. n \in Nat /\ f \in [0 .. n -> Int] /\ Sums(f, s, n)
    BY <1>1, UpToSums
<1>3. \A i \in 0 .. n : f[i] = IF i = 0 THEN 0 ELSE f[i - 1] + s[i]
    BY <1>2 DEF Sums
<1>4. f[0] = 0 /\ \A i \in 1 .. n : i - 1 \in 0 .. n /\ f[i] = f[i - 1] + s[i]
    BY <1>2, <1>3
<1>5. Remaining(s) = f[n] /\ f[n] \in Int
    BY <1>1, <1>2 DEF Remaining
<1> QED BY <1>1, <1>2, <1>4, <1>5

LEMMA EmptyRemains == Remaining(<<>>) = 0
<1>1. <<>> \in Seq(Int) /\ Len(<<>>) = 0
    OBVIOUS
<1> QED BY <1>1, UpToSteps

LEMMA TrancheAdded ==
    ASSUME NEW s \in Seq(Nat), NEW x \in Nat
    PROVE  Append(s, x) \in Seq(Nat) /\ Remaining(Append(s, x)) = Remaining(s) + x
<1>1. PICK n, f, t : n = Len(s) /\ f = UpTo(s) /\ t = Append(s, x)
    OBVIOUS
<1>2. /\ n \in Nat /\ t \in Seq(Nat) /\ Len(t) = n + 1 /\ t[n + 1] = x
      /\ \A i \in 1 .. n : t[i] = s[i]
    BY <1>1, AppendProperties
<1>3. s \in Seq(Int) /\ t \in Seq(Int)
    BY <1>2, SeqMonotonic
<1>4. /\ f \in [0 .. n -> Int] /\ f[0] = 0 /\ f[n] = Remaining(s)
      /\ \A i \in 1 .. n : i - 1 \in 0 .. n /\ f[i] = f[i - 1] + s[i]
    BY <1>1, <1>3, UpToSteps
<1>5. PICK g : g = [i \in 0 .. n + 1 |-> IF i = n + 1 THEN f[n] + x ELSE f[i]]
    OBVIOUS
<1>6. g \in [0 .. n + 1 -> Int] /\ g[0] = 0 /\ g[n + 1] = f[n] + x
    BY <1>2, <1>4, <1>5
<1>7. ASSUME NEW i \in 1 .. n + 1
      PROVE  g[i] = g[i - 1] + t[i]
    <2>1. CASE i = n + 1
        <3>1. i - 1 = n /\ n \in 0 .. n + 1 /\ n # n + 1
            BY <1>2, <2>1
        <3>2. g[n] = f[n]
            BY <1>5, <3>1
        <3> QED BY <1>2, <1>6, <2>1, <3>1, <3>2
    <2>2. CASE i # n + 1
        <3>1. i \in 1 .. n /\ i - 1 \in 0 .. n + 1 /\ i - 1 # n + 1 /\ i \in 0 .. n + 1
            BY <1>2, <2>2
        <3>2. g[i] = f[i] /\ g[i - 1] = f[i - 1]
            BY <1>5, <2>2, <3>1
        <3> QED BY <1>2, <1>4, <3>1, <3>2
    <2> QED BY <2>1, <2>2
<1>8. Remaining(t) = g[n + 1]
    BY <1>2, <1>3, <1>6, <1>7, RemainingIs
<1> QED BY <1>1, <1>2, <1>4, <1>6, <1>8

LEMMA DifferenceAdded ==
    \A before, left, new, d, after \in Int :
        after = before + left /\ d = new - left => after + d = before + new
OBVIOUS

LEMMA TrancheReplaced ==
    ASSUME NEW s \in Seq(Nat), NEW nr \in DOMAIN s, NEW x \in Nat
    PROVE  /\ [s EXCEPT ![nr] = x] \in Seq(Nat)
           /\ Remaining([s EXCEPT ![nr] = x]) = Remaining(s) + (x - s[nr])
<1>1. PICK n, f, t : n = Len(s) /\ f = UpTo(s) /\ t = [s EXCEPT ![nr] = x]
    OBVIOUS
<1>2. /\ n \in Nat /\ nr \in 1 .. n /\ t \in Seq(Nat) /\ Len(t) = n /\ t[nr] = x
      /\ \A i \in 1 .. n : i # nr => t[i] = s[i]
    BY <1>1
<1>3. s \in Seq(Int) /\ t \in Seq(Int)
    BY <1>2, SeqMonotonic
<1>4. /\ f \in [0 .. n -> Int] /\ f[0] = 0 /\ f[n] = Remaining(s)
      /\ \A i \in 1 .. n : i - 1 \in 0 .. n /\ f[i] = f[i - 1] + s[i]
    BY <1>1, <1>3, UpToSteps
<1>5. PICK d \in Int : d = x - s[nr]
    BY <1>1, <1>2, <1>3
<1>6. PICK g : g = [i \in 0 .. n |-> IF i < nr THEN f[i] ELSE f[i] + d]
    OBVIOUS
<1>7. /\ g \in [0 .. n -> Int]
      /\ \A i \in 0 .. n : g[i] = IF i < nr THEN f[i] ELSE f[i] + d
    BY <1>2, <1>4, <1>6
<1>8. g[0] = 0 /\ g[n] = f[n] + d
    <2>1. 0 \in 0 .. n /\ 0 < nr /\ n \in 0 .. n /\ ~(n < nr)
        BY <1>2
    <2> QED BY <1>4, <1>7, <2>1
<1>9. ASSUME NEW i \in 1 .. n
      PROVE  g[i] = g[i - 1] + t[i]
    <2>1. PICK before, after, left : before = f[i - 1] /\ after = f[i] /\ left = s[i]
        OBVIOUS
    <2>2. /\ before \in Int /\ left \in Int /\ after = before + left
          /\ after \in Int /\ x \in Int /\ d \in Int /\ i \in 0 .. n /\ i - 1 \in 0 .. n
        BY <1>1, <1>2, <1>3, <1>4, <2>1
    <2>3. /\ g[i] = IF i < nr THEN after ELSE after + d
          /\ g[i - 1] = IF i - 1 < nr THEN before ELSE before + d
        BY <1>7, <2>1, <2>2
    <2>4. CASE i < nr
        <3>1. i - 1 < nr /\ t[i] = left
            BY <1>2, <2>1, <2>4
        <3> QED BY <2>2, <2>3, <2>4, <3>1
    <2>5. CASE i = nr
        <3>1. i - 1 < nr /\ ~(i < nr) /\ t[i] = x /\ d = x - left
            BY <1>2, <1>5, <2>1, <2>5
        <3>2. g[i] = after + d /\ g[i - 1] = before
            BY <2>3, <3>1
        <3> QED BY <2>2, <3>1, <3>2, DifferenceAdded
    <2>6. CASE i > nr
        <3>1. nr \in Int /\ i \in Int
            BY <1>2
        <3>2. ~(i < nr) /\ ~(i - 1 < nr) /\ i # nr
            BY <2>6, <3>1
        <3>3. t[i] = left
            BY <1>2, <2>1, <3>2
        <3> QED BY <2>2, <2>3, <3>2, <3>3
    <2> QED BY <1>2, <2>4, <2>5, <2>6
<1>10. Remaining(t) = g[n]
    BY <1>2, <1>3, <1>7, <1>8, <1>9, RemainingIs
<1> QED BY <1>1, <1>2, <1>4, <1>5, <1>8, <1>10

\* An expense that the tranches cover is taken from them to the last rupiah, and
\* from none more than it holds.
LEMMA ExpenseDeducted ==
    ASSUME NEW s \in Seq(Nat), NEW x \in Nat, Remaining(s) >= x
    PROVE  Fifo(x, s) \in Seq(Nat) /\ Remaining(Fifo(x, s)) = Remaining(s) - x
<1>1. PICK n, f, t : n = Len(s) /\ f = UpTo(s) /\ t = Fifo(x, s)
    OBVIOUS
<1>2. n \in Nat /\ s \in Seq(Int) /\ DOMAIN s = 1 .. n
    BY <1>1, SeqMonotonic
<1>3. /\ f \in [0 .. n -> Int] /\ f[0] = 0 /\ f[n] = Remaining(s)
      /\ \A i \in 1 .. n : i - 1 \in 0 .. n /\ f[i] = f[i - 1] + s[i]
    BY <1>1, <1>2, UpToSteps
<1>4. t = [i \in 1 .. n |->
             s[i] - (IF x <= f[i - 1] THEN 0
                     ELSE IF x - f[i - 1] < s[i] THEN x - f[i - 1] ELSE s[i])]
    BY <1>1, <1>2 DEF Fifo
<1>5. PICK g : g = [i \in 0 .. n |-> IF f[i] <= x THEN 0 ELSE f[i] - x]
    OBVIOUS
<1>6. ASSUME NEW i \in 1 .. n
      PROVE  t[i] \in Nat /\ g[i] = g[i - 1] + t[i]
    <2>1. PICK before, after, left : before = f[i - 1] /\ after = f[i] /\ left = s[i]
        OBVIOUS
    <2>2. before \in Int /\ left \in Nat /\ after = before + left
        BY <1>1, <1>2, <1>3, <2>1
    <2>3. t[i] = left - (IF x <= before THEN 0
                         ELSE IF x - before < left THEN x - before ELSE left)
        BY <1>4, <2>1
    <2>4. /\ g[i] = IF after <= x THEN 0 ELSE after - x
          /\ g[i - 1] = IF before <= x THEN 0 ELSE before - x
        <3>1. i \in 0 .. n /\ i - 1 \in 0 .. n
            BY <1>2, <1>3
        <3>2. g[i] = IF f[i] <= x THEN 0 ELSE f[i] - x
            BY <1>5, <3>1
        <3>3. g[i - 1] = IF f[i - 1] <= x THEN 0 ELSE f[i - 1] - x
            BY <1>5, <3>1
        <3> QED BY <2>1, <3>2, <3>3
    <2>5. CASE x <= before
        BY <2>2, <2>3, <2>4, <2>5
    <2>6. CASE before < x /\ x - before < left
        BY <2>2, <2>3, <2>4, <2>6
    <2>7. CASE before < x /\ ~(x - before < left)
        BY <2>2, <2>3, <2>4, <2>7
    <2> QED BY <2>2, <2>5, <2>6, <2>7
<1>7. t \in Seq(Nat) /\ Len(t) = n
    BY <1>2, <1>4, <1>6
<1>8. t \in Seq(Int)
    BY <1>7, SeqMonotonic
<1>9. g \in [0 .. n -> Int] /\ g[0] = 0
    BY <1>2, <1>3, <1>5
<1>10. g[n] = f[n] - x
    <2>1. f[n] \in Int /\ f[n] >= x
        BY <1>2, <1>3
    <2>2. g[n] = IF f[n] <= x THEN 0 ELSE f[n] - x
        BY <1>2, <1>5
    <2> QED BY <2>1, <2>2
<1>11. Remaining(t) = g[n]
    BY <1>6, <1>7, <1>8, <1>9, RemainingIs
<1> QED BY <1>1, <1>3, <1>7, <1>10, <1>11

Order == [pc : {"idle", "saving", "writing", "paid", "unpaid"},
          op : {"none", "expense", "tranche", "replace"}, amount : Nat, nr : Nat,
          read : Seq(Nat), old : BOOLEAN]

\* A call on its way to write has read the text, and its change fits it.
Fits(o, text) ==
    /\ o.read = text /\ o.op # "none"
    /\ o.op = "expense" => Remaining(text) >= o.amount
    /\ o.op = "replace" => o.nr \in DOMAIN text

\* The text that was written last, which the file holds unless it is being
\* rewritten: it balances, and every call that will not be stale has read it.
Holds(text) ==
    /\ text \in Seq(Nat)
    /\ Remaining(text) = added - booked - unbooked
    /\ (\A t \in Payer : order[t].pc # "writing") => file = text
    /\ \A t \in Payer : order[t].pc \in {"saving", "writing"} /\ ~order[t].old =>
          Fits(order[t], text)

LedgerInv ==
    ~stale /\ ~wiped =>
        /\ order \in [Payer -> Order]
        /\ added \in Int /\ booked \in Int /\ unbooked \in Int
        /\ \E text : Holds(text)

LEMMA NothingOrdered == NoOrder \in Order /\ NoOrder.pc = "idle"
BY DEF NoOrder, Order

LEMMA LedgerInitial == LedgerInit => LedgerInv
<1> SUFFICES ASSUME LedgerInit
             PROVE  LedgerInv
    OBVIOUS
<1>1. /\ file = <<>> /\ order = [t \in Payer |-> NoOrder]
      /\ added = 0 /\ booked = 0 /\ unbooked = 0
    BY DEF LedgerInit
<1>2. Holds(<<>>)
    BY <1>1, NothingOrdered, EmptyRemains DEF Holds
<1>3. order \in [Payer -> Order]
    BY <1>1, NothingOrdered
<1> QED BY <1>1, <1>2, <1>3 DEF LedgerInv

\* A call begins: what it reads is the text, or the history says that it read
\* while another wrote.
LEMMA ReadKeeps ==
    ASSUME LedgerInv, NEW t \in Payer, NEW op \in {"expense", "tranche", "replace"},
           NEW amount \in Nat, NEW nr \in Nat, NEW place \in {"saving", "unpaid"},
           Read(t, op, amount, nr, place),
           op = "expense" /\ place = "saving" => Remaining(Tranches(file)) >= amount,
           op = "replace" => nr \in DOMAIN Tranches(file)
    PROVE  LedgerInv'
<1> SUFFICES ASSUME ~stale', ~wiped'
             PROVE  /\ order' \in [Payer -> Order]
                    /\ added' \in Int /\ booked' \in Int /\ unbooked' \in Int
                    /\ \E text : Holds(text)'
    BY DEF LedgerInv
<1>1. PICK o : o = [pc |-> place, op |-> op, amount |-> amount, nr |-> nr,
                    read |-> file, old |-> FALSE]
    OBVIOUS
<1>2. /\ order' = [order EXCEPT ![t] = o] /\ ~stale /\ ~wiped
      /\ \A u \in Payer : order[u].pc # "writing"
      /\ UNCHANGED <<file, added, booked, unbooked>>
    BY <1>1 DEF Read, sums
<1>3. /\ order \in [Payer -> Order]
      /\ added \in Int /\ booked \in Int /\ unbooked \in Int
    BY <1>2 DEF LedgerInv
<1>4. PICK text : Holds(text)
    BY <1>2 DEF LedgerInv
<1>5. file = text /\ text \in Seq(Nat)
    BY <1>2, <1>4 DEF Holds
<1>6. Tranches(file) = text
    BY <1>5, LedgerAssumption DEF Tranches
<1>7. /\ o \in Order /\ o.pc = place /\ o.op = op /\ o.amount = amount /\ o.nr = nr
      /\ o.read = text
    BY <1>1, <1>5 DEF Order
<1>8. /\ order' \in [Payer -> Order] /\ order'[t] = o
      /\ \A u \in Payer \ {t} : order'[u] = order[u]
    BY <1>2, <1>3, <1>7
<1>9. Remaining(text) = added' - booked' - unbooked' /\ file' = text
    BY <1>2, <1>4, <1>5 DEF Holds
<1>10. ASSUME NEW u \in Payer, order'[u].pc \in {"saving", "writing"}, ~order'[u].old
       PROVE  Fits(order'[u], text)
    <2>1. CASE u = t
        BY <1>6, <1>7, <1>8, <1>10, <2>1 DEF Fits
    <2>2. CASE u # t
        BY <1>4, <1>8, <1>10, <2>2 DEF Holds
    <2> QED BY <2>1, <2>2
<1>11. Holds(text)'
    BY <1>5, <1>9, <1>10 DEF Holds
<1> QED BY <1>2, <1>3, <1>8, <1>11

\* A write: of a call that is not stale, and then no other call's read counts.
LEMMA WriteKeeps ==
    ASSUME LedgerInv, NEW t \in Payer, Write(t)
    PROVE  LedgerInv'
<1> SUFFICES ASSUME ~stale', ~wiped'
             PROVE  /\ order' \in [Payer -> Order]
                    /\ added' \in Int /\ booked' \in Int /\ unbooked' \in Int
                    /\ \E text : Holds(text)'
    BY DEF LedgerInv
<1>1. PICK o, new : /\ o = order[t]
                    /\ new = CASE o.op = "expense" -> Fifo(o.amount, Tranches(o.read))
                               [] o.op = "tranche" -> Append(Tranches(o.read), o.amount)
                               [] o.op = "replace" -> [Tranches(o.read) EXCEPT ![o.nr] = o.amount]
    OBVIOUS
<1>2. /\ o.pc = "writing" /\ ~stale /\ ~wiped /\ ~o.old
      /\ file' = Updated(o.read, new)
      /\ order' = [u \in Payer |->
                     IF u = t
                     THEN IF o.op = "expense" THEN [o EXCEPT !.pc = "paid"] ELSE NoOrder
                     ELSE [order[u] EXCEPT !.old = order[u].pc # "idle"]]
      /\ added' = added + CASE o.op = "expense" -> 0
                            [] o.op = "tranche" -> o.amount
                            [] o.op = "replace" -> o.amount - Tranches(o.read)[o.nr]
      /\ unbooked' = unbooked + IF o.op = "expense" THEN o.amount ELSE 0
      /\ booked' = booked
    BY <1>1 DEF Write
<1>3. /\ order \in [Payer -> Order] /\ o \in Order
      /\ added \in Int /\ booked \in Int /\ unbooked \in Int
    BY <1>1, <1>2 DEF LedgerInv
<1>4. PICK text : Holds(text)
    BY <1>2 DEF LedgerInv
<1>5. /\ Fits(o, text) /\ text \in Seq(Nat)
      /\ Remaining(text) = added - booked - unbooked
    BY <1>1, <1>2, <1>4 DEF Holds
<1>6. Tranches(o.read) = text /\ file' = new /\ o.read = text /\ text # Empty
    BY <1>2, <1>5, LedgerAssumption DEF Tranches, Updated, Fits
<1>7. o.amount \in Nat /\ o.op \in {"expense", "tranche", "replace"}
    BY <1>3, <1>5 DEF Order, Fits
<1>8. booked' = booked
    BY <1>2
<1>9. /\ new \in Seq(Nat) /\ added' \in Int /\ unbooked' \in Int
      /\ Remaining(new) = added' - booked' - unbooked'
    <2>1. PICK amount, nr, rest, left : /\ amount = o.amount /\ nr = o.nr
                                        /\ rest = Remaining(text) /\ left = Remaining(new)
        OBVIOUS
    <2>2. rest \in Int /\ rest = added - booked - unbooked /\ amount \in Nat
        <3>1. text \in Seq(Int)
            BY <1>5, SeqMonotonic
        <3> QED BY <1>5, <1>7, <2>1, <3>1, UpToSteps
    <2>3. CASE o.op = "expense"
        <3>1. new = Fifo(amount, text) /\ rest >= amount
            BY <1>1, <1>5, <1>6, <2>1, <2>3 DEF Fits
        <3>2. new \in Seq(Nat) /\ left = rest - amount
            BY <1>5, <2>1, <2>2, <3>1, ExpenseDeducted
        <3>3. added' = added + 0 /\ unbooked' = unbooked + amount
            BY <1>2, <2>1, <2>3
        <3>4. /\ added' \in Int /\ unbooked' \in Int
              /\ left = added' - booked' - unbooked'
            BY <1>3, <1>8, <2>2, <3>2, <3>3
        <3> QED BY <2>1, <3>2, <3>4
    <2>4. CASE o.op = "tranche"
        <3>1. new = Append(text, amount)
            BY <1>1, <1>6, <2>1, <2>4
        <3>2. new \in Seq(Nat) /\ left = rest + amount
            BY <1>5, <2>1, <2>2, <3>1, TrancheAdded
        <3>3. added' = added + amount /\ unbooked' = unbooked + 0
            BY <1>2, <2>1, <2>4
        <3>4. /\ added' \in Int /\ unbooked' \in Int
              /\ left = added' - booked' - unbooked'
            BY <1>3, <1>8, <2>2, <3>2, <3>3
        <3> QED BY <2>1, <3>2, <3>4
    <2>5. CASE o.op = "replace"
        <3>1. new = [text EXCEPT ![nr] = amount] /\ nr \in DOMAIN text
            BY <1>1, <1>5, <1>6, <2>1, <2>5 DEF Fits
        <3>2. PICK old \in Nat : old = text[nr]
            BY <1>5, <3>1
        <3>3. new \in Seq(Nat) /\ left = rest + (amount - old)
            <4>1. /\ [text EXCEPT ![nr] = amount] \in Seq(Nat)
                  /\ Remaining([text EXCEPT ![nr] = amount])
                        = Remaining(text) + (amount - text[nr])
                BY <1>5, <2>2, <3>1, TrancheReplaced
            <4> QED BY <2>1, <3>1, <3>2, <4>1
        <3>4. added' = added + (amount - old) /\ unbooked' = unbooked + 0
            BY <1>2, <1>6, <2>1, <2>5, <3>2
        <3>5. PICK by \in Int : by = amount - old
            BY <2>2, <3>2
        <3>6. left = rest + by /\ added' = added + by /\ unbooked' = unbooked
            BY <1>3, <3>3, <3>4, <3>5
        <3>7. /\ added' \in Int /\ unbooked' \in Int
              /\ left = added' - booked' - unbooked'
            BY <1>3, <1>8, <2>2, <3>5, <3>6
        <3> QED BY <2>1, <3>3, <3>7
    <2> QED BY <1>7, <2>3, <2>4, <2>5
<1>10. /\ order'[t] \in Order /\ order'[t].pc \in {"paid", "idle"}
    <2>1. CASE o.op = "expense"
        <3>1. order'[t] = [o EXCEPT !.pc = "paid"]
            BY <1>2, <2>1
        <3> QED BY <1>3, <3>1 DEF Order
    <2>2. CASE o.op # "expense"
        <3>1. order'[t] = NoOrder
            BY <1>2, <2>2
        <3> QED BY <3>1, NothingOrdered
    <2> QED BY <2>1, <2>2
<1>11. ASSUME NEW u \in Payer \ {t}
       PROVE  /\ order'[u] \in Order /\ order'[u].pc = order[u].pc
              /\ order'[u].pc # "idle" => order'[u].old
    <2>1. order[u] \in Order /\ order'[u] = [order[u] EXCEPT !.old = order[u].pc # "idle"]
        BY <1>2, <1>3
    <2>2. (order[u].pc # "idle") \in BOOLEAN
        OBVIOUS
    <2> QED BY <2>1, <2>2 DEF Order
<1>12. order' \in [Payer -> Order]
    <2>1. \A u \in Payer : order'[u] \in Order
        BY <1>10, <1>11
    <2>2. order' = [u \in Payer |-> order'[u]]
        BY <1>2
    <2> QED BY <2>1, <2>2
<1>13. Holds(new)'
    <2>1. \A u \in Payer : ~(order'[u].pc \in {"saving", "writing"} /\ ~order'[u].old)
        BY <1>10, <1>11
    <2> QED BY <1>6, <1>9, <2>1 DEF Holds
<1> QED BY <1>3, <1>8, <1>9, <1>12, <1>13

LEMMA LedgerInductive == LedgerInv /\ [LedgerNext]_ledgerVars => LedgerInv'
<1> SUFFICES ASSUME LedgerInv, [LedgerNext]_ledgerVars
             PROVE  LedgerInv'
    OBVIOUS
\* Where an action leaves the file, or one call becomes another.
<1>1. ASSUME ~stale, ~wiped
      PROVE  /\ order \in [Payer -> Order]
             /\ added \in Int /\ booked \in Int /\ unbooked \in Int
             /\ \E text : Holds(text)
    BY <1>1 DEF LedgerInv
<1>2. ASSUME NEW t \in Payer, AddExpense(t)
      PROVE  LedgerInv'
    <2>1. PICK amount \in Amount :
              Read(t, "expense", amount, 0,
                   IF Remaining(Tranches(file)) >= amount THEN "saving" ELSE "unpaid")
        BY <1>2 DEF AddExpense
    <2>2. amount \in Nat
        BY LedgerAssumption
    <2>3. CASE Remaining(Tranches(file)) >= amount
        BY <2>1, <2>2, <2>3, ReadKeeps
    <2>4. CASE ~(Remaining(Tranches(file)) >= amount)
        BY <2>1, <2>2, <2>4, ReadKeeps
    <2> QED BY <2>3, <2>4
<1>3. ASSUME NEW t \in Payer, AddTranche(t)
      PROVE  LedgerInv'
    BY <1>3, ReadKeeps, LedgerAssumption DEF AddTranche
<1>4. ASSUME NEW t \in Payer, ReplaceTranche(t)
      PROVE  LedgerInv'
    <2>1. PICK amount \in Amount : \E nr \in DOMAIN Tranches(file) :
              Read(t, "replace", amount, nr, "saving")
        BY <1>4 DEF ReplaceTranche
    <2>2. PICK nr \in DOMAIN Tranches(file) : Read(t, "replace", amount, nr, "saving")
        BY <2>1
    <2>3. SUFFICES ASSUME ~stale', ~wiped'
                   PROVE  LedgerInv'
        BY DEF LedgerInv
    <2>4. ~stale /\ ~wiped /\ \A u \in Payer : order[u].pc # "writing"
        BY <2>2, <2>3 DEF Read
    <2>5. file \in Seq(Nat)
        BY <1>1, <2>4 DEF Holds
    <2>6. nr \in Nat
        <3>1. Tranches(file) \in Seq(Nat)
            BY <2>5 DEF Tranches
        <3> QED BY <3>1
    <2> QED BY <2>2, <2>6, ReadKeeps, LedgerAssumption
<1>5. ASSUME NEW t \in Payer, Truncate(t)
      PROVE  LedgerInv'
    <2>1. /\ order[t].pc = "saving" /\ order' = [order EXCEPT ![t].pc = "writing"]
          /\ UNCHANGED <<added, booked, unbooked, stale, wiped>>
        BY <1>5 DEF Truncate, sums
    <2>2. SUFFICES ASSUME ~stale, ~wiped
                   PROVE  /\ order' \in [Payer -> Order] /\ \E text : Holds(text)'
        BY <1>1, <2>1 DEF LedgerInv
    <2>3. PICK text : Holds(text)
        BY <1>1, <2>2
    <2>4. PICK o : o = [order[t] EXCEPT !.pc = "writing"]
        OBVIOUS
    <2>5. /\ o \in Order /\ o.pc = "writing" /\ o.op = order[t].op /\ o.amount = order[t].amount
          /\ o.nr = order[t].nr /\ o.read = order[t].read /\ o.old = order[t].old
        BY <1>1, <2>2, <2>4 DEF Order
    <2>6. /\ order' \in [Payer -> Order] /\ order'[t] = o
          /\ \A u \in Payer \ {t} : order'[u] = order[u]
        BY <1>1, <2>1, <2>2, <2>4, <2>5
    <2>7. ASSUME NEW u \in Payer, order'[u].pc \in {"saving", "writing"}, ~order'[u].old
          PROVE  Fits(order'[u], text)
        <3>1. CASE u = t
            <4>1. Fits(order[t], text)
                BY <2>1, <2>3, <2>5, <2>6, <2>7, <3>1 DEF Holds
            <4> QED BY <2>5, <2>6, <3>1, <4>1 DEF Fits
        <3>2. CASE u # t
            BY <2>3, <2>6, <2>7, <3>2 DEF Holds
        <3> QED BY <3>1, <3>2
    <2>8. Holds(text)'
        <3>1. text \in Seq(Nat) /\ Remaining(text) = added' - booked' - unbooked'
            BY <2>1, <2>3 DEF Holds
        <3>2. order'[t].pc = "writing"
            BY <2>5, <2>6
        <3> QED BY <2>7, <3>1, <3>2 DEF Holds
    <2> QED BY <2>6, <2>8
<1>6. ASSUME NEW t \in Payer, Write(t)
      PROVE  LedgerInv'
    BY <1>6, WriteKeeps
<1>7. ASSUME NEW t \in Payer, CreatePage(t)
      PROVE  LedgerInv'
    <2>1. PICK o : o = order[t]
        OBVIOUS
    <2>2. /\ o.pc \in {"paid", "unpaid"} /\ order' = [order EXCEPT ![t] = NoOrder]
          /\ \/ UNCHANGED <<booked, unbooked>>
             \/ booked' = booked + o.amount /\ unbooked' = unbooked - o.amount
          /\ UNCHANGED <<file, added, stale, wiped>>
        BY <1>7, <2>1 DEF CreatePage
    <2>3. SUFFICES ASSUME ~stale, ~wiped
                   PROVE  /\ order' \in [Payer -> Order]
                          /\ booked' \in Int /\ unbooked' \in Int
                          /\ \E text : Holds(text)'
        BY <1>1, <2>2 DEF LedgerInv
    <2>4. PICK text : Holds(text)
        BY <1>1, <2>3
    <2>5. o \in Order /\ o.amount \in Nat
        BY <1>1, <2>1, <2>3 DEF Order
    <2>6. /\ booked' \in Int /\ unbooked' \in Int
          /\ added - booked - unbooked = added' - booked' - unbooked'
        BY <1>1, <2>2, <2>3, <2>5
    <2>7. /\ order' \in [Payer -> Order] /\ order'[t] = NoOrder
          /\ \A u \in Payer \ {t} : order'[u] = order[u]
        BY <1>1, <2>2, <2>3, NothingOrdered
    <2>8. /\ \A u \in Payer : order'[u].pc \in {"saving", "writing"} => order'[u] = order[u]
          /\ (\A u \in Payer : order'[u].pc # "writing") => \A u \in Payer : order[u].pc # "writing"
        BY <2>1, <2>2, <2>7, NothingOrdered
    <2>9. Holds(text)'
        <3>1. text \in Seq(Nat) /\ Remaining(text) = added' - booked' - unbooked'
            BY <2>4, <2>6 DEF Holds
        <3>2. (\A u \in Payer : order'[u].pc # "writing") => file' = text
            BY <2>2, <2>4, <2>8 DEF Holds
        <3>3. \A u \in Payer : order'[u].pc \in {"saving", "writing"} /\ ~order'[u].old =>
                  Fits(order'[u], text)
            BY <2>4, <2>8 DEF Holds
        <3> QED BY <3>1, <3>2, <3>3 DEF Holds
    <2> QED BY <2>6, <2>7, <2>9
<1>8. ASSUME LedgerCrash
      PROVE  LedgerInv'
    <2>1. SUFFICES ASSUME ~stale', ~wiped'
                   PROVE  /\ order' \in [Payer -> Order]
                          /\ added' \in Int /\ booked' \in Int /\ unbooked' \in Int
                          /\ \E text : Holds(text)'
        BY DEF LedgerInv
    <2>2. /\ ~stale /\ ~wiped /\ \A t \in Payer : order[t].pc # "writing"
          /\ order' = [t \in Payer |-> NoOrder]
          /\ UNCHANGED <<file, added, booked, unbooked>>
        BY <1>8, <2>1 DEF LedgerCrash, sums
    <2>3. PICK text : Holds(text)
        BY <1>1, <2>2
    <2>4. \A t \in Payer : order'[t] = NoOrder /\ order'[t].pc = "idle"
        BY <2>2, NothingOrdered
    <2>5. Holds(text)'
        BY <2>2, <2>3, <2>4 DEF Holds
    <2>6. order' \in [Payer -> Order]
        BY <2>2, NothingOrdered
    <2> QED BY <1>1, <2>2, <2>5, <2>6
<1>9. ASSUME UNCHANGED ledgerVars
      PROVE  LedgerInv'
    BY <1>9 DEF ledgerVars, sums, LedgerInv, Holds
<1> QED BY <1>2, <1>3, <1>4, <1>5, <1>6, <1>7, <1>8, <1>9 DEF LedgerNext

\* Whenever no call is between its read and its write, what the tranches were worth
\* is what remains in them plus the expenses deducted, with a page and without, as
\* long as no two calls overlapped and no write was interrupted.
THEOREM MoneyAddsUp == LedgerSpec => []BudgetBalances
<1>1. LedgerInv => BudgetBalances
    <2> SUFFICES ASSUME LedgerInv, ~stale, ~wiped,
                        \A t \in Payer : order[t].pc \in {"idle", "unpaid", "paid"}
                 PROVE  file # Empty /\ Remaining(file) = added - booked - unbooked
        BY DEF BudgetBalances
    <2>1. PICK text : Holds(text)
        BY DEF LedgerInv
    <2>2. \A t \in Payer : order[t].pc # "writing"
        OBVIOUS
    <2> QED BY <2>1, <2>2, LedgerAssumption DEF Holds
<1> QED BY <1>1, LedgerInitial, LedgerInductive, PTL DEF LedgerSpec
=============================================================================
