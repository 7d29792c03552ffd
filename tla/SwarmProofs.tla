---------------------------- MODULE SwarmProofs ----------------------------
(***************************************************************************)
(* Proofs about SwarmBridge, for every number of agents and messages, every*)
(* expiry, cap, delay and clock.                                           *)
(***************************************************************************)
EXTENDS SwarmBridge, FiniteSetTheorems, TLAPS

----------------------------------------------------------------------------
(* The ledger's operations keep its type. *)

\* The sweep changes only states, and only from 'claimed' to 'expired'.
LEMMA SweptRows ==
    ASSUME LedgerTypeOK
    PROVE  /\ Swept \in [Agents -> [Msgs -> Row]]
           /\ \A a \in Agents, m \in Msgs :
                /\ Swept[a][m].tier = claims[a][m].tier
                /\ Swept[a][m].eta = claims[a][m].eta
                /\ Stale(claims, a, m) => Swept[a][m].state = "expired"
                /\ ~Stale(claims, a, m) => Swept[a][m] = claims[a][m]
<1>1. ASSUME NEW a \in Agents, NEW m \in Msgs
      PROVE  claims[a][m] \in Row
    BY DEF LedgerTypeOK
<1>2. ASSUME NEW a \in Agents, NEW m \in Msgs
      PROVE  [claims[a][m] EXCEPT !.state = "expired"] \in Row
    BY <1>1 DEF Row, ClaimStates
<1>3. Swept \in [Agents -> [Msgs -> Row]]
    BY <1>1, <1>2 DEF Swept
<1>4. ASSUME NEW a \in Agents, NEW m \in Msgs
      PROVE  Swept[a][m] = IF Stale(claims, a, m)
                           THEN [claims[a][m] EXCEPT !.state = "expired"]
                           ELSE claims[a][m]
    BY DEF Swept
<1>5. ASSUME NEW a \in Agents, NEW m \in Msgs
      PROVE  /\ Swept[a][m].tier = claims[a][m].tier
             /\ Swept[a][m].eta = claims[a][m].eta
             /\ Stale(claims, a, m) => Swept[a][m].state = "expired"
             /\ ~Stale(claims, a, m) => Swept[a][m] = claims[a][m]
    BY <1>1, <1>4 DEF Row
<1> QED BY <1>3, <1>5

\* The tier decide() gives is one of the four, and a sleep is a number.
LEMMA TierForType ==
    ASSUME NEW a \in Agents, NEW m \in Msgs
    PROVE  TierFor(a, m) \in 0..3
BY DEF TierFor

LEMMA InitTypeOK == BridgeInit => TypeOK
<1> SUFFICES ASSUME BridgeInit PROVE TypeOK
    OBVIOUS
<1>1. NoRow \in Row
    BY DEF NoRow, Row, ClaimStates
<1>2. LedgerTypeOK
    BY <1>1 DEF BridgeInit, LedgerInit, LedgerTypeOK
<1>3. MaxFaults \in Nat
    BY BridgeAssumption
<1> QED BY <1>2, <1>3 DEF BridgeInit, TypeOK, Steps

LEMMA NextTypeOK == TypeOK /\ [Next]_vars => TypeOK'
<1> SUFFICES ASSUME TypeOK, [Next]_vars PROVE TypeOK'
    OBVIOUS
<1> USE DEF TypeOK
<1>1. ASSUME NEW a \in Agents, NEW m \in Msgs
      PROVE  claims[a][m] \in Row
    BY DEF LedgerTypeOK
<1>2. ASSUME NEW a \in Agents, NEW m \in Msgs, NEW step \in Steps, Goto(a, m, step)
      PROVE  pc' \in [Agents -> [Msgs -> Steps]]
    BY <1>2 DEF Goto
<1>3. Fault => faults' \in 0..MaxFaults
    BY BridgeAssumption DEF Fault
<1>4. ASSUME NEW a \in Agents, NEW m \in Msgs, NEW t \in 0..3, NEW e \in Nat,
             ClaimReply(a, m, t, e)
      PROVE  claims' \in [Agents -> [Msgs -> Row]] /\ lapsed' = lapsed
    <2>1. [state |-> "claimed", tier |-> t, eta |-> e, created |-> now] \in Row
        BY DEF Row, ClaimStates, LedgerTypeOK
    <2> QED BY <1>4, <2>1 DEF ClaimReply, LedgerTypeOK
<1>5. ASSUME NEW a \in Agents, NEW m \in Msgs, NEW s \in ClaimStates
      PROVE  [claims EXCEPT ![a][m].state = s] \in [Agents -> [Msgs -> Row]]
    <2>1. [claims[a][m] EXCEPT !.state = s] \in Row
        BY <1>1 DEF Row
    <2>2. [claims[a] EXCEPT ![m] = [claims[a][m] EXCEPT !.state = s]] \in [Msgs -> Row]
        BY <2>1 DEF LedgerTypeOK
    <2> QED BY <2>2 DEF LedgerTypeOK
<1>6. ASSUME NEW a \in Agents, NEW m \in Msgs, CancelClaim(a, m)
      PROVE  claims' \in [Agents -> [Msgs -> Row]] /\ lapsed' = lapsed
    BY <1>5, <1>6 DEF CancelClaim, LedgerTypeOK, ClaimStates
<1>7. ASSUME NEW a \in Agents, NEW m \in Msgs, Decide(a, m) PROVE TypeOK'
    <2>1. PICK d \in Delays[TierFor(a, m)] : ClaimReply(a, m, TierFor(a, m), now + d)
        BY <1>7 DEF Decide
    <2>2. TierFor(a, m) \in 1..3
        BY <1>7, TierForType DEF Decide
    <2>3. now + d \in Nat
        BY <2>2, BridgeAssumption DEF LedgerTypeOK
    <2>4. claims' \in [Agents -> [Msgs -> Row]] /\ lapsed' = lapsed
        BY <1>4, <2>1, <2>2, <2>3
    <2>5. pc' \in [Agents -> [Msgs -> Steps]]
        BY <1>2, <1>7 DEF Decide, Steps
    <2> QED BY <1>7, <2>4, <2>5 DEF Decide, LedgerTypeOK
<1>8. ASSUME NEW a \in Agents, NEW m \in Msgs, DecideOwned(a, m) PROVE TypeOK'
    <2>1. claims' \in [Agents -> [Msgs -> Row]] /\ lapsed' = lapsed
        BY <1>4, <1>8 DEF DecideOwned, LedgerTypeOK
    <2>2. pc' \in [Agents -> [Msgs -> Steps]]
        BY <1>2, <1>8 DEF DecideOwned, Steps
    <2> QED BY <1>8, <2>1, <2>2 DEF DecideOwned, LedgerTypeOK
<1>9. ASSUME NEW a \in Agents, NEW m \in Msgs, Recheck(a, m) PROVE TypeOK'
    <2>1. CASE CancelClaim(a, m) /\ Goto(a, m, "done") /\ avoided' = avoided + 1
        BY <1>2, <1>6, <1>9, <2>1 DEF Recheck, Steps, LedgerTypeOK
    <2>2. CASE Goto(a, m, "rechecked") /\ UNCHANGED <<claims, lapsed, avoided>>
        BY <1>2, <1>9, <2>2 DEF Recheck, Steps, LedgerTypeOK
    <2> QED BY <1>9, <2>1, <2>2 DEF Recheck
<1>10. ASSUME NEW a \in Agents, NEW m \in Msgs, Arbitrate(a, m) PROVE TypeOK'
    <2>1. claims' \in [Agents -> [Msgs -> Row]] /\ lapsed' \subseteq Agents \X Msgs
        BY <1>10, SweptRows DEF Arbitrate, CanSendClaim, LedgerTypeOK
    <2>2. pc' \in [Agents -> [Msgs -> Steps]]
        BY <1>2, <1>10 DEF Arbitrate, Steps
    <2> QED BY <1>10, <2>1, <2>2 DEF Arbitrate, LedgerTypeOK
<1>11. ASSUME NEW a \in Agents, NEW m \in Msgs, StandDown(a, m) PROVE TypeOK'
    BY <1>2, <1>6, <1>11 DEF StandDown, Steps, LedgerTypeOK
<1>12. ASSUME NEW a \in Agents, NEW m \in Msgs, Pass(a, m) PROVE TypeOK'
    BY <1>2, <1>6, <1>12 DEF Pass, Steps, LedgerTypeOK
<1>13. ASSUME NEW a \in Agents, NEW m \in Msgs, Post(a, m) PROVE TypeOK'
    BY <1>2, <1>13 DEF Post, Steps, LedgerTypeOK, ledgerVars
<1>14. ASSUME NEW a \in Agents, NEW m \in Msgs, PostRefused(a, m) PROVE TypeOK'
    BY <1>2, <1>3, <1>14 DEF PostRefused, Steps, LedgerTypeOK, ledgerVars
<1>15. ASSUME NEW a \in Agents, NEW m \in Msgs, Abandon(a, m) PROVE TypeOK'
    BY <1>2, <1>3, <1>15 DEF Abandon, Steps, LedgerTypeOK, ledgerVars
<1>16. ASSUME NEW a \in Agents, NEW m \in Msgs, Settle(a, m) PROVE TypeOK'
    <2>1. claims' \in [Agents -> [Msgs -> Row]] /\ lapsed' = lapsed
        BY <1>5, <1>16 DEF Settle, MarkSent, ClaimStates
    <2>2. pc' \in [Agents -> [Msgs -> Steps]]
        BY <1>2, <1>16 DEF Settle, Steps
    <2> QED BY <1>16, <2>1, <2>2 DEF Settle, LedgerTypeOK
<1>17. ASSUME NEW a \in Agents, Crash(a) PROVE TypeOK'
    <2>1. pc' \in [Agents -> [Msgs -> Steps]]
        BY <1>17 DEF Crash, Steps
    <2> QED BY <1>3, <1>17, <2>1 DEF Crash, LedgerTypeOK, ledgerVars
<1>18. CASE Tick
    BY <1>18 DEF Tick, LedgerTypeOK
<1>19. CASE UNCHANGED vars
    BY <1>19 DEF vars, LedgerTypeOK
<1> QED
    BY <1>7, <1>8, <1>9, <1>10, <1>11, <1>12, <1>13, <1>14, <1>15, <1>16, <1>17,
       <1>18, <1>19 DEF Next, Handle

\* Type correctness of the ledger and of every handler.
THEOREM TypeCorrect == Spec => []TypeOK
<1> QED BY InitTypeOK, NextTypeOK, PTL DEF Spec

----------------------------------------------------------------------------
(* What each step does to the handler it belongs to, and to the others. *)

OneHandlerStep(a, m) ==
    \/ Decide(a, m) \/ DecideOwned(a, m) \/ Recheck(a, m) \/ StandDown(a, m)
    \/ Pass(a, m) \/ Post(a, m) \/ PostRefused(a, m) \/ Abandon(a, m)
    \/ Settle(a, m)

\* Every step of a handler but the arbitration leaves the other handlers, their
\* rows and the clock alone, and expires nothing.
LEMMA OthersUntouched ==
    ASSUME TypeOK, NEW a \in Agents, NEW m \in Msgs, OneHandlerStep(a, m)
    PROVE  /\ now' = now
           /\ lapsed' = lapsed
           /\ \A b \in Agents, n \in Msgs : <<b, n>> # <<a, m>> =>
                /\ claims'[b][n] = claims[b][n]
                /\ pc'[b][n] = pc[b][n]
                /\ <<b, n>> \in delivered' <=> <<b, n>> \in delivered
<1> USE DEF TypeOK, LedgerTypeOK
<1>1. ASSUME NEW step, Goto(a, m, step), NEW b \in Agents, NEW n \in Msgs,
             <<b, n>> # <<a, m>>
      PROVE  pc'[b][n] = pc[b][n]
    BY <1>1 DEF Goto
<1>2. ASSUME NEW b \in Agents, NEW n \in Msgs, <<b, n>> # <<a, m>>, NEW r
      PROVE  [claims EXCEPT ![a][m] = r][b][n] = claims[b][n]
    BY <1>2
<1>3. ASSUME NEW t, NEW e, ClaimReply(a, m, t, e)
      PROVE  /\ lapsed' = lapsed
             /\ \A b \in Agents, n \in Msgs : <<b, n>> # <<a, m>> =>
                    claims'[b][n] = claims[b][n]
    BY <1>2, <1>3 DEF ClaimReply
<1>4. ASSUME CancelClaim(a, m)
      PROVE  /\ lapsed' = lapsed
             /\ \A b \in Agents, n \in Msgs : <<b, n>> # <<a, m>> =>
                    claims'[b][n] = claims[b][n]
    BY <1>2, <1>4 DEF CancelClaim
<1>5. CASE Decide(a, m)
    BY <1>1, <1>3, <1>5 DEF Decide
<1>6. CASE DecideOwned(a, m)
    BY <1>1, <1>3, <1>6 DEF DecideOwned
<1>7. CASE Recheck(a, m)
    BY <1>1, <1>4, <1>7 DEF Recheck
<1>8. CASE StandDown(a, m)
    BY <1>1, <1>4, <1>8 DEF StandDown
<1>9. CASE Pass(a, m)
    BY <1>1, <1>4, <1>9 DEF Pass
<1>10. CASE Post(a, m)
    BY <1>1, <1>10 DEF Post, ledgerVars
<1>11. CASE PostRefused(a, m) \/ Abandon(a, m)
    BY <1>1, <1>11 DEF PostRefused, Abandon, ledgerVars
<1>12. CASE Settle(a, m)
    BY <1>1, <1>2, <1>12 DEF Settle, MarkSent
<1> QED
    BY <1>5, <1>6, <1>7, <1>8, <1>9, <1>10, <1>11, <1>12 DEF OneHandlerStep

\* A cancelled row keeps its other columns, and only a 'claimed' row is.
LEMMA CancelRow ==
    ASSUME TypeOK, NEW a \in Agents, NEW m \in Msgs, CancelClaim(a, m)
    PROVE  /\ claims'[a][m].tier = claims[a][m].tier
           /\ claims'[a][m].eta = claims[a][m].eta
           /\ claims'[a][m].state # "claimed"
           /\ claims'[a][m].state = "sent" => claims[a][m].state = "sent"
<1>1. claims[a][m] \in Row
    BY DEF TypeOK, LedgerTypeOK
<1>2. CASE claims[a][m].state = "claimed"
    <2>1. claims'[a][m] = [claims[a][m] EXCEPT !.state = "cancelled"]
        BY <1>2 DEF CancelClaim, TypeOK, LedgerTypeOK
    <2> QED BY <1>1, <2>1 DEF Row
<1>3. CASE claims[a][m].state # "claimed"
    BY <1>3 DEF CancelClaim
<1> QED BY <1>2, <1>3

\* A first claim writes the row it is given.
LEMMA ClaimRow ==
    ASSUME TypeOK, NEW a \in Agents, NEW m \in Msgs, NEW STATE t, NEW STATE e,
           claims[a][m] = NoRow, ClaimReply(a, m, t, e)
    PROVE  /\ claims'[a][m].state = "claimed"
           /\ claims'[a][m].tier = t
           /\ claims'[a][m].eta = e
BY DEF ClaimReply, NoRow, TypeOK, LedgerTypeOK

\* A marked row keeps its other columns.
LEMMA MarkRow ==
    ASSUME TypeOK, NEW a \in Agents, NEW m \in Msgs, MarkSent(a, m)
    PROVE  /\ claims'[a][m].tier = claims[a][m].tier
           /\ claims'[a][m].eta = claims[a][m].eta
           /\ claims'[a][m].state = "sent"
<1>1. claims[a][m] \in Row
    BY DEF TypeOK, LedgerTypeOK
<1>2. claims'[a][m] = [claims[a][m] EXCEPT !.state = "sent"]
    BY DEF MarkSent, TypeOK, LedgerTypeOK
<1> QED BY <1>1, <1>2 DEF Row

\* The arbitration moves one handler.
LEMMA ArbitrateMoves ==
    ASSUME TypeOK, NEW a \in Agents, NEW m \in Msgs, Arbitrate(a, m)
    PROVE  /\ now' = now
           /\ delivered' = delivered
           /\ claims' = Swept
           /\ pc[a][m] = "rechecked"
           /\ pc'[a][m] \in {"composing", "losing"}
           /\ pc'[a][m] = "composing" => MayAnswer(Swept, a, m, TierFor(a, m))
           /\ \A b \in Agents, n \in Msgs :
                <<b, n>> # <<a, m>> => pc'[b][n] = pc[b][n]
<1>1. claims' = Swept /\ now' = now /\ delivered' = delivered
    BY DEF Arbitrate, CanSendClaim
<1>2. ASSUME NEW b \in Agents, NEW n \in Msgs, <<b, n>> # <<a, m>>
      PROVE  pc'[b][n] = pc[b][n]
    BY <1>2 DEF Arbitrate, Goto, TypeOK
<1>3. /\ pc[a][m] = "rechecked"
      /\ pc'[a][m] = IF MayAnswer(Swept, a, m, TierFor(a, m))
                     THEN "composing" ELSE "losing"
    BY DEF Arbitrate, Goto, At, TypeOK
<1> QED BY <1>1, <1>2, <1>3

\* The arbitration sweeps every row: it expires the stale ones and leaves the rest.
LEMMA ArbitrateSweeps ==
    ASSUME TypeOK, NEW a \in Agents, NEW m \in Msgs, Arbitrate(a, m),
           NEW b \in Agents, NEW n \in Msgs
    PROVE  /\ claims'[b][n].tier = claims[b][n].tier
           /\ claims'[b][n].eta = claims[b][n].eta
           /\ <<b, n>> \in lapsed => <<b, n>> \in lapsed'
           /\ \/ claims'[b][n] = claims[b][n]
              \/ /\ claims[b][n].state = "claimed"
                 /\ claims'[b][n].state = "expired"
                 /\ <<b, n>> \in lapsed'
<1>1. claims' = Swept
    BY DEF Arbitrate, CanSendClaim
<1>2. <<b, n>> \in lapsed' <=> <<b, n>> \in lapsed \/ Stale(claims, b, n)
    BY DEF Arbitrate, CanSendClaim
<1>3. Stale(claims, b, n) => claims[b][n].state = "claimed"
    BY DEF Stale
<1> QED BY <1>1, <1>2, <1>3, SweptRows DEF TypeOK

----------------------------------------------------------------------------
(* The inductive invariant: rows follow handlers. *)

LEMMA RowsStep == TypeOK /\ RowsFollowHandlers /\ [Next]_vars => RowsFollowHandlers'
<1> SUFFICES ASSUME TypeOK, RowsFollowHandlers, [Next]_vars
             PROVE  RowsFollowHandlers'
    OBVIOUS
<1> DEFINE
      Live == {"waiting", "rechecked", "losing", "composing", "posted"}
      Good(b, n) ==
        /\ At(b, n, "idle") => claims[b][n] = NoRow
        /\ pc[b][n] \in Live => claims[b][n].state = "claimed" \/ <<b, n>> \in lapsed
        /\ pc[b][n] \in {"waiting", "rechecked"} => claims[b][n].tier = TierFor(b, n)
<1>1. \A b \in Agents, n \in Msgs : Good(b, n)
    BY DEF RowsFollowHandlers
<1>2. SUFFICES ASSUME NEW b \in Agents, NEW n \in Msgs PROVE Good(b, n)'
    BY DEF RowsFollowHandlers
<1>3. ASSUME claims'[b][n] = claims[b][n], pc'[b][n] = pc[b][n],
             <<b, n>> \in lapsed => <<b, n>> \in lapsed'
      PROVE  Good(b, n)'
    BY <1>1, <1>3 DEF At, TierFor
<1>4. ASSUME NEW a \in Agents, NEW m \in Msgs, OneHandlerStep(a, m)
      PROVE  Good(b, n)'
    <2>1. CASE <<b, n>> # <<a, m>>
        BY <1>3, <1>4, <2>1, OthersUntouched
    <2>2. CASE <<b, n>> = <<a, m>>
        <3> b = a /\ n = m
            BY <2>2
        <3> lapsed' = lapsed
            BY <1>4, OthersUntouched
        <3>0. ASSUME NEW step \in Steps, Goto(a, m, step) PROVE pc'[a][m] = step
            BY <3>0 DEF Goto, TypeOK
        <3>1. CASE Decide(a, m)
            <4>1. PICK d \in Delays[TierFor(a, m)] :
                    ClaimReply(a, m, TierFor(a, m), now + d)
                BY <3>1 DEF Decide
            <4>a. claims[a][m] = NoRow
                BY <3>1 DEF Decide, RowsFollowHandlers
            <4>2. claims'[a][m].state = "claimed" /\ claims'[a][m].tier = TierFor(a, m)
                BY <4>1, <4>a, ClaimRow
            <4>3. pc'[a][m] = "waiting"
                BY <3>0, <3>1 DEF Decide, Steps
            <4> QED BY <4>2, <4>3 DEF At, TierFor
        <3>2. CASE DecideOwned(a, m)
            <4>a. claims[a][m] = NoRow
                BY <3>2 DEF DecideOwned, RowsFollowHandlers
            <4>1. claims'[a][m].state = "claimed"
                BY <3>2, <4>a, ClaimRow DEF DecideOwned
            <4>2. pc'[a][m] = "composing"
                BY <3>0, <3>2 DEF DecideOwned, Steps
            <4> QED BY <4>1, <4>2 DEF At
        <3>3. CASE pc'[a][m] = "done"
            BY <3>3 DEF At
        <3>4. CASE Recheck(a, m)
            <4>1. CASE Goto(a, m, "done")
                BY <3>0, <3>3, <4>1 DEF Steps
            <4>2. CASE Goto(a, m, "rechecked") /\ UNCHANGED claims
                BY <1>1, <3>0, <3>4, <4>2 DEF Recheck, Steps, At, TierFor
            <4> QED BY <3>4, <4>1, <4>2 DEF Recheck
        <3>5. CASE StandDown(a, m) \/ Pass(a, m) \/ Abandon(a, m) \/ Settle(a, m)
            BY <3>0, <3>3, <3>5 DEF StandDown, Pass, Abandon, Settle, Steps
        <3>6. CASE Post(a, m) \/ PostRefused(a, m)
            <4>1. pc'[a][m] = "posted" /\ pc[a][m] = "composing" /\ claims' = claims
                BY <3>0, <3>6 DEF Post, PostRefused, Steps, At, ledgerVars
            <4> QED BY <1>1, <4>1 DEF At
        <3> QED BY <1>4, <3>1, <3>2, <3>4, <3>5, <3>6 DEF OneHandlerStep
    <2> QED BY <2>1, <2>2
<1>5. ASSUME NEW a \in Agents, NEW m \in Msgs, Arbitrate(a, m) PROVE Good(b, n)'
    <2>1. CASE <<b, n>> # <<a, m>>
        <3>1. pc'[b][n] = pc[b][n]
            BY <1>5, <2>1, ArbitrateMoves
        <3>2. CASE claims'[b][n] = claims[b][n]
            BY <1>3, <1>5, <3>1, <3>2, ArbitrateSweeps
        <3>3. CASE claims[b][n].state = "claimed" /\ <<b, n>> \in lapsed'
            <4>1. claims[b][n] # NoRow
                BY <3>3 DEF NoRow
            <4>2. claims'[b][n].tier = claims[b][n].tier
                BY <1>5, ArbitrateSweeps
            <4> QED BY <1>1, <3>1, <3>3, <4>1, <4>2 DEF At, TierFor
        <3> QED BY <1>5, <3>2, <3>3, ArbitrateSweeps
    <2>2. CASE <<b, n>> = <<a, m>>
        <3>1. b = a /\ n = m /\ pc[a][m] = "rechecked"
                /\ pc'[a][m] \in {"composing", "losing"}
            BY <1>5, <2>2, ArbitrateMoves
        <3>2. claims[a][m].state = "claimed" \/ <<a, m>> \in lapsed
            BY <1>1, <3>1
        <3>3. claims'[a][m].state = "claimed" \/ <<a, m>> \in lapsed'
            BY <1>5, <3>2, ArbitrateSweeps
        <3> QED BY <3>1, <3>3 DEF At
    <2> QED BY <2>1, <2>2
<1>6. ASSUME NEW a \in Agents, Crash(a) PROVE Good(b, n)'
    <2>1. claims' = claims /\ lapsed' = lapsed
        BY <1>6 DEF Crash, ledgerVars
    <2>2. pc'[b][n] = pc[b][n] \/ pc'[b][n] = "done"
        BY <1>6 DEF Crash, TypeOK
    <2> QED BY <1>1, <2>1, <2>2 DEF At, TierFor
<1>7. CASE Tick \/ UNCHANGED vars
    BY <1>3, <1>7 DEF Tick, vars
<1> QED
    BY <1>4, <1>5, <1>6, <1>7 DEF Next, Handle, OneHandlerStep

----------------------------------------------------------------------------
(* The inductive invariant: replies follow etas. *)

LEMMA EtasStep ==
    TypeOK /\ RowsFollowHandlers /\ RepliesFollowEtas /\ [Next]_vars
        => RepliesFollowEtas'
<1> SUFFICES ASSUME TypeOK, RowsFollowHandlers, RepliesFollowEtas, [Next]_vars
             PROVE  RepliesFollowEtas'
    OBVIOUS
<1> DEFINE
      Past == {"rechecked", "losing", "composing", "posted"}
      Timely(b, n) ==
        /\ pc[b][n] \in Past => claims[b][n].eta <= now
        /\ <<b, n>> \in delivered =>
              /\ pc[b][n] \in {"posted", "done"}
              /\ claims[b][n].eta <= now
              /\ claims[b][n].state \in {"claimed", "sent"} \/ <<b, n>> \in lapsed
<1>1. \A b \in Agents, n \in Msgs : Timely(b, n)
    BY DEF RepliesFollowEtas
<1>2. SUFFICES ASSUME NEW b \in Agents, NEW n \in Msgs PROVE Timely(b, n)'
    BY DEF RepliesFollowEtas
<1>t. claims[b][n].eta \in Nat /\ now \in Nat
    BY DEF TypeOK, LedgerTypeOK, Row
<1>3. ASSUME NEW a \in Agents, NEW m \in Msgs, OneHandlerStep(a, m)
      PROVE  Timely(b, n)'
    <2>1. CASE <<b, n>> # <<a, m>>
        BY <1>1, <1>3, <2>1, OthersUntouched
    <2>2. CASE <<b, n>> = <<a, m>>
        <3> b = a /\ n = m
            BY <2>2
        <3> lapsed' = lapsed /\ now' = now
            BY <1>3, OthersUntouched
        <3>0. ASSUME NEW step \in Steps, Goto(a, m, step) PROVE pc'[a][m] = step
            BY <3>0 DEF Goto, TypeOK
        <3>1. CASE Decide(a, m)
            BY <1>1, <3>0, <3>1 DEF Decide, Steps, At
        <3>2. CASE DecideOwned(a, m)
            <4>a. claims[a][m] = NoRow
                BY <3>2 DEF DecideOwned, RowsFollowHandlers
            <4>1. claims'[a][m].eta = now
                BY <3>2, <4>a, ClaimRow DEF DecideOwned
            <4>2. <<a, m>> \notin delivered /\ delivered' = delivered
                BY <1>1, <3>2 DEF DecideOwned, At
            <4> QED BY <1>t, <4>1, <4>2
        <3>3. CASE Recheck(a, m)
            <4>1. <<a, m>> \notin delivered /\ delivered' = delivered
                BY <1>1, <3>3 DEF Recheck, At
            <4>2. CASE Goto(a, m, "done")
                BY <3>0, <4>1, <4>2 DEF Steps
            <4>3. CASE claims' = claims
                BY <3>3, <4>1, <4>3 DEF Recheck
            <4> QED BY <3>3, <4>2, <4>3 DEF Recheck
        <3>4. CASE StandDown(a, m) \/ Pass(a, m)
            <4>1. <<a, m>> \notin delivered /\ delivered' = delivered
                BY <1>1, <3>4 DEF StandDown, Pass, At
            <4>2. pc'[a][m] = "done"
                BY <3>0, <3>4 DEF StandDown, Pass, Steps
            <4> QED BY <4>1, <4>2
        <3>5. CASE Post(a, m)
            <4>1. pc[a][m] = "composing" /\ pc'[a][m] = "posted" /\ claims' = claims
                BY <3>0, <3>5 DEF Post, Steps, At, ledgerVars
            <4>2. claims[a][m].state = "claimed" \/ <<a, m>> \in lapsed
                BY <4>1 DEF RowsFollowHandlers
            <4> QED BY <1>1, <4>1, <4>2
        <3>6. CASE PostRefused(a, m) \/ Abandon(a, m)
            <4>1. /\ pc[a][m] = "composing" /\ pc'[a][m] \in {"posted", "done"}
                  /\ claims' = claims /\ delivered' = delivered
                BY <3>0, <3>6 DEF PostRefused, Abandon, Steps, At, ledgerVars
            <4> QED BY <1>1, <4>1
        <3>7. CASE Settle(a, m)
            <4>1. /\ pc[a][m] = "posted" /\ pc'[a][m] = "done"
                  /\ delivered' = delivered
                BY <3>0, <3>7 DEF Settle, Steps, At
            <4>2. claims'[a][m].eta = claims[a][m].eta /\ claims'[a][m].state = "sent"
                BY <3>7, MarkRow DEF Settle
            <4> QED BY <1>1, <4>1, <4>2
        <3> QED BY <1>3, <3>1, <3>2, <3>3, <3>4, <3>5, <3>6, <3>7 DEF OneHandlerStep
    <2> QED BY <2>1, <2>2
<1>4. ASSUME NEW a \in Agents, NEW m \in Msgs, Arbitrate(a, m) PROVE Timely(b, n)'
    <2>1. /\ now' = now /\ delivered' = delivered
          /\ claims'[b][n].eta = claims[b][n].eta
          /\ <<b, n>> \in lapsed => <<b, n>> \in lapsed'
          /\ claims'[b][n] = claims[b][n] \/ <<b, n>> \in lapsed'
        BY <1>4, ArbitrateMoves, ArbitrateSweeps
    <2>2. CASE <<b, n>> # <<a, m>>
        BY <1>1, <1>4, <2>1, <2>2, ArbitrateMoves
    <2>3. CASE <<b, n>> = <<a, m>>
        <3>1. b = a /\ n = m /\ pc[a][m] = "rechecked"
            BY <1>4, <2>3, ArbitrateMoves
        <3> QED BY <1>1, <2>1, <3>1
    <2> QED BY <2>2, <2>3
<1>5. ASSUME NEW a \in Agents, Crash(a) PROVE Timely(b, n)'
    <2>1. claims' = claims /\ lapsed' = lapsed /\ now' = now /\ delivered' = delivered
        BY <1>5 DEF Crash, ledgerVars
    <2>2. pc'[b][n] = pc[b][n] \/ pc'[b][n] = "done"
        BY <1>5 DEF Crash, TypeOK
    <2> QED BY <1>1, <2>1, <2>2
<1>6. CASE Tick
    BY <1>1, <1>6, <1>t DEF Tick
<1>7. CASE UNCHANGED vars
    BY <1>1, <1>7 DEF vars
<1> QED
    BY <1>3, <1>4, <1>5, <1>6, <1>7 DEF Next, Handle, OneHandlerStep

----------------------------------------------------------------------------
(* The inductive invariant: the holder is first. *)

\* The order of two tier-2 rows on one message.
LEMMA BeforeAtTier2 ==
    ASSUME NEW STATE tbl, NEW a \in Agents, NEW b \in Agents, NEW m \in Msgs,
           tbl[a][m].tier = 2, tbl[b][m].tier = 2
    PROVE  Before(tbl, <<a, m>>, <<b, m>>) <=>
               \/ tbl[a][m].eta < tbl[b][m].eta
               \/ tbl[a][m].eta = tbl[b][m].eta /\ a < b
BY DEF Before

\* The winner lookup only compares names, but a winner with a tier-2 claim on m
\* wins by that claim: its other claims on m are reactions, of tier 3.
LEMMA WinnerIsFirst ==
    ASSUME NEW STATE tbl, tbl \in [Agents -> [Msgs -> Row]],
           NEW a \in Agents, NEW b \in Agents, a # b, NEW m \in Msgs,
           tbl[a][m].state = "claimed", tbl[a][m].tier = 2,
           tbl[b][m].state = "claimed", tbl[b][m].tier = 2,
           WinnerIs(tbl, a, m)
    PROVE  Before(tbl, <<a, m>>, <<b, m>>)
<1>1. PICK c \in ActiveFor(tbl, m) :
            /\ c[1] = a
            /\ \A d \in ActiveFor(tbl, m) : ~Before(tbl, d, c)
    BY DEF WinnerIs
<1>2. <<a, m>> \in ActiveFor(tbl, m) /\ <<b, m>> \in ActiveFor(tbl, m)
    BY DEF ActiveFor, RootOf
<1>3. PICK n \in Msgs : c = <<a, n>>
    BY <1>1 DEF ActiveFor
<1>4. RootOf(n, tbl[a][n].tier) = m
    BY <1>3 DEF ActiveFor
<1>5. tbl[a][n].tier \in 0..3 /\ tbl[a][n].eta \in Nat
      /\ tbl[a][m].eta \in Nat /\ tbl[b][m].eta \in Nat /\ a \in Nat /\ b \in Nat
    BY LedgerAssumption DEF Row
<1>6. n = m
    <2>1. SUFFICES ASSUME n # m PROVE FALSE
        OBVIOUS
    <2>2. tbl[a][n].tier = 3
        BY <1>4, <2>1 DEF RootOf
    <2>3. Before(tbl, <<a, m>>, <<a, n>>)
        BY <2>2 DEF Before
    <2> QED BY <1>1, <1>2, <1>3, <2>3
<1>7. ~Before(tbl, <<b, m>>, <<a, m>>)
    BY <1>1, <1>2, <1>3, <1>6
<1> QED BY <1>5, <1>7, BeforeAtTier2

\* No step but an arbitration gives a handler the reply: a handler that holds it
\* after the step held it before, with the same row.
LEMMA HoldsStep ==
    ASSUME TypeOK, RowsFollowHandlers, RepliesFollowEtas,
           NEW a \in Agents, NEW m \in Msgs, OneHandlerStep(a, m), Holds(a, m)'
    PROVE  Holds(a, m) /\ claims'[a][m] = claims[a][m]
<1>1. ASSUME NEW step \in Steps, Goto(a, m, step) PROVE pc'[a][m] = step
    BY <1>1 DEF Goto, TypeOK
<1>2. <<a, m>> \in delivered => pc[a][m] \in {"posted", "done"}
    BY DEF RepliesFollowEtas
<1>3. CASE Decide(a, m)
    BY <1>1, <1>2, <1>3 DEF Decide, Holds, At, Steps
<1>4. CASE DecideOwned(a, m)
    <2>1. claims[a][m] = NoRow
        BY <1>4 DEF DecideOwned, RowsFollowHandlers
    <2>2. claims'[a][m].tier = 1
        BY <1>4, <2>1, ClaimRow DEF DecideOwned
    <2> QED BY <2>2 DEF Holds
<1>5. CASE Recheck(a, m)
    <2>1. pc'[a][m] \in {"done", "rechecked"}
        BY <1>1, <1>5 DEF Recheck, Steps
    <2>2. <<a, m>> \notin delivered'
        BY <1>2, <1>5 DEF Recheck, At
    <2> QED BY <2>1, <2>2 DEF Holds
<1>6. CASE StandDown(a, m) \/ Pass(a, m)
    BY <1>6, CancelRow DEF StandDown, Pass, Holds
<1>7. CASE Post(a, m) \/ PostRefused(a, m)
    BY <1>7 DEF Post, PostRefused, Holds, At, ledgerVars
<1>8. CASE Abandon(a, m)
    BY <1>1, <1>2, <1>8 DEF Abandon, Holds, At, Steps, ledgerVars
<1>9. CASE Settle(a, m)
    BY <1>9, MarkRow DEF Settle, Holds
<1> QED
    BY <1>3, <1>4, <1>5, <1>6, <1>7, <1>8, <1>9 DEF OneHandlerStep

\* A tier-2 claim that a step leaves active was there before, or is due later
\* than now.
LEMMA ClaimStep ==
    ASSUME TypeOK, RowsFollowHandlers,
           NEW a \in Agents, NEW m \in Msgs, OneHandlerStep(a, m),
           claims'[a][m].state = "claimed", claims'[a][m].tier = 2
    PROVE  claims'[a][m] = claims[a][m] \/ claims'[a][m].eta > now
<1>1. CASE Decide(a, m)
    <2>1. PICK d \in Delays[TierFor(a, m)] : ClaimReply(a, m, TierFor(a, m), now + d)
        BY <1>1 DEF Decide
    <2>2. d \in Nat \ {0}
        BY <1>1, TierForType, BridgeAssumption DEF Decide
    <2>3. claims[a][m] = NoRow
        BY <1>1 DEF Decide, RowsFollowHandlers
    <2>4. claims'[a][m].eta = now + d
        BY <2>1, <2>3, ClaimRow
    <2> QED BY <2>2, <2>4 DEF TypeOK, LedgerTypeOK
<1>2. CASE DecideOwned(a, m)
    <2>1. claims[a][m] = NoRow
        BY <1>2 DEF DecideOwned, RowsFollowHandlers
    <2>2. claims'[a][m].tier = 1
        BY <1>2, <2>1, ClaimRow DEF DecideOwned
    <2> QED BY <2>2
<1>3. CASE Recheck(a, m)
    BY <1>3, CancelRow DEF Recheck
<1>4. CASE StandDown(a, m) \/ Pass(a, m)
    BY <1>4, CancelRow DEF StandDown, Pass
<1>5. CASE Post(a, m) \/ PostRefused(a, m) \/ Abandon(a, m)
    BY <1>5 DEF Post, PostRefused, Abandon, ledgerVars
<1>6. CASE Settle(a, m)
    BY <1>6, MarkRow DEF Settle
<1> QED
    BY <1>1, <1>2, <1>3, <1>4, <1>5, <1>6 DEF OneHandlerStep

\* The handler that an arbitration lets through with its tier-2 claim alive
\* passed the winner lookup for the message, under the cap.
LEMMA NewHolderWon ==
    ASSUME TypeOK, RowsFollowHandlers, RepliesFollowEtas,
           NEW a \in Agents, NEW m \in Msgs, Arbitrate(a, m), Holds(a, m)'
    PROVE  ~CapReached(Swept, m) /\ WinnerIs(Swept, a, m)
<1>1. pc[a][m] = "rechecked" /\ delivered' = delivered
    BY ArbitrateMoves
<1>2. <<a, m>> \notin delivered
    BY <1>1 DEF RepliesFollowEtas
<1>3. pc'[a][m] = "composing"
    BY <1>1, <1>2, ArbitrateMoves DEF Holds
<1>4. TierFor(a, m) = 2
    BY <1>1, ArbitrateSweeps DEF RowsFollowHandlers, Holds
<1>5. MayAnswer(Swept, a, m, 2)
    BY <1>3, <1>4, ArbitrateMoves
<1> QED BY <1>5 DEF MayAnswer, RootOf

\* The row of any other handler, for one of them.
LEMMA RowUntouched ==
    ASSUME TypeOK, NEW a \in Agents, NEW m \in Msgs, OneHandlerStep(a, m),
           NEW b \in Agents, NEW n \in Msgs, <<b, n>> # <<a, m>>
    PROVE  claims'[b][n] = claims[b][n]
BY OthersUntouched

LEMMA HolderStep ==
    TypeOK /\ RowsFollowHandlers /\ RepliesFollowEtas /\ HolderIsFirst /\ [Next]_vars
        => HolderIsFirst'
<1> SUFFICES ASSUME TypeOK, RowsFollowHandlers, RepliesFollowEtas, HolderIsFirst,
                    [Next]_vars,
                    NEW n \in Msgs, NEW x \in Agents, NEW y \in Agents,
                    Holds(x, n)', x # y,
                    claims'[y][n].state = "claimed", claims'[y][n].tier = 2
             PROVE  Before(claims', <<x, n>>, <<y, n>>)
    BY DEF HolderIsFirst
<1>1. claims'[x][n].tier = 2
    BY DEF Holds
<1>2. SUFFICES \/ claims'[x][n].eta < claims'[y][n].eta
               \/ claims'[x][n].eta = claims'[y][n].eta /\ x < y
    BY <1>1, BeforeAtTier2
<1>3. ASSUME Holds(x, n), claims'[x][n] = claims[x][n], claims'[y][n] = claims[y][n]
      PROVE  \/ claims'[x][n].eta < claims'[y][n].eta
             \/ claims'[x][n].eta = claims'[y][n].eta /\ x < y
    <2>1. Before(claims, <<x, n>>, <<y, n>>)
        BY <1>3 DEF HolderIsFirst
    <2> QED BY <1>1, <1>3, <2>1, BeforeAtTier2
<1>4. Holds(x, n) => claims[x][n].eta <= now
    BY DEF Holds, RepliesFollowEtas
<1>5. ASSUME NEW a \in Agents, NEW m \in Msgs, OneHandlerStep(a, m)
      PROVE  \/ claims'[x][n].eta < claims'[y][n].eta
             \/ claims'[x][n].eta = claims'[y][n].eta /\ x < y
    <2>1. Holds(x, n) /\ claims'[x][n] = claims[x][n]
        <3>1. CASE <<x, n>> = <<a, m>>
            BY <1>5, <3>1, HoldsStep
        <3>2. CASE <<x, n>> # <<a, m>>
            BY <1>5, <3>2, OthersUntouched DEF Holds
        <3> QED BY <3>1, <3>2
    <2>2. CASE claims'[y][n] = claims[y][n]
        BY <1>3, <2>1, <2>2
    <2>3. CASE <<y, n>> # <<a, m>>
        <3>1. claims'[y][n] = claims[y][n]
            BY <1>5, <2>3, RowUntouched
        <3> QED BY <2>2, <3>1
    <2>4. CASE <<y, n>> = <<a, m>> /\ claims'[y][n] # claims[y][n]
        <3>1. claims'[y][n].eta > now
            BY <1>5, <2>4, ClaimStep
        <3>2. claims[x][n].eta \in Nat /\ now \in Nat
            BY DEF TypeOK, LedgerTypeOK, Row
        <3>3. claims'[y][n].eta \in Nat
            BY NextTypeOK DEF TypeOK, LedgerTypeOK, Row
        <3> QED BY <1>4, <2>1, <3>1, <3>2, <3>3
    <2> QED BY <2>2, <2>3, <2>4
<1>6. ASSUME NEW a \in Agents, NEW m \in Msgs, Arbitrate(a, m)
      PROVE  \/ claims'[x][n].eta < claims'[y][n].eta
             \/ claims'[x][n].eta = claims'[y][n].eta /\ x < y
    <2>1. claims'[x][n] = claims[x][n] /\ claims'[y][n] = claims[y][n]
        BY <1>6, ArbitrateSweeps DEF Holds
    <2>2. CASE Holds(x, n)
        BY <1>3, <2>1, <2>2
    <2>3. CASE ~Holds(x, n)
        <3>1. <<x, n>> = <<a, m>>
            BY <1>6, <2>1, <2>3, ArbitrateMoves DEF Holds
        <3>2. WinnerIs(Swept, x, n)
            BY <1>6, <3>1, NewHolderWon
        <3>3. claims' = Swept
            BY <1>6, ArbitrateMoves
        <3>4. Swept \in [Agents -> [Msgs -> Row]]
            BY SweptRows DEF TypeOK
        <3>5. Before(Swept, <<x, n>>, <<y, n>>)
            BY <1>1, <3>2, <3>3, <3>4, WinnerIsFirst DEF Holds
        <3> QED BY <1>1, <3>3, <3>5, BeforeAtTier2
    <2> QED BY <2>2, <2>3
<1>7. ASSUME NEW a \in Agents, Crash(a)
      PROVE  \/ claims'[x][n].eta < claims'[y][n].eta
             \/ claims'[x][n].eta = claims'[y][n].eta /\ x < y
    <2>1. claims' = claims /\ delivered' = delivered
        BY <1>7 DEF Crash, ledgerVars
    <2>2. pc'[x][n] = pc[x][n] \/ pc'[x][n] = "done"
        BY <1>7 DEF Crash, TypeOK
    <2> QED BY <1>3, <2>1, <2>2 DEF Holds
<1>8. CASE Tick \/ UNCHANGED vars
    <2>1. claims' = claims /\ delivered' = delivered /\ pc' = pc
        BY <1>8 DEF Tick, vars
    <2> QED BY <1>3, <2>1 DEF Holds
<1> QED
    BY <1>5, <1>6, <1>7, <1>8 DEF Next, Handle, OneHandlerStep

----------------------------------------------------------------------------
(* The inductive invariant: the holder and the marked replies fit. *)

LEMMA PairsFinite == IsFiniteSet(Agents \X Msgs)
<1>1. IsFiniteSet(Msgs)
    BY LedgerAssumption, FS_Union DEF Msgs
<1> QED BY <1>1, LedgerAssumption, FS_Product

\* Fewer counted replies fit as well.
LEMMA FewerFit ==
    ASSUME CountedFit, NEW n \in Msgs, Counted(n)' \subseteq Counted(n)
    PROVE  Cardinality(Counted(n)') <= MaxImplicit
<1>1. IsFiniteSet(Counted(n))
    BY PairsFinite, FS_Subset DEF Counted
<1>2. Cardinality(Counted(n)') <= Cardinality(Counted(n))
    BY <1>1, FS_Subset
<1>3. Cardinality(Counted(n)') \in Nat /\ Cardinality(Counted(n)) \in Nat
    BY <1>1, FS_Subset, FS_CardinalityType
<1> QED BY <1>2, <1>3, LedgerAssumption DEF CountedFit

\* When an arbitration hands the reply to a, no one else holds it, and the marked
\* replies are below the cap.
LEMMA GrantFits ==
    ASSUME TypeOK, RowsFollowHandlers, RepliesFollowEtas, HolderIsFirst, HolderIsFirst',
           NEW a \in Agents, NEW m \in Msgs, Arbitrate(a, m), Holds(a, m)'
    PROVE  Cardinality(Counted(m)') <= MaxImplicit
<1>1. claims' = Swept /\ Swept \in [Agents -> [Msgs -> Row]]
    BY ArbitrateMoves, SweptRows DEF TypeOK
<1>2. IsFiniteSet(SentFor(Swept, m)) /\ ~CapReached(Swept, m)
    BY PairsFinite, FS_Subset, NewHolderWon DEF SentFor
<1>3. Cardinality(SentFor(Swept, m)) \in Nat
        /\ Cardinality(SentFor(Swept, m)) < MaxImplicit
    BY <1>2, FS_CardinalityType, LedgerAssumption DEF CapReached
<1>4. ASSUME NEW b \in Agents, Holds(b, m)' PROVE b = a
    <2>1. SUFFICES ASSUME b # a PROVE FALSE
        OBVIOUS
    <2>2. Before(claims', <<a, m>>, <<b, m>>) /\ Before(claims', <<b, m>>, <<a, m>>)
        BY <1>4, <2>1 DEF HolderIsFirst, Holds
    <2>3. claims'[a][m].tier = 2 /\ claims'[b][m].tier = 2
        BY <1>4 DEF Holds
    <2>4. claims'[a][m].eta \in Nat /\ claims'[b][m].eta \in Nat /\ a \in Nat /\ b \in Nat
        BY <1>1, LedgerAssumption DEF Row
    <2> QED BY <2>2, <2>3, <2>4, BeforeAtTier2
<1>5. Counted(m)' \subseteq SentFor(Swept, m) \union {<<a, m>>}
    <2>1. SUFFICES ASSUME NEW b \in Agents, <<b, m>> \in Counted(m)', b # a
                   PROVE  <<b, m>> \in SentFor(Swept, m)
        BY DEF Counted
    <2>2. claims'[b][m].tier = 2 /\ claims'[b][m].state = "sent"
        BY <1>4, <2>1 DEF Counted
    <2> QED BY <1>1, <2>2 DEF SentFor, RootOf
<1>6. IsFiniteSet(SentFor(Swept, m) \union {<<a, m>>})
        /\ Cardinality(SentFor(Swept, m) \union {<<a, m>>}) <= MaxImplicit
    <2>1. CASE <<a, m>> \in SentFor(Swept, m)
        <3>1. SentFor(Swept, m) \union {<<a, m>>} = SentFor(Swept, m)
            BY <2>1
        <3> QED BY <1>2, <1>3, <3>1, LedgerAssumption
    <2>2. CASE <<a, m>> \notin SentFor(Swept, m)
        <3>1. Cardinality(SentFor(Swept, m) \union {<<a, m>>})
                = Cardinality(SentFor(Swept, m)) + 1
            BY <1>2, <2>2, FS_AddElement
        <3>2. IsFiniteSet(SentFor(Swept, m) \union {<<a, m>>})
            BY <1>2, FS_AddElement
        <3>3. Cardinality(SentFor(Swept, m)) + 1 <= MaxImplicit
            BY <1>3, LedgerAssumption
        <3> QED BY <3>1, <3>2, <3>3
    <2> QED BY <2>1, <2>2
<1>7. Cardinality(Counted(m)') <= Cardinality(SentFor(Swept, m) \union {<<a, m>>})
        /\ IsFiniteSet(Counted(m)')
    BY <1>5, <1>6, FS_Subset
<1> QED
    BY <1>6, <1>7, FS_CardinalityType, LedgerAssumption

LEMMA CountedStep == IInv /\ HolderIsFirst' /\ [Next]_vars => CountedFit'
<1> SUFFICES ASSUME TypeOK, RowsFollowHandlers, RepliesFollowEtas, HolderIsFirst,
                    CountedFit, HolderIsFirst', [Next]_vars, NEW n \in Msgs
             PROVE  Cardinality(Counted(n)') <= MaxImplicit
    BY DEF IInv, CountedFit
<1>1. SUFFICES \/ Counted(n)' \subseteq Counted(n)
               \/ \E a \in Agents : Arbitrate(a, n) /\ Holds(a, n)'
    BY FewerFit, GrantFits
<1>2. ASSUME NEW a \in Agents, NEW m \in Msgs, OneHandlerStep(a, m)
      PROVE  Counted(n)' \subseteq Counted(n)
    <2>1. SUFFICES ASSUME NEW b \in Agents, <<b, n>> \in Counted(n)'
                   PROVE  <<b, n>> \in Counted(n)
        BY DEF Counted
    <2>2. CASE <<b, n>> # <<a, m>>
        BY <1>2, <2>1, <2>2, OthersUntouched DEF Counted, Holds
    <2>3. CASE <<b, n>> = <<a, m>> /\ Holds(a, m)'
        BY <1>2, <2>1, <2>3, HoldsStep DEF Counted, Holds
    <2>4. CASE /\ <<b, n>> = <<a, m>>
               /\ claims'[a][m].state = "sent"
               /\ <<a, m>> \notin lapsed'
        <3>1. claims'[a][m].tier = 2 /\ <<a, m>> \notin lapsed
            BY <1>2, <2>1, <2>4, OthersUntouched DEF Counted
        <3>2. CASE Settle(a, m)
            <4>1. pc[a][m] = "posted" /\ claims[a][m].tier = 2
                BY <3>1, <3>2, MarkRow DEF Settle, At
            <4>2. claims[a][m].state = "claimed"
                BY <3>1, <4>1 DEF RowsFollowHandlers
            <4> QED BY <2>4, <4>1, <4>2 DEF Counted, Holds
        <3>3. CASE Decide(a, m) \/ DecideOwned(a, m)
            <4>1. claims[a][m] = NoRow
                BY <3>3 DEF Decide, DecideOwned, RowsFollowHandlers
            <4>2. claims'[a][m].state = "claimed"
                BY <3>3, <4>1, ClaimRow DEF Decide, DecideOwned
            <4> QED BY <2>4, <4>2
        <3>4. CASE Recheck(a, m) \/ StandDown(a, m) \/ Pass(a, m)
            <4>1. claims[a][m].state = "sent" /\ claims[a][m].tier = 2
                BY <2>4, <3>1, <3>4, CancelRow DEF Recheck, StandDown, Pass
            <4> QED BY <2>4, <3>1, <4>1 DEF Counted
        <3>5. CASE Post(a, m) \/ PostRefused(a, m) \/ Abandon(a, m)
            <4>1. claims' = claims
                BY <3>5 DEF Post, PostRefused, Abandon, ledgerVars
            <4> QED BY <2>4, <3>1, <4>1 DEF Counted
        <3> QED BY <1>2, <3>2, <3>3, <3>4, <3>5 DEF OneHandlerStep
    <2> QED BY <2>1, <2>2, <2>3, <2>4 DEF Counted
<1>3. ASSUME NEW a \in Agents, NEW m \in Msgs, Arbitrate(a, m),
             ~(m = n /\ Holds(a, n)')
      PROVE  Counted(n)' \subseteq Counted(n)
    <2>1. SUFFICES ASSUME NEW b \in Agents, <<b, n>> \in Counted(n)'
                   PROVE  <<b, n>> \in Counted(n)
        BY DEF Counted
    <2>2. /\ claims'[b][n].tier = 2
          /\ \/ claims'[b][n].state = "sent" /\ <<b, n>> \notin lapsed'
             \/ Holds(b, n)'
        BY <2>1 DEF Counted
    <2>3. claims'[b][n] = claims[b][n]
        BY <1>3, <2>2, ArbitrateSweeps DEF Holds
    <2>4. CASE claims'[b][n].state = "sent" /\ <<b, n>> \notin lapsed'
        BY <1>3, <2>2, <2>3, <2>4, ArbitrateSweeps DEF Counted
    <2>5. CASE Holds(b, n)'
        <3>1. <<b, n>> # <<a, m>>
            BY <1>3, <2>5
        <3>2. Holds(b, n)
            BY <1>3, <2>3, <2>5, <3>1, ArbitrateMoves DEF Holds
        <3> QED BY <2>2, <2>3, <3>2 DEF Counted
    <2> QED BY <2>2, <2>4, <2>5
<1>4. ASSUME NEW a \in Agents, Crash(a) PROVE Counted(n)' \subseteq Counted(n)
    <2>1. claims' = claims /\ delivered' = delivered /\ lapsed' = lapsed
        BY <1>4 DEF Crash, ledgerVars
    <2>2. \A b \in Agents : pc'[b][n] = pc[b][n] \/ pc'[b][n] = "done"
        BY <1>4 DEF Crash, TypeOK
    <2> QED BY <2>1, <2>2 DEF Counted, Holds
<1>5. CASE Tick \/ UNCHANGED vars
    BY <1>5 DEF Tick, vars, Counted, Holds
<1> QED
    BY <1>2, <1>3, <1>4, <1>5 DEF Next, Handle, OneHandlerStep

----------------------------------------------------------------------------
(* The theorems. *)

LEMMA InitIInv == BridgeInit => IInv
<1> SUFFICES ASSUME BridgeInit PROVE IInv
    OBVIOUS
<1>1. TypeOK
    BY InitTypeOK
<1>2. /\ \A a \in Agents, m \in Msgs : claims[a][m] = NoRow /\ pc[a][m] = "idle"
      /\ delivered = {}
    BY DEF BridgeInit, LedgerInit
<1>3. \A m \in Msgs : Counted(m) = {}
    BY <1>2 DEF Counted, NoRow
<1>4. CountedFit
    BY <1>3, FS_EmptySet, LedgerAssumption DEF CountedFit
<1>5. HolderIsFirst
    BY <1>2 DEF HolderIsFirst, Holds, NoRow
<1>6. RowsFollowHandlers /\ RepliesFollowEtas
    BY <1>2 DEF RowsFollowHandlers, RepliesFollowEtas, At
<1> QED BY <1>1, <1>4, <1>5, <1>6 DEF IInv

LEMMA NextIInv == IInv /\ [Next]_vars => IInv'
BY NextTypeOK, RowsStep, EtasStep, HolderStep, CountedStep DEF IInv

THEOREM InductiveInvariant == Spec => []IInv
BY InitIInv, NextIInv, PTL DEF Spec

\* No two agents hold the tier-2 reply to one message at once: the arbitration of
\* can_send_claim excludes, although the winner's row stays 'claimed'.
THEOREM ArbitrationExcludes == Spec => []OneHolder
<1>1. IInv => OneHolder
    <2> SUFFICES ASSUME IInv, NEW m \in Msgs, NEW a \in Agents, NEW b \in Agents,
                        Holds(a, m), Holds(b, m), a # b
                 PROVE  FALSE
        BY DEF OneHolder
    <2>1. Before(claims, <<a, m>>, <<b, m>>) /\ Before(claims, <<b, m>>, <<a, m>>)
        BY DEF IInv, HolderIsFirst, Holds
    <2>2. claims[a][m].tier = 2 /\ claims[b][m].tier = 2
        BY DEF Holds
    <2>3. claims[a][m].eta \in Nat /\ claims[b][m].eta \in Nat /\ a \in Nat /\ b \in Nat
        BY LedgerAssumption DEF IInv, TypeOK, LedgerTypeOK, Row
    <2> QED BY <2>1, <2>2, <2>3, BeforeAtTier2
<1> QED BY <1>1, InductiveInvariant, PTL

\* The tier-2 replies to a message whose claims never expired are within
\* DEFAULT_MAX_IMPLICIT_REPLIES, through any crash, failed send or interleaving.
THEOREM CapHoldsUnlessLapsed == Spec => []CapUnlessLapsed
<1>1. IInv => CapUnlessLapsed
    <2> SUFFICES ASSUME IInv, NEW m \in Msgs
                 PROVE  Cardinality(TimelyReplies(m)) <= MaxImplicit
        BY DEF CapUnlessLapsed
    <2>1. TimelyReplies(m) \subseteq Counted(m)
        <3>1. SUFFICES ASSUME NEW a \in Agents, <<a, m>> \in delivered,
                              claims[a][m].tier = 2, <<a, m>> \notin lapsed
                       PROVE  <<a, m>> \in Counted(m)
            BY DEF TimelyReplies, IInv, TypeOK
        <3>2. claims[a][m].state \in {"claimed", "sent"}
            BY <3>1 DEF IInv, RepliesFollowEtas
        <3> QED BY <3>1, <3>2 DEF Counted, Holds
    <2>2. IsFiniteSet(Counted(m))
        BY PairsFinite, FS_Subset DEF Counted
    <2>3. Cardinality(TimelyReplies(m)) <= Cardinality(Counted(m))
            /\ IsFiniteSet(TimelyReplies(m))
        BY <2>1, <2>2, FS_Subset
    <2> QED
        BY <2>2, <2>3, FS_CardinalityType, LedgerAssumption DEF IInv, CountedFit
<1> QED BY <1>1, InductiveInvariant, PTL
=============================================================================
