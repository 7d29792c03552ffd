---------------------------- MODULE SlotsProofs ----------------------------
(***************************************************************************)
(* Proof that the handlers and the ledger implement ReplySlots under the   *)
(* refinement mapping of MCSwarm, for every number of agents and messages, *)
(* every expiry, cap, delay and number of faults.                          *)
(***************************************************************************)
EXTENDS MCSwarm, SwarmProofs

----------------------------------------------------------------------------
(* The mapping. *)

\* The agent that Holds the reply is the holder of the slot.
LEMMA TheHolder ==
    ASSUME OneHolder, NEW a \in Agents, NEW m \in Msgs, Holds(a, m)
    PROVE  HolderOf(m) = a
<1>1. PICK h : h = CHOOSE b \in Agents : Holds(b, m)
    OBVIOUS
<1>2. h \in Agents /\ Holds(h, m)
    BY <1>1
<1>3. h = a
    BY <1>2 DEF OneHolder
<1> QED BY <1>1, <1>3 DEF HolderOf

\* The same after a step.
LEMMA TheHolderNext ==
    ASSUME OneHolder', NEW a \in Agents, NEW m \in Msgs, Holds(a, m)'
    PROVE  HolderOf(m)' = a
<1>1. PICK h : h = CHOOSE b \in Agents : Holds(b, m)'
    OBVIOUS
<1>2. h \in Agents /\ Holds(h, m)'
    BY <1>1
<1>3. h = a
    BY <1>2 DEF OneHolder
<1> QED BY <1>1, <1>3 DEF HolderOf

\* A step after which nobody holds a reply that he did not hold before keeps
\* every slot or frees it.
LEMMA KeptOrFreed ==
    ASSUME OneHolder, OneHolder', NEW m \in Msgs,
           \A b \in Agents : Holds(b, m)' => Holds(b, m)
    PROVE  HolderOf(m)' = HolderOf(m) \/ HolderOf(m)' = NoOwner
<1>1. CASE \E b \in Agents : Holds(b, m)'
    BY <1>1, TheHolder, TheHolderNext
<1>2. CASE ~ \E b \in Agents : Holds(b, m)'
    BY <1>2 DEF HolderOf
<1> QED BY <1>1, <1>2

----------------------------------------------------------------------------
(* The steps of the slots. *)

\* The instance's copy of the library operator is the operator.
LEMMA SameCardinality ==
    ASSUME NEW S
    PROVE  Slots!Cardinality(S) = Cardinality(S)
BY DEF Slots!Cardinality, Cardinality, Slots!IsFiniteSet, IsFiniteSet

\* Slots may be lost, and nothing else happens.
LEMMA StepLoses ==
    ASSUME OneHolder, OneHolder',
           \A b \in Agents, n \in Msgs : Holds(b, n)' => Holds(b, n),
           \A n \in Msgs : SettledOn(n)' = SettledOn(n)
    PROVE  Slots!SlotsNext
<1>1. PICK lost : lost = {n \in Msgs : HolderOf(n)' # HolderOf(n)}
    OBVIOUS
<1>2. \A n \in Msgs : HolderOf(n)' = IF n \in lost THEN NoOwner ELSE HolderOf(n)
    BY <1>1, KeptOrFreed
<1>3. [n \in Msgs |-> HolderOf(n)']
        = [n \in Msgs |-> IF n \in lost THEN NoOwner ELSE [i \in Msgs |-> HolderOf(i)][n]]
    BY <1>2
<1>4. [n \in Msgs |-> SettledOn(n)'] = [n \in Msgs |-> SettledOn(n)]
    OBVIOUS
<1>5. Slots!Lose(lost)
    BY <1>3, <1>4 DEF Slots!Lose, Slots!Without
<1>6. lost \in SUBSET Msgs
    BY <1>1
<1> QED BY <1>5, <1>6 DEF Slots!SlotsNext

\* A slot is given out while others may be lost.
LEMMA StepGrants ==
    ASSUME OneHolder, OneHolder', NEW a \in Agents, NEW m \in Msgs, Holds(a, m)',
           \A b \in Agents, n \in Msgs :
               n # m => (Holds(b, n)' => Holds(b, n)),
           \A n \in Msgs : SettledOn(n)' = SettledOn(n),
           Cardinality(SettledOn(m)) < MaxImplicit
    PROVE  Slots!SlotsNext
<1>1. PICK lost : lost = {n \in Msgs : n = m \/ HolderOf(n)' # HolderOf(n)}
    OBVIOUS
<1>2. \A n \in Msgs : n # m =>
          HolderOf(n)' = IF n \in lost THEN NoOwner ELSE HolderOf(n)
    BY <1>1, KeptOrFreed
<1>3. HolderOf(m)' = a
    BY TheHolderNext
<1>4. PICK rest :
          rest = [n \in Msgs |-> IF n \in lost THEN NoOwner
                                 ELSE [i \in Msgs |-> HolderOf(i)][n]]
    OBVIOUS
<1>5. [n \in Msgs |-> HolderOf(n)'] = [rest EXCEPT ![m] = a]
    BY <1>2, <1>3, <1>4
<1>6. [n \in Msgs |-> SettledOn(n)'] = [n \in Msgs |-> SettledOn(n)]
    OBVIOUS
<1>7. rest[m] = NoOwner
    BY <1>1, <1>4
<1>8. Slots!Without(lost) = rest
    BY <1>4 DEF Slots!Without
<1>9. Slots!Cardinality([n \in Msgs |-> SettledOn(n)][m]) < MaxImplicit
    <2>1. [n \in Msgs |-> SettledOn(n)][m] = SettledOn(m)
        OBVIOUS
    <2> QED BY <2>1, SameCardinality
<1>10. Slots!Grant(a, m, lost)
    BY <1>5, <1>6, <1>7, <1>8, <1>9 DEF Slots!Grant
<1>11. lost \in SUBSET Msgs
    BY <1>1
<1> QED BY <1>10, <1>11 DEF Slots!SlotsNext

\* The holder of a slot settles it.
LEMMA StepSettles ==
    ASSUME OneHolder, OneHolder', NEW a \in Agents, NEW m \in Msgs, Holds(a, m),
           ~Holds(a, m)',
           \A b \in Agents, n \in Msgs :
               <<b, n>> # <<a, m>> => (Holds(b, n)' <=> Holds(b, n)),
           \A n \in Msgs : n # m => SettledOn(n)' = SettledOn(n),
           SettledOn(m)' = SettledOn(m) \union {a}
    PROVE  Slots!SlotsNext
<1>1. HolderOf(m) = a
    BY TheHolder
<1>2. \A b \in Agents : ~Holds(b, m)'
    BY DEF OneHolder
<1>3. HolderOf(m)' = NoOwner
    BY <1>2 DEF HolderOf
<1>4. ASSUME NEW n \in Msgs, n # m PROVE HolderOf(n)' = HolderOf(n)
    <2>1. \A b \in Agents : Holds(b, n)' <=> Holds(b, n)
        BY <1>4
    <2>2. CASE \E b \in Agents : Holds(b, n)
        BY <2>1, <2>2, TheHolder, TheHolderNext
    <2>3. CASE ~ \E b \in Agents : Holds(b, n)
        BY <2>1, <2>3 DEF HolderOf
    <2> QED BY <2>2, <2>3
<1>5. [n \in Msgs |-> HolderOf(n)'] = [[n \in Msgs |-> HolderOf(n)] EXCEPT ![m] = NoOwner]
    BY <1>3, <1>4
<1>6. [n \in Msgs |-> SettledOn(n)']
        = [[n \in Msgs |-> SettledOn(n)] EXCEPT ![m] = @ \union {a}]
    OBVIOUS
<1>7. Slots!Settled(a, m)
    BY <1>1, <1>5, <1>6 DEF Slots!Settled
<1> QED BY <1>7 DEF Slots!SlotsNext

----------------------------------------------------------------------------
(* What the steps of the handlers do to the marked replies. *)

\* The replies a message counts as settled are among those the cap counts.
LEMMA SettledAreSent ==
    ASSUME TypeOK, NEW m \in Msgs, ~CapReached(Swept, m)
    PROVE  Cardinality(SettledOn(m)) < MaxImplicit
<1>1. PICK sent : sent = SentFor(Swept, m)
    OBVIOUS
<1>2. IsFiniteSet(sent)
    BY <1>1, PairsFinite, FS_Subset DEF SentFor
<1>3. ASSUME NEW a \in SettledOn(m) PROVE <<a, m>> \in sent
    <2>1. claims[a][m].state = "sent" /\ claims[a][m].tier = 2
        BY DEF SettledOn
    <2>2. Swept[a][m] = claims[a][m]
        BY <2>1, SweptRows DEF TypeOK, Stale, SettledOn
    <2> QED BY <1>1, <2>1, <2>2 DEF SentFor, RootOf, SettledOn
<1>4. PICK pair : pair = [a \in SettledOn(m) |-> <<a, m>>]
    OBVIOUS
<1>5. pair \in Injection(SettledOn(m), sent)
    BY <1>3, <1>4 DEF Injection, IsInjective
<1>6. IsFiniteSet(SettledOn(m)) /\ Cardinality(SettledOn(m)) <= Cardinality(sent)
    BY <1>2, <1>5, FS_Injection
<1>7. Cardinality(sent) \in Nat /\ Cardinality(SettledOn(m)) \in Nat
    BY <1>2, <1>6, FS_CardinalityType
<1>8. Cardinality(sent) < MaxImplicit
    BY <1>1, <1>7, LedgerAssumption DEF CapReached
<1> QED BY <1>6, <1>7, <1>8, LedgerAssumption

\* No step of a handler but mark_sent marks or unmarks a row.
LEMMA MarksKept ==
    ASSUME TypeOK, RowsFollowHandlers, NEW a \in Agents, NEW m \in Msgs,
           OneHandlerStep(a, m), ~Settle(a, m), NEW n \in Msgs
    PROVE  SettledOn(n)' = SettledOn(n)
<1>1. lapsed' = lapsed
    BY OthersUntouched
<1>2. SUFFICES ASSUME NEW b \in Agents
               PROVE  (/\ claims'[b][n].state = "sent"
                       /\ claims'[b][n].tier = 2)
                  <=> (/\ claims[b][n].state = "sent"
                       /\ claims[b][n].tier = 2)
    BY <1>1 DEF SettledOn
<1>3. CASE <<b, n>> # <<a, m>>
    BY <1>3, OthersUntouched
<1>4. CASE <<b, n>> = <<a, m>>
    <2>1. b = a /\ n = m
        BY <1>4
    <2>2. CASE Decide(a, m) \/ DecideOwned(a, m)
        <3>1. claims[a][m] = NoRow
            BY <2>2 DEF Decide, DecideOwned, RowsFollowHandlers
        <3>2. claims'[a][m].state = "claimed"
            BY <2>2, <3>1, ClaimRow DEF Decide, DecideOwned
        <3> QED BY <2>1, <3>1, <3>2 DEF NoRow
    <2>3. CASE CancelClaim(a, m)
        <3>1. claims[a][m].state = "sent" => claims'[a][m] = claims[a][m]
            BY <2>3 DEF CancelClaim
        <3> QED BY <2>1, <2>3, <3>1, CancelRow
    <2>4. CASE claims' = claims
        BY <2>1, <2>4
    <2> QED
        BY <2>2, <2>3, <2>4
        DEF OneHandlerStep, Recheck, StandDown, Pass, Post, PostRefused, Abandon, ledgerVars
<1> QED BY <1>3, <1>4

\* The sweep expires no marked row.
LEMMA SweepKeepsMarks ==
    ASSUME TypeOK, NEW a \in Agents, NEW m \in Msgs, Arbitrate(a, m), NEW n \in Msgs
    PROVE  SettledOn(n)' = SettledOn(n)
<1>1. SUFFICES ASSUME NEW b \in Agents
               PROVE  (/\ claims'[b][n].state = "sent"
                       /\ claims'[b][n].tier = 2
                       /\ <<b, n>> \notin lapsed')
                  <=> (/\ claims[b][n].state = "sent"
                       /\ claims[b][n].tier = 2
                       /\ <<b, n>> \notin lapsed)
    BY DEF SettledOn
<1>2. claims' = Swept
    BY ArbitrateMoves
<1>3. <<b, n>> \in lapsed' <=> <<b, n>> \in lapsed \/ Stale(claims, b, n)
    BY DEF Arbitrate, CanSendClaim
<1>4. CASE Stale(claims, b, n)
    BY <1>2, <1>4, SweptRows DEF TypeOK, Stale
<1>5. CASE ~Stale(claims, b, n)
    BY <1>2, <1>3, <1>5, SweptRows DEF TypeOK
<1> QED BY <1>4, <1>5

----------------------------------------------------------------------------
(* The refinement. *)

LEMMA SlotsBegin == BridgeInit => Slots!SlotsInit
<1> SUFFICES ASSUME BridgeInit PROVE Slots!SlotsInit
    OBVIOUS
<1>1. \A a \in Agents, m \in Msgs : claims[a][m] = NoRow
    BY DEF BridgeInit, LedgerInit
<1>2. \A a \in Agents, m \in Msgs : ~Holds(a, m)
    BY <1>1 DEF Holds, NoRow
<1>3. \A m \in Msgs : HolderOf(m) = NoOwner
    BY <1>2 DEF HolderOf
<1>4. \A m \in Msgs : SettledOn(m) = {}
    BY <1>1 DEF SettledOn, NoRow
<1> QED BY <1>3, <1>4 DEF Slots!SlotsInit

LEMMA SlotsStep ==
    IInv /\ OneHolder /\ OneHolder' /\ [Next]_vars => [Slots!SlotsNext]_(Slots!slotVars)
<1> SUFFICES ASSUME IInv, OneHolder, OneHolder', [Next]_vars PROVE Slots!SlotsNext
    OBVIOUS
<1> USE DEF IInv
<1>1. ASSUME NEW a \in Agents, NEW m \in Msgs, OneHandlerStep(a, m), ~Settle(a, m)
      PROVE  Slots!SlotsNext
    <2>1. ASSUME NEW b \in Agents, NEW n \in Msgs, Holds(b, n)' PROVE Holds(b, n)
        <3>1. CASE <<b, n>> = <<a, m>>
            BY <1>1, <2>1, <3>1, HoldsStep
        <3>2. CASE <<b, n>> # <<a, m>>
            BY <1>1, <2>1, <3>2, OthersUntouched DEF Holds
        <3> QED BY <3>1, <3>2
    <2> QED BY <1>1, <2>1, MarksKept, StepLoses
<1>2. ASSUME NEW a \in Agents, NEW m \in Msgs, Settle(a, m)
      PROVE  Slots!SlotsNext
    <2>1. OneHandlerStep(a, m)
        BY <1>2 DEF OneHandlerStep
    <2>2. /\ claims'[a][m].state = "sent"
          /\ claims'[a][m].tier = claims[a][m].tier
          /\ pc[a][m] = "posted"
          /\ lapsed' = lapsed
        BY <1>2, MarkRow DEF Settle, MarkSent, At
    <2>3. ~Holds(a, m)'
        BY <2>2 DEF Holds
    <2>4. ASSUME NEW b \in Agents, NEW n \in Msgs, <<b, n>> # <<a, m>>
          PROVE  /\ Holds(b, n)' <=> Holds(b, n)
                 /\ b \in SettledOn(n)' <=> b \in SettledOn(n)
        BY <2>1, <2>2, <2>4, OthersUntouched DEF Holds, SettledOn
    <2>5. \A n \in Msgs : n # m => SettledOn(n)' = SettledOn(n)
        BY <2>4 DEF SettledOn
    <2>6. CASE claims[a][m].tier = 2 /\ <<a, m>> \notin lapsed
        <3>1. Holds(a, m)
            BY <2>2, <2>6 DEF RowsFollowHandlers, Holds
        <3>2. a \in SettledOn(m)'
            BY <2>2, <2>6 DEF SettledOn
        <3>3. SettledOn(m)' = SettledOn(m) \union {a}
            BY <2>4, <3>2 DEF SettledOn
        <3> QED BY <2>3, <2>4, <2>5, <3>1, <3>3, StepSettles
    <2>7. CASE claims[a][m].tier # 2 \/ <<a, m>> \in lapsed
        <3>1. a \notin SettledOn(m)' /\ a \notin SettledOn(m)
            BY <2>2, <2>7 DEF SettledOn
        <3>2. SettledOn(m)' = SettledOn(m)
            BY <2>4, <3>1 DEF SettledOn
        <3>3. \A b \in Agents, n \in Msgs : Holds(b, n)' => Holds(b, n)
            BY <2>3, <2>4
        <3> QED BY <2>5, <3>2, <3>3, StepLoses
    <2> QED BY <2>6, <2>7
<1>3. ASSUME NEW a \in Agents, NEW m \in Msgs, Arbitrate(a, m)
      PROVE  Slots!SlotsNext
    <2>1. \A n \in Msgs : SettledOn(n)' = SettledOn(n)
        BY <1>3, SweepKeepsMarks
    <2>2. ASSUME NEW b \in Agents, NEW n \in Msgs, Holds(b, n)', <<b, n>> # <<a, m>>
          PROVE  Holds(b, n)
        <3>1. claims'[b][n] = claims[b][n]
            BY <1>3, <2>2, ArbitrateSweeps DEF Holds
        <3> QED BY <1>3, <2>2, <3>1, ArbitrateMoves DEF Holds
    <2>3. CASE Holds(a, m)'
        <3>1. Cardinality(SettledOn(m)) < MaxImplicit
            BY <1>3, <2>3, NewHolderWon, SettledAreSent
        <3>2. \A b \in Agents, n \in Msgs : n # m => (Holds(b, n)' => Holds(b, n))
            BY <2>2
        <3> QED BY <2>1, <2>3, <3>1, <3>2, StepGrants
    <2>4. CASE ~Holds(a, m)'
        <3>1. \A b \in Agents, n \in Msgs : Holds(b, n)' => Holds(b, n)
            BY <2>2, <2>4
        <3> QED BY <2>1, <3>1, StepLoses
    <2> QED BY <2>3, <2>4
<1>4. ASSUME NEW a \in Agents, Crash(a)
      PROVE  Slots!SlotsNext
    <2>1. claims' = claims /\ delivered' = delivered /\ lapsed' = lapsed
        BY <1>4 DEF Crash, ledgerVars
    <2>2. \A b \in Agents, n \in Msgs : pc'[b][n] = pc[b][n] \/ pc'[b][n] = "done"
        BY <1>4 DEF Crash, TypeOK
    <2>3. \A b \in Agents, n \in Msgs : Holds(b, n)' => Holds(b, n)
        BY <2>1, <2>2 DEF Holds
    <2>4. \A n \in Msgs : SettledOn(n)' = SettledOn(n)
        BY <2>1 DEF SettledOn
    <2> QED BY <2>3, <2>4, StepLoses
<1>5. CASE Tick \/ UNCHANGED vars
    <2>1. claims' = claims /\ delivered' = delivered /\ lapsed' = lapsed /\ pc' = pc
        BY <1>5 DEF Tick, vars
    <2>2. \A b \in Agents, n \in Msgs : Holds(b, n)' => Holds(b, n)
        BY <2>1 DEF Holds
    <2>3. \A n \in Msgs : SettledOn(n)' = SettledOn(n)
        BY <2>1 DEF SettledOn
    <2> QED BY <2>2, <2>3, StepLoses
<1> QED
    BY <1>1, <1>2, <1>3, <1>4, <1>5 DEF Next, Handle, OneHandlerStep

\* The handlers and the ledger implement the slots: at most one holder at a
\* time, slots given out only below the cap, and settled only by their holder.
THEOREM SlotsImplemented == Spec => ImplementsReplySlots
<1>1. IInv /\ [Next]_vars /\ IInv' /\ OneHolder /\ OneHolder'
        => [Slots!SlotsNext]_(Slots!slotVars)
    BY SlotsStep
<1> QED
    BY <1>1, SlotsBegin, InductiveInvariant, ArbitrationExcludes, PTL
    DEF Spec, ImplementsReplySlots, Slots!SlotsSpec
=============================================================================
