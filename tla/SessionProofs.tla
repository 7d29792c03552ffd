--------------------------- MODULE SessionProofs ---------------------------
(***************************************************************************)
(* Proofs about the turns of a thread, for every number of turns and every *)
(* length of the history: what is cut off a history, by the store or by    *)
(* compaction, leaves whole turns and the most recent ones.                *)
(***************************************************************************)
EXTENDS AgentSession, SequenceTheorems, WellFoundedInduction, TLAPS

-----------------------------------------------------------------------------
(* Histories. *)

Message == [turn : Turns, role : {"user", "blocked"} \cup Answers]
History == Seq(Message)

\* n turns, each a question and its own answer.
Whole(s, n) ==
    /\ n \in Nat /\ Len(s) = 2 * n
    /\ \A i \in 1 .. n : /\ s[2*i - 1].role = "user"
                         /\ s[2*i].role # "user"
                         /\ s[2*i - 1].turn = s[2*i].turn

\* The n answers are the latest of those committed.
Recent(s, n, answers) ==
    /\ n <= Len(answers)
    /\ \A i \in 1 .. n : s[2*i] = answers[Len(answers) - n + i]

\* Both limits count messages, and are even: 30 and 6 (session.py:26,
\* compaction.py:20).
Even(limit) == \E k \in Nat \ {0} : limit = 2 * k

\* What is left of whole turns by an even limit is whole turns, the latest.
LEMMA LatestTurns ==
    ASSUME NEW s \in History, NEW n, Whole(s, n), NEW limit, Even(limit)
    PROVE  /\ Latest(s, limit) \in History
           /\ \E m : /\ Whole(Latest(s, limit), m)
                     /\ n > 0 => m > 0 /\ Last(Latest(s, limit)) = Last(s)
                     /\ \A answers \in History :
                           Recent(s, n, answers) => Recent(Latest(s, limit), m, answers)
<1>1. CASE Len(s) <= limit
    <2>1. PICK k \in Nat \ {0} : limit = 2 * k
        BY DEF Even
    <2>2. Latest(s, limit) = s
        BY <1>1, <2>1 DEF Latest, Whole
    <2> QED BY <2>2
<1>2. CASE ~(Len(s) <= limit)
    <2>1. PICK k \in Nat \ {0} : limit = 2 * k
        BY DEF Even
    <2>2. n \in Nat /\ Len(s) = 2 * n /\ k < n
        BY <1>2, <2>1 DEF Whole
    <2>3. PICK l : l = Latest(s, limit)
        OBVIOUS
    <2>4. l = SubSeq(s, 2 * n - 2 * k + 1, 2 * n)
        BY <2>1, <2>2, <2>3 DEF Latest
    <2>5. /\ l \in History /\ Len(l) = 2 * k
          /\ \A j \in 1 .. 2 * k : l[j] = s[2 * n - 2 * k + j]
        <3>1. PICK x \in Int : x = 2 * n - 2 * k + 1
            BY <2>2
        <3>2. /\ 2 * n \in Int /\ 2 * n - x + 1 = 2 * k /\ x <= 2 * n
              /\ \A i \in x .. 2 * n : i \in 1 .. Len(s)
            BY <2>2, <3>1
        <3>3. \A i \in x .. 2 * n : s[i] \in Message
            BY <3>2 DEF History
        <3>4. /\ SubSeq(s, x, 2 * n) \in Seq(Message)
              /\ Len(SubSeq(s, x, 2 * n)) = 2 * k
              /\ \A i \in 1 .. 2 * k : SubSeq(s, x, 2 * n)[i] = s[x + i - 1]
            BY <3>2, <3>3, SubSeqProperties
        <3>5. \A j \in 1 .. 2 * k : x + j - 1 = 2 * n - 2 * k + j
            BY <2>2, <3>1
        <3> QED BY <2>4, <3>1, <3>4, <3>5 DEF History
    <2>6. \A i \in 1 .. k : /\ l[2*i - 1] = s[2 * (n - k + i) - 1]
                            /\ l[2*i] = s[2 * (n - k + i)]
                            /\ n - k + i \in 1 .. n
        BY <2>2, <2>5
    <2>7. Whole(l, k)
        BY <2>5, <2>6 DEF Whole
    <2>8. l[2 * k] = s[2 * n]
        BY <2>2, <2>5
    <2>9. ASSUME NEW answers \in History, Recent(s, n, answers)
          PROVE  Recent(l, k, answers)
        <3>1. Len(answers) \in Nat
            BY DEF History
        <3>2. \A i \in 1 .. k : l[2*i] = answers[Len(answers) - n + (n - k + i)]
            BY <2>6, <2>9 DEF Recent
        <3>3. \A i \in 1 .. k : Len(answers) - n + (n - k + i) = Len(answers) - k + i
            BY <2>2, <3>1
        <3> QED BY <2>2, <2>9, <3>1, <3>2, <3>3 DEF Recent
    <2>10. Last(l) = Last(s)
        BY <2>2, <2>5, <2>8 DEF Last
    <2> QED BY <2>3, <2>5, <2>7, <2>9, <2>10
<1> QED BY <1>1, <1>2

LEMMA OneMore ==
    ASSUME NEW S, NEW s \in Seq(S), NEW e \in S, NEW more, more = Append(s, e)
    PROVE  /\ more \in Seq(S) /\ Len(more) = Len(s) + 1
           /\ more[Len(s) + 1] = e /\ \A i \in 1 .. Len(s) : more[i] = s[i]
BY AppendProperties

\* A turn more: its question, and then what was made of it.
Extends(whole, s, t, role) ==
    /\ whole \in History /\ Len(whole) = Len(s) + 2
    /\ whole[Len(s) + 1] = Msg(t, "user") /\ whole[Len(s) + 2] = Msg(t, role)
    /\ \A i \in 1 .. Len(s) : whole[i] = s[i]

LEMMA Messages ==
    ASSUME NEW t \in Turns, NEW role \in {"user", "blocked"} \cup Answers
    PROVE  Msg(t, role) \in Message
BY DEF Msg, Message

LEMMA AnsweredTurn ==
    ASSUME NEW s \in History, NEW t \in Turns, NEW role \in Answers,
           NEW asked, asked = Append(s, Msg(t, "user")),
           NEW whole, whole = Append(asked, Msg(t, role))
    PROVE  Extends(whole, s, t, role)
<1>0. Msg(t, "user") \in Message /\ Msg(t, role) \in Message
    BY Messages
<1>1. /\ asked \in History /\ Len(asked) = Len(s) + 1 /\ asked[Len(s) + 1] = Msg(t, "user")
      /\ \A i \in 1 .. Len(s) : asked[i] = s[i]
    BY <1>0, OneMore DEF History
<1>2. /\ whole \in History /\ Len(whole) = Len(asked) + 1
      /\ whole[Len(asked) + 1] = Msg(t, role)
      /\ \A i \in 1 .. Len(asked) : whole[i] = asked[i]
    BY <1>0, <1>1, OneMore DEF History
<1>3. Len(s) \in Nat /\ Len(asked) + 1 = Len(s) + 2
    BY <1>1 DEF History
<1>4. /\ whole[Len(s) + 1] = asked[Len(s) + 1]
      /\ \A i \in 1 .. Len(s) : whole[i] = asked[i]
    BY <1>1, <1>2, <1>3
<1> QED BY <1>1, <1>2, <1>3, <1>4 DEF Extends

LEMMA BlockedTurn ==
    ASSUME NEW s \in History, NEW t \in Turns,
           NEW whole, whole = s \o <<Msg(t, "user"), Msg(t, "blocked")>>
    PROVE  Extends(whole, s, t, "blocked")
<1>1. PICK x, y : x = Msg(t, "user") /\ y = Msg(t, "blocked")
    OBVIOUS
<1>2. x \in Message /\ y \in Message
    BY <1>1, Messages
<1>3. /\ s \o <<x, y>> \in Seq(Message) /\ Len(s \o <<x, y>>) = Len(s) + 2
      /\ (s \o <<x, y>>)[Len(s) + 1] = x /\ (s \o <<x, y>>)[Len(s) + 2] = y
      /\ \A i \in 1 .. Len(s) : (s \o <<x, y>>)[i] = s[i]
    BY <1>2 DEF History
<1>4. whole = s \o <<x, y>>
    BY <1>1
<1> QED BY <1>1, <1>3, <1>4 DEF Extends, History

LEMMA TurnAdded ==
    ASSUME NEW s \in History, NEW n, Whole(s, n), NEW t \in Turns,
           NEW role \in {"blocked"} \cup Answers,
           NEW whole, Extends(whole, s, t, role)
    PROVE  /\ Whole(whole, n + 1) /\ Last(whole) = Msg(t, role)
           /\ \A answers \in History :
                 Recent(s, n, answers) => Recent(whole, n + 1, Append(answers, Msg(t, role)))
<1>1. Msg(t, "user") \in Message /\ Msg(t, role) \in Message
    BY Messages
<1>2. n \in Nat /\ Len(s) = 2 * n
    BY DEF Whole
<1>3. /\ whole \in History /\ Len(whole) = 2 * n + 2 /\ whole[2 * n + 2] = Msg(t, role)
      /\ whole[2 * n + 1] = Msg(t, "user") /\ \A i \in 1 .. 2 * n : whole[i] = s[i]
    BY <1>2 DEF Extends
<1>4. \A i \in 1 .. n : whole[2*i - 1] = s[2*i - 1] /\ whole[2*i] = s[2*i]
    BY <1>2, <1>3
<1>5. Whole(whole, n + 1)
    <2>0. n + 1 \in Nat /\ Len(whole) = 2 * (n + 1)
        BY <1>2, <1>3
    <2> SUFFICES ASSUME NEW i \in 1 .. n + 1
                 PROVE  /\ whole[2*i - 1].role = "user" /\ whole[2*i].role # "user"
                        /\ whole[2*i - 1].turn = whole[2*i].turn
        BY <2>0 DEF Whole
    <2>1. CASE i = n + 1
        <3>1. 2 * i - 1 = 2 * n + 1 /\ 2 * i = 2 * n + 2
            BY <1>2, <2>1
        <3>2. whole[2*i - 1] = Msg(t, "user") /\ whole[2*i] = Msg(t, role)
            BY <1>3, <3>1
        <3>3. role # "user"
            BY DEF Answers
        <3>4. /\ Msg(t, "user").role = "user" /\ Msg(t, "user").turn = t
              /\ Msg(t, role).role = role /\ Msg(t, role).turn = t
            BY DEF Msg
        <3> QED BY <3>2, <3>3, <3>4
    <2>2. CASE i \in 1 .. n
        BY <1>4, <2>2 DEF Whole
    <2> QED BY <1>2, <2>1, <2>2
<1>6. ASSUME NEW answers \in History, Recent(s, n, answers), NEW more,
             more = Append(answers, Msg(t, role))
      PROVE  Recent(whole, n + 1, more)
    <2>1. /\ Len(answers) \in Nat /\ Len(more) = Len(answers) + 1
          /\ more[Len(answers) + 1] = Msg(t, role)
          /\ \A i \in 1 .. Len(answers) : more[i] = answers[i]
        BY <1>1, <1>6 DEF History
    <2>2. \A i \in 1 .. n : /\ whole[2*i] = answers[Len(answers) - n + i]
                             /\ Len(answers) - n + i \in 1 .. Len(answers)
        BY <1>2, <1>4, <1>6, <2>1 DEF Recent
    <2>3. \A i \in 1 .. n : whole[2*i] = more[Len(answers) - n + i]
        BY <2>1, <2>2
    <2>4. ASSUME NEW i \in 1 .. n + 1
          PROVE  whole[2*i] = more[Len(more) - (n + 1) + i]
        <3>1. Len(more) - (n + 1) + i = Len(answers) - n + i
            BY <1>2, <2>1
        <3>2. CASE i \in 1 .. n
            BY <2>3, <3>1, <3>2
        <3>3. CASE i = n + 1
            <4>1. 2 * i = 2 * n + 2 /\ Len(answers) - n + i = Len(answers) + 1
                BY <1>2, <2>1, <3>3
            <4> QED BY <1>3, <2>1, <3>1, <4>1
        <3> QED BY <1>2, <3>2, <3>3
    <2>5. n + 1 <= Len(more)
        BY <1>2, <1>6, <2>1 DEF Recent
    <2> QED BY <2>4, <2>5 DEF Recent
<1>7. Last(whole) = Msg(t, role)
    BY <1>2, <1>3 DEF Last
<1> QED BY <1>3, <1>5, <1>6, <1>7
-----------------------------------------------------------------------------
(* The inductive invariant.                                                  *)

Places == {"idle", "asked", "thinking", "saving", "indexing", "replied", "failed", "lost"}

\* Between the load of the history and its release of the lock.
Working(t) == pc[t] \in {"thinking", "saving", "indexing"}

Current(s, answers) == \E n : Whole(s, n) /\ (locking => Recent(s, n, answers))

\* What a turn has read or is about to save is whole turns; behind the lock they
\* are the latest as well, though the thread may have been cleared since.
DraftCurrent(t) ==
    /\ pc[t] = "thinking" => \E s \in History : /\ draft[t] = Append(s, Msg(t, "user"))
                                               /\ Current(s, log)
    /\ pc[t] = "saving" => /\ Last(draft[t]) \in Message
                           /\ Current(draft[t], Append(log, Last(draft[t])))

SessionInv ==
    /\ session \in History /\ log \in History
    /\ draft \in [Turns -> History] /\ pc \in [Turns -> Places]
    /\ Current(session, log)
    /\ \A t \in Turns : DraftCurrent(t)
    /\ locking => \A t \in Turns : Working(t) => lock = t

LEMMA EmptyIsCurrent == ASSUME NEW answers \in History PROVE Current(<<>>, answers)
<1>1. Whole(<<>>, 0) /\ Recent(<<>>, 0, answers)
    BY DEF Whole, Recent, History
<1> QED BY <1>1 DEF Current

LEMMA Limits == Even(MaxHistory) /\ Even(KeepRecent)
<1>1. ASSUME NEW limit \in Nat \ {0}, limit % 2 = 0
      PROVE  Even(limit)
    <2>1. PICK k : k = limit \div 2
        OBVIOUS
    <2>2. k \in Nat \ {0} /\ limit = 2 * k
        BY <1>1, <2>1
    <2> QED BY <2>2 DEF Even
<1> QED BY <1>1, SessionAssumption

LEMMA LatestIsCurrent ==
    ASSUME NEW s \in History, NEW limit, Even(limit), NEW answers \in History,
           Current(s, answers)
    PROVE  Latest(s, limit) \in History /\ Current(Latest(s, limit), answers)
BY LatestTurns DEF Current

\* A turn that nothing happens to.
LEMMA DraftKept ==
    ASSUME NEW t \in Turns, DraftCurrent(t), log' = log, locking' = locking,
           (pc'[t] = pc[t] /\ draft'[t] = draft[t]) \/ ~Working(t)'
    PROVE  DraftCurrent(t)'
BY DEF DraftCurrent, Current, Working

\* Every step keeps the histories whole and current.
THEOREM SessionInductive == SessionInv /\ [SessionNext]_vars => SessionInv'
<1> SUFFICES ASSUME SessionInv, [SessionNext]_vars
             PROVE  SessionInv'
    OBVIOUS
<1> locking' = locking
    BY DEF SessionNext, Turn, Ask, Load, Block, Respond, Save, Index, Fail, Remember, Clear,
           Crash, settings, vars
<1>1. ASSUME NEW t \in Turns, NEW step \in {"replied", "failed"}, End(t, step),
             session' = session, log' = log
      PROVE  SessionInv'
    <2>1. draft' \in [Turns -> History] /\ pc' \in [Turns -> Places]
        BY <1>1 DEF End, SessionInv, Places, History
    <2>2. ASSUME NEW u \in Turns
          PROVE  DraftCurrent(u)'
        <3>1. (pc'[u] = pc[u] /\ draft'[u] = draft[u]) \/ ~Working(u)'
            BY <1>1 DEF End, SessionInv, Working
        <3> QED BY <1>1, <3>1, DraftKept DEF SessionInv
    <2>3. locking => \A u \in Turns : Working(u)' => lock' = u
        BY <1>1 DEF End, SessionInv, Working
    <2>4. Current(session, log)'
        BY <1>1 DEF SessionInv, Current
    <2> QED BY <1>1, <2>1, <2>2, <2>3, <2>4 DEF SessionInv
<1>2. ASSUME NEW t \in Turns, Ask(t)
      PROVE  SessionInv'
    <2>1. draft' = draft /\ session' = session /\ log' = log /\ lock' = lock
        BY <1>2 DEF Ask
    <2>2. pc' = [pc EXCEPT ![t] = "asked"]
        BY <1>2 DEF Ask
    <2>3. pc' \in [Turns -> Places]
        BY <2>2 DEF SessionInv, Places
    <2>4. \A u \in Turns : DraftCurrent(u)'
        BY <2>1, <2>2, DraftKept DEF SessionInv, Working
    <2>5. locking => \A u \in Turns : Working(u)' => lock' = u
        BY <2>1, <2>2 DEF SessionInv, Working
    <2>6. Current(session, log)'
        BY <2>1 DEF SessionInv, Current
    <2> QED BY <2>1, <2>3, <2>4, <2>5, <2>6 DEF SessionInv
<1>3. ASSUME NEW t \in Turns, pc[t] = "asked", lock = NoTurn,
             lock' = IF locking THEN t ELSE NoTurn,
             NEW next \in {"thinking", "saving"}, pc' = [pc EXCEPT ![t] = next],
             NEW h \in History, draft' = [draft EXCEPT ![t] = h],
             session' = session, log' = log, DraftCurrent(t)'
      PROVE  SessionInv'
    <2>1. locking => \A u \in Turns : ~Working(u)
        BY <1>3, SessionAssumption DEF SessionInv
    <2>2. locking => \A u \in Turns : Working(u)' => lock' = u
        BY <1>3, <2>1 DEF SessionInv, Working
    <2>3. draft' \in [Turns -> History] /\ pc' \in [Turns -> Places]
        BY <1>3 DEF SessionInv, Places
    <2>4. \A u \in Turns : DraftCurrent(u)'
        BY <1>3, DraftKept DEF SessionInv
    <2>5. Current(session, log)'
        BY <1>3 DEF SessionInv, Current
    <2> QED BY <1>3, <2>2, <2>3, <2>4, <2>5 DEF SessionInv
<1>4. ASSUME NEW t \in Turns, Load(t)
      PROVE  SessionInv'
    <2>1. PICK h : h = Append(session, Msg(t, "user"))
        OBVIOUS
    <2>2. h \in History
        <3>1. Msg(t, "user") \in Message
            BY Messages
        <3> QED BY <2>1, <3>1, OneMore DEF SessionInv, History
    <2>3. /\ pc[t] = "asked" /\ lock = NoTurn /\ lock' = IF locking THEN t ELSE NoTurn
          /\ pc' = [pc EXCEPT ![t] = "thinking"] /\ draft' = [draft EXCEPT ![t] = h]
          /\ session' = session /\ log' = log
        BY <1>4, <2>1 DEF Load
    <2>4. pc'[t] = "thinking" /\ draft'[t] = h
        BY <2>3 DEF SessionInv
    <2>5. PICK s \in History : s = session /\ Current(s, log)
        BY DEF SessionInv
    <2>6. draft'[t] = Append(s, Msg(t, "user")) /\ Current(s, log)'
        BY <2>1, <2>3, <2>4, <2>5 DEF Current
    <2>7. DraftCurrent(t)'
        BY <2>4, <2>5, <2>6 DEF DraftCurrent
    <2> QED BY <1>3, <2>2, <2>3, <2>7
<1>5. ASSUME NEW t \in Turns, Block(t)
      PROVE  SessionInv'
    <2>1. CASE t \in Reactions
        BY <1>1, <1>5, <2>1 DEF Block
    <2>2. CASE t \notin Reactions
        <3>1. PICK h : h = session \o <<Msg(t, "user"), Msg(t, "blocked")>>
            OBVIOUS
        <3>2. Extends(h, session, t, "blocked")
            BY <3>1, BlockedTurn DEF SessionInv
        <3>3. /\ pc[t] = "asked" /\ lock = NoTurn /\ lock' = IF locking THEN t ELSE NoTurn
              /\ pc' = [pc EXCEPT ![t] = "saving"] /\ draft' = [draft EXCEPT ![t] = h]
              /\ session' = session /\ log' = log
            BY <1>5, <2>2, <3>1 DEF Block
        <3>4. PICK n : Whole(session, n) /\ (locking => Recent(session, n, log))
            BY DEF SessionInv, Current
        <3>5. /\ Whole(h, n + 1) /\ Last(h) = Msg(t, "blocked")
              /\ locking => Recent(h, n + 1, Append(log, Msg(t, "blocked")))
            BY <3>2, <3>4, TurnAdded DEF SessionInv
        <3>6. Current(h, Append(log, Last(h)))
            BY <3>5 DEF Current
        <3>7. pc'[t] = "saving" /\ draft'[t] = h /\ Last(h) \in Message
            BY <3>3, <3>5, Messages DEF SessionInv
        <3>8. DraftCurrent(t)'
            BY <3>3, <3>6, <3>7 DEF DraftCurrent, Current
        <3> QED BY <1>3, <3>2, <3>3, <3>8 DEF Extends
    <2> QED BY <2>1, <2>2
<1>6. ASSUME NEW t \in Turns, Respond(t)
      PROVE  SessionInv'
    <2>1. CASE t \in Reactions
        BY <1>1, <1>6, <2>1 DEF Respond
    <2>2. CASE t \notin Reactions
        <3>1. PICK role \in Answers :
                  draft' = [draft EXCEPT ![t] = Compacted(Append(draft[t], Msg(t, role)))]
            BY <1>6, <2>2 DEF Respond
        <3>2. PICK s \in History : draft[t] = Append(s, Msg(t, "user")) /\ Current(s, log)
            BY <1>6 DEF Respond, SessionInv, DraftCurrent
        <3>3. PICK whole : whole = Append(draft[t], Msg(t, role))
            OBVIOUS
        <3>4. Extends(whole, s, t, role)
            BY <3>2, <3>3, AnsweredTurn
        <3>5. PICK n : Whole(s, n) /\ (locking => Recent(s, n, log))
            BY <3>2 DEF Current
        <3>6. /\ Whole(whole, n + 1) /\ Last(whole) = Msg(t, role)
              /\ locking => Recent(whole, n + 1, Append(log, Msg(t, role)))
            <4>1. role \in {"blocked"} \cup Answers /\ log \in History
                BY DEF SessionInv
            <4> QED BY <3>4, <3>5, <4>1, TurnAdded
        <3>7. PICK h : h = Compacted(whole)
            OBVIOUS
        <3>8. Msg(t, role) \in Message /\ Append(log, Msg(t, role)) \in History
            <4>1. Msg(t, role) \in Message
                BY Messages
            <4> QED BY <4>1, OneMore DEF SessionInv, History
        <3>9. /\ h \in History /\ Last(h) = Msg(t, role)
              /\ Current(h, Append(log, Msg(t, role)))
            <4>1. CASE h = whole
                BY <3>4, <3>6, <4>1 DEF Extends, Current
            <4>2. CASE h = Latest(whole, KeepRecent)
                <5>1. n + 1 > 0
                    BY <3>5 DEF Whole
                <5>2. /\ h \in History
                      /\ \E m : /\ Whole(h, m) /\ Last(h) = Last(whole)
                                /\ \A answers \in History :
                                      Recent(whole, n + 1, answers) => Recent(h, m, answers)
                    BY <3>4, <3>6, <4>2, <5>1, LatestTurns, Limits DEF Extends
                <5> QED BY <3>6, <3>8, <5>2 DEF Current
            <4> QED BY <3>7, <4>1, <4>2 DEF Compacted
        <3>10. /\ pc' = [pc EXCEPT ![t] = "saving"] /\ draft' = [draft EXCEPT ![t] = h]
               /\ session' = session /\ log' = log /\ lock' = lock /\ pc[t] = "thinking"
            BY <1>6, <2>2, <3>1, <3>3, <3>7 DEF Respond
        <3>11. pc'[t] = "saving" /\ draft'[t] = h
            BY <3>10 DEF SessionInv
        <3>12. DraftCurrent(t)'
            BY <3>8, <3>9, <3>10, <3>11 DEF DraftCurrent, Current
        <3>13. \A u \in Turns : DraftCurrent(u)'
            BY <3>10, <3>12, DraftKept DEF SessionInv
        <3>14. locking => \A u \in Turns : Working(u)' => lock' = u
            BY <3>10 DEF SessionInv, Working
        <3>15. draft' \in [Turns -> History] /\ pc' \in [Turns -> Places]
            BY <3>9, <3>10 DEF SessionInv, Places
        <3>16. Current(session, log)'
            BY <3>10 DEF SessionInv, Current
        <3> QED BY <3>10, <3>13, <3>14, <3>15, <3>16 DEF SessionInv
    <2> QED BY <2>1, <2>2
<1>7. ASSUME NEW t \in Turns, Save(t)
      PROVE  SessionInv'
    <2>1. PICK h, last : h = draft[t] /\ last = Last(draft[t])
        OBVIOUS
    <2>2. /\ session' = Latest(h, MaxHistory) /\ log' = Append(log, last) /\ lock' = lock
          /\ pc' = [pc EXCEPT ![t] = "indexing"]
          /\ draft' = [draft EXCEPT ![t] = Latest(h, MaxHistory)] /\ pc[t] = "saving"
        BY <1>7, <2>1 DEF Save, SessionInv
    <2>3. h \in History /\ last \in Message /\ Current(h, Append(log, last))
        BY <2>1, <2>2 DEF SessionInv, DraftCurrent
    <2>4. log' \in History
        BY <2>2, <2>3, OneMore DEF SessionInv, History
    <2>5. session' \in History /\ Current(session', log')
        BY <2>2, <2>3, <2>4, LatestIsCurrent, Limits
    <2>6. draft' \in [Turns -> History] /\ pc' \in [Turns -> Places]
        BY <2>2, <2>5 DEF SessionInv, Places
    <2>7. locking => \A u \in Turns : Working(u)' => lock' = u
        BY <2>2 DEF SessionInv, Working
    <2>8. ASSUME NEW u \in Turns
          PROVE  DraftCurrent(u)'
        <3>1. CASE u = t
            BY <2>2, <3>1 DEF DraftCurrent, SessionInv
        <3>2. CASE u # t /\ ~Working(u)
            BY <2>2, <3>2 DEF DraftCurrent, SessionInv, Working
        <3>3. CASE u # t /\ Working(u)
            <4>1. ~locking
                BY <2>2, <3>3 DEF SessionInv, Working
            <4>2. pc'[u] = pc[u] /\ draft'[u] = draft[u]
                BY <2>2, <3>3 DEF SessionInv
            <4> QED BY <4>1, <4>2 DEF DraftCurrent, Current, SessionInv
        <3> QED BY <3>1, <3>2, <3>3
    <2> QED BY <2>4, <2>5, <2>6, <2>7, <2>8 DEF SessionInv, Current
<1>8. ASSUME NEW t \in Turns, Index(t) \/ Fail(t)
      PROVE  SessionInv'
    BY <1>1, <1>8 DEF Index, Fail
<1>9. CASE Crash
    <2>1. draft' = [t \in Turns |-> <<>>] /\ session' = session /\ log' = log
        BY <1>9 DEF Crash
    <2>2. pc' = [t \in Turns |->
                    IF pc[t] \in {"idle", "replied", "failed"} THEN pc[t] ELSE "lost"]
        BY <1>9 DEF Crash
    <2>3. \A t \in Turns : ~Working(t)'
        BY <2>2 DEF Working
    <2>4. draft' \in [Turns -> History] /\ pc' \in [Turns -> Places]
        BY <2>1, <2>2 DEF Places, History
    <2>5. Current(session, log)'
        BY <2>1 DEF SessionInv, Current
    <2> QED BY <2>1, <2>3, <2>4, <2>5 DEF SessionInv, DraftCurrent, Working
<1>10. CASE Clear
    <2>1. session' = <<>> /\ log' = log /\ UNCHANGED turnVars
        BY <1>10 DEF Clear
    <2>2. Current(session', log')
        BY <2>1, EmptyIsCurrent DEF SessionInv
    <2>3. \A t \in Turns : DraftCurrent(t)'
        BY <2>1, DraftKept DEF SessionInv, turnVars
    <2> QED BY <2>1, <2>2, <2>3 DEF SessionInv, Current, Working, History, turnVars
<1>11. ASSUME UNCHANGED turnVars, session' = session, log' = log
      PROVE  SessionInv'
    <2>1. \A t \in Turns : DraftCurrent(t)'
        BY <1>11, DraftKept DEF SessionInv, turnVars
    <2> QED BY <1>11, <2>1 DEF SessionInv, Current, Working, turnVars
<1>12. ASSUME NEW q \in Turns, NEW a \in Turns, Remember(<<q, a>>)
      PROVE  SessionInv'
    BY <1>11, <1>12 DEF Remember
<1>13. CASE UNCHANGED vars
    BY <1>11, <1>13 DEF vars
<1> QED BY <1>2, <1>4, <1>5, <1>6, <1>7, <1>8, <1>9, <1>10, <1>12, <1>13
        DEF SessionNext, Turn

LEMMA SessionInitial == SessionInit => SessionInv
<1> SUFFICES ASSUME SessionInit
             PROVE  SessionInv
    OBVIOUS
<1>1. <<>> \in History
    BY DEF History
<1>2. Current(session, log)
    BY <1>1, EmptyIsCurrent DEF SessionInit
<1>3. \A t \in Turns : DraftCurrent(t) /\ ~Working(t)
    BY DEF SessionInit, DraftCurrent, Working
<1> QED BY <1>1, <1>2, <1>3 DEF SessionInit, SessionInv, Places

\* Whatever turns overlap, with the lock or without, whatever is compacted,
\* blocked, cleared or lost: the history of a thread is whole turns (session.py's
\* save, compaction.py).
THEOREM WholeTurns == SessionSpec => []TurnsStayWhole
<1>1. SessionInv => TurnsStayWhole
    <2> SUFFICES ASSUME SessionInv
                 PROVE  TurnsStayWhole
        OBVIOUS
    <2>1. PICK n : Whole(session, n)
        BY DEF SessionInv, Current
    <2>2. Len(session) % 2 = 0 /\ Len(session) \div 2 = n
        BY <2>1 DEF Whole
    <2> QED BY <2>1, <2>2 DEF Whole, TurnsStayWhole
<1> QED BY <1>1, SessionInitial, SessionInductive, PTL DEF SessionSpec

\* Behind the lock of the bridge the history ends with the latest answers that
\* were committed, in their order: no turn overwrites another's (bridge.py's
\* _agent_lock around ainvoke).
THEOREM LatestAnswersKept == SessionSpec => []HistoryIsRecent
<1>1. SessionInv => HistoryIsRecent
    <2> SUFFICES ASSUME SessionInv, locking
                 PROVE  LET n == Len(session) \div 2 IN
                        /\ n <= Len(log)
                        /\ \A i \in 1..n : session[2*i] = log[Len(log) - n + i]
        BY DEF HistoryIsRecent
    <2>1. PICK n : Whole(session, n) /\ Recent(session, n, log)
        BY DEF SessionInv, Current
    <2>2. Len(session) \div 2 = n
        BY <2>1 DEF Whole
    <2> QED BY <2>1, <2>2 DEF Recent
<1> QED BY <1>1, SessionInitial, SessionInductive, PTL DEF SessionSpec
-----------------------------------------------------------------------------
(* What is recalled: the history, what was folded out of it, what the search *)
(* index and long-term memory hold.                                          *)

\* Nothing the turn said has been committed.
Unsaid == {"idle", "asked", "thinking", "saving"}

\* What became of the question is settled: nothing else can be committed for it.
Fate(t, role) ==
    /\ t \in Turns /\ pc[t] \notin {"idle", "asked", "thinking"}
    /\ pc[t] = "saving" => Last(draft[t]) = Msg(t, role)
    /\ \A i \in DOMAIN log : log[i].turn = t => log[i].role = role

Fated(s) == \A i \in DOMAIN s : s[i].role # "user" => Fate(s[i].turn, s[i].role)

\* A turn that saves comes to its own answer.
AnswerDrafted(t) ==
    pc[t] = "saving" => /\ draft[t] # <<>> /\ Last(draft[t]).turn = t
                        /\ Last(draft[t]).role # "user"

PairFated(pair) ==
    Fate(pair[2], "answer") /\ (pair[1] # pair[2] => Fate(pair[1], "blank"))

FateInv ==
    /\ \A i \in DOMAIN log : pc[log[i].turn] \notin Unsaid
    /\ \A t \in Turns : AnswerDrafted(t) /\ (Working(t) => Fated(draft[t]))
    /\ Fated(session)
    /\ \A pair \in jobs \union remembered : PairFated(pair)

\* A turn that overlapped a /clear has saved, or may have.
BroughtBack == \E t \in overlapped : pc[t] \in {"indexing", "replied", "lost"}

\* Nothing of before a /clear is in the hands of a turn that did not overlap it.
ReadInTime(t) ==
    pc[t] \in {"thinking", "saving"} /\ TurnsOf(draft[t]) \intersect forgotten # {}
        => t \in overlapped \/ BroughtBack

ClearInv ==
    /\ forgotten \subseteq TurnsOf(log) /\ overlapped \subseteq Turns
    /\ TurnsOf(session) \intersect forgotten # {} => BroughtBack
    /\ \A t \in Turns : ReadInTime(t)

\* What was committed is in the history, cleared or summarised.
Kept(s) == TurnsOf(log) \subseteq TurnsOf(s) \union forgotten \union summarised

NoneBlocked == \A i \in DOMAIN log : log[i].role # "blocked"

\* What a turn is about to save leaves nothing out, if it answers a question.
KeepsAll(t) ==
    /\ pc[t] = "thinking" => Kept(draft[t])
    /\ pc[t] = "saving" /\ Last(draft[t]).role # "blocked"
          => Kept(draft[t]) /\ Len(draft[t]) <= MaxHistory

KeptInv ==
    locking /\ memory /\ NoneBlocked => Kept(session) /\ \A t \in Turns : KeepsAll(t)

Covering(s) ==
    \A i \in DOMAIN s : s[i].role # "blank" => \E j \in 1 .. MaxHistory : <<j, s[i]>> \in index

SearchInv ==
    /\ Len(session) <= MaxHistory
    /\ session # <<>> =>
          /\ pc[Last(session).turn] = "indexing" => draft[Last(session).turn] = session
          /\ pc[Last(session).turn] = "replied" => Covering(session)

-----------------------------------------------------------------------------
(* The steps of a thread, told apart by what they do to its histories.       *)

\* A turn that goes on or ends without touching a history.
Passes(t) ==
    \/ pc'[t] = pc[t] /\ (Working(t) => draft'[t] = draft[t])
    \/ pc[t] = "idle" /\ pc'[t] = "asked"
    \/ pc[t] \in {"asked", "thinking"} /\ pc'[t] = "replied"
    \/ pc[t] = "indexing" /\ pc'[t] = "replied" /\ Indexed(draft[t]) \subseteq index'
    \/ pc[t] \in {"thinking", "saving"} /\ pc'[t] = "failed"
    \/ pc[t] \notin {"idle", "replied", "failed"} /\ pc'[t] = "lost"

Quiet ==
    /\ \A t \in Turns : Passes(t)
    /\ UNCHANGED <<session, log, summarised, clearVars>>
    /\ jobs' \union remembered' \subseteq jobs \union remembered
    /\ index \subseteq index'

\* Only t is at work in the step.
Alone(t) == \A u \in Turns \ {t} : pc'[u] = pc[u] /\ draft'[u] = draft[u]

\* The turn begins to think about what was asked, or to save its refusal.
Begins(t) ==
    /\ pc[t] = "asked" /\ Alone(t)
    /\ \/ pc'[t] = "thinking" /\ draft'[t] = Append(session, Msg(t, "user"))
       \/ pc'[t] = "saving" /\ Extends(draft'[t], session, t, "blocked")
    /\ UNCHANGED <<session, index, recallVars, log, clearVars>>

\* The turn has its answer, and compacts the history that ends with it.
Concludes(t, role, s, whole) ==
    /\ pc[t] = "thinking" /\ pc'[t] = "saving" /\ Alone(t)
    /\ Extends(whole, s, t, role) /\ whole = Append(draft[t], Msg(t, role))
    /\ draft'[t] = Compacted(whole)
    /\ draft'[t] \in History /\ Last(draft'[t]) = Msg(t, role)
    /\ summarised' = summarised \union Dropped(whole)
    /\ jobs' = IF memory THEN jobs \union MemoryPair(whole) ELSE jobs
    /\ UNCHANGED <<session, index, remembered, log, clearVars>>

Commits(t) ==
    /\ pc[t] = "saving" /\ pc'[t] = "indexing" /\ Alone(t)
    /\ session' = Latest(draft[t], MaxHistory) /\ draft'[t] = session'
    /\ log' = Append(log, Last(draft[t]))
    /\ UNCHANGED <<index, recallVars, clearVars>>

Clears ==
    /\ session' = <<>> /\ forgotten' = TurnsOf(log)
    /\ overlapped' = overlapped \union {t \in Turns : pc[t] \in {"thinking", "saving"}}
    /\ UNCHANGED <<turnVars, index, recallVars, log>>

\* Compaction keeps the answer it is given.
LEMMA AnswerCompacted ==
    ASSUME NEW s \in History, Current(s, log), NEW t \in Turns, NEW role \in Answers,
           NEW whole, Extends(whole, s, t, role)
    PROVE  Compacted(whole) \in History /\ Last(Compacted(whole)) = Msg(t, role)
<1>1. PICK n : Whole(s, n)
    BY DEF Current
<1>2. Whole(whole, n + 1) /\ Last(whole) = Msg(t, role)
    <2>1. role \in {"blocked"} \cup Answers
        OBVIOUS
    <2> QED BY <1>1, <2>1, TurnAdded
<1>3. n + 1 > 0 /\ whole \in History
    BY <1>1 DEF Whole, Extends
<1>4. /\ Latest(whole, KeepRecent) \in History
      /\ Last(Latest(whole, KeepRecent)) = Last(whole)
    BY <1>2, <1>3, LatestTurns, Limits
<1> QED BY <1>2, <1>3, <1>4 DEF Compacted

LEMMA ThreadSteps ==
    ASSUME SessionInv, [SessionNext]_vars
    PROVE  /\ UNCHANGED settings
           /\ \/ Quiet
              \/ Clears
              \/ \E t \in Turns : Begins(t) \/ Commits(t)
              \/ \E t \in Turns : \E role \in Answers : \E s \in History : \E whole :
                    Concludes(t, role, s, whole)
<1>1. UNCHANGED settings
    BY DEF SessionNext, Turn, Ask, Load, Block, Respond, Save, Index, Fail, Remember, Clear,
           Crash, settings, vars
<1>2. ASSUME NEW t \in Turns, NEW step, End(t, step)
      PROVE  pc'[t] = step /\ Alone(t)
    BY <1>2 DEF End, Alone, SessionInv
<1>3. ASSUME NEW t \in Turns, Alone(t), Passes(t)
      PROVE  \A u \in Turns : Passes(u)
    BY <1>3 DEF Alone, Passes
<1>4. ASSUME NEW t \in Turns, Ask(t)
      PROVE  Quiet
    <2>1. pc'[t] = "asked" /\ pc[t] = "idle" /\ Alone(t)
        BY <1>4 DEF Ask, Alone, SessionInv
    <2>2. \A u \in Turns : Passes(u)
        BY <1>3, <2>1 DEF Passes
    <2> QED BY <1>4, <2>2 DEF Ask, Quiet, recallVars, clearVars
<1>5. ASSUME NEW t \in Turns, Load(t)
      PROVE  Begins(t)
    BY <1>5 DEF Load, Begins, Alone, SessionInv
<1>6. ASSUME NEW t \in Turns, Block(t), t \in Reactions
      PROVE  Quiet
    <2>1. pc[t] = "asked" /\ End(t, "replied")
        BY <1>6 DEF Block
    <2>2. \A u \in Turns : Passes(u)
        BY <1>2, <1>3, <2>1 DEF Passes
    <2> QED BY <1>6, <2>2 DEF Block, Quiet, recallVars, clearVars
<1>7. ASSUME NEW t \in Turns, Block(t), t \notin Reactions
      PROVE  Begins(t)
    <2>1. PICK h : h = session \o <<Msg(t, "user"), Msg(t, "blocked")>>
        OBVIOUS
    <2>2. Extends(h, session, t, "blocked")
        BY <2>1, BlockedTurn DEF SessionInv
    <2>3. /\ pc[t] = "asked" /\ pc' = [pc EXCEPT ![t] = "saving"]
          /\ draft' = [draft EXCEPT ![t] = h]
          /\ UNCHANGED <<session, index, recallVars, log, clearVars>>
        BY <1>7, <2>1 DEF Block
    <2>4. pc'[t] = "saving" /\ draft'[t] = h /\ Alone(t)
        BY <2>3 DEF SessionInv, Alone
    <2> QED BY <2>2, <2>3, <2>4 DEF Begins
<1>8. ASSUME NEW t \in Turns, Respond(t), t \in Reactions
      PROVE  Quiet
    <2>1. pc[t] = "thinking" /\ End(t, "replied")
        BY <1>8 DEF Respond
    <2>2. \A u \in Turns : Passes(u)
        BY <1>2, <1>3, <2>1 DEF Passes
    <2> QED BY <1>8, <2>2 DEF Respond, Quiet, clearVars
<1>9. ASSUME NEW t \in Turns, Respond(t), t \notin Reactions
      PROVE  \E role \in Answers : \E s \in History : \E whole : Concludes(t, role, s, whole)
    <2>1. PICK role \in Answers :
             LET new == Append(draft[t], Msg(t, role)) IN
             /\ draft' = [draft EXCEPT ![t] = Compacted(new)]
             /\ summarised' = summarised \union Dropped(new)
             /\ jobs' = IF memory THEN jobs \union MemoryPair(new) ELSE jobs
             /\ pc' = [pc EXCEPT ![t] = "saving"]
        BY <1>9 DEF Respond
    <2> PICK whole : whole = Append(draft[t], Msg(t, role))
        OBVIOUS
    <2>2. PICK s \in History : draft[t] = Append(s, Msg(t, "user")) /\ Current(s, log)
        BY <1>9 DEF Respond, SessionInv, DraftCurrent
    <2>3. Extends(whole, s, t, role)
        BY <2>1, <2>2, AnsweredTurn
    <2>4. Compacted(whole) \in History /\ Last(Compacted(whole)) = Msg(t, role)
        BY <2>2, <2>3, AnswerCompacted
    <2>5. draft'[t] = Compacted(whole) /\ pc'[t] = "saving" /\ Alone(t)
        BY <2>1 DEF SessionInv, Alone
    <2>6. /\ pc[t] = "thinking"
          /\ UNCHANGED <<session, index, remembered, log, clearVars>>
        BY <1>9 DEF Respond
    <2>7. Concludes(t, role, s, whole)
        BY <2>1, <2>3, <2>4, <2>5, <2>6 DEF Concludes
    <2> QED BY <2>7
<1>10. ASSUME NEW t \in Turns, Save(t)
       PROVE  Commits(t)
    <2>1. PICK h, last : h = Latest(draft[t], MaxHistory) /\ last = Last(draft[t])
        OBVIOUS
    <2>2. /\ pc[t] = "saving" /\ session' = h /\ log' = Append(log, last)
          /\ pc' = [pc EXCEPT ![t] = "indexing"] /\ draft' = [draft EXCEPT ![t] = h]
          /\ UNCHANGED <<index, recallVars, clearVars>>
        BY <1>10, <2>1 DEF Save, SessionInv
    <2>3. draft'[t] = h /\ pc'[t] = "indexing" /\ Alone(t)
        BY <2>2 DEF SessionInv, Alone
    <2> QED BY <2>1, <2>2, <2>3 DEF Commits
<1>11. ASSUME NEW t \in Turns, Index(t)
       PROVE  Quiet
    <2>1. /\ pc[t] = "indexing" /\ End(t, "replied") /\ index' = index \union Indexed(draft[t])
          /\ UNCHANGED <<session, recallVars, log, clearVars>>
        BY <1>11 DEF Index
    <2>2. \A u \in Turns : Passes(u)
        BY <1>2, <1>3, <2>1 DEF Passes
    <2> QED BY <2>1, <2>2 DEF Quiet, recallVars, clearVars
<1>12. ASSUME NEW t \in Turns, Fail(t)
       PROVE  Quiet
    <2>1. /\ pc[t] \in {"thinking", "saving"} /\ End(t, "failed")
          /\ UNCHANGED <<session, index, recallVars, log, clearVars>>
        BY <1>12 DEF Fail
    <2>2. \A u \in Turns : Passes(u)
        BY <1>2, <1>3, <2>1 DEF Passes
    <2> QED BY <2>1, <2>2 DEF Quiet, recallVars, clearVars
<1>13. ASSUME NEW pair, Remember(pair)
       PROVE  Quiet
    BY <1>13 DEF Remember, Quiet, Passes, turnVars, clearVars
<1>14. ASSUME Clear
       PROVE  Clears
    BY <1>14 DEF Clear, Clears
<1>15. ASSUME Crash
       PROVE  Quiet
    <2>1. \A t \in Turns :
              pc'[t] = IF pc[t] \in {"idle", "replied", "failed"} THEN pc[t] ELSE "lost"
        BY <1>15 DEF Crash
    <2>2. ASSUME NEW t \in Turns
          PROVE  Passes(t)
        BY <2>1 DEF Passes, Working
    <2> QED BY <1>15, <2>2 DEF Crash, Quiet, clearVars
<1>16. ASSUME UNCHANGED vars
       PROVE  Quiet
    BY <1>16 DEF vars, Quiet, Passes, turnVars, recallVars, clearVars
<1>17. CASE \E t \in Turns : Turn(t)
    BY <1>1, <1>4, <1>5, <1>6, <1>7, <1>8, <1>9, <1>10, <1>11, <1>12, <1>17 DEF Turn
<1>18. CASE \E q, a \in Turns : Remember(<<q, a>>)
    BY <1>1, <1>13, <1>18
<1> QED BY <1>1, <1>14, <1>15, <1>16, <1>17, <1>18 DEF SessionNext
-----------------------------------------------------------------------------
(* What comes of a turn, and what long-term memory makes of it.              *)

\* What is left of a history was in it.
LEMMA LatestElements ==
    ASSUME NEW s \in History, NEW limit, Even(limit)
    PROVE  /\ Len(Latest(s, limit)) <= limit
           /\ \A i \in DOMAIN Latest(s, limit) : \E j \in DOMAIN s : Latest(s, limit)[i] = s[j]
           /\ TurnsOf(Latest(s, limit)) \subseteq TurnsOf(s)
<1>1. PICK k \in Nat \ {0} : limit = 2 * k
    BY DEF Even
<1>2. PICK l : l = Latest(s, limit)
    OBVIOUS
<1>3. CASE Len(s) <= limit
    <2>1. l = s
        BY <1>1, <1>2, <1>3 DEF Latest, History
    <2> QED BY <1>2, <1>3, <2>1
<1>4. CASE ~(Len(s) <= limit)
    <2>1. PICK n \in Nat : n = Len(s)
        BY DEF History
    <2>2. PICK x \in Int : x = n - limit + 1
        BY <1>1, <2>1
    <2>3. x \in 1 .. n /\ n - x + 1 = limit
        BY <1>1, <1>4, <2>1, <2>2
    <2>4. l = SubSeq(s, x, n)
        BY <1>1, <1>2, <1>4, <2>1, <2>2 DEF Latest
    <2>5. \A i \in x .. n : s[i] \in Message
        BY <2>1, <2>3 DEF History
    <2>6. /\ SubSeq(s, x, n) \in Seq(Message) /\ Len(SubSeq(s, x, n)) = limit
          /\ \A i \in 1 .. limit : SubSeq(s, x, n)[i] = s[x + i - 1]
        BY <1>1, <2>1, <2>3, <2>5, SubSeqProperties
    <2>7. DOMAIN l = 1 .. limit
        BY <2>4, <2>6
    <2>8. \A i \in 1 .. limit : x + i - 1 \in DOMAIN s /\ l[i] = s[x + i - 1]
        BY <1>1, <2>1, <2>3, <2>4, <2>6 DEF History
    <2>9. \A i \in DOMAIN l : \E j \in DOMAIN s : l[i] = s[j]
        BY <2>7, <2>8
    <2> QED BY <1>1, <1>2, <2>4, <2>6, <2>9 DEF TurnsOf
<1>5. ASSUME \A i \in DOMAIN l : \E j \in DOMAIN s : l[i] = s[j]
      PROVE  TurnsOf(l) \subseteq TurnsOf(s)
    BY <1>5 DEF TurnsOf
<1> QED BY <1>2, <1>3, <1>4, <1>5 DEF TurnsOf

LEMMA CompactedElements ==
    ASSUME NEW s \in History
    PROVE  /\ \A i \in DOMAIN Compacted(s) : \E j \in DOMAIN s : Compacted(s)[i] = s[j]
           /\ TurnsOf(Compacted(s)) \subseteq TurnsOf(s)
BY LatestElements, Limits DEF Compacted

LEMMA CompactedNotEmpty ==
    ASSUME NEW s \in History, s # <<>>
    PROVE  Compacted(s) # <<>>
<1>1. PICK k \in Nat \ {0} : KeepRecent = 2 * k
    BY Limits DEF Even
<1>2. PICK n \in Nat : n = Len(s)
    BY DEF History
<1>3. CASE n <= KeepRecent
    BY <1>1, <1>2, <1>3 DEF Compacted, Latest
<1>4. CASE ~(n <= KeepRecent)
    <2>1. n - KeepRecent + 1 <= n /\ n - KeepRecent + 1 \in Nat
        BY <1>1, <1>4
    <2>2. Len(SubSeq(s, n - KeepRecent + 1, n)) = n - (n - KeepRecent + 1) + 1
        BY <1>2, <2>1 DEF History
    <2>3. SubSeq(s, n - KeepRecent + 1, n) # <<>>
        BY <1>1, <2>1, <2>2
    <2> QED BY <1>2, <1>4, <2>3 DEF Compacted, Latest
<1> QED BY <1>3, <1>4

\* There is a last one of some places in a sequence.
LEMMA LastPlace ==
    ASSUME NEW n \in Nat, NEW I \in SUBSET (1 .. n), I # {}
    PROVE  \E i \in I : \A j \in I : j <= i
<1>1. PICK T : T = {n - i : i \in I}
    OBVIOUS
<1>2. T \subseteq Nat /\ T # {}
    <2>1. PICK i \in I : TRUE
        OBVIOUS
    <2>2. \A j \in I : n - j \in Nat
        OBVIOUS
    <2> QED BY <1>1, <2>1, <2>2
<1>3. PICK x \in T : \A y \in T : ~(<<y, x>> \in OpToRel(<, Nat))
    BY <1>2, NatLessThanWellFounded, WFMin
<1>4. \A y \in T : ~(y < x)
    BY <1>2, <1>3 DEF OpToRel
<1>5. PICK i \in I : x = n - i
    BY <1>1
<1>6. ASSUME NEW j \in I
      PROVE  j <= i
    <2>1. ~(n - j < n - i)
        BY <1>1, <1>4, <1>5
    <2> QED BY <2>1
<1> QED BY <1>6

\* A message of a turn, as a record.
LEMMA MessageOf ==
    ASSUME NEW m \in Message
    PROVE  m = Msg(m.turn, m.role) /\ m.turn \in Turns
BY DEF Message, Msg

LEMMA HistoryElements ==
    ASSUME NEW s \in History
    PROVE  \A i \in DOMAIN s : s[i] \in Message /\ s[i].turn \in Turns
<1>1. \A i \in DOMAIN s : s[i] \in Message
    BY DEF History
<1> QED BY <1>1, MessageOf

LEMMA ExtendedTurns ==
    ASSUME NEW s \in History, NEW t, NEW role, NEW whole, Extends(whole, s, t, role)
    PROVE  /\ DOMAIN whole = 1 .. Len(s) + 2 /\ Len(s) \in Nat /\ DOMAIN s = 1 .. Len(s)
           /\ whole[Len(s) + 1].turn = t /\ whole[Len(s) + 1].role = "user"
           /\ whole[Len(s) + 2].turn = t /\ whole[Len(s) + 2].role = role
           /\ whole[Len(s) + 2] = Msg(t, role) /\ Last(whole) = Msg(t, role)
           /\ TurnsOf(whole) = TurnsOf(s) \union {t}
<1>1. /\ DOMAIN whole = 1 .. Len(s) + 2 /\ Len(s) \in Nat /\ DOMAIN s = 1 .. Len(s)
      /\ Len(whole) = Len(s) + 2
    BY DEF Extends, History
<1>2. /\ whole[Len(s) + 1].turn = t /\ whole[Len(s) + 1].role = "user"
      /\ whole[Len(s) + 2].turn = t /\ whole[Len(s) + 2].role = role
    BY DEF Extends, Msg
<1>3. \A i \in 1 .. Len(s) : whole[i].turn = s[i].turn
    BY DEF Extends
<1>4. TurnsOf(whole) = TurnsOf(s) \union {t}
    BY <1>1, <1>2, <1>3 DEF TurnsOf
<1>5. Last(whole) = Msg(t, role) /\ whole[Len(s) + 2] = Msg(t, role)
    BY <1>1 DEF Extends, Last
<1> QED BY <1>1, <1>2, <1>4, <1>5

\* The history with a question at its end.
LEMMA AskedTurns ==
    ASSUME NEW s \in History, NEW t \in Turns, NEW asked, asked = Append(s, Msg(t, "user"))
    PROVE  /\ DOMAIN asked = 1 .. Len(s) + 1 /\ Len(s) \in Nat /\ DOMAIN s = 1 .. Len(s)
           /\ asked[Len(s) + 1].turn = t /\ asked[Len(s) + 1].role = "user"
           /\ \A i \in 1 .. Len(s) : asked[i] = s[i]
           /\ TurnsOf(asked) = TurnsOf(s) \union {t}
<1>1. Msg(t, "user") \in Message
    BY Messages
<1>2. /\ asked \in Seq(Message) /\ Len(asked) = Len(s) + 1
      /\ asked[Len(s) + 1] = Msg(t, "user")
      /\ \A i \in 1 .. Len(s) : asked[i] = s[i]
    BY <1>1, OneMore DEF History
<1>3. DOMAIN asked = 1 .. Len(s) + 1 /\ Len(s) \in Nat /\ DOMAIN s = 1 .. Len(s)
    BY <1>2 DEF History
<1>4. asked[Len(s) + 1].turn = t /\ asked[Len(s) + 1].role = "user"
    BY <1>2 DEF Msg
<1>5. TurnsOf(asked) = TurnsOf(s) \union {t}
    BY <1>2, <1>3, <1>4 DEF TurnsOf
<1> QED BY <1>2, <1>3, <1>4, <1>5

\* The answers once committed, with one more of turn t.
LEMMA Committed ==
    ASSUME SessionInv, FateInv, NEW t \in Turns, Commits(t)
    PROVE  /\ log \in History /\ DOMAIN log' = 1 .. Len(log) + 1 /\ DOMAIN log = 1 .. Len(log)
           /\ Len(log) \in Nat /\ log'[Len(log) + 1] = Last(draft[t])
           /\ \A i \in 1 .. Len(log) : log'[i] = log[i]
           /\ Last(draft[t]).turn = t /\ TurnsOf(log') = TurnsOf(log) \union {t}
<1>1. PICK last : last = Last(draft[t])
    OBVIOUS
<1>2. last \in Message /\ last.turn = t /\ log' = Append(log, last) /\ log \in Seq(Message)
    BY <1>1 DEF Commits, SessionInv, DraftCurrent, FateInv, AnswerDrafted, History
<1>3. /\ log' \in Seq(Message) /\ Len(log') = Len(log) + 1
      /\ log'[Len(log) + 1] = last /\ \A i \in 1 .. Len(log) : log'[i] = log[i]
    BY <1>2, OneMore
<1>4. DOMAIN log' = 1 .. Len(log) + 1 /\ DOMAIN log = 1 .. Len(log) /\ Len(log) \in Nat
    BY <1>2, <1>3
<1>5. TurnsOf(log') = TurnsOf(log) \union {t}
    BY <1>2, <1>3, <1>4 DEF TurnsOf
<1> QED BY <1>1, <1>2, <1>3, <1>4, <1>5 DEF History

LEMMA ConcludedTurns ==
    ASSUME SessionInv, NEW t \in Turns, NEW role \in Answers, NEW s, NEW whole,
           Concludes(t, role, s, whole)
    PROVE  TurnsOf(whole) = TurnsOf(draft[t]) \union {t}
<1>1. PICK d : d = draft[t]
    OBVIOUS
<1>2. d \in Seq(Message) /\ whole = Append(d, Msg(t, role)) /\ Msg(t, role) \in Message
    BY <1>1, Messages DEF Concludes, SessionInv, History
<1>3. /\ Len(d) \in Nat /\ DOMAIN d = 1 .. Len(d) /\ DOMAIN whole = 1 .. Len(d) + 1
      /\ whole[Len(d) + 1] = Msg(t, role) /\ \A i \in 1 .. Len(d) : whole[i] = d[i]
    <2>1. /\ whole \in Seq(Message) /\ Len(whole) = Len(d) + 1
          /\ whole[Len(d) + 1] = Msg(t, role) /\ \A i \in 1 .. Len(d) : whole[i] = d[i]
        BY <1>2, OneMore
    <2> QED BY <1>2, <2>1
<1>4. whole[Len(d) + 1].turn = t
    BY <1>3 DEF Msg
<1>5. TurnsOf(whole) = TurnsOf(d) \union {t}
    BY <1>3, <1>4 DEF TurnsOf
<1> QED BY <1>1, <1>5

\* A fate stays: only a turn that is about to save commits, and only its own.
LEMMA FateKept ==
    ASSUME SessionInv, FateInv, [SessionNext]_vars, NEW t, NEW role, Fate(t, role)
    PROVE  Fate(t, role)'
<1>0. t \in Turns /\ pc[t] \notin {"idle", "asked", "thinking"}
    BY DEF Fate
<1>1. ASSUME log' = log,
             \/ pc'[t] = pc[t] /\ (Working(t) => draft'[t] = draft[t])
             \/ pc'[t] \in {"replied", "failed", "lost"}
      PROVE  Fate(t, role)'
    BY <1>0, <1>1 DEF Fate, Working
<1>2. CASE Quiet
    BY <1>0, <1>1, <1>2 DEF Quiet, Passes
<1>3. CASE Clears
    BY <1>1, <1>3 DEF Clears, turnVars
<1>4. ASSUME NEW u \in Turns, Begins(u)
      PROVE  Fate(t, role)'
    <2>1. t # u
        BY <1>0, <1>4 DEF Begins
    <2> QED BY <1>0, <1>1, <1>4, <2>1 DEF Begins, Alone
<1>5. ASSUME NEW u \in Turns, NEW r, NEW s, NEW whole, Concludes(u, r, s, whole)
      PROVE  Fate(t, role)'
    <2>1. t # u
        BY <1>0, <1>5 DEF Concludes
    <2> QED BY <1>0, <1>1, <1>5, <2>1 DEF Concludes, Alone
<1>6. ASSUME NEW u \in Turns, Commits(u)
      PROVE  Fate(t, role)'
    <2>1. /\ DOMAIN log' = 1 .. Len(log) + 1 /\ DOMAIN log = 1 .. Len(log)
          /\ Len(log) \in Nat /\ log'[Len(log) + 1] = Last(draft[u])
          /\ \A i \in 1 .. Len(log) : log'[i] = log[i]
          /\ Last(draft[u]).turn = u
        BY <1>6, Committed
    <2>2. \A i \in 1 .. Len(log) : log'[i].turn = t => log'[i].role = role
        BY <2>1 DEF Fate
    <2>3. CASE t = u
        <3>1. pc'[t] = "indexing" /\ pc[t] = "saving"
            BY <1>6, <2>3 DEF Commits
        <3>2. Last(draft[u]).role = role
            BY <2>3, <3>1 DEF Fate, Msg
        <3>3. \A i \in DOMAIN log' : log'[i].turn = t => log'[i].role = role
            BY <2>1, <2>2, <3>2
        <3> QED BY <1>0, <3>1, <3>3 DEF Fate
    <2>4. CASE t # u
        <3>1. pc'[t] = pc[t] /\ draft'[t] = draft[t]
            BY <1>0, <1>6, <2>4 DEF Commits, Alone
        <3>2. \A i \in DOMAIN log' : log'[i].turn = t => log'[i].role = role
            BY <2>1, <2>2, <2>4
        <3> QED BY <1>0, <3>1, <3>2 DEF Fate
    <2> QED BY <2>3, <2>4
<1> QED BY <1>2, <1>3, <1>4, <1>5, <1>6, ThreadSteps

\* A turn that comes to its answer settles its fate.
LEMMA FateSettled ==
    ASSUME FateInv, NEW t \in Turns, NEW role, pc[t] \in Unsaid, log' = log,
           pc'[t] = "saving", Last(draft'[t]) = Msg(t, role)
    PROVE  Fate(t, role)'
<1>1. \A i \in DOMAIN log : log[i].turn # t
    BY DEF FateInv
<1> QED BY <1>1 DEF Fate

\* The question that ends a history is paired with its answer, or, when the
\* answer is empty, with one from before it.
LEMMA PairOfTurn ==
    ASSUME NEW s \in History, NEW t, NEW role \in Answers, NEW whole,
           Extends(whole, s, t, role), NEW pair \in MemoryPair(whole)
    PROVE  /\ pair[1] = t
           /\ \E i \in DOMAIN whole : whole[i].role = "answer" /\ pair[2] = whole[i].turn
           /\ role = "answer" => pair[2] = t
<1>1. PICK n \in Nat : n = Len(s) + 2
    BY DEF History
<1>2. /\ DOMAIN whole = 1 .. n /\ n - 1 \in 1 .. n
      /\ whole[n - 1].turn = t /\ whole[n - 1].role = "user"
      /\ whole[n].turn = t /\ whole[n].role = role
    <2>1. Len(s) + 1 = n - 1 /\ n - 1 \in 1 .. n
        BY <1>1 DEF History
    <2> QED BY <1>1, <2>1, ExtendedTurns
<1>3. PICK users, spoken : /\ users = {i \in DOMAIN whole : whole[i].role = "user"}
                           /\ spoken = {i \in DOMAIN whole : whole[i].role = "answer"}
    OBVIOUS
<1>4. PICK u, a : /\ u = CHOOSE i \in users : \A j \in users : j <= i
                  /\ a = CHOOSE i \in spoken : \A j \in spoken : j <= i
    OBVIOUS
<1>5. spoken # {} /\ pair = <<whole[u].turn, whole[a].turn>>
    BY <1>3, <1>4 DEF MemoryPair
<1>6. users # {} /\ users \in SUBSET (1 .. n) /\ spoken \in SUBSET (1 .. n)
    BY <1>2, <1>3
<1>7. u \in users /\ \A j \in users : j <= u
    <2>1. \E i \in users : \A j \in users : j <= i
        BY <1>6, LastPlace
    <2> QED BY <1>4, <2>1
<1>8. a \in spoken /\ \A j \in spoken : j <= a
    <2>1. \E i \in spoken : \A j \in spoken : j <= i
        BY <1>5, <1>6, LastPlace
    <2> QED BY <1>4, <2>1
<1>9. u = n - 1
    <2>1. n \notin users
        BY <1>2, <1>3 DEF Answers
    <2>2. n - 1 \in users
        BY <1>2, <1>3
    <2>3. u \in 1 .. n /\ u # n /\ n - 1 <= u
        BY <1>6, <1>7, <2>1, <2>2
    <2> QED BY <2>3
<1>10. ASSUME role = "answer"
       PROVE  a = n
    <2>1. n \in spoken
        BY <1>2, <1>3, <1>10
    <2>2. a \in 1 .. n /\ n <= a
        BY <1>6, <1>8, <2>1
    <2> QED BY <2>2
<1>11. pair[1] = whole[u].turn /\ pair[2] = whole[a].turn
    BY <1>5
<1> QED BY <1>2, <1>3, <1>8, <1>9, <1>10, <1>11

LEMMA FateInductive ==
    ASSUME SessionInv, FateInv, [SessionNext]_vars
    PROVE  FateInv'
<1>1. \A t, role : Fate(t, role) => Fate(t, role)'
    BY FateKept
<1>2. ASSUME NEW pair, PairFated(pair)
      PROVE  PairFated(pair)'
    BY <1>1, <1>2 DEF PairFated
<1>3. ASSUME NEW s, Fated(s)
      PROVE  \A i \in DOMAIN s : s[i].role # "user" => Fate(s[i].turn, s[i].role)'
    BY <1>1, <1>3 DEF Fated
<1>4. ASSUME log' = log, session' = session \/ session' = <<>>,
             jobs' \union remembered' \subseteq jobs \union remembered,
             \A u \in Turns : Passes(u)
      PROVE  FateInv'
    <2>1. \A i \in DOMAIN log' : pc'[log'[i].turn] \notin Unsaid
        <3>1. \A i \in DOMAIN log : log[i].turn \in Turns
            BY HistoryElements DEF SessionInv
        <3>2. \A i \in DOMAIN log : pc[log[i].turn] \notin Unsaid
            BY DEF FateInv
        <3>3. ASSUME NEW u \in Turns, pc[u] \notin Unsaid
              PROVE  pc'[u] \notin Unsaid
            BY <1>4, <3>3 DEF Passes, Unsaid
        <3> QED BY <1>4, <3>1, <3>2, <3>3
    <2>2. ASSUME NEW u \in Turns
          PROVE  AnswerDrafted(u)' /\ (Working(u)' => Fated(draft[u])')
        <3>1. AnswerDrafted(u) /\ (Working(u) => Fated(draft[u]))
            BY DEF FateInv
        <3>2. CASE ~Working(u)'
            BY <3>2 DEF AnswerDrafted, Working
        <3>3. CASE Working(u)'
            <4>1. pc'[u] = pc[u] /\ draft'[u] = draft[u] /\ Working(u)
                BY <1>4, <3>3 DEF Passes, Working
            <4>2. Fated(draft[u])'
                BY <1>3, <3>1, <4>1 DEF Fated
            <4> QED BY <3>1, <4>1, <4>2 DEF AnswerDrafted
        <3> QED BY <3>2, <3>3
    <2>3. Fated(session)'
        BY <1>3, <1>4 DEF FateInv, Fated
    <2>4. \A pair \in jobs' \union remembered' : PairFated(pair)'
        BY <1>2, <1>4 DEF FateInv
    <2> QED BY <2>1, <2>2, <2>3, <2>4 DEF FateInv
<1>5. CASE Quiet
    BY <1>4, <1>5 DEF Quiet
<1>6. CASE Clears
    BY <1>4, <1>6 DEF Clears, Passes, turnVars, recallVars
<1>7. ASSUME NEW t \in Turns, pc[t] \in {"asked", "thinking"}, log' = log, Alone(t),
             session' = session, pc'[t] \in {"thinking", "saving"},
             AnswerDrafted(t)', Fated(draft[t])',
             \A pair \in jobs' \union remembered' : PairFated(pair)'
      PROVE  FateInv'
    <2>1. \A i \in DOMAIN log' : pc'[log'[i].turn] \notin Unsaid
        <3>1. \A i \in DOMAIN log : log[i].turn \in Turns /\ pc[log[i].turn] \notin Unsaid
            BY HistoryElements DEF SessionInv, FateInv
        <3> QED BY <1>7, <3>1 DEF Alone, Unsaid
    <2>2. ASSUME NEW u \in Turns, u # t
          PROVE  AnswerDrafted(u)' /\ (Working(u)' => Fated(draft[u])')
        <3>1. pc'[u] = pc[u] /\ draft'[u] = draft[u]
            BY <1>7, <2>2 DEF Alone
        <3>2. AnswerDrafted(u) /\ (Working(u) => Fated(draft[u]))
            BY DEF FateInv
        <3>3. Working(u) => Fated(draft[u])'
            BY <1>3, <3>1, <3>2 DEF Fated
        <3> QED BY <3>1, <3>2, <3>3 DEF AnswerDrafted, Working
    <2>3. Fated(session)'
        BY <1>3, <1>7 DEF FateInv, Fated
    <2> QED BY <1>7, <2>1, <2>2, <2>3 DEF FateInv
<1>8. ASSUME NEW t \in Turns, Begins(t)
      PROVE  FateInv'
    <2>1. \A pair \in jobs' \union remembered' : PairFated(pair)'
        BY <1>2, <1>8 DEF FateInv, Begins, recallVars
    <2>2. PICK s : s = session
        OBVIOUS
    <2>20. s \in History /\ \A i \in DOMAIN s : s[i].role # "user" => Fate(s[i].turn, s[i].role)'
        BY <1>3, <2>2 DEF FateInv, SessionInv
    <2>3. CASE pc'[t] = "thinking" /\ draft'[t] = Append(session, Msg(t, "user"))
        <3>1. PICK asked : asked = draft'[t]
            OBVIOUS
        <3>2. /\ DOMAIN asked = 1 .. Len(s) + 1 /\ Len(s) \in Nat /\ DOMAIN s = 1 .. Len(s)
              /\ asked[Len(s) + 1].turn = t /\ asked[Len(s) + 1].role = "user"
              /\ \A i \in 1 .. Len(s) : asked[i] = s[i]
            BY <2>2, <2>20, <2>3, <3>1, AskedTurns
        <3>3. \A i \in DOMAIN asked : asked[i].role # "user" => Fate(asked[i].turn, asked[i].role)'
            BY <2>20, <3>2
        <3>4. Fated(draft[t])'
            BY <3>1, <3>3 DEF Fated
        <3> QED BY <1>7, <1>8, <2>1, <2>3, <3>4 DEF Begins, AnswerDrafted
    <2>4. CASE pc'[t] = "saving" /\ Extends(draft'[t], session, t, "blocked")
        <3>1. PICK whole : whole = draft'[t]
            OBVIOUS
        <3>2. Extends(whole, s, t, "blocked")
            BY <2>2, <2>4, <3>1
        <3>3. /\ DOMAIN whole = 1 .. Len(s) + 2 /\ Len(s) \in Nat /\ DOMAIN s = 1 .. Len(s)
              /\ whole[Len(s) + 1].turn = t /\ whole[Len(s) + 1].role = "user"
              /\ whole[Len(s) + 2].turn = t /\ whole[Len(s) + 2].role = "blocked"
              /\ Last(whole) = Msg(t, "blocked")
              /\ \A i \in 1 .. Len(s) : whole[i] = s[i]
            BY <2>20, <3>2, ExtendedTurns DEF Extends
        <3>4. Fate(t, "blocked")'
            BY <1>8, <2>4, <3>1, <3>3, FateSettled DEF Begins, Unsaid
        <3>5. \A i \in DOMAIN whole : whole[i].role # "user" => Fate(whole[i].turn, whole[i].role)'
            BY <2>20, <3>3, <3>4
        <3>6. Fated(draft[t])'
            BY <3>1, <3>5 DEF Fated
        <3>7. AnswerDrafted(t)'
            BY <3>1, <3>3 DEF AnswerDrafted, Msg
        <3> QED BY <1>7, <1>8, <2>1, <2>4, <3>6, <3>7 DEF Begins
    <2> QED BY <1>8, <2>3, <2>4 DEF Begins
<1>9. ASSUME NEW t \in Turns, NEW role \in Answers, NEW s \in History, NEW whole,
             Concludes(t, role, s, whole)
      PROVE  FateInv'
    <2>0. Extends(whole, s, t, role)
        BY <1>9 DEF Concludes
    <2>1. /\ DOMAIN whole = 1 .. Len(s) + 2 /\ Len(s) \in Nat /\ DOMAIN s = 1 .. Len(s)
          /\ whole[Len(s) + 1].turn = t /\ whole[Len(s) + 1].role = "user"
          /\ whole[Len(s) + 2].turn = t /\ whole[Len(s) + 2].role = role
          /\ whole \in History /\ whole[Len(s) + 2] = Msg(t, role)
        BY <2>0, ExtendedTurns DEF Extends
    <2>2. Fate(t, role)'
        BY <1>9, FateSettled DEF Concludes, Unsaid
    <2>3. \A i \in DOMAIN whole : whole[i].role # "user" => Fate(whole[i].turn, whole[i].role)'
        <3>1. PICK d : d = draft[t]
            OBVIOUS
        <3>2. Fated(d) /\ d \in History /\ whole = Append(d, Msg(t, role))
            BY <1>9, <3>1 DEF FateInv, Concludes, Working, SessionInv
        <3>3. Msg(t, role) \in Message
            BY Messages
        <3>4. /\ Len(d) \in Nat /\ DOMAIN d = 1 .. Len(d) /\ Len(whole) = Len(d) + 1
              /\ \A i \in 1 .. Len(d) : whole[i] = d[i]
            BY <3>2, <3>3, OneMore DEF History
        <3>5. \A i \in DOMAIN d : d[i].role # "user" => Fate(d[i].turn, d[i].role)'
            BY <1>3, <3>2
        <3>6. Len(d) = Len(s) + 1
            <4>1. Len(whole) = Len(s) + 2
                BY <2>0 DEF Extends
            <4>2. PICK a, b \in Nat : a = Len(d) /\ b = Len(s)
                BY <2>1, <3>4
            <4>3. a + 1 = b + 2
                BY <3>4, <4>1, <4>2
            <4>4. a = b + 1
                BY <4>3
            <4> QED BY <4>2, <4>4
        <3>7. \A i \in 1 .. Len(d) : whole[i].role # "user" => Fate(whole[i].turn, whole[i].role)'
            BY <3>4, <3>5
        <3>8. Fate(whole[Len(s) + 2].turn, whole[Len(s) + 2].role)'
            BY <2>1, <2>2
        <3>9. \A i \in DOMAIN whole : i \in 1 .. Len(d) \/ i = Len(s) + 2
            BY <2>1, <3>4, <3>6
        <3> QED BY <3>7, <3>8, <3>9
    <2>4. Fated(draft[t])'
        <3>1. PICK h : h = draft'[t] /\ h = Compacted(whole)
            BY <1>9 DEF Concludes
        <3>2. \A i \in DOMAIN h : \E j \in DOMAIN whole : h[i] = whole[j]
            BY <2>1, <3>1, CompactedElements
        <3>3. \A i \in DOMAIN h : h[i].role # "user" => Fate(h[i].turn, h[i].role)'
            BY <2>3, <3>2
        <3> QED BY <3>1, <3>3 DEF Fated
    <2>5. AnswerDrafted(t)'
        <3>1. /\ Last(draft'[t]).turn = t /\ Last(draft'[t]).role = role /\ role # "user"
            BY <1>9 DEF Concludes, Msg, Answers
        <3>2. draft'[t] # <<>>
            <4>1. 1 \in DOMAIN whole
                BY <2>1
            <4>2. whole # <<>> /\ whole \in History
                BY <2>1, <4>1
            <4> QED BY <1>9, <4>2, CompactedNotEmpty DEF Concludes
        <3> QED BY <3>1, <3>2 DEF AnswerDrafted
    <2>6. ASSUME NEW pair \in MemoryPair(whole)
          PROVE  PairFated(pair)'
        <3>1. /\ pair[1] = t
              /\ role = "answer" => pair[2] = t
              /\ \E i \in DOMAIN whole : whole[i].role = "answer" /\ pair[2] = whole[i].turn
            BY <2>0, <2>6, PairOfTurn
        <3>2. Fate(pair[2], "answer")'
            BY <2>3, <3>1
        <3>3. role = "answer" \/ role = "blank"
            BY DEF Answers
        <3>4. pair[1] # pair[2] => Fate(pair[1], "blank")'
            <4>1. CASE role = "answer"
                BY <3>1, <4>1
            <4>2. CASE role = "blank"
                BY <2>2, <3>1, <4>2
            <4> QED BY <3>3, <4>1, <4>2
        <3> QED BY <3>2, <3>4 DEF PairFated
    <2>7. \A pair \in jobs' \union remembered' : PairFated(pair)'
        BY <1>2, <1>9, <2>6 DEF FateInv, Concludes
    <2> QED BY <1>7, <1>9, <2>4, <2>5, <2>7 DEF Concludes
<1>10. ASSUME NEW t \in Turns, Commits(t)
       PROVE  FateInv'
    <2>1. /\ DOMAIN log' = 1 .. Len(log) + 1 /\ DOMAIN log = 1 .. Len(log)
          /\ Len(log) \in Nat /\ log'[Len(log) + 1] = Last(draft[t])
          /\ \A i \in 1 .. Len(log) : log'[i] = log[i]
          /\ Last(draft[t]).turn = t
        BY <1>10, Committed
    <2>2. \A i \in DOMAIN log' : pc'[log'[i].turn] \notin Unsaid
        <3>1. \A i \in 1 .. Len(log) : log[i].turn \in Turns /\ pc[log[i].turn] \notin Unsaid
            BY <2>1, HistoryElements DEF SessionInv, FateInv
        <3>2. pc'[t] \notin Unsaid
            BY <1>10 DEF Commits, Unsaid
        <3>3. \A i \in 1 .. Len(log) : pc'[log[i].turn] \notin Unsaid
            BY <1>10, <3>1, <3>2 DEF Commits, Alone
        <3> QED BY <2>1, <3>2, <3>3
    <2>3. PICK d, h : d = draft[t] /\ h = session'
        OBVIOUS
    <2>4. /\ Fated(d) /\ d \in History /\ h = Latest(d, MaxHistory) /\ h = draft'[t]
        BY <1>10, <2>3 DEF FateInv, Commits, Working, SessionInv
    <2>5. Fated(session)' /\ Fated(draft[t])'
        <3>1. \A j \in DOMAIN d : d[j].role # "user" => Fate(d[j].turn, d[j].role)'
            BY <1>3, <2>4
        <3>2. \A i \in DOMAIN h : \E j \in DOMAIN d : h[i] = d[j]
            <4>1. Even(MaxHistory) /\ d \in History
                BY <2>4, Limits
            <4>2. \A i \in DOMAIN Latest(d, MaxHistory) :
                      \E j \in DOMAIN d : Latest(d, MaxHistory)[i] = d[j]
                BY <4>1, LatestElements
            <4> QED BY <2>4, <4>2
        <3>3. \A i \in DOMAIN h : h[i].role # "user" => Fate(h[i].turn, h[i].role)'
            BY <3>1, <3>2
        <3> QED BY <2>3, <2>4, <3>3 DEF Fated
    <2>6. ASSUME NEW u \in Turns, u # t
          PROVE  AnswerDrafted(u)' /\ (Working(u)' => Fated(draft[u])')
        <3>1. pc'[u] = pc[u] /\ draft'[u] = draft[u]
            BY <1>10, <2>6 DEF Alone, Commits
        <3>2. AnswerDrafted(u) /\ (Working(u) => Fated(draft[u]))
            BY DEF FateInv
        <3>3. Working(u) => Fated(draft[u])'
            BY <1>3, <3>1, <3>2 DEF Fated
        <3> QED BY <3>1, <3>2, <3>3 DEF AnswerDrafted, Working
    <2>7. AnswerDrafted(t)'
        BY <1>10 DEF Commits, AnswerDrafted
    <2>8. \A pair \in jobs' \union remembered' : PairFated(pair)'
        BY <1>2, <1>10 DEF FateInv, Commits, recallVars
    <2> QED BY <2>2, <2>5, <2>6, <2>7, <2>8 DEF FateInv
<1> QED BY <1>5, <1>6, <1>8, <1>9, <1>10, ThreadSteps

-----------------------------------------------------------------------------
(* What /clear forgets.                                                      *)

LEMMA BroughtStays ==
    ASSUME SessionInv, ClearInv, BroughtBack, [SessionNext]_vars
    PROVE  BroughtBack'
<1>1. PICK u \in overlapped : u \in Turns /\ pc[u] \in {"indexing", "replied", "lost"}
    BY DEF BroughtBack, ClearInv
<1>2. ASSUME u \in overlapped', pc'[u] \in {"indexing", "replied", "lost"}
      PROVE  BroughtBack'
    BY <1>2 DEF BroughtBack
<1>3. CASE Quiet
    <2>1. pc'[u] \in {"indexing", "replied", "lost"}
        BY <1>1, <1>3 DEF Quiet, Passes
    <2> QED BY <1>1, <1>2, <1>3, <2>1 DEF Quiet, clearVars
<1>4. CASE Clears
    BY <1>1, <1>2, <1>4 DEF Clears, turnVars
<1>5. ASSUME NEW t \in Turns, Begins(t)
      PROVE  BroughtBack'
    <2>1. u # t
        BY <1>1, <1>5 DEF Begins
    <2> QED BY <1>1, <1>2, <1>5, <2>1 DEF Begins, Alone, clearVars
<1>6. ASSUME NEW t \in Turns, NEW r, NEW s, NEW whole, Concludes(t, r, s, whole)
      PROVE  BroughtBack'
    <2>1. u # t
        BY <1>1, <1>6 DEF Concludes
    <2> QED BY <1>1, <1>2, <1>6, <2>1 DEF Concludes, Alone, clearVars
<1>7. ASSUME NEW t \in Turns, Commits(t)
      PROVE  BroughtBack'
    <2>1. pc'[u] \in {"indexing", "replied", "lost"}
        BY <1>1, <1>7 DEF Commits, Alone
    <2> QED BY <1>1, <1>2, <1>7, <2>1 DEF Commits, clearVars
<1> QED BY <1>3, <1>4, <1>5, <1>6, <1>7, ThreadSteps

LEMMA ClearInductive ==
    ASSUME SessionInv, FateInv, ClearInv, [SessionNext]_vars
    PROVE  ClearInv'
<1>1. BroughtBack => BroughtBack'
    BY BroughtStays
<1>2. ASSUME NEW t \in Turns, pc[t] \in Unsaid
      PROVE  t \notin forgotten
    BY <1>2 DEF FateInv, ClearInv, TurnsOf
<1>3. ASSUME UNCHANGED clearVars, NEW t \in Turns,
             \/ pc'[t] = pc[t] /\ (Working(t) => draft'[t] = draft[t])
             \/ pc'[t] \notin {"thinking", "saving"}
      PROVE  ReadInTime(t)'
    <2>1. ReadInTime(t)
        BY DEF ClearInv
    <2> QED BY <1>1, <1>3, <2>1 DEF ReadInTime, clearVars, Working
<1>4. ASSUME NEW t \in Turns, Alone(t), UNCHANGED <<session, log, clearVars>>,
             NEW turns, TurnsOf(draft'[t]) \subseteq turns \union {t}, pc[t] \in Unsaid,
             turns \intersect forgotten # {} => t \in overlapped \/ BroughtBack
      PROVE  ClearInv'
    <2>1. ReadInTime(t)'
        <3>1. t \notin forgotten
            BY <1>2, <1>4
        <3>2. TurnsOf(draft'[t]) \intersect forgotten # {} => t \in overlapped \/ BroughtBack
            BY <1>4, <3>1
        <3> QED BY <1>1, <1>4, <3>2 DEF ReadInTime, clearVars
    <2>2. \A u \in Turns \ {t} : ReadInTime(u)'
        BY <1>3, <1>4 DEF Alone
    <2>3. TurnsOf(session') \intersect forgotten' # {} => BroughtBack'
        BY <1>1, <1>4 DEF ClearInv, clearVars
    <2> QED BY <1>4, <2>1, <2>2, <2>3 DEF ClearInv, clearVars
<1>5. CASE Quiet
    <2>1. \A t \in Turns : ReadInTime(t)'
        BY <1>3, <1>5 DEF Quiet, Passes
    <2> QED BY <1>1, <1>5, <2>1 DEF Quiet, ClearInv, clearVars
<1>6. CASE Clears
    <2>1. ASSUME NEW t \in Turns
          PROVE  ReadInTime(t)'
        BY <1>6 DEF Clears, ReadInTime, turnVars
    <2>2. forgotten' \subseteq TurnsOf(log') /\ overlapped' \subseteq Turns
        BY <1>6 DEF Clears, ClearInv
    <2>3. TurnsOf(session') = {}
        BY <1>6 DEF Clears, TurnsOf
    <2> QED BY <2>1, <2>2, <2>3 DEF ClearInv
<1>7. ASSUME NEW t \in Turns, Begins(t)
      PROVE  ClearInv'
    <2>1. TurnsOf(draft'[t]) = TurnsOf(session) \union {t}
        BY <1>7, AskedTurns, ExtendedTurns DEF Begins, SessionInv
    <2>2. TurnsOf(session) \intersect forgotten # {} => BroughtBack
        BY DEF ClearInv
    <2> QED BY <1>4, <1>7, <2>1, <2>2 DEF Begins, Unsaid
<1>8. ASSUME NEW t \in Turns, NEW r \in Answers, NEW s \in History, NEW whole,
             Concludes(t, r, s, whole)
      PROVE  ClearInv'
    <2>1. whole \in History /\ Msg(t, r) \in Message /\ draft[t] \in History
        BY <1>8, Messages DEF Concludes, Extends, SessionInv
    <2>2. TurnsOf(draft'[t]) \subseteq TurnsOf(whole)
        BY <1>8, <2>1, CompactedElements DEF Concludes
    <2>3. TurnsOf(whole) = TurnsOf(draft[t]) \union {t}
        BY <1>8, <2>1, ConcludedTurns
    <2>4. TurnsOf(draft[t]) \intersect forgotten # {} => t \in overlapped \/ BroughtBack
        BY <1>8 DEF ClearInv, ReadInTime, Concludes
    <2> QED BY <1>4, <1>8, <2>2, <2>3, <2>4 DEF Concludes, Unsaid
<1>9. ASSUME NEW t \in Turns, Commits(t)
      PROVE  ClearInv'
    <2>1. draft[t] \in History /\ TurnsOf(log') = TurnsOf(log) \union {t}
        BY <1>9, Committed DEF SessionInv
    <2>2. TurnsOf(session') \subseteq TurnsOf(draft[t])
        BY <1>9, <2>1, LatestElements, Limits DEF Commits
    <2>3. t \in overlapped => BroughtBack'
        BY <1>9 DEF Commits, BroughtBack, clearVars
    <2>4. ReadInTime(t)
        BY DEF ClearInv
    <2>5. TurnsOf(session') \intersect forgotten' # {} => BroughtBack'
        BY <1>1, <1>9, <2>2, <2>3, <2>4 DEF Commits, ReadInTime, clearVars
    <2>6. \A u \in Turns : ReadInTime(u)'
        BY <1>3, <1>9 DEF Commits, Alone
    <2> QED BY <1>9, <2>1, <2>5, <2>6 DEF ClearInv, Commits, clearVars
<1> QED BY <1>5, <1>6, <1>7, <1>8, <1>9, ThreadSteps

-----------------------------------------------------------------------------
(* What compaction and the length of the table leave out.                    *)

LEMMA KeptInductive ==
    ASSUME SessionInv, FateInv, ClearInv, KeptInv, [SessionNext]_vars
    PROVE  KeptInv'
<1>0. UNCHANGED settings /\ (locking => \A u \in Turns : Working(u) => lock = u)
    BY ThreadSteps DEF SessionInv
<1> SUFFICES ASSUME locking', memory', NoneBlocked'
             PROVE  Kept(session)' /\ \A t \in Turns : KeepsAll(t)'
    BY DEF KeptInv
<1>1. locking /\ memory
    BY <1>0 DEF settings
<1>2. ASSUME log' = log
      PROVE  Kept(session) /\ \A t \in Turns : KeepsAll(t)
    <2>1. NoneBlocked
        BY <1>2 DEF NoneBlocked
    <2> QED BY <1>1, <2>1 DEF KeptInv
<1>3. ASSUME log' = log, forgotten' = forgotten, summarised \subseteq summarised',
             NEW t \in Turns,
             \/ pc'[t] = pc[t] /\ (Working(t) => draft'[t] = draft[t])
             \/ pc'[t] \notin {"thinking", "saving"}
      PROVE  KeepsAll(t)'
    BY <1>2, <1>3 DEF KeepsAll, Kept, Working
<1>4. ASSUME log' = log, forgotten' = forgotten, summarised \subseteq summarised',
             session' = session
      PROVE  Kept(session)'
    BY <1>2, <1>4 DEF Kept
<1>5. CASE Quiet
    <2>1. \A t \in Turns : KeepsAll(t)'
        BY <1>3, <1>5 DEF Quiet, Passes, clearVars
    <2>2. Kept(session)'
        BY <1>4, <1>5 DEF Quiet, clearVars
    <2> QED BY <2>1, <2>2
<1>6. CASE Clears
    <2>1. TurnsOf(log') \subseteq forgotten'
        BY <1>6 DEF Clears
    <2>2. \A t \in Turns : KeepsAll(t)'
        BY <1>2, <1>6, <2>1 DEF Clears, KeepsAll, Kept, turnVars
    <2> QED BY <2>1, <2>2 DEF Kept
<1>7. ASSUME NEW t \in Turns, Begins(t)
      PROVE  Kept(session)' /\ \A u \in Turns : KeepsAll(u)'
    <2>1. TurnsOf(draft'[t]) = TurnsOf(session) \union {t}
        BY <1>7, AskedTurns, ExtendedTurns DEF Begins, SessionInv
    <2>2. UNCHANGED <<session, log, forgotten, summarised>>
        BY <1>7 DEF Begins, clearVars, recallVars
    <2>3. Kept(session)'
        BY <1>4, <2>2
    <2>4. pc'[t] = "saving" => Last(draft'[t]).role = "blocked"
        <3>1. ASSUME NEW h, NEW s \in History, Extends(h, s, t, "blocked")
              PROVE  Last(h).role = "blocked"
            <4>1. Last(h) = Msg(t, "blocked")
                BY <3>1, ExtendedTurns
            <4> QED BY <4>1 DEF Msg
        <3>2. PICK h, s : h = draft'[t] /\ s = session
            OBVIOUS
        <3> QED BY <1>7, <3>1, <3>2 DEF Begins, SessionInv
    <2>5. Kept(draft[t])'
        BY <2>1, <2>2, <2>3 DEF Kept
    <2>6. KeepsAll(t)'
        BY <2>4, <2>5 DEF KeepsAll
    <2>7. \A u \in Turns \ {t} : KeepsAll(u)'
        BY <1>3, <1>7, <2>2 DEF Begins, Alone
    <2> QED BY <2>3, <2>6, <2>7
<1>8. ASSUME NEW t \in Turns, NEW r \in Answers, NEW s \in History, NEW whole,
             Concludes(t, r, s, whole)
      PROVE  Kept(session)' /\ \A u \in Turns : KeepsAll(u)'
    <2>1. /\ log' = log /\ forgotten' = forgotten /\ session' = session
          /\ summarised' = summarised \union Dropped(whole)
        BY <1>8 DEF Concludes, clearVars
    <2>2. TurnsOf(whole) = TurnsOf(draft[t]) \union {t} /\ whole \in History
        <3>1. whole \in History
            BY <1>8 DEF Concludes, Extends
        <3> QED BY <1>8, <3>1, ConcludedTurns
    <2>3. Kept(draft[t])
        BY <1>2, <1>8, <2>1 DEF KeepsAll, Concludes
    <2>4. draft'[t] = Compacted(whole) /\ pc'[t] = "saving"
        BY <1>8 DEF Concludes
    <2>5. Kept(draft[t])'
        BY <2>1, <2>2, <2>3, <2>4 DEF Kept, Dropped
    <2>6. Len(draft'[t]) <= MaxHistory
        <3>1. KeepRecent \in Nat /\ MaxMessages \in Nat /\ MaxHistory \in Nat
              /\ KeepRecent <= MaxMessages /\ MaxMessages <= MaxHistory
            BY SessionAssumption
        <3>2. CASE TooLong(whole)
            <4>1. Len(Latest(whole, KeepRecent)) <= KeepRecent
                BY <2>2, LatestElements, Limits
            <4> QED BY <1>8, <2>4, <3>1, <3>2, <4>1 DEF Concludes, Compacted, History
        <3>3. CASE ~TooLong(whole)
            <4>1. Len(whole) <= MaxMessages
                BY <1>1, <2>2, <3>1, <3>3 DEF TooLong, History
            <4> QED BY <2>2, <2>4, <3>1, <3>3, <4>1 DEF Compacted, History
        <3> QED BY <3>2, <3>3
    <2>7. KeepsAll(t)'
        BY <2>4, <2>5, <2>6 DEF KeepsAll
    <2>8. \A u \in Turns \ {t} : KeepsAll(u)'
        BY <1>3, <1>8, <2>1 DEF Concludes, Alone
    <2>9. Kept(session)'
        BY <1>4, <2>1
    <2> QED BY <2>7, <2>8, <2>9
<1>9. ASSUME NEW t \in Turns, Commits(t)
      PROVE  Kept(session)' /\ \A u \in Turns : KeepsAll(u)'
    <2>1. /\ DOMAIN log' = 1 .. Len(log) + 1 /\ DOMAIN log = 1 .. Len(log)
          /\ Len(log) \in Nat /\ log'[Len(log) + 1] = Last(draft[t])
          /\ \A i \in 1 .. Len(log) : log'[i] = log[i]
          /\ TurnsOf(log') = TurnsOf(log) \union {t} /\ Last(draft[t]).turn = t
        BY <1>9, Committed
    <2>2. NoneBlocked /\ Last(draft[t]).role # "blocked"
        BY <2>1 DEF NoneBlocked
    <2>3. Kept(draft[t]) /\ Len(draft[t]) <= MaxHistory
        BY <1>1, <1>9, <2>2 DEF KeptInv, KeepsAll, Commits
    <2>4. session' = draft[t] /\ draft[t] \in History
        BY <1>9, <2>3, SessionAssumption DEF Commits, Latest, SessionInv, History
    <2>5. t \in TurnsOf(draft[t])
        <3>1. draft[t] # <<>>
            BY <1>9 DEF FateInv, AnswerDrafted, Commits
        <3>2. Len(draft[t]) \in DOMAIN draft[t]
            BY <2>4, <3>1 DEF History
        <3> QED BY <2>1, <3>2 DEF TurnsOf, Last
    <2>6. Kept(session)'
        BY <1>9, <2>1, <2>3, <2>4, <2>5 DEF Kept, Commits, recallVars, clearVars
    <2>7. ASSUME NEW u \in Turns
          PROVE  KeepsAll(u)'
        <3>1. CASE u = t
            BY <1>9, <3>1 DEF Commits, KeepsAll
        <3>2. CASE u # t
            <4>1. ~Working(u)
                BY <1>0, <1>1, <1>9, <3>2 DEF Commits, Working
            <4> QED BY <1>9, <3>2, <4>1 DEF Commits, Alone, KeepsAll, Working
        <3> QED BY <3>1, <3>2
    <2> QED BY <2>6, <2>7
<1> QED BY <1>5, <1>6, <1>7, <1>8, <1>9, ThreadSteps

-----------------------------------------------------------------------------
(* What the search index holds.                                              *)

LEMMA SearchInductive ==
    ASSUME SessionInv, FateInv, SearchInv, [SessionNext]_vars
    PROVE  SearchInv'
<1>1. PICK s, u : s = session /\ u = Last(session).turn
    OBVIOUS
<1>2. s \in History /\ Len(s) \in Nat /\ DOMAIN s = 1 .. Len(s)
    BY <1>1 DEF SessionInv, History
\* The last turn of the history has its answer there.
<1>3. ASSUME s # <<>>
      PROVE  u \in Turns /\ pc[u] \notin {"idle", "asked", "thinking"}
    <2>1. PICK n : Whole(s, n)
        BY <1>1 DEF SessionInv, Current
    <2>2. n \in 1 .. n /\ Len(s) = 2 * n /\ 2 * n \in DOMAIN s
        BY <1>2, <1>3, <2>1 DEF Whole
    <2>3. s[2 * n].role # "user" /\ Last(s) = s[2 * n]
        BY <2>1, <2>2 DEF Whole, Last
    <2>4. Fate(s[2 * n].turn, s[2 * n].role)
        BY <1>1, <2>2, <2>3 DEF FateInv, Fated
    <2> QED BY <1>1, <2>3, <2>4 DEF Fate
<1>4. ASSUME session' = session, index \subseteq index',
             s # <<>> => Passes(u)
      PROVE  SearchInv'
    <2>1. Len(session') <= MaxHistory
        BY <1>4 DEF SearchInv
    <2>2. ASSUME s # <<>>
          PROVE  /\ pc'[u] = "indexing" => draft'[u] = session
                 /\ pc'[u] = "replied" => Covering(session)'
        <3>1. /\ pc[u] = "indexing" => draft[u] = session
              /\ pc[u] = "replied" => Covering(session)
            BY <1>1, <2>2 DEF SearchInv
        <3>2. Covering(session) => Covering(session)'
            BY <1>4 DEF Covering
        <3>3. pc[u] = "indexing" /\ Indexed(draft[u]) \subseteq index' => Covering(session)'
            <4>1. SUFFICES ASSUME Indexed(s) \subseteq index', Len(s) <= MaxHistory
                           PROVE  Covering(s)'
                BY <1>1, <1>4, <2>2, <3>1 DEF SearchInv, Covering
            <4>2. \A i \in DOMAIN s : s[i].role # "blank" => <<i, s[i]>> \in index'
                BY <4>1 DEF Indexed
            <4>3. \A i \in DOMAIN s : i \in 1 .. MaxHistory
                BY <1>2, <4>1, SessionAssumption
            <4> QED BY <4>2, <4>3 DEF Covering
        <3>4. u \in Turns /\ pc[u] \notin {"idle", "asked", "thinking"} /\ Passes(u)
            BY <1>3, <1>4, <2>2
        <3> QED BY <3>1, <3>2, <3>3, <3>4 DEF Passes, Working
    <2> QED BY <1>1, <1>4, <2>1, <2>2 DEF SearchInv
<1>5. CASE Quiet
    BY <1>3, <1>4, <1>5 DEF Quiet
<1>6. CASE Clears
    BY <1>6, SessionAssumption DEF Clears, SearchInv
<1>7. ASSUME NEW t \in Turns, Begins(t)
      PROVE  SearchInv'
    <2>1. s # <<>> => u # t /\ Passes(u)
        BY <1>3, <1>7 DEF Begins, Alone, Passes
    <2> QED BY <1>4, <1>7, <2>1 DEF Begins
<1>8. ASSUME NEW t \in Turns, NEW r, NEW h, NEW whole, Concludes(t, r, h, whole)
      PROVE  SearchInv'
    <2>1. s # <<>> => u # t /\ Passes(u)
        BY <1>3, <1>8 DEF Concludes, Alone, Passes
    <2> QED BY <1>4, <1>8, <2>1 DEF Concludes
<1>9. ASSUME NEW t \in Turns, Commits(t)
      PROVE  SearchInv'
    <2>1. /\ pc'[t] = "indexing" /\ draft'[t] = session'
          /\ session' = Latest(draft[t], MaxHistory) /\ draft[t] \in History
        BY <1>9 DEF Commits, SessionInv
    <2>2. Len(session') <= MaxHistory
        BY <2>1, LatestElements, Limits
    <2>3. Last(draft[t]).turn = t /\ draft[t] # <<>>
        BY <1>9 DEF FateInv, AnswerDrafted, Commits
    <2>4. Last(session').turn = t
        <3>1. PICK n : Whole(draft[t], n)
            BY <1>9 DEF SessionInv, DraftCurrent, Current, Commits
        <3>2. n > 0
            BY <2>1, <2>3, <3>1 DEF Whole, History
        <3>3. Last(Latest(draft[t], MaxHistory)) = Last(draft[t])
            BY <2>1, <3>1, <3>2, LatestTurns, Limits
        <3> QED BY <2>1, <2>3, <3>3
    <2> QED BY <2>1, <2>2, <2>4 DEF SearchInv
<1> QED BY <1>5, <1>6, <1>7, <1>8, <1>9, ThreadSteps

-----------------------------------------------------------------------------
(* What is recalled, in every behaviour.                                     *)

RecallInv == FateInv /\ ClearInv /\ KeptInv /\ SearchInv

LEMMA RecallInitial == SessionInit => RecallInv
<1> SUFFICES ASSUME SessionInit
             PROVE  RecallInv
    OBVIOUS
<1>1. FateInv
    BY DEF SessionInit, FateInv, Fated, AnswerDrafted, Working
<1>2. ClearInv
    BY DEF SessionInit, ClearInv, ReadInTime, TurnsOf
<1>3. KeptInv
    BY DEF SessionInit, KeptInv, KeepsAll, Kept, TurnsOf
<1>4. SearchInv
    BY SessionAssumption DEF SessionInit, SearchInv
<1> QED BY <1>1, <1>2, <1>3, <1>4 DEF RecallInv

LEMMA Recalled == SessionSpec => [](SessionInv /\ RecallInv)
<1>1. SessionInv /\ RecallInv /\ [SessionNext]_vars => (SessionInv /\ RecallInv)'
    BY SessionInductive, FateInductive, ClearInductive, KeptInductive, SearchInductive
       DEF RecallInv
<1> QED BY <1>1, SessionInitial, RecallInitial, PTL DEF SessionSpec

\* With the lock and long-term memory a committed turn is in the history, was
\* cleared or went into a summary, for every length of the history, unless a
\* question was blocked, whose save skips compaction (graph.py, compaction.py).
THEOREM NothingLost == SessionSpec => []NothingDroppedUnread
<1>1. RecallInv => NothingDroppedUnread
    BY DEF RecallInv, KeptInv, Kept, NoneBlocked, NothingDroppedUnread
<1> QED BY <1>1, Recalled, PTL

\* What was committed before a /clear comes back only with the save of a turn
\* that had loaded the history by then (session.py's clear, beside ainvoke).
THEOREM ClearedStaysCleared == SessionSpec => []ForgottenUnlessOverlapped
<1>1. RecallInv => ForgottenUnlessOverlapped
    BY DEF RecallInv, ClearInv, BroughtBack, ForgottenUnlessOverlapped
<1> QED BY <1>1, Recalled, PTL

\* Once the turn saved last has been indexed, the search finds every message of
\* the history, whatever turns overlapped, failed or were lost meanwhile
\* (session.py's _index_to_swarm_fts).
THEOREM SearchIsComplete == SessionSpec => []SearchCoversHistory
<1>1. RecallInv => SearchCoversHistory
    BY DEF RecallInv, SearchInv, Covering, SearchCoversHistory
<1> QED BY <1>1, Recalled, PTL

\* Long-term memory never holds a block message as an answer, nor a question
\* with the answer of another turn unless its own was empty (the pair that
\* graph.py gives to store_memories_background).
THEOREM FaithfulMemory == SessionSpec => []MemoryIsFaithful
<1>1. RecallInv => MemoryIsFaithful
    BY DEF RecallInv, FateInv, PairFated, Fate, MemoryIsFaithful
<1> QED BY <1>1, Recalled, PTL
=============================================================================
