--------------------------- MODULE ServiceProofs ---------------------------
(***************************************************************************)
(* Proofs about what an agent does beside its turns: its memory, its      *)
(* skills, the journal of its groups, the watch on competitors, and its    *)
(* research.                                                               *)
(***************************************************************************)
EXTENDS FactMemory, SkillLibrary, ResearchGraph, CompetitorWatch, GroupChat,
        SequenceTheorems, TLAPS

-----------------------------------------------------------------------------
(* The memory: a fact that is found keeps its tier for the day. *)

Tiers == {"none", "active", "warm", "cold", "archive"}
FactRow == [created : Int, accessed : Nat \cup {-1}, relevance : 0 .. 20, tier : Tiers]
Working == {"entities", "target", "link", "decay", "write"}

\* The tier was computed from a relevance that has only grown since.
RowSound(row) ==
    /\ row.accessed <= day
    /\ Rank(row.tier) <= Rank(Tier(row.relevance))

\* What the decay of this night will do to a fact found today.
FadesSlowly(row) ==
    row.accessed = day => Rank(row.tier) <= Rank(Tier((row.relevance * Keep[0]) \div 100))

MemoryInv ==
    /\ day \in 0 .. LastDay /\ ran \in 0 .. day
    /\ facts \in [Text -> FactRow]
    /\ night = [pc |-> night.pc, link |-> night.link, read |-> night.read]
    /\ night.pc \in Working \cup {"idle", "clean"}
    /\ night.pc # "idle" => ran = day
    /\ \A f \in Text : RowSound(facts[f])
    /\ (ran < day \/ night.pc \in Working) => \A f \in Text : FadesSlowly(facts[f])
    /\ night.pc = "write" =>
          \A r \in night.read : /\ r[1] \in Text /\ r[2] = facts[r[1]]
                                /\ facts[r[1]].accessed \notin {Never}
                                /\ facts[r[1]].accessed >= 0

LEMMA FadedBound ==
    ASSUME NEW r \in 0 .. 20, NEW k \in 0 .. 100
    PROVE  (r * k) \div 100 \in 0 .. 20
OBVIOUS

\* One find makes up for a day of forgetting.
LEMMA FadedLess ==
    ASSUME NEW r \in 0 .. 19, NEW k \in 95 .. 100
    PROVE  ((r + 1) * k) \div 100 \in r .. 20
OBVIOUS

LEMMA FadedFull ==
    ASSUME NEW k \in 95 .. 100
    PROVE  (20 * k) \div 100 \in 19 .. 20
OBVIOUS

LEMMA RankGrows ==
    ASSUME NEW r \in 0 .. 20, NEW s \in r .. 20
    PROVE  Rank(Tier(r)) <= Rank(Tier(s)) /\ Rank(Tier(r)) \in 0 .. 3 /\ Tier(r) \in Tiers
BY DEF Rank, Tier, Tiers

LEMMA RankType == \A t \in Tiers : Rank(t) \in 0 .. 3
BY DEF Rank, Tiers

LEMMA KeepToday == Keep[0] \in 95 .. 100
BY MemoryAssumption

\* A row that was never used, or none.
LEMMA UnusedRow ==
    ASSUME MemoryInv
    PROVE  /\ NoRow \in FactRow /\ RowSound(NoRow) /\ FadesSlowly(NoRow)
           /\ \A row : row = [created |-> day, accessed |-> Never, relevance |-> Full, tier |-> "active"]
                 => row \in FactRow /\ RowSound(row) /\ FadesSlowly(row)
<1>1. day \in Nat
    BY MemoryAssumption DEF MemoryInv
<1>2. Rank("none") = 0 /\ Rank("active") = 3 /\ Tier(20) = "active" /\ Tier(0) = "archive"
      /\ Rank("archive") = 0
    BY DEF Rank, Tier
<1> QED BY <1>1, <1>2 DEF NoRow, FactRow, RowSound, FadesSlowly, Never, Full, Tiers

\* A row found today.
LEMMA TouchedRow ==
    ASSUME MemoryInv, NEW row \in FactRow, RowSound(row),
           NEW new, new = [row EXCEPT !.accessed = day,
                                      !.relevance = IF @ < Full THEN @ + 1 ELSE Full]
    PROVE  /\ new \in FactRow /\ RowSound(new) /\ FadesSlowly(new)
           /\ new.tier = row.tier
<1>1. day \in Nat
    BY MemoryAssumption DEF MemoryInv
<1>2. /\ row.relevance \in 0 .. 20 /\ row.tier \in Tiers
      /\ new.tier = row.tier /\ new.accessed = day
      /\ new.relevance = IF row.relevance < 20 THEN row.relevance + 1 ELSE 20
    BY DEF FactRow, Full
<1>3. new.relevance \in row.relevance .. 20 /\ new.relevance \in 0 .. 20
    BY <1>2
<1>4. new \in FactRow
    <2>1. new = [created |-> row.created, accessed |-> new.accessed,
                 relevance |-> new.relevance, tier |-> new.tier]
        BY DEF FactRow
    <2> QED BY <1>1, <1>2, <1>3, <2>1 DEF FactRow
<1>5. Rank(row.tier) <= Rank(Tier(row.relevance)) /\ Rank(row.tier) \in 0 .. 3
    BY <1>2, RankType DEF RowSound
<1>6. \A s \in row.relevance .. 20 :
          Rank(Tier(row.relevance)) <= Rank(Tier(s)) /\ Rank(Tier(s)) \in 0 .. 3
          /\ Rank(Tier(row.relevance)) \in 0 .. 3
    <2>1. \A r \in 0 .. 20 : \A s \in r .. 20 :
              Rank(Tier(r)) <= Rank(Tier(s)) /\ Rank(Tier(r)) \in 0 .. 3
        BY RankGrows
    <2>2. ASSUME NEW s \in row.relevance .. 20
          PROVE  s \in 0 .. 20 /\ s \in s .. 20
        BY <1>2
    <2> QED BY <1>2, <2>1, <2>2
<1>7. RowSound(new)
    BY <1>1, <1>2, <1>3, <1>5, <1>6 DEF RowSound
<1> DEFINE faded == (new.relevance * Keep[0]) \div 100
<1>8. Rank(Tier(row.relevance)) <= Rank(Tier(faded))
    <2>1. CASE row.relevance < 20
        <3>1. row.relevance \in 0 .. 19 /\ new.relevance = row.relevance + 1
            BY <1>2, <2>1
        <3>2. \A r \in 0 .. 19, k \in 95 .. 100 : ((r + 1) * k) \div 100 \in r .. 20
            BY FadedLess
        <3>3. ((row.relevance + 1) * Keep[0]) \div 100 \in row.relevance .. 20
            BY <3>1, <3>2, KeepToday
        <3>4. faded \in row.relevance .. 20
            BY <3>1, <3>3
        <3> HIDE DEF faded
        <3> QED BY <1>6, <3>4
    <2>2. CASE ~(row.relevance < 20)
        <3>1. row.relevance = 20 /\ new.relevance = 20
            BY <1>2, <2>2
        <3>2. (20 * Keep[0]) \div 100 \in 19 .. 20
            BY FadedFull, KeepToday
        <3>3. faded \in 19 .. 20
            BY <3>1, <3>2
        <3> HIDE DEF faded
        <3> QED BY <3>1, <3>3 DEF Rank, Tier
    <2> QED BY <2>1, <2>2
<1>9. FadesSlowly(new)
    <2>1. faded \in 0 .. 20
        BY <1>3, FadedBound, KeepToday
    <2> HIDE DEF faded
    <2>2. Rank(Tier(faded)) \in 0 .. 3
        BY <2>1 DEF Rank, Tier
    <2>3. Rank(row.tier) <= Rank(Tier(faded))
        BY <1>3, <1>5, <1>6, <1>8, <2>2
    <2> USE DEF faded
    <2> QED BY <1>2, <2>3 DEF FadesSlowly
<1> QED BY <1>2, <1>4, <1>7, <1>9

\* What UsedFactsStay says of a step.
Stays ==
    \A f \in Text : (facts[f].accessed = day /\ facts'[f] # NoRow) =>
        Rank(facts'[f].tier) >= Rank(facts[f].tier)

\* The steps that leave the facts, or give one that had no row its first.
LEMMA RemembersStep ==
    ASSUME MemoryInv, day' = day, ran' = ran, night' = night,
           facts' = facts \/ \E f \in Text : Index(f)
    PROVE  MemoryInv' /\ Stays
<1>1. CASE facts' = facts
    <2>1. MemoryInv'
        BY <1>1 DEF MemoryInv, RowSound, FadesSlowly
    <2>2. \A f \in Text : Rank(facts[f].tier) \in 0 .. 3
        BY RankType DEF MemoryInv, FactRow
    <2> QED BY <1>1, <2>1, <2>2 DEF Stays
<1>2. ASSUME NEW f \in Text, facts[f] = NoRow,
             facts' = [facts EXCEPT ![f] = [created |-> day, accessed |-> Never,
                                            relevance |-> Full, tier |-> "active"]]
      PROVE  MemoryInv' /\ Stays
    <2>1. PICK row : row = [created |-> day, accessed |-> Never, relevance |-> Full, tier |-> "active"]
        OBVIOUS
    <2>2. row \in FactRow /\ RowSound(row) /\ FadesSlowly(row)
        BY <2>1, UnusedRow
    <2>3. facts' = [facts EXCEPT ![f] = row]
        BY <1>2, <2>1
    <2>4. facts' \in [Text -> FactRow] /\ facts'[f] = row
        BY <2>2, <2>3 DEF MemoryInv
    <2>5. \A g \in Text : g # f => facts'[g] = facts[g]
        BY <2>3 DEF MemoryInv
    <2>6. \A g \in Text : RowSound(facts[g])'
        BY <2>2, <2>4, <2>5 DEF MemoryInv, RowSound
    <2>7. (ran' < day' \/ night'.pc \in Working) => \A g \in Text : FadesSlowly(facts[g])'
        BY <2>2, <2>4, <2>5 DEF MemoryInv, FadesSlowly
    <2>8. night'.pc = "write" =>
            \A r \in night'.read : /\ r[1] \in Text /\ r[2] = facts'[r[1]]
                                   /\ facts'[r[1]].accessed \notin {Never}
                                   /\ facts'[r[1]].accessed >= 0
        <3>1. facts[f].accessed = Never
            BY <1>2 DEF NoRow, Never
        <3> QED BY <2>5, <3>1 DEF MemoryInv
    <2>9. MemoryInv'
        BY <2>4, <2>6, <2>7, <2>8 DEF MemoryInv
    <2>10. facts[f].accessed # day
        BY <1>2, MemoryAssumption DEF NoRow, MemoryInv
    <2>11. \A g \in Text : Rank(facts[g].tier) \in 0 .. 3
        BY RankType DEF MemoryInv, FactRow
    <2>12. Stays
        BY <2>5, <2>10, <2>11 DEF Stays
    <2> QED BY <2>9, <2>12
<1> QED BY <1>1, <1>2 DEF Index, Known, index

\* retrieve_memories: nothing is being decayed.
LEMMA RetrieveStep ==
    ASSUME MemoryInv, Retrieve
    PROVE  MemoryInv' /\ Stays
<1>1. PICK found : facts' = Touched(found)
    BY DEF Retrieve, Search
<1>2. day' = day /\ ran' = ran /\ night' = night /\ night.pc = "idle"
    BY DEF Retrieve, Search
<1>3. ASSUME NEW f \in Text
      PROVE  /\ facts'[f] \in FactRow /\ RowSound(facts'[f]) /\ facts'[f].tier = facts[f].tier
             /\ (ran < day \/ night.pc \in Working) => FadesSlowly(facts'[f])
    <2>1. facts[f] \in FactRow /\ RowSound(facts[f])
        BY DEF MemoryInv
    <2>2. CASE f \in found /\ Known(f)
        <3>1. PICK row : row = facts[f]
            OBVIOUS
        <3>2. PICK new : new = [row EXCEPT !.accessed = day,
                                           !.relevance = IF @ < Full THEN @ + 1 ELSE Full]
            OBVIOUS
        <3>3. facts'[f] = new
            BY <1>1, <2>2, <3>1, <3>2 DEF Touched
        <3> QED BY <2>1, <3>1, <3>2, <3>3, TouchedRow
    <2>3. CASE ~(f \in found /\ Known(f))
        <3>1. facts'[f] = facts[f]
            BY <1>1, <2>3 DEF Touched
        <3> QED BY <2>1, <3>1 DEF MemoryInv
    <2> QED BY <2>2, <2>3
<1>4. facts' \in [Text -> FactRow]
    <2>1. facts' = [f \in Text |-> facts'[f]]
        BY <1>1 DEF Touched
    <2> QED BY <1>3, <2>1
<1>5. MemoryInv'
    BY <1>2, <1>3, <1>4 DEF MemoryInv, RowSound, FadesSlowly
<1>6. \A f \in Text : Rank(facts[f].tier) \in 0 .. 3
    BY RankType DEF MemoryInv, FactRow
<1>7. Stays
    BY <1>3, <1>6 DEF Stays
<1> QED BY <1>5, <1>7

\* The steps of the job that leave the facts, a crash, and the next day.
LEMMA NightStep ==
    ASSUME MemoryInv,
           \/ Consolidate \/ ExtractEntity \/ RelateSource \/ RelateTarget \/ Relate
           \/ EndGraph \/ DecayRaises \/ MemoryCrash
    PROVE  MemoryInv' /\ Stays
<1>1. /\ day' = day /\ facts' = facts
      /\ night' = [pc |-> night'.pc, link |-> night'.link, read |-> night'.read]
      /\ ran' = ran \/ (ran < day /\ ran' = day)
      /\ night'.pc \in {"idle", "entities", "target", "link", "decay"}
      /\ night'.pc # "idle" => ran' = day /\ (ran < day \/ night.pc \in Working)
    <2>1. CASE Consolidate
        BY <2>1 DEF MemoryInv, Working, Consolidate, Asleep, stores, index
    <2>2. CASE ExtractEntity
        BY <2>2 DEF MemoryInv, Working, ExtractEntity, stores, index
    <2>3. CASE RelateSource \/ RelateTarget \/ Relate
        BY <2>3 DEF MemoryInv, Working, RelateSource, RelateTarget, Relate, stores, index
    <2>4. CASE EndGraph \/ DecayRaises
        BY <2>4 DEF MemoryInv, Working, EndGraph, DecayRaises, Asleep, stores, index
    <2>5. CASE MemoryCrash
        BY <2>5 DEF MemoryInv, Working, MemoryCrash, Asleep, stores, index
    <2> QED BY <2>1, <2>2, <2>3, <2>4, <2>5
<1>2. day \in Nat /\ ran' \in 0 .. day
    BY <1>1, MemoryAssumption DEF MemoryInv
<1>3. \A f \in Text : RowSound(facts[f])'
    BY <1>1 DEF MemoryInv, RowSound
<1>4. (ran' < day' \/ night'.pc \in Working) => \A f \in Text : FadesSlowly(facts[f])'
    <2>1. (ran' < day' \/ night'.pc \in Working) => (ran < day \/ night.pc \in Working)
        BY <1>1, <1>2 DEF Working, MemoryInv
    <2>2. \A f \in Text : FadesSlowly(facts[f])' <=> FadesSlowly(facts[f])
        BY <1>1 DEF FadesSlowly
    <2> QED BY <2>1, <2>2 DEF MemoryInv
<1>5. MemoryInv'
    BY <1>1, <1>2, <1>3, <1>4 DEF MemoryInv, Working
<1>6. \A f \in Text : Rank(facts[f].tier) \in 0 .. 3
    BY RankType DEF MemoryInv, FactRow
<1> QED BY <1>1, <1>5, <1>6 DEF Stays

LEMMA DecayReadsStep ==
    ASSUME MemoryInv, DecayReads
    PROVE  MemoryInv' /\ Stays
<1>1. /\ day' = day /\ facts' = facts /\ ran' = ran
      /\ night.pc = "decay" /\ night'.pc = "write"
      /\ night' = [pc |-> night'.pc, link |-> night'.link, read |-> night'.read]
      /\ night'.read = {<<f, facts[f]>> : f \in Decaying}
      /\ \A f \in Decaying : facts[f].accessed # Never
    BY DEF MemoryInv, DecayReads, stores, index
<1>2. \A f \in Text : RowSound(facts[f])' /\ FadesSlowly(facts[f])'
    BY <1>1 DEF MemoryInv, RowSound, FadesSlowly, Working
<1>3. \A f \in Text : facts[f].accessed \in Int /\ facts[f].accessed >= Never
    BY DEF MemoryInv, FactRow, Never
<1>4. ASSUME NEW r \in night'.read
      PROVE  /\ r[1] \in Text /\ r[2] = facts[r[1]]
             /\ facts[r[1]].accessed \notin {Never} /\ facts[r[1]].accessed >= 0
    <2>1. PICK f \in Decaying : r = <<f, facts[f]>>
        BY <1>1, <1>4
    <2>2. f \in Text /\ facts[f].accessed # Never
        BY <1>1 DEF Decaying
    <2> QED BY <2>1, <2>2, <1>3 DEF Never
<1>5. MemoryInv'
    BY <1>1, <1>2, <1>4 DEF MemoryInv, Working
<1>6. \A f \in Text : Rank(facts[f].tier) \in 0 .. 3
    BY RankType DEF MemoryInv, FactRow
<1> QED BY <1>1, <1>5, <1>6 DEF Stays

LEMMA DecayWritesStep ==
    ASSUME MemoryInv, DecayWrites
    PROVE  MemoryInv' /\ Stays
<1>1. /\ day' = day /\ ran' = ran /\ ran = day /\ day \in Nat
      /\ night.pc = "write" /\ night'.pc = "clean"
      /\ night' = [pc |-> night'.pc, link |-> night'.link, read |-> night'.read]
    <2>1. day' = day /\ ran' = ran /\ night.pc = "write" /\ night' = [Asleep EXCEPT !.pc = "clean"]
        BY DEF DecayWrites
    <2>2. ran = day /\ day \in Nat
        BY <2>1, MemoryAssumption DEF MemoryInv
    <2> QED BY <2>1, <2>2 DEF Asleep
<1>2. ASSUME NEW f \in Text
      PROVE  /\ facts'[f] \in FactRow /\ RowSound(facts'[f])
             /\ facts[f].accessed = day => Rank(facts'[f].tier) >= Rank(facts[f].tier)
    <2>1. /\ facts[f] \in FactRow /\ RowSound(facts[f]) /\ FadesSlowly(facts[f])
          /\ Rank(facts[f].tier) \in 0 .. 3
        BY <1>1, RankType DEF MemoryInv, FactRow, Working
    <2>2. CASE \E r \in night.read : r[1] = f
        <3> DEFINE old == (CHOOSE r \in night.read : r[1] = f)[2]
        <3>1. old = facts[f] /\ facts[f].accessed >= 0
            BY <1>1, <2>2 DEF MemoryInv
        <3>2. PICK d : d = day - facts[f].accessed
            OBVIOUS
        <3>3. d \in 0 .. LastDay /\ (facts[f].accessed = day => d = 0)
            <4>1. facts[f].accessed \in Int /\ facts[f].accessed <= day /\ day <= LastDay
                BY <2>1 DEF FactRow, RowSound, MemoryInv
            <4> QED BY <4>1, <3>1, <3>2, <1>1, MemoryAssumption
        <3>4. PICK new : new = (facts[f].relevance * Keep[d]) \div 100
            OBVIOUS
        <3>5. new \in 0 .. 20
            <4>1. facts[f].relevance \in 0 .. 20 /\ Keep[d] \in 0 .. 100
                BY <2>1, <3>3, MemoryAssumption DEF FactRow
            <4> QED BY <4>1, <3>4, FadedBound
        <3>6. facts'[f] = [facts[f] EXCEPT !.relevance = new, !.tier = Tier(new)]
            BY <2>2, <3>1, <3>2, <3>4 DEF DecayWrites, Faded
        <3>7. Tier(new) \in Tiers /\ Rank(Tier(new)) \in 0 .. 3
            BY <3>5 DEF Tier, Tiers, Rank
        <3>8. /\ facts'[f].created = facts[f].created /\ facts'[f].accessed = facts[f].accessed
              /\ facts'[f].relevance = new /\ facts'[f].tier = Tier(new)
              /\ facts'[f] = [created |-> facts[f].created, accessed |-> facts[f].accessed,
                              relevance |-> new, tier |-> Tier(new)]
            BY <2>1, <3>6 DEF FactRow
        <3>9. facts'[f] \in FactRow
            BY <2>1, <3>5, <3>7, <3>8 DEF FactRow
        <3>10. RowSound(facts'[f])
            BY <2>1, <3>7, <3>8 DEF RowSound
        <3>11. facts[f].accessed = day => Rank(facts'[f].tier) >= Rank(facts[f].tier)
            BY <2>1, <3>3, <3>4, <3>7, <3>8 DEF FadesSlowly
        <3> QED BY <3>9, <3>10, <3>11
    <2>3. CASE ~\E r \in night.read : r[1] = f
        <3>1. facts'[f] = facts[f]
            BY <2>3 DEF DecayWrites
        <3> QED BY <2>1, <3>1
    <2> QED BY <2>2, <2>3
<1>3. facts' \in [Text -> FactRow]
    <2>1. facts' = [f \in Text |-> facts'[f]]
        BY DEF DecayWrites
    <2> QED BY <1>2, <2>1
<1>4. MemoryInv'
    BY <1>1, <1>2, <1>3 DEF MemoryInv, Working, RowSound
<1> QED BY <1>2, <1>4 DEF Stays

\* Rows go: the clean-up and what the dashboard deletes.
LEMMA RowsGo ==
    ASSUME MemoryInv, day' = day, ran' = ran, night'.pc = "idle",
           night' = [pc |-> night'.pc, link |-> night'.link, read |-> night'.read],
           DOMAIN facts' = Text, facts' = [f \in Text |-> facts'[f]],
           \A f \in Text : facts'[f] \in {facts[f], NoRow},
           night.pc = "idle" \/ ran = day
    PROVE  MemoryInv' /\ Stays
<1>1. ASSUME NEW f \in Text
      PROVE  /\ facts'[f] \in FactRow /\ RowSound(facts'[f])
             /\ ran < day => FadesSlowly(facts'[f])
    BY UnusedRow DEF MemoryInv
<1>2. facts' \in [Text -> FactRow]
    BY <1>1
<1>3. day \in Nat
    BY MemoryAssumption DEF MemoryInv
<1>4. \A f \in Text : RowSound(facts[f])' /\ (ran' < day' => FadesSlowly(facts[f])')
    BY <1>1 DEF RowSound, FadesSlowly
<1>5. MemoryInv'
    BY <1>2, <1>3, <1>4 DEF MemoryInv, Working
<1>6. \A f \in Text : Rank(facts[f].tier) \in 0 .. 3
    BY RankType DEF MemoryInv, FactRow
<1> QED BY <1>5, <1>6 DEF Stays

LEMMA NextDayStep ==
    ASSUME MemoryInv, NextDay
    PROVE  MemoryInv' /\ Stays
<1>1. /\ day' = day + 1 /\ day' \in 0 .. LastDay /\ ran' = ran /\ night' = night
      /\ night.pc = "idle" /\ facts' = facts /\ day \in Nat /\ ran' \in 0 .. day'
    BY MemoryAssumption DEF MemoryInv, NextDay, stores, index
<1>2. ASSUME NEW f \in Text
      PROVE  RowSound(facts[f])' /\ FadesSlowly(facts[f])' /\ Rank(facts[f].tier) \in 0 .. 3
    <2>1. facts[f] \in FactRow /\ RowSound(facts[f])
        BY DEF MemoryInv
    <2>2. facts[f].accessed \in Int /\ facts[f].accessed < day' /\ Rank(facts[f].tier) \in 0 .. 3
        BY <1>1, <2>1, RankType DEF FactRow, RowSound
    <2> QED BY <1>1, <2>1, <2>2 DEF RowSound, FadesSlowly
<1>3. MemoryInv'
    BY <1>1, <1>2 DEF MemoryInv
<1> QED BY <1>1, <1>2, <1>3 DEF Stays

THEOREM MemoryInductive ==
    MemoryInv /\ [MemoryNext]_memoryVars => MemoryInv' /\ (MemoryNext => Stays)
<1> SUFFICES ASSUME MemoryInv, [MemoryNext]_memoryVars
             PROVE  MemoryInv' /\ Stays
    OBVIOUS
<1>1. ASSUME NEW t \in Storer,
             Extract(t) \/ IndexFact(t) \/ BeginSharing(t) \/ ShareFact(t) \/ IndexTurn(t)
      PROVE  MemoryInv' /\ Stays
    <2>1. /\ day' = day /\ ran' = ran /\ night' = night
          /\ facts' = facts \/ \E f \in Text : Index(f)
        <3>1. CASE Extract(t) \/ BeginSharing(t) \/ ShareFact(t)
            BY <3>1 DEF Extract, BeginSharing, ShareFact, stores, index
        <3>2. CASE IndexFact(t)
            <4>1. UNCHANGED index \/ \E f \in storing[t].todo : ~Known(f) /\ Index(f)
                BY <3>2 DEF IndexFact, Index
            <4>2. facts' = facts \/ \E f \in Text : Index(f)
                <5>1. CASE UNCHANGED index
                    BY <5>1 DEF index
                <5>2. ASSUME NEW f, Index(f), f \notin Text
                      PROVE  facts' = facts
                    <6>1. DOMAIN facts = Text
                        BY DEF MemoryInv
                    <6> QED BY <5>2, <6>1 DEF Index, index, MemoryInv
                <5> QED BY <4>1, <5>1, <5>2
            <4> QED BY <3>2, <4>2 DEF IndexFact
        <3>3. CASE IndexTurn(t)
            BY <3>3 DEF IndexTurn, Text
        <3> QED BY <1>1, <3>1, <3>2, <3>3
    <2> QED BY <2>1, RemembersStep
<1>2. CASE Retrieve
    BY <1>2, RetrieveStep
<1>3. CASE \/ Consolidate \/ ExtractEntity \/ RelateSource \/ RelateTarget \/ Relate
           \/ EndGraph \/ DecayRaises \/ MemoryCrash
    BY <1>3, NightStep
<1>4. CASE DecayReads
    BY <1>4, DecayReadsStep
<1>5. CASE DecayWrites
    BY <1>5, DecayWritesStep
<1>6. CASE CleanUp
    <2>1. /\ day' = day /\ ran' = ran /\ night'.pc = "idle" /\ ran = day
          /\ night' = [pc |-> night'.pc, link |-> night'.link, read |-> night'.read]
          /\ DOMAIN facts' = Text /\ facts' = [f \in Text |-> facts'[f]]
          /\ \A f \in Text : facts'[f] \in {facts[f], NoRow}
        BY <1>6 DEF CleanUp, MemoryInv, Asleep
    <2> QED BY <2>1, RowsGo
<1>7. CASE DeleteFact \/ ResetMemory
    <2>1. /\ day' = day /\ ran' = ran /\ night' = night /\ night.pc = "idle"
          /\ DOMAIN facts' = Text /\ facts' = [f \in Text |-> facts'[f]]
          /\ \A f \in Text : facts'[f] \in {facts[f], NoRow}
        BY <1>7 DEF DeleteFact, ResetMemory, MemoryInv
    <2>2. night' = [pc |-> night'.pc, link |-> night'.link, read |-> night'.read]
        BY <2>1 DEF MemoryInv
    <2> QED BY <2>1, <2>2, RowsGo
<1>8. CASE AddByHand
    <2>1. /\ day' = day /\ ran' = ran /\ night' = night
          /\ \E f \in Text : Index(f)
        BY <1>8 DEF AddByHand, Text
    <2> QED BY <2>1, RemembersStep
<1>9. CASE DeleteEntity \/ DeleteOther \/ UNCHANGED memoryVars
    <2>1. day' = day /\ ran' = ran /\ night' = night /\ facts' = facts
        BY <1>9 DEF DeleteEntity, DeleteOther, memoryVars, stores, index
    <2> QED BY <2>1, RemembersStep
<1>10. CASE NextDay
    BY <1>10, NextDayStep
<1> QED BY <1>1, <1>2, <1>3, <1>4, <1>5, <1>6, <1>7, <1>8, <1>9, <1>10 DEF MemoryNext

\* decay_all_facts computes in one transaction and writes in another, over the
\* touches of searches, yet never lowers the tier of a fact found that day
\* (memory/fts.py, cron/sleep_compute.py): for any facts, threads, edits and any
\* curve that leaves a day's find its twentieth.
THEOREM FoundFactsStay == MemorySpec => UsedFactsStay
<1>1. MemoryInit => MemoryInv
    <2> SUFFICES ASSUME MemoryInit
                 PROVE  MemoryInv
        OBVIOUS
    <2>1. /\ day = 0 /\ ran = 0 /\ facts = [f \in Text |-> NoRow] /\ night = Asleep
        BY DEF MemoryInit
    <2>2. NoRow \in FactRow /\ RowSound(NoRow) /\ FadesSlowly(NoRow)
        <3>1. Rank("none") = 0 /\ Rank(Tier(0)) = 0
            BY DEF Rank, Tier
        <3> QED BY <2>1, <3>1 DEF NoRow, FactRow, RowSound, FadesSlowly, Tiers
    <2>3. 0 \in 0 .. LastDay
        BY MemoryAssumption
    <2>4. night = [pc |-> night.pc, link |-> night.link, read |-> night.read] /\ night.pc = "idle"
        BY <2>1 DEF Asleep
    <2> QED BY <2>1, <2>2, <2>3, <2>4 DEF MemoryInv, Working
<1>2. MemoryInv /\ [MemoryNext]_memoryVars => MemoryInv' /\ [Stays]_memoryVars
    BY MemoryInductive
<1> QED BY <1>1, <1>2, PTL DEF MemorySpec, UsedFactsStay, Stays

-----------------------------------------------------------------------------
(* The skills: an imported one is in use only when somebody approved it, or *)
(* a rewrite made it so.                                                     *)

SkillFile == [status : {"missing", "draft", "active"}, imported : BOOLEAN,
              approved : BOOLEAN, rewritten : BOOLEAN]
Loading == [skill : SkillFile, at : Directory]
Task == [skill : Skill, at : Directory, read : SkillFile] \cup {NoTask}

Permitted(c) == (c.imported /\ c.status = "active") => c.approved \/ c.rewritten

SkillInv ==
    /\ file \in [Directory -> [Skill -> SkillFile]]
    /\ library \in [Agent -> [Skill -> Loading]]
    /\ approval \in [Agent -> Task]
    /\ rewrite \in [Agent -> Task]
    /\ \A d \in Directory, s \in Skill : Permitted(file[d][s])
    /\ \A a \in Agent, s \in Skill : Permitted(library[a][s].skill)

LEMMA SkillFiles ==
    /\ NoFile \in SkillFile /\ Own \in SkillFile
    /\ Draft(TRUE) \in SkillFile /\ Draft(FALSE) \in SkillFile
    /\ Permitted(NoFile) /\ Permitted(Own) /\ Permitted(Draft(TRUE)) /\ Permitted(Draft(FALSE))
BY DEF NoFile, Own, Draft, SkillFile, Permitted

LEMMA LoadedFiles ==
    ASSUME SkillInv, NEW a \in Agent, NEW s \in Skill
    PROVE  Loaded(a, s) \in Loading /\ Permitted(Loaded(a, s).skill)
BY DEF SkillInv, Loaded, Loading, Directory

\* One file is written, and perhaps one agent knows it.
LEMMA FileWritten ==
    ASSUME SkillInv, NEW d \in Directory, NEW s \in Skill, NEW a \in Agent,
           NEW new \in SkillFile, Permitted(new), file' = [file EXCEPT ![d][s] = new],
           \/ library' = library
           \/ library' = [library EXCEPT ![a][s] = [skill |-> new, at |-> d]],
           approval' \in [Agent -> Task], rewrite' \in [Agent -> Task]
    PROVE  SkillInv'
<1>1. /\ file' \in [Directory -> [Skill -> SkillFile]]
      /\ \A e \in Directory, t \in Skill : Permitted(file'[e][t])
    BY DEF SkillInv
<1>2. /\ library' \in [Agent -> [Skill -> Loading]]
      /\ \A b \in Agent, t \in Skill : Permitted(library'[b][t].skill)
    <2>1. CASE library' = library
        BY <2>1 DEF SkillInv
    <2>2. CASE library' = [library EXCEPT ![a][s] = [skill |-> new, at |-> d]]
        <3>1. PICK learnt : learnt = [skill |-> new, at |-> d]
            OBVIOUS
        <3>2. learnt \in Loading /\ learnt.skill = new
            BY <3>1 DEF Loading
        <3>3. library' = [library EXCEPT ![a][s] = learnt]
            BY <2>2, <3>1
        <3> QED BY <3>2, <3>3 DEF SkillInv
    <2> QED BY <2>1, <2>2
<1> QED BY <1>1, <1>2 DEF SkillInv, Permitted

THEOREM SkillInductive == SkillInv /\ [SkillNext]_skillVars => SkillInv'
<1> SUFFICES ASSUME SkillInv, [SkillNext]_skillVars
             PROVE  SkillInv'
    OBVIOUS
<1>1. ASSUME NEW a \in Agent, NEW s \in Skill, ApproveReads(a, s) \/ RewriteReads(a, s)
      PROVE  SkillInv'
    <2>1. library[a][s] \in Loading /\ Loaded(a, s) \in Loading
        BY LoadedFiles DEF SkillInv
    <2>2. /\ file' = file /\ library' = library
          /\ approval' \in [Agent -> Task] /\ rewrite' \in [Agent -> Task]
        <3>1. CASE ApproveReads(a, s)
            <4>1. PICK d : d = library[a][s].at
                OBVIOUS
            <4>2. PICK t : t = [skill |-> s, at |-> d, read |-> file[d][s]]
                OBVIOUS
            <4>3. t \in Task
                BY <2>1, <4>1, <4>2 DEF SkillInv, Loading, Task
            <4> QED BY <3>1, <4>1, <4>2, <4>3 DEF SkillInv, ApproveReads
        <3>2. CASE RewriteReads(a, s)
            <4>1. PICK t : t = [skill |-> s, at |-> Loaded(a, s).at, read |-> Loaded(a, s).skill]
                OBVIOUS
            <4>2. t \in Task
                BY <2>1, <4>1 DEF Loading, Task
            <4> QED BY <3>2, <4>1, <4>2 DEF SkillInv, RewriteReads
        <3> QED BY <1>1, <3>1, <3>2
    <2> QED BY <2>2 DEF SkillInv, Permitted
<1>2. ASSUME NEW a \in Agent, NEW s \in Skill,
             Import(a, s) \/ ImportByHand(a, s) \/ CreateDraft(a, s)
      PROVE  SkillInv'
    <2>1. PICK new \in {Draft(TRUE), Draft(FALSE)} :
              /\ file' = [file EXCEPT ![a][s] = new]
              /\ \/ library' = library
                 \/ library' = [library EXCEPT ![a][s] = [skill |-> new, at |-> a]]
        BY <1>2 DEF Import, ImportByHand, CreateDraft
    <2>2. /\ approval' \in [Agent -> Task] /\ rewrite' \in [Agent -> Task]
          /\ a \in Directory
        BY <1>2 DEF Import, ImportByHand, CreateDraft, SkillInv, Directory
    <2> QED BY <2>1, <2>2, SkillFiles, FileWritten
<1>3. ASSUME NEW a \in Agent, ApproveWrites(a)
      PROVE  SkillInv'
    <2>1. PICK t : t = approval[a]
        OBVIOUS
    <2>2. t.skill \in Skill /\ t.at \in Directory /\ t.read \in SkillFile
        BY <1>3, <2>1 DEF ApproveWrites, SkillInv, Task
    <2>3. PICK new : new = [t.read EXCEPT !.status = "active", !.approved = TRUE]
        OBVIOUS
    <2>4. new \in SkillFile /\ Permitted(new)
        BY <2>2, <2>3 DEF SkillFile, Permitted
    <2>5. /\ file' = [file EXCEPT ![t.at][t.skill] = new]
          /\ library' = [library EXCEPT ![a][t.skill] = [skill |-> new, at |-> t.at]]
          /\ approval' \in [Agent -> Task] /\ rewrite' \in [Agent -> Task]
        BY <1>3, <2>1, <2>3 DEF ApproveWrites, SkillInv, Task
    <2> QED BY <2>2, <2>4, <2>5, FileWritten
<1>4. ASSUME NEW a \in Agent, RewriteWrites(a)
      PROVE  SkillInv'
    <2>1. PICK t : t = rewrite[a]
        OBVIOUS
    <2>2. t.skill \in Skill /\ t.at \in Directory /\ t.read \in SkillFile
        BY <1>4, <2>1 DEF RewriteWrites, SkillInv, Task
    <2>3. /\ library' = library
          /\ approval' \in [Agent -> Task] /\ rewrite' \in [Agent -> Task]
        BY <1>4 DEF RewriteWrites, SkillInv, Task
    <2>4. CASE file' = file
        BY <2>3, <2>4 DEF SkillInv, Permitted
    <2>5. CASE \E status \in {t.read.status, "active"} :
                  file' = [file EXCEPT ![t.at][t.skill] =
                              [t.read EXCEPT !.status = status, !.rewritten = TRUE]]
        <3>1. PICK status \in {t.read.status, "active"} :
                  file' = [file EXCEPT ![t.at][t.skill] =
                              [t.read EXCEPT !.status = status, !.rewritten = TRUE]]
            BY <2>5
        <3>2. PICK new : new = [t.read EXCEPT !.status = status, !.rewritten = TRUE]
            OBVIOUS
        <3>3. new \in SkillFile /\ Permitted(new)
            BY <2>2, <3>2 DEF SkillFile, Permitted
        <3> QED BY <2>2, <2>3, <3>1, <3>2, <3>3, FileWritten
    <2> QED BY <1>4, <2>1, <2>4, <2>5 DEF RewriteWrites
<1>5. ASSUME NEW a \in Agent, Restart(a)
      PROVE  SkillInv'
    <2>1. \A s \in Skill : Loaded(a, s) \in Loading /\ Permitted(Loaded(a, s).skill)
        BY LoadedFiles
    <2>2. PICK loaded : loaded = [s \in Skill |-> Loaded(a, s)]
        OBVIOUS
    <2>3. loaded \in [Skill -> Loading] /\ \A s \in Skill : Permitted(loaded[s].skill)
        BY <2>1, <2>2
    <2>4. library' = [library EXCEPT ![a] = loaded] /\ file' = file
        BY <1>5, <2>2 DEF Restart
    <2>5. approval' \in [Agent -> Task] /\ rewrite' \in [Agent -> Task]
        BY <1>5 DEF Restart, SkillInv, Task
    <2> QED BY <2>3, <2>4, <2>5 DEF SkillInv, Permitted
<1>6. CASE UNCHANGED skillVars
    BY <1>6 DEF skillVars, SkillInv, Permitted
<1> QED BY <1>1, <1>2, <1>3, <1>4, <1>5, <1>6 DEF SkillNext

\* Two stores over one directory, restarts, overlays, approvals that read and
\* write in two steps: an imported skill is still active only when approved or
\* rewritten (skills/store.py, hub.py, cron/skill_improve.py).
THEOREM NoImportSneaksIn == SkillSpec => []ActiveIsApprovedOrRewritten
<1>1. SkillInit => SkillInv
    <2> SUFFICES ASSUME SkillInit
                 PROVE  SkillInv
        OBVIOUS
    <2>1. /\ file \in [Directory -> [Skill -> SkillFile]]
          /\ \A d \in Directory, s \in Skill : Permitted(file[d][s])
        BY SkillFiles DEF SkillInit
    <2>2. \A a \in Agent, s \in Skill : Loaded(a, s) \in Loading /\ Permitted(Loaded(a, s).skill)
        BY <2>1 DEF Loaded, Loading, Directory
    <2>3. approval \in [Agent -> Task] /\ rewrite \in [Agent -> Task]
        BY DEF SkillInit, Task
    <2> QED BY <2>1, <2>2, <2>3 DEF SkillInit, SkillInv
<1>2. SkillInv => ActiveIsApprovedOrRewritten
    BY DEF SkillInv, Permitted, ActiveIsApprovedOrRewritten, Copies
<1> QED BY <1>1, <1>2, SkillInductive, PTL DEF SkillSpec

-----------------------------------------------------------------------------
(* The groups: feedback is to the credit of the author of the message.      *)

\* The messages, as the handlers use them: a topic is a message, or none.
Message == [from : Peer \cup {User, Stranger}, parent : {0} \cup Posted, topic : {0} \cup Posted,
            names : SUBSET Peer, why : {"said"} \cup Willing]

\* Who gets the credit for message m, when an agent of the registry wrote it.
Credits(m, name) == chat[m].from \in Listed => name = chat[m].from

\* What is written about messages: it is about one that was posted, and a row of
\* an agent, like every feedback, has the right name.
Sound == /\ \A r \in journal : r.msg \in Posted /\ (r.kind = "agent" => Credits(r.msg, r.name))
         /\ \A f \in feedback : f.msg \in Posted /\ Credits(f.msg, f.agent)

\* A handler has begun only with a message that was posted.
Begun == /\ pc \in [Peer -> [Id -> {"new", "routing", "judging", "sent", "done"} \cup Willing]]
         /\ \A a \in Peer, m \in Id : pc[a][m] # "new" => m \in Posted

Written == chat \in Seq(Message) /\ Sound

GroupInv == Written /\ Begun

\* Nobody posts, and what is written is sound: that is all there is to show of
\* the other steps.
LEMMA QuietStep ==
    ASSUME Written, chat' = chat,
           \A r \in journal' : r.msg \in Posted /\ (r.kind = "agent" => Credits(r.msg, r.name)),
           \A f \in feedback' : f.msg \in Posted /\ Credits(f.msg, f.agent)
    PROVE  Written'
BY DEF Written, Sound, Posted, Credits, Message

\* The topics of a new message are messages, or none.
LEMMA TopicsArePosted ==
    ASSUME Written, NEW p \in {0} \cup Posted
    PROVE  TopicsOf(p) \subseteq {0} \cup Posted
<1>1. p # 0 => chat[p] \in Message
    BY DEF Written, Posted
<1>2. p # 0 => chat[p].topic \in {0} \cup Posted
    BY <1>1 DEF Message
<1> QED BY <1>2 DEF TopicsOf

\* A message is posted at the end.
LEMMA PostStep ==
    ASSUME Written, NEW msg \in Message,
           chat' = Append(chat, msg), journal' = journal, feedback' = feedback
    PROVE  Written'
<1>1. chat \in Seq(Message) /\ Len(chat) \in Nat
    BY DEF Written
<1>2. Len(chat') = Len(chat) + 1 /\ \A m \in Posted : chat'[m] = chat[m]
    BY <1>1 DEF Posted
<1>3. Posted \subseteq Posted'
    BY <1>1, <1>2 DEF Posted
<1>4. Message \subseteq Message'
    BY <1>3 DEF Message
<1>5. chat' \in Seq(Message')
    BY <1>1, <1>4
<1>6. Sound'
    BY <1>2, <1>3 DEF Written, Sound, Credits
<1> QED BY <1>5, <1>6 DEF Written

\* One row more, or none: it is about a message and has the right name.
LEMMA RowStep ==
    ASSUME Written, NEW row, chat' = chat, feedback' = feedback,
           journal' \subseteq journal \cup {row},
           row.msg \in Posted, row.kind = "agent" => Credits(row.msg, row.name)
    PROVE  Written'
BY QuietStep DEF Written, Sound

\* A handler goes on, or nothing begins.
LEMMA HandlerStep ==
    ASSUME GroupInv, NEW a \in Peer, NEW m \in Posted,
           NEW place \in {"new", "routing", "judging", "sent", "done"} \cup Willing,
           pc' = [pc EXCEPT ![a][m] = place], Posted \subseteq Posted'
    PROVE  Begun'
<1>1. \A b \in Peer, n \in Id : pc'[b][n] # "new" => pc[b][n] # "new" \/ n = m
    BY DEF GroupInv, Begun
<1>2. pc' \in [Peer -> [Id -> {"new", "routing", "judging", "sent", "done"} \cup Willing]]
    BY DEF GroupInv, Begun
<1> QED BY <1>1, <1>2 DEF GroupInv, Begun

\* No message goes, and the handlers stay where they are.
LEMMA StillStep ==
    ASSUME GroupInv, pc' = pc, Posted \subseteq Posted'
    PROVE  Begun'
BY DEF GroupInv, Begun

\* Every step of the group keeps what is written sound.
THEOREM GroupInductive == GroupInv /\ [GroupNext]_groupVars => GroupInv'
<1> SUFFICES ASSUME GroupInv, [GroupNext]_groupVars
             PROVE  GroupInv'
    OBVIOUS
<1> USE DEF GroupInv
<1>0. ASSUME chat' = chat \/ \E msg : chat' = Append(chat, msg)
      PROVE  Posted \subseteq Posted'
    BY <1>0 DEF Posted, Written
<1>1. CASE Says
    <2>1. PICK who \in {User, Stranger}, p \in {0} \cup Posted, names \in SUBSET Peer :
              \E t \in TopicsOf(p) : chat' = Append(chat, Posting(who, p, t, names, "said"))
        BY <1>1 DEF Says
    <2>2. PICK t \in TopicsOf(p) : chat' = Append(chat, Posting(who, p, t, names, "said"))
        BY <2>1
    <2>3. Posting(who, p, t, names, "said") \in Message
        BY TopicsArePosted DEF Posting, Message
    <2>4. journal' = journal /\ feedback' = feedback /\ pc' = pc
        BY <1>1 DEF Says
    <2> QED BY <1>0, <2>2, <2>3, <2>4, PostStep, StillStep
<1>2. ASSUME NEW a \in Peer, NEW m \in Id, Answers(a, m)
      PROVE  GroupInv'
    <2>1. PICK p \in ParentsOfAnswer(m) : \E t \in TopicsOf(p) :
              chat' = Append(chat, Posting(a, p, t, {}, pc[a][m]))
        BY <1>2 DEF Answers
    <2>2. PICK t \in TopicsOf(p) : chat' = Append(chat, Posting(a, p, t, {}, pc[a][m]))
        BY <2>1
    <2>3. m \in Posted
        BY <1>2 DEF Answers, Willing, Begun
    <2>4. p \in {0} \cup Posted
        <3>1. chat[m] \in Message
            BY <2>3 DEF Written, Posted
        <3>2. chat[m].topic \in {0} \cup Posted
            BY <3>1 DEF Message
        <3> QED BY <2>1, <2>3, <3>2 DEF ParentsOfAnswer
    <2>5. Posting(a, p, t, {}, pc[a][m]) \in Message
        BY <1>2, <2>4, TopicsArePosted DEF Posting, Message, Answers
    <2>6. /\ journal' = journal /\ feedback' = feedback
          /\ pc' = [pc EXCEPT ![a][m] = "sent"]
        BY <1>2 DEF Answers
    <2>7. Written'
        BY <2>2, <2>5, <2>6, PostStep
    <2>8. Begun'
        BY <1>0, <2>2, <2>3, <2>6, HandlerStep
    <2> QED BY <2>7, <2>8
<1>3. ASSUME NEW a \in Peer, NEW m \in Id, Ingress(a, m)
      PROVE  GroupInv'
    <2>1. PICK row : row = InboundRow(a, m)
        OBVIOUS
    <2>2. m \in Posted /\ chat' = chat /\ feedback' = feedback
        BY <1>3 DEF Ingress
    <2>3. row.msg \in Posted /\ (row.kind = "agent" => Credits(row.msg, row.name))
        BY <2>1, <2>2 DEF InboundRow, Credits, NameOf
    <2>4. journal' \subseteq journal \cup {row}
        BY <1>3, <2>1 DEF Ingress, Recorded
    <2>5. \E place \in {"done", "routing", "explicit"} : Goto(a, m, place)
        BY <1>3 DEF Ingress
    <2>6. Written'
        BY <2>2, <2>3, <2>4, RowStep
    <2>7. Begun'
        BY <1>0, <2>2, <2>5, HandlerStep DEF Goto, Willing
    <2> QED BY <2>6, <2>7
<1>4. ASSUME NEW a \in Peer, NEW m \in Id, Outbound(a, m)
      PROVE  GroupInv'
    <2>1. PICK n \in Posted :
              /\ chat[n].from = a
              /\ journal' \in {journal, Recorded([msg |-> n, topic |-> chat[m].topic,
                                                  kind |-> "agent", name |-> a])}
        BY <1>4 DEF Outbound
    <2>2. PICK row : row = [msg |-> n, topic |-> chat[m].topic, kind |-> "agent", name |-> a]
        OBVIOUS
    <2>3. row.msg \in Posted /\ (row.kind = "agent" => Credits(row.msg, row.name))
        BY <2>1, <2>2 DEF Credits
    <2>4. chat' = chat /\ feedback' = feedback /\ journal' \subseteq journal \cup {row}
        BY <1>4, <2>1, <2>2 DEF Outbound, Recorded
    <2>5. m \in Posted /\ Goto(a, m, "done")
        BY <1>4 DEF Outbound, Begun
    <2>6. Written'
        BY <2>3, <2>4, RowStep
    <2>7. Begun'
        BY <1>0, <2>4, <2>5, HandlerStep DEF Goto
    <2> QED BY <2>6, <2>7
<1>5. ASSUME NEW a \in Peer, HandleReaction(a)
      PROVE  GroupInv'
    <2>1. PICK r \in journal, kind \in {"positive", "negative"} :
              /\ r.kind = "agent"
              /\ AddFeedback(r.msg, IF r.name = "unknown" THEN a ELSE r.name, kind)
        BY <1>5 DEF HandleReaction
    <2>2. PICK credit : credit = IF r.name = "unknown" THEN a ELSE r.name
        OBVIOUS
    <2>3. r.msg \in Posted /\ Credits(r.msg, r.name)
        BY <2>1 DEF Written, Sound
    <2>4. Credits(r.msg, credit)
        BY <2>2, <2>3, GroupAssumption DEF Credits
    <2>5. \A f \in feedback' : f \in feedback \/ (f.msg = r.msg /\ f.agent = credit)
        BY <2>1, <2>2 DEF AddFeedback
    <2>6. \A f \in feedback' : f.msg \in Posted /\ Credits(f.msg, f.agent)
        BY <2>3, <2>4, <2>5 DEF Written, Sound
    <2>7. chat' = chat /\ journal' = journal /\ pc' = pc
        BY <1>5 DEF HandleReaction
    <2>8. Written'
        BY <2>6, <2>7, QuietStep DEF Written, Sound
    <2> QED BY <1>0, <2>7, <2>8, StillStep
<1>6. ASSUME chat' = chat, feedback' = feedback, journal' \subseteq journal
      PROVE  Written' /\ Posted \subseteq Posted'
    BY <1>0, <1>6, QuietStep DEF Written, Sound
<1>7. ASSUME NEW a \in Peer, NEW m \in Id, Decide(a, m) \/ Judge(a, m) \/ StandsDown(a, m)
      PROVE  GroupInv'
    <2>1. m \in Posted
        BY <1>7 DEF Decide, Judge, StandsDown, Willing, Begun
    <2>2. \E place \in {"done", "judging", "explicit", "relevant", "reaction"} : Goto(a, m, place)
        BY <1>7 DEF Decide, Judge, StandsDown, CheckRelevance
    <2>3. chat' = chat /\ feedback' = feedback /\ journal' = journal
        BY <1>7 DEF Decide, Judge, StandsDown
    <2> QED BY <1>6, <2>1, <2>2, <2>3, HandlerStep DEF Goto, Willing
<1>8. ASSUME NEW a \in Peer, AgentDies(a)
      PROVE  GroupInv'
    <2>1. chat' = chat /\ feedback' = feedback /\ journal' = journal
        BY <1>8 DEF AgentDies
    <2>2. Posted' = Posted
        BY <2>1 DEF Posted
    <2>3. pc' = [pc EXCEPT ![a] = [m \in Id |-> IF m \in Posted THEN "done" ELSE "new"]]
        BY <1>8 DEF AgentDies
    <2>4. Begun'
        BY <2>2, <2>3 DEF Begun
    <2> QED BY <1>6, <2>1, <2>4
<1>9. ASSUME \/ \E a \in Peer : CoolDown(a)
             \/ Prune \/ UNCHANGED groupVars
      PROVE  GroupInv'
    <2>1. chat' = chat /\ feedback' = feedback /\ journal' \subseteq journal /\ pc' = pc
        BY <1>9 DEF CoolDown, Prune, groupVars
    <2> QED BY <1>6, <2>1, StillStep
<1> QED BY <1>1, <1>2, <1>3, <1>4, <1>5, <1>7, <1>8, <1>9 DEF GroupNext

\* Handlers of several agents that write a message's row in any order, deaths
\* between the answer and its row, rows pruned, one emoji after another: feedback
\* on a message of an agent of the registry is to the credit of that agent
\* (bridge.py's handle_reaction, swarm_store.py's add_feedback).
THEOREM CreditWhereDue == GroupSpec => []FeedbackFindsItsAuthor
<1>1. GroupInit => GroupInv
    BY DEF GroupInit, GroupInv, Written, Sound, Begun, Posted
<1>2. GroupInv => FeedbackFindsItsAuthor
    BY DEF GroupInv, Written, Sound, Credits, FeedbackFindsItsAuthor
<1> QED BY <1>1, <1>2, GroupInductive, PTL DEF GroupSpec

-----------------------------------------------------------------------------
(* The watch: the rows of an app join its first snapshot to its latest.     *)

\* A change that was told, if there was one.
LEMMA ToldIsLinked ==
  ASSUME NEW seen \in BOOLEAN, NEW row, NEW kind, NEW from, NEW to,
         IF row.kind = kind THEN row.old = from /\ row.new = to /\ (~seen => from = to)
                            ELSE from = to
  PROVE  Linked(Told(seen, row), kind, from, to)
<1>1. CASE seen
  <2>1. PICK told : told = <<row>>
    OBVIOUS
  <2>2. DOMAIN told = {1} /\ told[1] = row
    BY <2>1
  <2>3. Linked(told, kind, from, to)
    BY <2>2 DEF Linked
  <2> QED
    BY <1>1, <2>1, <2>3 DEF Told
<1>2. CASE ~seen
  BY <1>2 DEF Linked, Told
<1> QED
  BY <1>1, <1>2

\* Two histories, the second of which begins where the first ended, are one.
LEMMA LinkedConcat ==
  ASSUME NEW S, NEW s \in Seq(S), NEW t \in Seq(S),
         NEW kind, NEW from, NEW mid, NEW to,
         Linked(s, kind, from, mid), Linked(t, kind, mid, to)
  PROVE  Linked(s \o t, kind, from, to)
<1>1. PICK r, m, n : r = s \o t /\ m = Len(s) /\ n = Len(t)
  OBVIOUS
<1>2. /\ m \in Nat /\ n \in Nat /\ DOMAIN r = 1 .. m + n
      /\ DOMAIN s = 1 .. m /\ DOMAIN t = 1 .. n
      /\ \A i \in 1 .. m : r[i] = s[i]
      /\ \A i \in 1 .. n : r[m + i] = t[i]
  <2>1. /\ Len(s \o t) = Len(s) + Len(t) /\ s \o t \in Seq(S)
        /\ \A i \in 1 .. Len(s) + Len(t) :
              (s \o t)[i] = IF i <= Len(s) THEN s[i] ELSE t[i - Len(s)]
    BY ConcatProperties
  <2>2. m \in Nat /\ n \in Nat /\ DOMAIN s = 1 .. m /\ DOMAIN t = 1 .. n
    BY <1>1
  <2>3. DOMAIN r = 1 .. m + n
    BY <1>1, <2>1
  <2>4. \A i \in 1 .. m + n : r[i] = IF i <= m THEN s[i] ELSE t[i - m]
    BY <1>1, <2>1
  <2>5. \A i \in 1 .. m : i \in 1 .. m + n /\ i <= m
    BY <2>2
  <2>6. \A i \in 1 .. n : m + i \in 1 .. m + n /\ ~(m + i <= m) /\ m + i - m = i
    BY <2>2
  <2>7. \A i \in 1 .. m : r[i] = s[i]
    BY <2>4, <2>5
  <2>8. \A i \in 1 .. n : r[m + i] = t[i]
    <3>1. SUFFICES ASSUME NEW i \in 1 .. n
                   PROVE  r[m + i] = t[i]
      OBVIOUS
    <3>2. PICK k : k = m + i
      OBVIOUS
    <3>3. k \in 1 .. m + n /\ ~(k <= m) /\ k - m = i
      BY <2>2, <3>1, <3>2
    <3> QED
      BY <2>4, <3>2, <3>3
  <2> QED
    BY <2>2, <2>3, <2>7, <2>8
<1> DEFINE A == {i \in 1 .. m : s[i].kind = kind}
           B == {i \in 1 .. n : t[i].kind = kind}
           C == {i \in 1 .. m + n : r[i].kind = kind}
<1>3. /\ A = {} => from = mid
      /\ \A i \in A :
            /\ (\A k \in A : i <= k) => s[i].old = from
            /\ (\A k \in A : k <= i) => s[i].new = mid
            /\ \A k \in A : i < k /\ (\A l \in A : l <= i \/ k <= l) => s[i].new = s[k].old
  BY <1>2 DEF Linked
<1>4. /\ B = {} => mid = to
      /\ \A i \in B :
            /\ (\A k \in B : i <= k) => t[i].old = mid
            /\ (\A k \in B : k <= i) => t[i].new = to
            /\ \A k \in B : i < k /\ (\A l \in B : l <= i \/ k <= l) => t[i].new = t[k].old
  BY <1>2 DEF Linked
<1>5. \A i \in A : i \in C /\ i \in 1 .. m /\ r[i] = s[i]
  BY <1>2
<1>6. \A i \in B : m + i \in C /\ i \in 1 .. n /\ r[m + i] = t[i]
  BY <1>2
<1>7. ASSUME NEW i \in C
      PROVE  /\ i \in 1 .. m + n
             /\ i <= m => i \in A /\ i \in 1 .. m
             /\ i > m => \E j \in B : m + j = i /\ j \in 1 .. n
  <2>1. i \in 1 .. m + n /\ r[i].kind = kind
    OBVIOUS
  <2>2. ASSUME i <= m
        PROVE  i \in A /\ i \in 1 .. m
    BY <1>2, <2>1, <2>2
  <2>3. ASSUME i > m
        PROVE  \E j \in B : m + j = i /\ j \in 1 .. n
    <3>1. i - m \in 1 .. n /\ m + (i - m) = i
      BY <1>2, <2>1, <2>3
    <3>2. PICK j : j = i - m
      OBVIOUS
    <3>3. m + j = i /\ j \in 1 .. n
      BY <3>1, <3>2
    <3> QED
      BY <1>2, <2>1, <3>3
  <2> QED
    BY <2>1, <2>2, <2>3
<1> HIDE DEF A, B, C
<1>8. C = {} => from = to
  BY <1>3, <1>4, <1>5, <1>6
<1>9. ASSUME NEW i \in C, \A k \in C : i <= k
      PROVE  r[i].old = from
  <2>1. CASE i <= m
    <3>1. i \in A /\ \A k \in A : i <= k
      BY <1>5, <1>7, <1>9, <2>1
    <3> QED
      BY <1>3, <1>5, <3>1
  <2>2. CASE i > m
    <3>1. A = {}
      BY <1>2, <1>5, <1>7, <1>9, <2>2
    <3>2. PICK j \in B : m + j = i /\ j \in 1 .. n
      BY <1>7, <2>2
    <3>3. \A k \in B : j <= k
      BY <1>2, <1>6, <1>9, <3>2
    <3> QED
      BY <1>3, <1>4, <1>6, <3>1, <3>2, <3>3
  <2> QED
    BY <1>2, <1>7, <2>1, <2>2
<1>10. ASSUME NEW i \in C, \A k \in C : k <= i
       PROVE  r[i].new = to
  <2>1. CASE i <= m
    <3>1. i \in A /\ i \in 1 .. m
      BY <1>7, <2>1
    <3>2. B = {}
      BY <1>2, <1>6, <1>10, <3>1
    <3> QED
      BY <1>3, <1>4, <1>5, <1>10, <3>1, <3>2
  <2>2. CASE i > m
    <3>1. PICK j \in B : m + j = i /\ j \in 1 .. n
      BY <1>7, <2>2
    <3>2. \A k \in B : k <= j
      BY <1>2, <1>6, <1>10, <3>1
    <3> QED
      BY <1>4, <1>6, <3>1, <3>2
  <2> QED
    BY <1>2, <1>7, <2>1, <2>2
<1>11. ASSUME NEW i \in C, NEW k \in C, i < k, \A l \in C : l <= i \/ k <= l
       PROVE  r[i].new = r[k].old
  <2>1. CASE k <= m
    <3>1. i \in A /\ k \in A
      BY <1>2, <1>7, <1>11, <2>1
    <3> QED
      BY <1>3, <1>5, <1>11, <3>1
  <2>2. CASE i > m
    <3>1. PICK j \in B : m + j = i /\ j \in 1 .. n
      BY <1>7, <2>2
    <3>2. k > m
      BY <1>2, <1>5, <1>7, <1>11, <3>1
    <3>3. PICK h \in B : m + h = k /\ h \in 1 .. n
      BY <1>7, <3>2
    <3>4. j < h /\ \A l \in B : l <= j \/ h <= l
      BY <1>2, <1>6, <1>11, <3>1, <3>3
    <3> QED
      BY <1>4, <1>6, <3>1, <3>3, <3>4
  <2>3. CASE i <= m /\ k > m
    <3>1. i \in A /\ i \in 1 .. m
      BY <1>7, <2>3
    <3>2. PICK h \in B : m + h = k /\ h \in 1 .. n
      BY <1>7, <2>3
    <3>3. \A l \in A : l <= i
      BY <1>2, <1>5, <1>11, <3>2
    <3>4. \A l \in B : h <= l
      BY <1>2, <1>6, <1>11, <3>1, <3>2
    <3>5. s[i].new = mid /\ t[h].old = mid
      BY <1>3, <1>4, <3>1, <3>2, <3>3, <3>4
    <3> QED
      BY <1>5, <1>6, <3>1, <3>2, <3>5
  <2> QED
    BY <1>2, <1>7, <1>11, <2>1, <2>2, <2>3
<1>12. Linked(r, kind, from, to)
  <2>1. C = {i \in DOMAIN r : r[i].kind = kind}
    BY <1>2 DEF C
  <2> QED
    BY <1>8, <1>9, <1>10, <1>11, <2>1 DEF Linked
<1> QED
  BY <1>1, <1>12

ChangeRow == [kind : {"new", "version", "rating", "reviews", "description", "price"},
              severity : {"critical", "important", "info"}, old : Nat, new : Nat]

\* The comparison of two listings joins the one to the other, in every field no
\* change of which escapes.
LEMMA DiffIsLinked ==
  ASSUME NEW prev \in Listing, NEW curr \in Listing
  PROVE  /\ DiffSnapshots(prev, curr) \in Seq(ChangeRow)
         /\ \A field \in Tracked :
               Linked(DiffSnapshots(prev, curr), field, prev[field], curr[field])
<1>1. /\ prev \in [version : Nat, rating : Nat, count : Nat, text : Nat, price : Nat]
      /\ curr \in [version : Nat, rating : Nat, count : Nat, text : Nat, price : Nat]
      /\ prev # NoListing
  BY CompetitorAssumption
<1>2. PICK r1, r2, r3, r4, r5 :
         /\ r1 = Row("version", "important", prev.version, curr.version)
         /\ r2 = RatingRow(prev, curr)
         /\ r3 = Row("reviews", "info", prev.count, curr.count)
         /\ r4 = Row("description", "info", prev.text, curr.text)
         /\ r5 = Row("price", "critical", prev.price, curr.price)
  OBVIOUS
<1>3. PICK s1, s2, s3, s4, s5 :
         /\ s1 = Differs(prev, curr, "version")
         /\ s2 = Differs(prev, curr, "rating")
         /\ s3 = (prev.count # 0 /\ 20 * (curr.count - prev.count) > prev.count)
         /\ s4 = Differs(prev, curr, "text")
         /\ s5 = (prev.price # curr.price)
  OBVIOUS
<1>4. PICK t1, t2, t3, t4, t5 :
         /\ t1 = Told(s1, r1) /\ t2 = Told(s2, r2) /\ t3 = Told(s3, r3)
         /\ t4 = Told(s4, r4) /\ t5 = Told(s5, r5)
  OBVIOUS
<1>5. /\ s1 \in BOOLEAN /\ s2 \in BOOLEAN /\ s3 \in BOOLEAN /\ s4 \in BOOLEAN /\ s5 \in BOOLEAN
  BY <1>3 DEF Differs
<1>6. /\ r1 \in ChangeRow /\ r1.kind = "version" /\ r1.old = prev.version /\ r1.new = curr.version
      /\ r3 \in ChangeRow /\ r3.kind = "reviews"
      /\ r4 \in ChangeRow /\ r4.kind = "description"
      /\ r5 \in ChangeRow /\ r5.kind = "price" /\ r5.old = prev.price /\ r5.new = curr.price
  BY <1>1, <1>2 DEF Row, ChangeRow
<1>7. r2 \in ChangeRow /\ r2.kind = "rating"
  BY <1>1, <1>2 DEF Row, ChangeRow, RatingRow
<1>8. /\ t1 \in Seq(ChangeRow) /\ t2 \in Seq(ChangeRow) /\ t3 \in Seq(ChangeRow)
      /\ t4 \in Seq(ChangeRow) /\ t5 \in Seq(ChangeRow)
  BY <1>4, <1>6, <1>7 DEF Told
<1>9. PICK u2, u3, u4 : u2 = t1 \o t2 /\ u3 = u2 \o t3 /\ u4 = u3 \o t4
  OBVIOUS
<1>10. u2 \in Seq(ChangeRow) /\ u3 \in Seq(ChangeRow) /\ u4 \in Seq(ChangeRow) /\ u4 \o t5 \in Seq(ChangeRow)
  BY <1>8, <1>9
<1>11. DiffSnapshots(prev, curr) = u4 \o t5
  BY <1>1, <1>2, <1>3, <1>4, <1>9 DEF DiffSnapshots
<1>12. ASSUME NEW field \in Tracked
       PROVE  Linked(u4 \o t5, field, prev[field], curr[field])
  <2>1. PICK x, y : x = prev[field] /\ y = curr[field]
    OBVIOUS
  <2>2. CASE field = "version"
    <3>1. prev.version # 0 /\ curr.version # 0
      BY <2>2 DEF Tracked
    <3>2. ~s1 => x = y
      BY <1>3, <2>1, <2>2, <3>1 DEF Differs
    <3>3. Linked(t1, field, x, y)
      BY <1>4, <1>5, <1>6, <2>1, <2>2, <3>2, ToldIsLinked
    <3>4. /\ Linked(t2, field, y, y) /\ Linked(t3, field, y, y)
          /\ Linked(t4, field, y, y) /\ Linked(t5, field, y, y)
      BY <1>4, <1>5, <1>6, <1>7, <2>2, ToldIsLinked
    <3>5. Linked(u2, field, x, y)
      BY <1>8, <1>9, <3>3, <3>4, LinkedConcat
    <3>6. Linked(u3, field, x, y)
      BY <1>8, <1>9, <1>10, <3>4, <3>5, LinkedConcat
    <3>7. Linked(u4, field, x, y)
      BY <1>8, <1>9, <1>10, <3>4, <3>6, LinkedConcat
    <3>8. Linked(u4 \o t5, field, x, y)
      BY <1>8, <1>10, <3>4, <3>7, LinkedConcat
    <3> QED
      BY <2>1, <3>8
  <2>3. CASE field = "price"
    <3>1. /\ Linked(t1, field, x, x) /\ Linked(t2, field, x, x)
          /\ Linked(t3, field, x, x) /\ Linked(t4, field, x, x)
      BY <1>4, <1>5, <1>6, <1>7, <2>3, ToldIsLinked
    <3>2. ~s5 => x = y
      BY <1>3, <2>1, <2>3
    <3>3. Linked(t5, field, x, y)
      BY <1>4, <1>5, <1>6, <2>1, <2>3, <3>2, ToldIsLinked
    <3>4. Linked(u2, field, x, x)
      BY <1>8, <1>9, <3>1, LinkedConcat
    <3>5. Linked(u3, field, x, x)
      BY <1>8, <1>9, <1>10, <3>1, <3>4, LinkedConcat
    <3>6. Linked(u4, field, x, x)
      BY <1>8, <1>9, <1>10, <3>1, <3>5, LinkedConcat
    <3>7. Linked(u4 \o t5, field, x, y)
      BY <1>8, <1>10, <3>3, <3>6, LinkedConcat
    <3> QED
      BY <2>1, <3>7
  <2> QED
    BY <2>2, <2>3 DEF Tracked
<1> QED
  BY <1>10, <1>11, <1>12

\* A first snapshot is told of, and joins nothing yet.
LEMMA NewIsLinked ==
  ASSUME NEW curr
  PROVE  /\ DiffSnapshots(NoListing, curr) \in Seq(ChangeRow)
         /\ \A field \in Tracked :
               Linked(DiffSnapshots(NoListing, curr), field, curr[field], curr[field])
<1>1. PICK row : row = Row("new", "info", 0, 0)
  OBVIOUS
<1>2. row \in ChangeRow /\ row.kind = "new"
  BY <1>1 DEF Row, ChangeRow
<1>3. PICK told : told = DiffSnapshots(NoListing, curr)
  OBVIOUS
<1>4. told = <<row>>
  BY <1>1, <1>3 DEF DiffSnapshots
<1>5. told \in Seq(ChangeRow) /\ DOMAIN told = {1} /\ told[1] = row
  BY <1>2, <1>4
<1>6. \A field \in Tracked : Linked(told, field, curr[field], curr[field])
  BY <1>2, <1>5 DEF Linked, Tracked
<1> QED
  BY <1>3, <1>5, <1>6

Snapshot == Listing \cup {NoListing}
Check == [pc : {"idle", "fetch"} \cup Comp, todo : SUBSET Comp, got : Snapshot]

WatchTypes ==
    /\ market \in [Comp -> Listing]
    /\ first \in [Comp -> Snapshot] /\ latest \in [Comp -> Snapshot]
    /\ rows \in [Comp -> Seq(ChangeRow)]
    /\ known \in [Comp -> SUBSET Post] /\ reported \in [Comp -> SUBSET Post]
    /\ torn \subseteq Comp
    /\ alerts \in Check /\ digest \in Check

\* What the tables hold of an app, however often its writes have failed.
AppSound(c) ==
    /\ latest[c] = NoListing => rows[c] = <<>>
    /\ latest[c] = NoListing <=> first[c] = NoListing

\* What they hold as long as none has.
AppLinked(c) ==
    latest[c] # NoListing =>
        \A field \in Tracked : Linked(rows[c], field, first[c][field], latest[c][field])

WatchInv ==
    /\ WatchTypes
    /\ alerts.pc \in Comp => alerts.got \in Listing
    /\ \A c \in Comp : AppSound(c)
    /\ \A c \in Comp \ torn : known[c] \subseteq reported[c] /\ AppLinked(c)

\* The tables after a check has saved a listing and the first n of its changes.
LEMMA SaveSound ==
  ASSUME WatchInv, NEW c \in Comp, NEW curr \in Listing,
         NEW n \in 0 .. Len(DiffSnapshots(latest[c], curr)),
         Save(c, curr, DiffSnapshots(latest[c], curr), n)
  PROVE  /\ first' \in [Comp -> Snapshot] /\ latest' \in [Comp -> Snapshot]
         /\ rows' \in [Comp -> Seq(ChangeRow)]
         /\ \A b \in Comp : AppSound(b)'
         /\ \A b \in Comp \ {c} : AppLinked(b) => AppLinked(b)'
         /\ n = Len(DiffSnapshots(latest[c], curr)) /\ AppLinked(c) => AppLinked(c)'
<1>1. PICK prev, told, part, x : /\ prev = latest[c] /\ told = DiffSnapshots(prev, curr)
                                 /\ part = SubSeq(told, 1, n) /\ x = first[c]
  OBVIOUS
<1>2. told \in Seq(ChangeRow)
  <2>1. CASE prev = NoListing
    BY <1>1, <2>1, NewIsLinked
  <2>2. CASE prev # NoListing
    <3>1. prev \in Listing
      BY <1>1, <2>2 DEF WatchInv, WatchTypes, Snapshot
    <3> QED
      BY <1>1, <3>1, DiffIsLinked
  <2> QED
    BY <2>1, <2>2
<1>3. n \in 0 .. Len(told) /\ part \in Seq(ChangeRow) /\ (n = Len(told) => part = told)
  <2>1. n \in 0 .. Len(told) /\ Len(told) \in Nat
    BY <1>1, <1>2
  <2>2. \A i \in 1 .. n : told[i] \in ChangeRow
    BY <1>2, <2>1
  <2>3. part \in Seq(ChangeRow)
    BY <1>1, <1>2, <2>1, <2>2
  <2>4. n = Len(told) => part = told
    BY <1>1, <1>2, SubSeqFull
  <2> QED
    BY <2>1, <2>3, <2>4
<1>4. /\ first' = [first EXCEPT ![c] = IF x = NoListing THEN curr ELSE x]
      /\ latest' = [latest EXCEPT ![c] = curr]
      /\ rows' = [rows EXCEPT ![c] = rows[c] \o part]
  BY <1>1 DEF Save
<1>5. /\ first \in [Comp -> Snapshot] /\ latest \in [Comp -> Snapshot]
      /\ rows \in [Comp -> Seq(ChangeRow)] /\ curr \in Snapshot /\ curr # NoListing
  BY CompetitorAssumption DEF WatchInv, WatchTypes, Snapshot
<1>6. PICK r : r = rows[c] \o part /\ r \in Seq(ChangeRow)
  <2>1. rows[c] \in Seq(ChangeRow)
    BY <1>5
  <2>2. rows[c] \o part \in Seq(ChangeRow)
    BY <1>3, <2>1
  <2> QED
    BY <2>2
<1>7. /\ rows' \in [Comp -> Seq(ChangeRow)] /\ rows'[c] = r /\ latest'[c] = curr
      /\ latest' \in [Comp -> Snapshot]
      /\ \A b \in Comp \ {c} : rows'[b] = rows[b] /\ latest'[b] = latest[b]
  BY <1>4, <1>5, <1>6
<1>8. /\ first' \in [Comp -> Snapshot]
      /\ first'[c] = IF x = NoListing THEN curr ELSE x
      /\ \A b \in Comp \ {c} : first'[b] = first[b]
  BY <1>1, <1>4, <1>5
<1>9. ASSUME NEW b \in Comp
      PROVE  AppSound(b)'
  <2>1. AppSound(b)
    BY DEF WatchInv
  <2>2. CASE b = c
    BY <1>5, <1>7, <1>8, <2>2 DEF AppSound
  <2>3. CASE b # c
    BY <1>7, <1>8, <2>1, <2>3 DEF AppSound
  <2> QED
    BY <2>2, <2>3
<1>10. \A b \in Comp \ {c} : AppLinked(b) => AppLinked(b)'
  BY <1>7, <1>8 DEF AppLinked
<1>11. ASSUME n = Len(told), AppLinked(c)
       PROVE  AppLinked(c)'
  <2>1. part = told
    BY <1>3, <1>11
  <2>2. PICK s : s = rows[c] /\ s \in Seq(ChangeRow) /\ r = s \o told
    BY <1>5, <1>6, <2>1
  <2>3. SUFFICES ASSUME NEW field \in Tracked
                 PROVE  Linked(rows'[c], field, first'[c][field], latest'[c][field])
    BY DEF AppLinked
  <2>4. CASE prev = NoListing
    <3>1. s = <<>> /\ x = NoListing
      BY <1>1, <2>2, <2>4 DEF WatchInv, AppSound
    <3>2. r = told
      BY <1>2, <2>2, <3>1
    <3>3. first'[c] = curr
      BY <1>8, <3>1
    <3>4. Linked(told, field, curr[field], curr[field])
      BY <1>1, <2>4, NewIsLinked
    <3> QED
      BY <1>7, <3>2, <3>3, <3>4
  <2>5. CASE prev # NoListing
    <3>1. prev \in Listing /\ x # NoListing /\ first'[c] = x
      BY <1>1, <1>5, <1>8, <2>5 DEF WatchInv, AppSound, Snapshot
    <3>2. PICK from, mid, to : from = x[field] /\ mid = prev[field] /\ to = curr[field]
      OBVIOUS
    <3>3. Linked(s, field, from, mid)
      BY <1>1, <1>11, <2>2, <2>5, <3>2 DEF AppLinked
    <3>4. Linked(told, field, mid, to)
      BY <1>1, <3>1, <3>2, DiffIsLinked
    <3>5. Linked(r, field, from, to)
      BY <1>2, <2>2, <3>3, <3>4, LinkedConcat
    <3> QED
      BY <1>7, <3>1, <3>2, <3>5
  <2> QED
    BY <2>4, <2>5
<1> QED
  BY <1>1, <1>7, <1>8, <1>9, <1>10, <1>11

\* Nothing is saved of any app.
LEMMA StoreStays ==
  ASSUME WatchInv, UNCHANGED <<first, latest, rows>>
  PROVE  /\ \A b \in Comp : AppSound(b)'
         /\ \A b \in Comp : AppLinked(b) => AppLinked(b)'
BY DEF WatchInv, AppSound, AppLinked

\* What the web is remembered to have told was reported, unless the write failed.
LEMMA WebSound ==
  ASSUME WatchInv, NEW c \in Comp, CheckWeb(c)
  PROVE  /\ known' \in [Comp -> SUBSET Post] /\ reported' \in [Comp -> SUBSET Post]
         /\ torn \subseteq torn' /\ torn' \subseteq Comp
         /\ \A b \in Comp \ torn' : known'[b] \subseteq reported'[b]
<1>1. /\ known \in [Comp -> SUBSET Post] /\ reported \in [Comp -> SUBSET Post]
      /\ torn \subseteq Comp
      /\ \A b \in Comp \ torn : known[b] \subseteq reported[b]
  BY DEF WatchInv, WatchTypes
<1>2. PICK found \in SUBSET Post :
         /\ \E keep \in Cuts(known[c] \cup found) : known' = [known EXCEPT ![c] = keep]
         /\ \/ /\ reported' = [reported EXCEPT ![c] = reported[c] \cup Fresh(c, found)]
               /\ Whole
            \/ Fresh(c, found) # {} /\ Fault(c) /\ UNCHANGED reported
  BY DEF CheckWeb, Found
<1>3. PICK keep \in SUBSET (known[c] \cup found) : known' = [known EXCEPT ![c] = keep]
  BY <1>2 DEF Cuts
<1>4. /\ known' \in [Comp -> SUBSET Post] /\ known'[c] = keep
      /\ \A b \in Comp \ {c} : known'[b] = known[b]
  BY <1>1, <1>2, <1>3
<1>5. CASE /\ reported' = [reported EXCEPT ![c] = reported[c] \cup Fresh(c, found)]
           /\ Whole
  <2>1. /\ reported' \in [Comp -> SUBSET Post] /\ reported'[c] = reported[c] \cup (found \ known[c])
        /\ \A b \in Comp \ {c} : reported'[b] = reported[b]
    BY <1>1, <1>2, <1>5 DEF Fresh
  <2>2. torn' = torn
    BY <1>5 DEF Whole
  <2>3. c \notin torn => known'[c] \subseteq reported'[c]
    BY <1>1, <1>3, <1>4, <2>1
  <2> QED
    BY <1>1, <1>4, <2>1, <2>2, <2>3
<1>6. CASE Fault(c) /\ UNCHANGED reported
  <2>1. torn' = torn \cup {c} /\ reported' = reported
    BY <1>6 DEF Fault
  <2> QED
    BY <1>1, <1>4, <2>1
<1> QED
  BY <1>2, <1>5, <1>6

\* The app of a check is one it is to look at.
LEMMA ChecksOn ==
  ASSUME NEW check \in Check, NEW c \in Comp, NEW got \in Snapshot
  PROVE  /\ [check EXCEPT !.pc = "fetch", !.todo = @ \ {c}, !.got = NoListing] \in Check
         /\ [check EXCEPT !.pc = "fetch", !.todo = @ \ {c}, !.got = NoListing].pc = "fetch"
         /\ [check EXCEPT !.pc = c, !.got = got] \in Check
BY DEF Check, Snapshot

LEMMA NoCheckIsCheck == NoCheck \in Check /\ NoCheck.pc = "idle"
BY DEF NoCheck, Check, Snapshot

LEMMA WatchInitial == CompetitorInit => WatchInv
<1> SUFFICES ASSUME CompetitorInit
             PROVE  WatchInv
  OBVIOUS
<1>1. /\ market \in [Comp -> Listing] /\ torn = {}
      /\ first = [c \in Comp |-> NoListing] /\ latest = first
      /\ rows = [c \in Comp |-> <<>>]
      /\ known = [c \in Comp |-> {}] /\ reported = known
      /\ alerts = NoCheck /\ digest = NoCheck
  BY DEF CompetitorInit
<1>2. alerts \in Check /\ alerts.pc = "idle" /\ digest \in Check
  BY <1>1, NoCheckIsCheck
<1>3. rows \in [Comp -> Seq(ChangeRow)]
  BY <1>1
<1>4. WatchTypes
  BY <1>1, <1>2, <1>3 DEF WatchTypes, Snapshot
<1>5. alerts.pc \notin Comp
  BY <1>2, CompetitorAssumption
<1>6. \A c \in Comp : AppSound(c) /\ AppLinked(c) /\ known[c] \subseteq reported[c]
  BY <1>1 DEF AppSound, AppLinked
<1> QED
  BY <1>4, <1>5, <1>6 DEF WatchInv

\* The alerts save a listing: of an app with a baseline, all changes or, when a
\* write fails, the first of them.
LEMMA AlertsSaveSound ==
  ASSUME WatchInv, NEW c \in Comp, AlertsSave(c)
  PROVE  WatchInv'
<1>1. PICK moved : moved = DiffSnapshots(latest[c], alerts.got)
  OBVIOUS
<1>2. /\ alerts.pc = c
      /\ alerts' = [alerts EXCEPT !.pc = "fetch", !.todo = @ \ {c}, !.got = NoListing]
      /\ \/ latest[c] = NoListing /\ Whole /\ UNCHANGED store
         \/ Save(c, alerts.got, moved, Len(moved)) /\ Whole
         \/ Fault(c) /\ UNCHANGED store
         \/ Fault(c) /\ \E n \in 0 .. Len(moved) - 1 : Save(c, alerts.got, moved, n)
      /\ UNCHANGED <<market, known, reported, digest>>
  BY <1>1 DEF AlertsSave, world, web
<1>3. alerts.got \in Listing /\ alerts \in Check
  BY <1>2 DEF WatchInv, WatchTypes
<1>4. alerts' \in Check /\ alerts'.pc \notin Comp
  <2>1. NoListing \in Snapshot
    BY DEF Snapshot
  <2> QED
    BY <1>2, <1>3, <2>1, ChecksOn, CompetitorAssumption
<1>5. /\ market \in [Comp -> Listing] /\ torn \subseteq Comp
      /\ first \in [Comp -> Snapshot] /\ latest \in [Comp -> Snapshot]
      /\ rows \in [Comp -> Seq(ChangeRow)] /\ digest \in Check
      /\ known \in [Comp -> SUBSET Post] /\ reported \in [Comp -> SUBSET Post]
  BY DEF WatchInv, WatchTypes
<1>6. Len(moved) \in Nat
  <2>1. latest[c] = NoListing \/ latest[c] \in Listing
    BY <1>5 DEF Snapshot
  <2> QED
    BY <1>1, <1>3, <2>1, DiffIsLinked, NewIsLinked
<1>7. CASE UNCHANGED store /\ (Whole \/ Fault(c))
  <2>1. UNCHANGED <<first, latest, rows>> /\ torn \subseteq torn' /\ torn' \subseteq Comp
    BY <1>5, <1>7 DEF store, Whole, Fault
  <2>2. /\ \A b \in Comp : AppSound(b)'
        /\ \A b \in Comp : AppLinked(b) => AppLinked(b)'
    BY <2>1, StoreStays
  <2> QED
    BY <1>2, <1>4, <1>5, <2>1, <2>2 DEF WatchInv, WatchTypes
<1>8. CASE Save(c, alerts.got, moved, Len(moved)) /\ Whole
  <2>1. torn' = torn
    BY <1>8 DEF Whole
  <2>2. /\ first' \in [Comp -> Snapshot] /\ latest' \in [Comp -> Snapshot]
        /\ rows' \in [Comp -> Seq(ChangeRow)]
        /\ \A b \in Comp : AppSound(b)'
        /\ \A b \in Comp : AppLinked(b) => AppLinked(b)'
    BY <1>1, <1>3, <1>6, <1>8, SaveSound
  <2> QED
    BY <1>2, <1>4, <1>5, <2>1, <2>2 DEF WatchInv, WatchTypes
<1>9. CASE Fault(c) /\ \E n \in 0 .. Len(moved) - 1 : Save(c, alerts.got, moved, n)
  <2>1. PICK n \in 0 .. Len(moved) - 1 : Save(c, alerts.got, moved, n)
    BY <1>9
  <2>2. torn' = torn \cup {c}
    BY <1>9 DEF Fault
  <2>3. n \in 0 .. Len(moved)
    BY <1>6, <2>1
  <2>4. /\ first' \in [Comp -> Snapshot] /\ latest' \in [Comp -> Snapshot]
        /\ rows' \in [Comp -> Seq(ChangeRow)]
        /\ \A b \in Comp : AppSound(b)'
        /\ \A b \in Comp \ {c} : AppLinked(b) => AppLinked(b)'
    BY <1>1, <1>3, <2>1, <2>3, SaveSound
  <2> QED
    BY <1>2, <1>4, <1>5, <2>2, <2>4 DEF WatchInv, WatchTypes
<1> QED
  BY <1>2, <1>7, <1>8, <1>9

\* So does the digest, without a baseline too, and then turns to the web, unless
\* the listing failed.
LEMMA DigestSaveSound ==
  ASSUME WatchInv, NEW c \in Comp, DigestSave(c)
  PROVE  WatchInv'
<1>1. PICK got, moved : /\ got = digest.got
                          /\ moved = IF got = NoListing THEN <<>>
                                       ELSE DiffSnapshots(latest[c], got)
  OBVIOUS
<1>2. /\ \/ /\ IF got = NoListing THEN UNCHANGED store
               ELSE Save(c, got, moved, Len(moved))
            /\ CheckWeb(c)
         \/ /\ got # NoListing /\ Fault(c)
            /\ \/ UNCHANGED store
               \/ \E n \in 0 .. Len(moved) - 1 : Save(c, got, moved, n)
            /\ UNCHANGED web
      /\ digest' = [digest EXCEPT !.pc = "fetch", !.todo = @ \ {c}, !.got = NoListing]
      /\ UNCHANGED <<market, alerts>>
  BY <1>1 DEF DigestSave, world
<1>3. /\ market \in [Comp -> Listing] /\ torn \subseteq Comp
      /\ first \in [Comp -> Snapshot] /\ latest \in [Comp -> Snapshot]
      /\ rows \in [Comp -> Seq(ChangeRow)] /\ digest \in Check /\ alerts \in Check
      /\ known \in [Comp -> SUBSET Post] /\ reported \in [Comp -> SUBSET Post]
      /\ alerts.pc \in Comp => alerts.got \in Listing
      /\ \A b \in Comp : AppSound(b)
      /\ \A b \in Comp \ torn : known[b] \subseteq reported[b] /\ AppLinked(b)
  BY DEF WatchInv, WatchTypes
<1>4. digest' \in Check
  <2>1. NoListing \in Snapshot
    BY DEF Snapshot
  <2> QED
    BY <1>2, <1>3, <2>1, ChecksOn
<1>5. got = NoListing \/ got \in Listing
  BY <1>1, <1>3 DEF Check, Snapshot
<1>6. ASSUME got \in Listing
      PROVE  moved = DiffSnapshots(latest[c], got) /\ Len(moved) \in Nat
  <2>1. got # NoListing /\ (latest[c] = NoListing \/ latest[c] \in Listing)
    BY <1>3, <1>6, CompetitorAssumption DEF Snapshot
  <2>2. moved = DiffSnapshots(latest[c], got)
    BY <1>1, <2>1
  <2>3. moved \in Seq(ChangeRow)
    BY <1>6, <2>1, <2>2, DiffIsLinked, NewIsLinked
  <2> QED
    BY <2>2, <2>3
<1>7. ASSUME UNCHANGED store
      PROVE  /\ first' \in [Comp -> Snapshot] /\ latest' \in [Comp -> Snapshot]
             /\ rows' \in [Comp -> Seq(ChangeRow)]
             /\ \A b \in Comp : AppSound(b)'
             /\ \A b \in Comp : AppLinked(b) => AppLinked(b)'
  <2>1. UNCHANGED <<first, latest, rows>>
    BY <1>7 DEF store
  <2> QED
    BY <1>3, <2>1, StoreStays
<1>8. ASSUME got \in Listing, Save(c, got, moved, Len(moved))
      PROVE  /\ first' \in [Comp -> Snapshot] /\ latest' \in [Comp -> Snapshot]
             /\ rows' \in [Comp -> Seq(ChangeRow)]
             /\ \A b \in Comp : AppSound(b)'
             /\ \A b \in Comp : AppLinked(b) => AppLinked(b)'
  BY <1>6, <1>8, SaveSound
<1>9. CASE /\ IF got = NoListing THEN UNCHANGED store
              ELSE Save(c, got, moved, Len(moved))
           /\ CheckWeb(c)
  <2>1. /\ first' \in [Comp -> Snapshot] /\ latest' \in [Comp -> Snapshot]
        /\ rows' \in [Comp -> Seq(ChangeRow)]
        /\ \A b \in Comp : AppSound(b)'
        /\ \A b \in Comp : AppLinked(b) => AppLinked(b)'
    BY <1>5, <1>7, <1>8, <1>9, CompetitorAssumption
  <2>2. /\ known' \in [Comp -> SUBSET Post] /\ reported' \in [Comp -> SUBSET Post]
        /\ torn \subseteq torn' /\ torn' \subseteq Comp
        /\ \A b \in Comp \ torn' : known'[b] \subseteq reported'[b]
    BY <1>9, WebSound
  <2> QED
    BY <1>2, <1>3, <1>4, <2>1, <2>2 DEF WatchInv, WatchTypes
<1>10. CASE got # NoListing /\ Fault(c) /\ UNCHANGED store /\ UNCHANGED web
  <2>1. torn' = torn \cup {c} /\ UNCHANGED <<known, reported>>
    BY <1>10 DEF Fault, web
  <2> QED
    BY <1>2, <1>3, <1>4, <1>7, <1>10, <2>1 DEF WatchInv, WatchTypes
<1>11. CASE /\ got # NoListing /\ Fault(c) /\ UNCHANGED web
            /\ \E n \in 0 .. Len(moved) - 1 : Save(c, got, moved, n)
  <2>1. PICK n \in 0 .. Len(moved) - 1 : Save(c, got, moved, n)
    BY <1>11
  <2>2. torn' = torn \cup {c} /\ UNCHANGED <<known, reported>>
    BY <1>11 DEF Fault, web
  <2>3. n \in 0 .. Len(moved) /\ got \in Listing
    BY <1>5, <1>6, <1>11, <2>1
  <2>4. /\ first' \in [Comp -> Snapshot] /\ latest' \in [Comp -> Snapshot]
        /\ rows' \in [Comp -> Seq(ChangeRow)]
        /\ \A b \in Comp : AppSound(b)'
        /\ \A b \in Comp \ {c} : AppLinked(b) => AppLinked(b)'
    BY <1>6, <2>1, <2>3, SaveSound
  <2> QED
    BY <1>2, <1>3, <1>4, <2>2, <2>4 DEF WatchInv, WatchTypes
<1> QED
  BY <1>2, <1>9, <1>10, <1>11

LEMMA WatchInductive == WatchInv /\ [CompetitorNext]_competitorVars => WatchInv'
<1> SUFFICES ASSUME WatchInv, [CompetitorNext]_competitorVars
             PROVE  WatchInv'
  OBVIOUS
<1>1. /\ market \in [Comp -> Listing] /\ torn \subseteq Comp
      /\ first \in [Comp -> Snapshot] /\ latest \in [Comp -> Snapshot]
      /\ rows \in [Comp -> Seq(ChangeRow)] /\ digest \in Check /\ alerts \in Check
      /\ known \in [Comp -> SUBSET Post] /\ reported \in [Comp -> SUBSET Post]
  BY DEF WatchInv, WatchTypes
\* Most steps touch no table.
<1>2. ASSUME UNCHANGED <<first, latest, rows, known, reported, torn>>,
             market' \in [Comp -> Listing], alerts' \in Check, digest' \in Check,
             alerts'.pc \in Comp => alerts'.got \in Listing
      PROVE  WatchInv'
  <2>1. /\ \A b \in Comp : AppSound(b)'
        /\ \A b \in Comp : AppLinked(b) => AppLinked(b)'
    BY <1>2, StoreStays
  <2> QED
    BY <1>1, <1>2, <2>1 DEF WatchInv, WatchTypes
<1>3. alerts.pc \in Comp => alerts.got \in Listing
  BY DEF WatchInv
<1>4. ASSUME BeginAlerts
      PROVE  WatchInv'
  <2>1. /\ UNCHANGED <<first, latest, rows, known, reported, torn, market, digest>>
        /\ alerts' = [NoCheck EXCEPT !.pc = "fetch", !.todo = Tier1]
    BY <1>4 DEF BeginAlerts, store, web, world
  <2>2. alerts' \in Check /\ alerts'.pc = "fetch"
    BY <2>1, CompetitorAssumption DEF NoCheck, Check, Snapshot
  <2> QED
    BY <1>1, <1>2, <2>1, <2>2, CompetitorAssumption
<1>5. ASSUME SendAlerts
      PROVE  WatchInv'
  <2>1. /\ UNCHANGED <<first, latest, rows, known, reported, torn, market, digest>>
        /\ alerts' = NoCheck
    BY <1>5 DEF SendAlerts, store, web, world
  <2> QED
    BY <1>1, <1>2, <2>1, NoCheckIsCheck, CompetitorAssumption
<1>6. ASSUME BeginDigest
      PROVE  WatchInv'
  <2>1. /\ UNCHANGED <<first, latest, rows, known, reported, torn, market, alerts>>
        /\ digest' = [NoCheck EXCEPT !.pc = "fetch", !.todo = Comp]
    BY <1>6 DEF BeginDigest, store, web, world
  <2>2. digest' \in Check
    BY <2>1 DEF NoCheck, Check, Snapshot
  <2> QED
    BY <1>1, <1>2, <1>3, <2>1, <2>2
<1>7. ASSUME EndDigest
      PROVE  WatchInv'
  <2>1. /\ UNCHANGED <<first, latest, rows, known, reported, torn, market, alerts>>
        /\ digest' = NoCheck
    BY <1>7 DEF EndDigest, store, web, world
  <2> QED
    BY <1>1, <1>2, <1>3, <2>1, NoCheckIsCheck
<1>8. ASSUME NEW c \in Comp, AlertsFetch(c)
      PROVE  WatchInv'
  <2>1. UNCHANGED <<first, latest, rows, known, reported, torn, market, digest>>
    BY <1>8 DEF AlertsFetch, store, web, world
  <2>2. PICK got \in {market[c], NoListing} :
          alerts' = [alerts EXCEPT !.pc = IF got = NoListing THEN "fetch" ELSE c,
                                   !.got = got,
                                   !.todo = IF got = NoListing THEN @ \ {c} ELSE @]
    BY <1>8 DEF AlertsFetch
  <2>3. got \in Snapshot /\ (got # NoListing => got \in Listing)
    BY <1>1, <2>2 DEF Snapshot
  <2>4. alerts' \in Check /\ (alerts'.pc \in Comp => alerts'.got \in Listing)
    <3>1. CASE got = NoListing
      <4>1. alerts' = [alerts EXCEPT !.pc = "fetch", !.got = got, !.todo = alerts.todo \ {c}]
        BY <2>2, <3>1
      <4>2. alerts' \in Check /\ alerts'.pc = "fetch"
        BY <1>1, <2>3, <4>1 DEF Check
      <4> QED
        BY <4>2, CompetitorAssumption
    <3>2. CASE got # NoListing
      <4>1. alerts' = [alerts EXCEPT !.pc = c, !.got = got, !.todo = alerts.todo]
        BY <2>2, <3>2
      <4> QED
        BY <1>1, <2>3, <3>2, <4>1 DEF Check
    <3> QED
      BY <3>1, <3>2
  <2> QED
    BY <1>1, <1>2, <2>1, <2>4
<1>9. ASSUME NEW c \in Comp, AlertsSave(c)
      PROVE  WatchInv'
  BY <1>9, AlertsSaveSound
<1>10. ASSUME NEW c \in Comp, DigestFetch(c)
       PROVE  WatchInv'
  <2>1. UNCHANGED <<first, latest, rows, known, reported, torn, market, alerts>>
    BY <1>10 DEF DigestFetch, store, web, world
  <2>2. PICK got \in {market[c], NoListing} :
           digest' = [digest EXCEPT !.pc = c, !.got = got]
    BY <1>10 DEF DigestFetch
  <2>3. got \in Snapshot
    BY <1>1, <2>2 DEF Snapshot
  <2>4. digest' \in Check
    BY <1>1, <2>2, <2>3, ChecksOn
  <2> QED
    BY <1>1, <1>2, <1>3, <2>1, <2>4
<1>11. ASSUME NEW c \in Comp, DigestSave(c)
       PROVE  WatchInv'
  BY <1>11, DigestSaveSound
<1>12. ASSUME NEW c \in Comp, MarketMoves(c)
       PROVE  WatchInv'
  <2>1. UNCHANGED <<first, latest, rows, known, reported, torn, alerts, digest>>
    BY <1>12 DEF MarketMoves, store, web
  <2>2. market' \in [Comp -> Listing]
    BY <1>1, <1>12 DEF MarketMoves
  <2> QED
    BY <1>1, <1>2, <1>3, <2>1, <2>2
<1>13. ASSUME NewDay
       PROVE  WatchInv'
  BY <1>1, <1>2, <1>3, <1>13 DEF NewDay, web, world
<1>14. ASSUME WatchCrash
       PROVE  WatchInv'
  <2>1. /\ UNCHANGED <<first, latest, rows, known, reported, torn, market>>
        /\ alerts' = NoCheck /\ digest' = NoCheck
    BY <1>14 DEF WatchCrash, store, web, world
  <2> QED
    BY <1>1, <1>2, <2>1, NoCheckIsCheck, CompetitorAssumption
<1>15. ASSUME UNCHANGED competitorVars
       PROVE  WatchInv'
  BY <1>1, <1>2, <1>3, <1>15 DEF competitorVars, store, web, world
<1> QED
  BY <1>4, <1>5, <1>6, <1>7, <1>8, <1>9, <1>10, <1>11, <1>12, <1>13, <1>14, <1>15
     DEF CompetitorNext

\* As long as no write has failed between a snapshot and its changes, the versions
\* and prices recorded of an app are a history without holes, whichever check saw
\* a change, and every post that is remembered was reported.
THEOREM EveryMoveIsTold == CompetitorSpec => []EveryMoveIsRecorded
<1>1. WatchInv => EveryMoveIsRecorded
  BY DEF WatchInv, EveryMoveIsRecorded, AppLinked
<1> QED
  BY <1>1, WatchInitial, WatchInductive, PTL DEF CompetitorSpec

-----------------------------------------------------------------------------
(* The research graphs: their loops are bounded by the rounds they count.    *)

\* The steps that deep research has left at a place, with rounds still to search.
DeepLeft(place, rounds) ==
    CASE place = "plan"       -> 2 + 4 * rounds
      [] place = "search"     -> 1 + 4 * rounds
      [] place = "judge"      -> 4 + 4 * rounds
      [] place = "decide"     -> 3 + 4 * rounds
      [] place = "synthesize" -> 2
      [] place = "correct"    -> 1
      [] OTHER                -> 0

TopicsLeft(place, rounds) ==
    CASE place = "discover" -> 1 + 4 * rounds
      [] place = "expand"   -> 4 * rounds
      [] place = "score"    -> 4 * rounds - 1
      [] place = "check"    -> 4 * rounds - 2
      [] place = "format"   -> 1
      [] OTHER              -> 0

ResearchLeft ==
    DeepLeft(deep.pc, MaxIterations - deep.iteration) +
    TopicsLeft(topic.pc, MaxIterations - topic.round)

\* A run of either takes four steps a round and at most two more: every step of a
\* model, a search or a judge leaves it fewer, however they answer or fail.
RoundsAreBounded ==
    [][/\ ResearchLeft \in 0 .. 2 + 4 * MaxIterations
       /\ ResearchStep => ResearchLeft' < ResearchLeft]_researchVars

DeepPlaces == {"idle", "plan", "search", "judge", "decide", "synthesize", "correct"}
TopicPlaces == {"idle", "discover", "expand", "score", "check", "format"}

\* A round is begun only while one is left, and one of the two is at work.
RoundsInv ==
    /\ deep = [pc |-> deep.pc, sources |-> deep.sources, score |-> deep.score,
               iteration |-> deep.iteration, corrections |-> deep.corrections,
               report |-> deep.report]
    /\ topic = [pc |-> topic.pc, round |-> topic.round, iteration |-> topic.iteration,
                raw |-> topic.raw, good |-> topic.good, report |-> topic.report]
    /\ deep.pc \in DeepPlaces /\ topic.pc \in TopicPlaces
    /\ deep.pc = "idle" \/ topic.pc = "idle"
    /\ deep.iteration \in 0 .. MaxIterations
    /\ deep.pc \in {"plan", "search"} => deep.iteration < MaxIterations
    /\ deep.pc \in {"judge", "decide"} => deep.iteration > 0
    /\ topic.round \in 0 .. MaxIterations - 1

LEMMA RoundsBegin == ResearchInit => RoundsInv
BY RoundsAssumption
   DEF ResearchInit, RoundsInv, NoResearch, NoTopics, DeepPlaces, TopicPlaces

\* A step of deep research leaves it at a later place, or in a later round.
DeepMoves ==
    LET at == deep.pc  next == deep'.pc  n == deep.iteration IN
    /\ topic' = topic
    /\ deep' = [pc |-> deep'.pc, sources |-> deep'.sources, score |-> deep'.score,
                iteration |-> deep'.iteration, corrections |-> deep'.corrections,
                report |-> deep'.report]
    /\ \/ at \in {"plan", "search", "synthesize", "correct"} /\ next = "idle" /\ deep'.iteration = n
       \/ at = "plan" /\ next = "search" /\ deep'.iteration = n
       \/ at = "search" /\ next = "judge" /\ deep'.iteration = n + 1
       \/ at = "judge" /\ next = "decide" /\ deep'.iteration = n
       \/ at = "decide" /\ next = "plan" /\ n < MaxIterations /\ deep'.iteration = n
       \/ at = "decide" /\ next = "synthesize" /\ deep'.iteration = n
       \/ at = "synthesize" /\ next = "correct" /\ deep'.iteration = n

TopicMoves ==
    LET at == topic.pc  next == topic'.pc  n == topic.round IN
    /\ deep' = deep
    /\ topic' = [pc |-> topic'.pc, round |-> topic'.round, iteration |-> topic'.iteration,
                 raw |-> topic'.raw, good |-> topic'.good, report |-> topic'.report]
    /\ \/ at = "discover" /\ next = "expand" /\ topic'.round = n
       \/ at = "expand" /\ next = "score" /\ topic'.round = n
       \/ at = "score" /\ next = "check" /\ topic'.round = n
       \/ at = "check" /\ next = "discover" /\ n + 1 < MaxIterations /\ topic'.round = n + 1
       \/ at = "check" /\ next = "format" /\ topic'.round = n
       \/ at = "format" /\ next = "idle" /\ topic'.round = n

LEMMA ResearchMoves ==
    ASSUME RoundsInv, ResearchStep
    PROVE  DeepMoves \/ TopicMoves
<1>1. PICK at, n : at = deep.pc /\ n = deep.iteration
    OBVIOUS
<1>2. PICK sources, score, corrections, report :
          deep = [pc |-> at, sources |-> sources, score |-> score, iteration |-> n,
                  corrections |-> corrections, report |-> report]
    BY <1>1 DEF RoundsInv
<1>3. PICK place, m, iteration, raw, good, told :
          topic = [pc |-> place, round |-> m, iteration |-> iteration, raw |-> raw,
                   good |-> good, report |-> told]
    BY DEF RoundsInv
<1>4. n \in Nat /\ m \in Nat
    BY <1>2, <1>3, RoundsAssumption DEF RoundsInv
<1>5. CASE PlanQueries
    BY <1>2, <1>5 DEF PlanQueries, Deep, DeepMoves
<1>6. CASE ResearchFails
    BY <1>2, <1>6 DEF ResearchFails, Deep, DeepMoves
<1>7. CASE ExecuteSearches
    <2>1. PICK found : Deep("search", [deep EXCEPT !.pc = "judge", !.sources = @ + found,
                                                   !.iteration = @ + 1])
        BY <1>7 DEF ExecuteSearches
    <2> QED BY <1>2, <2>1 DEF Deep, DeepMoves
<1>8. CASE EvaluateQuality
    <2>1. PICK given : Deep("judge", [deep EXCEPT !.pc = "decide", !.score = given])
        BY <1>8 DEF EvaluateQuality
    <2> QED BY <1>2, <2>1 DEF Deep, DeepMoves
<1>9. CASE DecideSearch
    <2>1. CASE score >= MinQuality \/ n >= MaxIterations
        <3>1. Deep("decide", [deep EXCEPT !.pc = "synthesize"])
            BY <1>2, <1>9, <2>1 DEF DecideSearch
        <3> QED BY <1>2, <3>1 DEF Deep, DeepMoves
    <2>2. CASE ~(score >= MinQuality \/ n >= MaxIterations)
        <3>1. Deep("decide", [deep EXCEPT !.pc = "plan"])
            BY <1>2, <1>9, <2>2 DEF DecideSearch
        <3>2. n < MaxIterations
            BY <1>4, <2>2, RoundsAssumption
        <3> QED BY <1>2, <3>1, <3>2 DEF Deep, DeepMoves
    <2> QED BY <2>1, <2>2
<1>10. CASE SynthesizeReport
    <2>1. PICK written, next : /\ Deep("synthesize", [deep EXCEPT !.report = written, !.pc = next])
                               /\ next \in {"correct", "idle"}
        BY <1>10 DEF SynthesizeReport
    <2> QED BY <1>2, <2>1 DEF Deep, DeepMoves
<1>11. CASE SelfCorrectReport
    <2>1. PICK written, times :
              Deep("correct", [deep EXCEPT !.pc = "idle", !.report = written,
                                           !.corrections = times])
        BY <1>11 DEF SelfCorrectReport
    <2> QED BY <1>2, <2>1 DEF Deep, DeepMoves
<1>12. CASE DiscoverTopics
    <2>1. PICK found, counted : Topic("discover", [topic EXCEPT !.pc = "expand", !.raw = found,
                                                              !.iteration = counted])
        BY <1>12 DEF DiscoverTopics
    <2> QED BY <1>3, <2>1 DEF Topic, TopicMoves
<1>13. CASE ExpandTopics
    <2>1. PICK found : Topic("expand", [topic EXCEPT !.pc = "score", !.raw = @ + found])
        BY <1>13 DEF ExpandTopics
    <2> QED BY <1>3, <2>1 DEF Topic, TopicMoves
<1>14. CASE ScoreTopics
    <2>1. PICK enough : Topic("score", [topic EXCEPT !.pc = "check", !.good = enough])
        BY <1>14 DEF ScoreTopics
    <2> QED BY <1>3, <2>1 DEF Topic, TopicMoves
<1>15. CASE CheckTopics
    <2>1. PICK again \in BOOLEAN :
              /\ again => m + 1 < MaxIterations
              /\ Topic("check", [topic EXCEPT !.pc = IF again THEN "discover" ELSE "format",
                                              !.round = IF again THEN @ + 1 ELSE @])
        BY <1>3, <1>15 DEF CheckTopics
    <2>2. CASE again
        <3>1. Topic("check", [topic EXCEPT !.pc = "discover", !.round = @ + 1])
            BY <2>1, <2>2
        <3> QED BY <1>3, <2>1, <2>2, <3>1 DEF Topic, TopicMoves
    <2>3. CASE ~again
        <3>1. Topic("check", [topic EXCEPT !.pc = "format", !.round = @])
            BY <2>1, <2>3
        <3> QED BY <1>3, <3>1 DEF Topic, TopicMoves
    <2> QED BY <2>2, <2>3
<1>16. CASE FormatTopics
    <2>1. PICK written : Topic("format", [topic EXCEPT !.pc = "idle", !.report = written])
        BY <1>16 DEF FormatTopics
    <2> QED BY <1>3, <2>1 DEF Topic, TopicMoves
<1> QED
    BY <1>5, <1>6, <1>7, <1>8, <1>9, <1>10, <1>11, <1>12, <1>13, <1>14, <1>15, <1>16
    DEF ResearchStep

LEMMA RoundsKept == RoundsInv /\ [ResearchNext]_researchVars => RoundsInv'
<1> SUFFICES ASSUME RoundsInv, [ResearchNext]_researchVars
             PROVE  RoundsInv'
    OBVIOUS
<1>1. CASE BeginResearch
    BY <1>1, RoundsAssumption
       DEF BeginResearch, RoundsInv, NoResearch, Going, DeepPlaces, TopicPlaces
<1>2. CASE BeginTopics
    BY <1>2, RoundsAssumption
       DEF BeginTopics, RoundsInv, NoTopics, Going, DeepPlaces, TopicPlaces
<1>3. CASE ResearchStep
    <2>1. CASE DeepMoves
        BY <2>1, RoundsAssumption DEF RoundsInv, DeepMoves, DeepPlaces
    <2>2. CASE TopicMoves
        BY <2>2, RoundsAssumption DEF RoundsInv, TopicMoves, TopicPlaces
    <2> QED BY <1>3, <2>1, <2>2, ResearchMoves
<1>4. CASE UNCHANGED researchVars
    BY <1>4 DEF researchVars, RoundsInv
<1> QED BY <1>1, <1>2, <1>3, <1>4 DEF ResearchNext

\* Deep and topic research end for want of rounds, if for nothing else
\* (deep_research/nodes.py:404, topic_research/graph.py:52).
THEOREM ResearchIsBounded == ResearchSpec => RoundsAreBounded
<1> DEFINE Shrinks == /\ ResearchLeft \in 0 .. 2 + 4 * MaxIterations
                      /\ ResearchStep => ResearchLeft' < ResearchLeft
<1>1. RoundsInv /\ [ResearchNext]_researchVars => [Shrinks]_researchVars
    <2> SUFFICES ASSUME RoundsInv
                 PROVE  Shrinks
        OBVIOUS
    <2>1. PICK at, n, place, m : /\ at = deep.pc /\ n = MaxIterations - deep.iteration
                                 /\ place = topic.pc /\ m = MaxIterations - topic.round
        OBVIOUS
    <2>2. /\ n \in 0 .. MaxIterations /\ m \in 1 .. MaxIterations
          /\ at \in DeepPlaces /\ place \in TopicPlaces
          /\ at = "idle" \/ place = "idle"
          /\ at \in {"plan", "search"} => n > 0
          /\ at \in {"judge", "decide"} => n < MaxIterations
        BY <2>1, RoundsAssumption DEF RoundsInv
    <2>3. PICK d, p : d = DeepLeft(at, n) /\ p = TopicsLeft(place, m)
        OBVIOUS
    <2>4. /\ d \in 0 .. 2 + 4 * MaxIterations /\ p \in 0 .. 2 + 4 * MaxIterations
          /\ d = 0 \/ p = 0
        BY <2>2, <2>3, RoundsAssumption DEF DeepLeft, TopicsLeft, DeepPlaces, TopicPlaces
    <2>5. ResearchLeft = d + p
        BY <2>1, <2>3 DEF ResearchLeft
    <2>6. CASE DeepMoves
        <3>1. PICK next, k : next = deep'.pc /\ k = MaxIterations - deep'.iteration
            OBVIOUS
        <3>2. PICK e : e = DeepLeft(next, k)
            OBVIOUS
        <3>3. k = n \/ k = n - 1
            BY <2>1, <2>6, <3>1, RoundsAssumption DEF DeepMoves, RoundsInv
        <3>4. e < d
            BY <2>1, <2>2, <2>3, <2>6, <3>1, <3>2, <3>3, RoundsAssumption
               DEF DeepMoves, DeepLeft, RoundsInv
        <3>5. ResearchLeft' = e + p
            BY <2>1, <2>3, <2>6, <3>1, <3>2 DEF DeepMoves, ResearchLeft
        <3>6. e \in Int
            BY <2>2, <3>2, <3>3, RoundsAssumption DEF DeepLeft
        <3> QED BY <2>4, <2>5, <3>4, <3>5, <3>6
    <2>7. CASE TopicMoves
        <3>1. PICK next, k : next = topic'.pc /\ k = MaxIterations - topic'.round
            OBVIOUS
        <3>2. PICK q : q = TopicsLeft(next, k)
            OBVIOUS
        <3>3. k = m \/ k = m - 1
            BY <2>1, <2>7, <3>1, RoundsAssumption DEF TopicMoves, RoundsInv
        <3>4. q < p
            BY <2>1, <2>2, <2>3, <2>7, <3>1, <3>2, <3>3, RoundsAssumption
               DEF TopicMoves, TopicsLeft, RoundsInv
        <3>5. ResearchLeft' = d + q
            BY <2>1, <2>3, <2>7, <3>1, <3>2 DEF TopicMoves, ResearchLeft
        <3>6. q \in Int
            BY <2>2, <3>2, <3>3, RoundsAssumption DEF TopicsLeft
        <3> QED BY <2>4, <2>5, <3>4, <3>5, <3>6
    <2>8. ResearchLeft \in 0 .. 2 + 4 * MaxIterations
        BY <2>4, <2>5, RoundsAssumption
    <2> QED BY <2>6, <2>7, <2>8, ResearchMoves
<1>2. ResearchSpec => []RoundsInv
    BY RoundsBegin, RoundsKept, PTL DEF ResearchSpec
<1>3. ResearchSpec => [][Shrinks]_researchVars
    BY <1>1, <1>2, PTL DEF ResearchSpec
<1> QED BY <1>3 DEF RoundsAreBounded
=============================================================================
