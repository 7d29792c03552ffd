----------------------------- MODULE FactMemory -----------------------------
(***************************************************************************)
(* The long-term memory of one agent and the nightly job that keeps it.    *)
(* A turn's facts go to four places one after the other: Mem0's vectors,   *)
(* the keyword index (memory/fts.py), the facts shared between agents      *)
(* (swarm_store.py) and, as raw text, the keyword index again.  That is    *)
(* done by an executor thread.  A search, and the job                      *)
(* (cron/sleep_compute.py), run on the event loop and await nothing, so    *)
(* they never interleave with each other; the thread interleaves with both.*)
(*                                                                         *)
(* The dashboard (dashboard/api/memory.py) runs on the same loop and has   *)
(* connections of its own.  Relevance is in twentieths.  Ranking is left   *)
(* out: a search returns any of the facts it can find.                     *)
(***************************************************************************)
EXTENDS Integers, FiniteSets

CONSTANTS
    Fact,        \* what Mem0 extracts
    RawTurn,     \* texts of turns, indexed as they are
    Storer,      \* executor threads
    Entity,      \* entities of the knowledge graph
    Keep,        \* Keep[d]: hundredths left after d days, 2^(-d / half_life)
    OldAfter,    \* days after which a fact is cleaned up (90)
    RecentDays,  \* days in which a fact is recent (7)
    LeastRecent, \* recent facts the job needs (5)
    LastDay,     \* bound: days
    MaxTurns,    \* bound: turns remembered
    MaxEdits     \* bound: changes made in the dashboard

\* The half-life is 14 days: a day leaves more than 95 hundredths.
ASSUME MemoryAssumption ==
    /\ LastDay \in Nat
    /\ \A d \in 0 .. LastDay : Keep[d] \in 0 .. 100
    /\ Keep[0] >= 95

VARIABLES
    day,
    facts,     \* facts[f]: its row of memory_facts, or NoRow
    keywords,  \* the texts in the full-text table
    vectors,   \* what Mem0 has
    shared,    \* shared_user_facts
    entities,  \* entities[e]: absent, or its properties: given or empty
    relations, \* pairs of entities
    storing,   \* storing[t]: a background store_memories
    night,     \* the job: where it is and what it read
    ran,       \* the day the job last began
    curved,    \* history: the day decay_all_facts last returned or raised
    turns, edits

memoryVars == <<day, facts, keywords, vectors, shared, entities, relations, storing, night, ran,
                curved, turns, edits>>
index == <<facts, keywords>>
stores == <<index, vectors, shared>>
graph == <<entities, relations>>

Text == Fact \cup RawTurn
NoRow == [created |-> -1, accessed |-> -1, relevance |-> 0, tier |-> "none"]
Never == -1
Full == 20
Idle == [pc |-> "idle", todo |-> {}, facts |-> {}]
Asleep == [pc |-> "idle", link |-> <<>>, read |-> {}]

MemoryInit ==
    /\ day = 0
    /\ facts = [f \in Text |-> NoRow]
    /\ keywords = {} /\ vectors = {} /\ shared = {}
    /\ entities = [e \in Entity |-> "absent"] /\ relations = {}
    /\ storing = [t \in Storer |-> Idle]
    /\ night = Asleep
    /\ ran = 0 /\ curved = -1
    /\ turns = 0 /\ edits = 0

Known(f) == facts[f] # NoRow

-----------------------------------------------------------------------------
(* Remembering a turn. *)

\* index_fact: a text that has a row keeps it as it is; a new row has no last
\* access.  A fact that cannot be indexed is passed over.
Index(f) ==
    \/ UNCHANGED index
    \/ /\ ~Known(f)
       /\ facts' = [facts EXCEPT ![f] = [created |-> day, accessed |-> Never,
                                         relevance |-> Full, tier |-> "active"]]
       /\ keywords' = keywords \cup {f}

\* add_memories: Mem0 keeps the facts it finds in the turn; none if it fails.
Extract(t) ==
    /\ storing[t].pc = "idle" /\ turns < MaxTurns
    /\ \E found \in SUBSET Fact :
        /\ vectors' = vectors \cup found
        /\ storing' = [storing EXCEPT ![t] = [pc |-> "index", todo |-> found,
                                              facts |-> found]]
    /\ turns' = turns + 1
    /\ UNCHANGED <<day, index, shared, graph, night, ran, curved, edits>>

\* index_facts_batch
IndexFact(t) ==
    /\ storing[t].pc = "index"
    /\ \E f \in storing[t].todo :
        /\ Index(f)
        /\ storing' = [storing EXCEPT ![t].todo = @ \ {f}]
    /\ UNCHANGED <<day, vectors, shared, graph, night, ran, curved, turns, edits>>

BeginSharing(t) ==
    /\ storing[t].pc = "index" /\ storing[t].todo = {}
    /\ storing' = [storing EXCEPT ![t].pc = "share", ![t].todo = storing[t].facts]
    /\ UNCHANGED <<day, stores, graph, night, ran, curved, turns, edits>>

\* add_shared_fact, INSERT OR IGNORE; the first error ends the sharing.
ShareFact(t) ==
    /\ storing[t].pc = "share"
    /\ \E f \in storing[t].todo :
        \/ /\ shared' = shared \cup {f}
           /\ storing' = [storing EXCEPT ![t].todo = @ \ {f}]
        \/ /\ UNCHANGED shared
           /\ storing' = [storing EXCEPT ![t].todo = {}]
    /\ UNCHANGED <<day, index, vectors, graph, night, ran, curved, turns, edits>>

\* The turn itself, or nothing when that fails.
IndexTurn(t) ==
    /\ storing[t].pc = "share" /\ storing[t].todo = {}
    /\ \E f \in RawTurn : Index(f)
    /\ storing' = [storing EXCEPT ![t] = Idle]
    /\ UNCHANGED <<day, vectors, shared, graph, night, ran, curved, turns, edits>>

-----------------------------------------------------------------------------
(* Searching. *)

\* What fts.search can return.
Findable == {f \in keywords : Known(f) /\ facts[f].tier # "archive"}

\* touch_facts: the rows of the results; the tier is left to the next decay.
Touched(found) ==
    [f \in Text |->
        IF f \in found /\ Known(f)
        THEN [facts[f] EXCEPT !.accessed = day,
                              !.relevance = IF @ < Full THEN @ + 1 ELSE Full]
        ELSE facts[f]]

\* merge_hybrid_results, and the selection for diversity after it.
Merged == SUBSET (vectors \cup Findable)

\* search_memories merges both searches and touches what it returns.
Search ==
    /\ \E found \in Merged : facts' = Touched(found)
    /\ UNCHANGED <<day, keywords, vectors, shared, graph, storing, night, ran, curved, turns, edits>>

\* Mutant: an executor thread would search, at any time.
RetrieveInThread == Search

\* retrieve_memories, at the start of a turn and on the loop.  What the graph and
\* the shared facts have to say is only read.
Retrieve == night.pc = "idle" /\ Search

-----------------------------------------------------------------------------
(* The nightly job. *)

Recent == {f \in Text : Known(f) /\ day - facts[f].created < RecentDays}

Consolidate ==
    /\ night.pc = "idle" /\ ran < day
    /\ ran' = day
    /\ night' = IF Cardinality(Recent) < LeastRecent THEN Asleep
                ELSE [Asleep EXCEPT !.pc = "entities"]
    /\ UNCHANGED <<day, stores, graph, storing, curved, turns, edits>>

\* add_entity: a new row, or the properties of the old one replaced.
AddEntity(e, properties) == entities' = [entities EXCEPT ![e] = properties]

ExtractEntity ==
    /\ night.pc = "entities"
    /\ \E e \in Entity : entities[e] # "given" /\ AddEntity(e, "given")
    /\ UNCHANGED <<day, stores, relations, storing, night, ran, curved, turns, edits>>

\* add_relation first upserts both ends, without properties; an entity that
\* the job has just described loses its description.
RelateSource ==
    /\ night.pc = "entities"
    /\ \E link \in (Entity \X Entity) \ relations :
        /\ AddEntity(link[1], "empty")
        /\ night' = [night EXCEPT !.pc = "target", !.link = link]
    /\ UNCHANGED <<day, stores, relations, storing, ran, curved, turns, edits>>

RelateTarget ==
    /\ night.pc = "target"
    /\ AddEntity(night.link[2], "empty")
    /\ night' = [night EXCEPT !.pc = "link"]
    /\ UNCHANGED <<day, stores, relations, storing, ran, curved, turns, edits>>

Relate ==
    /\ night.pc = "link"
    /\ relations' = relations \cup {night.link}
    /\ night' = [night EXCEPT !.pc = "entities", !.link = <<>>]
    /\ UNCHANGED <<day, stores, entities, storing, ran, curved, turns, edits>>

\* The graph is built, or the answer was not JSON; the insights change nothing.
\* A failed model call, or an answer of another shape, ends the job.
EndGraph ==
    /\ night.pc = "entities"
    /\ night' \in {Asleep, [night EXCEPT !.pc = "decay"]}
    /\ UNCHANGED <<day, stores, graph, storing, ran, curved, turns, edits>>

\* The facts that are read for the decay: all above the floor.
Decaying == {f \in Text : Known(f) /\ facts[f].relevance > 0}

\* A row that was never accessed has a NULL there; the default for it is taken
\* with .get, which a sqlite3.Row does not have, and the job ends.
DecayRaises ==
    /\ night.pc = "decay"
    /\ \E f \in Decaying : facts[f].accessed = Never
    /\ night' = Asleep
    /\ curved' = day
    /\ UNCHANGED <<day, stores, graph, storing, ran, turns, edits>>

DecayReads ==
    /\ night.pc = "decay"
    /\ \A f \in Decaying : facts[f].accessed # Never
    /\ night' = [night EXCEPT !.pc = "write",
                              !.read = {<<f, facts[f]>> : f \in Decaying}]
    /\ UNCHANGED <<day, stores, graph, storing, ran, curved, turns, edits>>

Tier(relevance) ==
    IF relevance >= 12 THEN "active" ELSE IF relevance >= 6 THEN "warm"
    ELSE IF relevance >= 2 THEN "cold" ELSE "archive"

\* The curve is applied to what the last night left of the relevance.
Faded(row) == (row.relevance * Keep[day - row.accessed]) \div 100

DecayWrites ==
    /\ night.pc = "write"
    /\ facts' = [f \in Text |->
                    IF \E r \in night.read : r[1] = f
                    THEN LET new == Faded((CHOOSE r \in night.read : r[1] = f)[2])
                         IN  [facts[f] EXCEPT !.relevance = new, !.tier = Tier(new)]
                    ELSE facts[f]]
    /\ night' = [Asleep EXCEPT !.pc = "clean"]
    /\ curved' = day
    /\ UNCHANGED <<day, keywords, vectors, shared, graph, storing, ran, turns, edits>>

\* _cleanup_stale_facts: the age counts, not the use.
CleanUp ==
    /\ night.pc = "clean"
    /\ facts' = [f \in Text |-> IF day - facts[f].created > OldAfter THEN NoRow
                               ELSE facts[f]]
    /\ keywords' = {f \in keywords : day - facts[f].created <= OldAfter}
    /\ night' = Asleep
    /\ UNCHANGED <<day, vectors, shared, graph, storing, ran, curved, turns, edits>>

-----------------------------------------------------------------------------
(* The dashboard, on the loop: it is idle while the job runs. *)

AddByHand ==
    /\ night.pc = "idle" /\ edits < MaxEdits /\ edits' = edits + 1
    /\ \E f \in Fact : ~Known(f) /\ Index(f)
    /\ UNCHANGED <<day, vectors, shared, graph, storing, night, ran, curved, turns>>

\* delete_memory_record: two statements, each committed, or given up in
\* silence, by itself.  Mem0 keeps the fact.
DeleteFact ==
    /\ night.pc = "idle" /\ edits < MaxEdits /\ edits' = edits + 1
    /\ \E f \in Text :
        /\ Known(f)
        /\ keywords' \in {keywords, keywords \ {f}}
        /\ facts' \in {facts, [facts EXCEPT ![f] = NoRow]}
    /\ UNCHANGED <<day, vectors, shared, graph, storing, night, ran, curved, turns>>

DeleteEntity ==
    /\ night.pc = "idle" /\ edits < MaxEdits /\ edits' = edits + 1
    /\ \E e \in Entity :
        /\ relations' \in {relations, {r \in relations : e \notin {r[1], r[2]}}}
        /\ entities' \in {entities, [entities EXCEPT ![e] = "absent"]}
    /\ UNCHANGED <<day, stores, storing, night, ran, curved, turns>>

DeleteOther ==
    /\ night.pc = "idle" /\ edits < MaxEdits /\ edits' = edits + 1
    /\ \/ (\E f \in shared : shared' = shared \ {f}) /\ UNCHANGED relations
       \/ (\E r \in relations : relations' = relations \ {r}) /\ UNCHANGED shared
    /\ UNCHANGED <<day, index, vectors, entities, storing, night, ran, curved, turns>>

\* reset_memory: one store or all, table by table.
ResetMemory ==
    /\ night.pc = "idle" /\ edits < MaxEdits /\ edits' = edits + 1
    /\ keywords' \in {keywords, {}} /\ facts' \in {facts, [f \in Text |-> NoRow]}
    /\ shared' \in {shared, {}}
    /\ relations' \in {relations, {}} /\ entities' \in {entities, [e \in Entity |-> "absent"]}
    /\ UNCHANGED <<day, vectors, storing, night, ran, curved, turns>>

-----------------------------------------------------------------------------
\* A day is long enough for the job and the threads to end.
NextDay ==
    /\ day < LastDay /\ night.pc = "idle" /\ \A t \in Storer : storing[t].pc = "idle"
    /\ day' = day + 1
    /\ UNCHANGED <<stores, graph, storing, night, ran, curved, turns, edits>>

\* The process dies: what a thread or the job had not yet written is lost.
MemoryCrash ==
    /\ night.pc # "idle" \/ \E t \in Storer : storing[t].pc # "idle"
    /\ storing' = [t \in Storer |-> Idle]
    /\ night' = Asleep
    /\ UNCHANGED <<day, stores, graph, ran, curved, turns, edits>>

MemoryNext ==
    \/ \E t \in Storer : \/ Extract(t) \/ IndexFact(t) \/ BeginSharing(t)
                         \/ ShareFact(t) \/ IndexTurn(t)
    \/ Retrieve
    \/ Consolidate \/ ExtractEntity \/ RelateSource \/ RelateTarget \/ Relate \/ EndGraph
    \/ DecayRaises \/ DecayReads \/ DecayWrites \/ CleanUp
    \/ AddByHand \/ DeleteFact \/ DeleteEntity \/ DeleteOther \/ ResetMemory
    \/ NextDay \/ MemoryCrash

MemorySpec == MemoryInit /\ [][MemoryNext]_memoryVars

-----------------------------------------------------------------------------
(* Properties. *)

Rank(tier) == CASE tier = "active" -> 3 [] tier = "warm" -> 2 [] tier = "cold" -> 1
                [] OTHER -> 0

\* Using a fact keeps it: no step of a day lowers the tier of a fact that was
\* found that day, although the decay is computed in one transaction and
\* written in another.
UsedFactsStay ==
    [][\A f \in Text :
        (facts[f].accessed = day /\ facts'[f] # NoRow) =>
            Rank(facts'[f].tier) >= Rank(facts[f].tier)]_memoryVars

\* The last day a fact was learned or found.
LastUsed(row) == IF row.accessed > row.created THEN row.accessed ELSE row.created

\* decay_all_facts says that it applies the forgetting curve to all facts: when
\* it ended today, a fact unused for long enough is no longer active.
UnusedFactsFade ==
    \A f \in Text :
        (Known(f) /\ curved = day /\ Keep[day - LastUsed(facts[f])] < 60) =>
            facts[f].tier # "active"

=============================================================================
