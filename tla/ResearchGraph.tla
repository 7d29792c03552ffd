---------------------------- MODULE ResearchGraph ----------------------------
(***************************************************************************)
(* Two sub-agents that are loops around model calls: deep research         *)
(* (agents/deep_research) searches until a judge is content, writes a      *)
(* report and may correct it once; topic research (agents/topic_research)  *)
(* looks for blog topics in two rounds.  A model call that raises ends the *)
(* run, unless the code catches it.  The state of a run is its own.        *)
(*                                                                         *)
(* Source material is its length in thousands of characters.  What is      *)
(* asked, found and written is left out, and so are the modes, which only  *)
(* change wording.                                                         *)
(***************************************************************************)
EXTENDS Integers

CONSTANTS
    Yield,          \* what a search can bring, 0 included
    JudgeScore,     \* scores the judge gives
    MinQuality,     \* MIN_QUALITY_SCORE
    GoodQuality,    \* SELF_CORRECTION_SCORE
    MaxIterations,
    EnoughTopics,   \* topics of quality that end topic research
    MaxRuns         \* bound: runs

\* Two, in both sub-agents.
ASSUME RoundsAssumption == MaxIterations \in Nat \ {0}

VARIABLES
    tools,  \* whether any search tool was there at start-up
    deep,   \* the run of deep research
    topic,  \* the run of topic research
    runs

researchVars == <<tools, deep, topic, runs>>

NoResearch == [pc |-> "idle", sources |-> 0, score |-> 0, iteration |-> 0,
               corrections |-> 0, report |-> "none"]
NoTopics == [pc |-> "idle", round |-> 0, iteration |-> 0, raw |-> 0, good |-> 0,
             report |-> "none"]

ResearchInit ==
    /\ tools \in BOOLEAN
    /\ deep = NoResearch /\ topic = NoTopics
    /\ runs = 0

Going(run) == run.pc # "idle"

-----------------------------------------------------------------------------
(* Deep research. *)

Deep(from, new) == deep.pc = from /\ deep' = new /\ UNCHANGED <<tools, topic, runs>>

\* classify_mode, or a model call that raises: nothing has begun.
BeginResearch ==
    /\ ~Going(deep) /\ ~Going(topic) /\ runs < MaxRuns
    /\ deep' = [NoResearch EXCEPT !.pc = "plan"]
    /\ runs' = runs + 1
    /\ UNCHANGED <<tools, topic>>

\* plan_queries, plan_more_queries: an answer that is not JSON is replaced.
PlanQueries == Deep("plan", [deep EXCEPT !.pc = "search"])

\* A model call raises, or the planned queries are JSON of another shape.
ResearchFails ==
    \E from \in {"plan", "search", "synthesize"} : Deep(from, [deep EXCEPT !.pc = "idle"])

\* Mutant: a search that fails is not counted.
SearchUncounted ==
    \/ \E found \in Yield :
        /\ tools
        /\ Deep("search", [deep EXCEPT !.pc = "judge", !.sources = @ + found,
                                       !.iteration = @ + 1])
    \/ Deep("search", [deep EXCEPT !.pc = "judge"])

\* execute_searches: nothing is found without tools or when the search agent
\* fails, but the iteration counts.
ExecuteSearches ==
    \E found \in IF tools THEN Yield ELSE {0} :
        Deep("search", [deep EXCEPT !.pc = "judge", !.sources = @ + found,
                                    !.iteration = @ + 1])

\* _score_research_quality: all results have one source, the search agent, so
\* the best of the scores, which needs two, is out of reach.
Heuristic(sources) ==
    CASE sources > 5 -> 60 [] sources \in 3 .. 5 -> 40 [] OTHER -> 20

\* evaluate_quality: the judge, if there is something to judge and it answers.
EvaluateQuality ==
    \E score \in {Heuristic(deep.sources)} \cup
                 (IF deep.sources > 0 THEN JudgeScore ELSE {}) :
        Deep("judge", [deep EXCEPT !.pc = "decide", !.score = score])

\* should_search_more
DecideSearch ==
    Deep("decide", [deep EXCEPT !.pc =
        IF deep.score >= MinQuality \/ deep.iteration >= MaxIterations
        THEN "synthesize" ELSE "plan"])

\* synthesize_report; the report may be empty.  should_self_correct: neither a
\* good one nor the worst.
SynthesizeReport ==
    \E report \in {"draft", "empty"} :
        Deep("synthesize",
             [deep EXCEPT !.report = report,
                          !.pc = IF report = "draft" /\ deep.score \in MinQuality .. GoodQuality - 1
                                 THEN "correct" ELSE "idle"])

\* self_correct_report: a failure keeps the draft.
SelfCorrectReport ==
    \E report \in {"draft", "corrected", "empty"} :
        Deep("correct", [deep EXCEPT !.pc = "idle", !.report = report,
                                     !.corrections = IF report = "draft" THEN @ ELSE @ + 1])

-----------------------------------------------------------------------------
(* Topic research. *)

Topic(from, new) == topic.pc = from /\ topic' = new /\ UNCHANGED <<tools, deep, runs>>

\* The state that run() begins with: nothing fills the seed keywords, from which
\* every search is made.
Seeds == {}

BeginTopics ==
    /\ ~Going(deep) /\ ~Going(topic) /\ runs < MaxRuns
    /\ topic' = [NoTopics EXCEPT !.pc = "discover"]
    /\ runs' = runs + 1
    /\ UNCHANGED <<tools, deep>>

\* discover_topics: without results the iteration does not count.
DiscoverTopics ==
    \E found \in IF tools /\ Seeds # {} THEN Yield ELSE {0} :
        Topic("discover", [topic EXCEPT !.pc = "expand", !.raw = found,
                                        !.iteration = IF found > 0 THEN topic.round + 1
                                                      ELSE topic.round])

\* expand_topics: more topics, from the questions and blogs that searches found.
ExpandTopics ==
    \E found \in IF tools /\ Seeds # {} THEN Yield ELSE {0} :
        Topic("expand", [topic EXCEPT !.pc = "score", !.raw = @ + found])

\* validate_topics keeps every topic, score_topics ranks them: how many reach
\* the threshold is the model's choice.
ScoreTopics ==
    \E good \in 0 .. topic.raw : Topic("score", [topic EXCEPT !.pc = "check", !.good = good])

\* evaluate_quality and the loop in run().
CheckTopics ==
    LET again == /\ topic.good < EnoughTopics /\ topic.iteration < MaxIterations
                 /\ topic.round + 1 < MaxIterations
    IN  Topic("check", [topic EXCEPT !.pc = IF again THEN "discover" ELSE "format",
                                     !.round = IF again THEN @ + 1 ELSE @])

\* format_output: without topics, the advice to try other seed keywords.
FormatTopics ==
    Topic("format", [topic EXCEPT !.pc = "idle",
                                  !.report = IF topic.raw = 0 THEN "no topics" ELSE "topics"])

-----------------------------------------------------------------------------
ResearchStep ==
    \/ PlanQueries \/ ExecuteSearches \/ ResearchFails \/ EvaluateQuality \/ DecideSearch
    \/ SynthesizeReport \/ SelfCorrectReport
    \/ DiscoverTopics \/ ExpandTopics \/ ScoreTopics \/ CheckTopics \/ FormatTopics

ResearchNext == BeginResearch \/ BeginTopics \/ ResearchStep

ResearchSpec == ResearchInit /\ [][ResearchNext]_researchVars

-----------------------------------------------------------------------------
(* Properties. *)

\* However the searches, the judge and the model fail, a delegation to either
\* sub-agent comes back: the rounds are counted on every path.
ResearchEnds == Going(deep) \/ Going(topic) ~> ~Going(deep) /\ ~Going(topic)

=============================================================================
