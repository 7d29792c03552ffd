---------------------------- MODULE MCServices ----------------------------
(***************************************************************************)
(* Instances of what an agent does beside its turns: its memory, its skills, *)
(* its research, the watch on competitors, the jobs that report, and the   *)
(* journal of its groups.  They share no state, so each behaviour lets one *)
(* of them run, the one in focus, and the states are those of every        *)
(* component, not of their product.                                        *)
(***************************************************************************)
EXTENDS FactMemory, SkillLibrary, ResearchGraph, CompetitorWatch, CronReports,
        GroupChat, TLC

CONSTANTS a1, a2, c1, e1, f1, r1, s1, t1, u1, u2

VARIABLE focus

\* Two listings: the price is raised with the second version.
MCListing ==
    {[version |-> v, rating |-> 40, count |-> 10, text |-> 1, price |-> v - 1] : v \in 1 .. 2}

\* 2^(-d / 2), in hundredths; what was used today was used some hours ago.
MCKeep == 0 :> 95 @@ 1 :> 70 @@ 2 :> 50 @@ 3 :> 35

Init ==
    /\ focus \in {"memory", "skills", "research", "competitors", "reports", "group"}
    /\ MemoryInit /\ SkillInit /\ ResearchInit /\ CompetitorInit /\ ReportInit
    /\ GroupInit
    \* The listings are alike at first, and a component out of focus has one state.
    /\ \A c \in Comp : market[c].version = 1
    /\ focus # "skills" => \A d \in Directory, s \in Skill : file[d][s] = NoFile
    /\ focus # "research" => ~tools
    /\ focus # "reports" => route = "none"
    /\ focus # "group" => layout = "silent"

Next ==
    /\ UNCHANGED focus
    /\ \/ /\ focus = "memory" /\ MemoryNext
          /\ UNCHANGED <<skillVars, researchVars, competitorVars, reportVars, groupVars>>
       \/ /\ focus = "skills" /\ SkillNext
          /\ UNCHANGED <<memoryVars, researchVars, competitorVars, reportVars, groupVars>>
       \/ /\ focus = "research" /\ ResearchNext
          /\ UNCHANGED <<memoryVars, skillVars, competitorVars, reportVars, groupVars>>
       \/ /\ focus = "competitors" /\ CompetitorNext
          /\ UNCHANGED <<memoryVars, skillVars, researchVars, reportVars, groupVars>>
       \/ /\ focus = "reports" /\ ReportNext
          /\ UNCHANGED <<memoryVars, skillVars, researchVars, competitorVars, groupVars>>
       \/ /\ focus = "group" /\ GroupNext
          /\ UNCHANGED <<memoryVars, skillVars, researchVars, competitorVars, reportVars>>

serviceVars ==
    <<focus, memoryVars, skillVars, researchVars, competitorVars, reportVars, groupVars>>

\* Every model call and search of the research graphs returns or raises; the
\* event loop runs what is ready, and every blocking call of the jobs returns or
\* times out.
Progress ==
    /\ UNCHANGED focus
    /\ \/ /\ focus = "research" /\ ResearchStep
          /\ UNCHANGED <<memoryVars, skillVars, competitorVars, reportVars, groupVars>>
       \/ /\ focus = "reports" /\ ReportStep
          /\ UNCHANGED <<memoryVars, skillVars, researchVars, competitorVars, groupVars>>

Spec == Init /\ [][Next]_serviceVars /\ WF_serviceVars(Progress)

=============================================================================
