---------------------------- MODULE SkillLibrary ----------------------------
(***************************************************************************)
(* Skills (skills/store.py, tools.py, hub.py).  A skill is a file, in the  *)
(* agent's own directory or in the one all agents share; an agent reads    *)
(* the files once, when it starts, and keeps them in memory.  Its tools,   *)
(* which run in threads, approve and import skills.  Two weekly jobs work  *)
(* on stores of their own: one writes new drafts (cron/skill_create.py),   *)
(* the other lets a model rewrite a file (cron/skill_improve.py).  The     *)
(* command line imports from a process of its own.                         *)
(*                                                                         *)
(* A file is its status and where it came from; texts, the backups a       *)
(* rewrite leaves and the manifest are left out.                           *)
(***************************************************************************)
EXTENDS Integers

CONSTANTS
    Agent,
    Skill,
    Shared,     \* the directory of all agents
    MaxChanges  \* bound: approvals, imports, drafts and rewrites

VARIABLES
    file,      \* file[d][s]: the SKILL.md of s in the directory d
    library,   \* library[a][s]: what the running agent a has in memory
    approval,  \* approval[a]: an approve_skill that has read the file
    rewrite,   \* rewrite[a]: a weekly rewrite that waits for the model
    changes

skillVars == <<file, library, approval, rewrite, changes>>

Directory == Agent \cup {Shared}
NoFile == [status |-> "missing", imported |-> FALSE, approved |-> FALSE,
           rewritten |-> FALSE]
\* approved and rewritten are histories: what happened to the file.
Draft(imported) == [NoFile EXCEPT !.status = "draft", !.imported = imported]
Own == [NoFile EXCEPT !.status = "active"]
NotThere == [skill |-> NoFile, at |-> Shared]
NoTask == [skill |-> "none", at |-> Shared, read |-> NoFile]

\* _load_all: the shared skills, overlaid with the agent's own.
Loaded(a, s) ==
    LET d == IF file[a][s] # NoFile THEN a ELSE Shared
    IN  [skill |-> file[d][s], at |-> d]

SkillInit ==
    /\ file \in [Directory -> [Skill -> {NoFile, Own}]]
    /\ library = [a \in Agent |-> [s \in Skill |-> Loaded(a, s)]]
    /\ approval = [a \in Agent |-> NoTask]
    /\ rewrite = [a \in Agent |-> NoTask]
    /\ changes = 0

Change == changes < MaxChanges /\ changes' = changes + 1

-----------------------------------------------------------------------------
(* The tools of a running agent. *)

\* approve_skill asks the memory for the status, update_status reads the file
\* again and, in another step, writes it with the new status.
ApproveReads(a, s) ==
    LET known == library[a][s] IN
    /\ Change
    /\ approval[a] = NoTask
    /\ known.skill.status = "draft" /\ file[known.at][s] # NoFile
    /\ approval' = [approval EXCEPT ![a] = [skill |-> s, at |-> known.at,
                                            read |-> file[known.at][s]]]
    /\ UNCHANGED <<file, library, rewrite>>

ApproveWrites(a) ==
    LET t == approval[a]
        new == [t.read EXCEPT !.status = "active", !.approved = TRUE]
    IN
    /\ t # NoTask
    /\ file' = [file EXCEPT ![t.at][t.skill] = new]
    /\ library' = [library EXCEPT ![a][t.skill] = [skill |-> new, at |-> t.at]]
    /\ approval' = [approval EXCEPT ![a] = NoTask]
    /\ UNCHANGED <<rewrite, changes>>

\* Mutant: the metadata of the package takes precedence.
ImportAsIs(a, s) ==
    /\ Change
    /\ library[a][s].skill = NoFile
    /\ \E status \in {"draft", "active"} :
        LET new == [Draft(TRUE) EXCEPT !.status = status] IN
        /\ file' = [file EXCEPT ![a][s] = new]
        /\ library' = [library EXCEPT ![a][s] = [skill |-> new, at |-> a]]
    /\ UNCHANGED <<approval, rewrite>>

\* import_skill: a name the memory has is refused; whatever the package says,
\* the skill is a draft.
Import(a, s) ==
    /\ Change
    /\ library[a][s].skill = NoFile
    /\ file' = [file EXCEPT ![a][s] = Draft(TRUE)]
    /\ library' = [library EXCEPT ![a][s] = [skill |-> Draft(TRUE), at |-> a]]
    /\ UNCHANGED <<approval, rewrite>>

-----------------------------------------------------------------------------
(* Other stores over the same files. *)

\* The command line's import: its store has just been read from the files.
ImportByHand(a, s) ==
    /\ Change
    /\ Loaded(a, s).skill = NoFile
    /\ file' = [file EXCEPT ![a][s] = Draft(TRUE)]
    /\ UNCHANGED <<library, approval, rewrite>>

\* analyze_for_new_skills: the names and descriptions of other skills must not
\* be similar, which an equal name alone is not; a file of that name is
\* replaced.  The running agent does not see the draft.
CreateDraft(a, s) ==
    /\ Change
    /\ file' = [file EXCEPT ![a][s] = Draft(FALSE)]
    /\ UNCHANGED <<library, approval, rewrite>>

\* run_skill_improve gives the model the file of a skill that was used, a draft
\* or not.
RewriteReads(a, s) ==
    /\ Change
    /\ rewrite[a] = NoTask /\ Loaded(a, s).skill # NoFile
    /\ rewrite' = [rewrite EXCEPT ![a] = [skill |-> s, at |-> Loaded(a, s).at,
                                          read |-> Loaded(a, s).skill]]
    /\ UNCHANGED <<file, library, approval>>

\* The answer becomes the file.  It may repeat the metadata it was given; a file
\* without them is an active skill.  Or nothing is to be improved.
RewriteWrites(a) ==
    LET t == rewrite[a] IN
    /\ t # NoTask
    /\ \/ \E status \in {t.read.status, "active"} :
            file' = [file EXCEPT ![t.at][t.skill] =
                        [t.read EXCEPT !.status = status, !.rewritten = TRUE]]
       \/ UNCHANGED file
    /\ rewrite' = [rewrite EXCEPT ![a] = NoTask]
    /\ UNCHANGED <<library, approval, changes>>

\* The process of an agent dies and starts again: _load_all.
Restart(a) ==
    /\ library' = [library EXCEPT ![a] = [s \in Skill |-> Loaded(a, s)]]
    /\ approval' = [approval EXCEPT ![a] = NoTask]
    /\ rewrite' = [rewrite EXCEPT ![a] = NoTask]
    /\ UNCHANGED <<file, changes>>

SkillNext ==
    \E a \in Agent :
        \/ \E s \in Skill : \/ ApproveReads(a, s) \/ Import(a, s) \/ ImportByHand(a, s)
                            \/ CreateDraft(a, s) \/ RewriteReads(a, s)
        \/ ApproveWrites(a) \/ RewriteWrites(a) \/ Restart(a)

SkillSpec == SkillInit /\ [][SkillNext]_skillVars

-----------------------------------------------------------------------------
(* Properties. *)

\* The files and what the agents have in memory.
Copies == {file[d][s] : d \in Directory, s \in Skill} \cup
          {library[a][s].skill : a \in Agent, s \in Skill}

\* An imported skill is in use only when somebody approved it, or when the
\* weekly job has rewritten its file: not by a restart, an overlay of the
\* shared directory or an import over another store's file.
ActiveIsApprovedOrRewritten ==
    \A c \in Copies : (c.imported /\ c.status = "active") => c.approved \/ c.rewritten

=============================================================================
