---------------------------- MODULE CronReports ----------------------------
(***************************************************************************)
(* The jobs that report (cron/heartbeat.py, news_monitor.py and others) of *)
(* one agent, and how their messages leave (cron/notify.py).  They share   *)
(* one event loop with the bridge.  A job gathers material, asks a model,  *)
(* keeps files and sends; all of that blocks the loop, only the digest of  *)
(* Telegram groups awaits, between its sources.  With a bot token a message *)
(* goes to the Bot API.  Without one it is posted to the bridge's own web  *)
(* server, which needs the loop that the poster holds.                     *)
(*                                                                         *)
(* A message is a number of parts, those of a long text.  What is found    *)
(* and written is left out.                                                *)
(***************************************************************************)
EXTENDS Integers, FiniteSets, Sequences

CONSTANTS
    Category,     \* categories of GROUPS.md, how many
    SourcesEach,  \* sources of a category
    BatchSize,    \* sources summarized at once
    MaxParts,     \* bound: parts of a message
    MaxReports,   \* bound: runs of jobs
    MaxKills      \* bound: deaths of the process

ASSUME ReportAssumption == MaxParts \in Nat

VARIABLES
    route,      \* a bot token is configured, or the bridge's server listens
    loop,       \* the job that holds the event loop, or "free"
    at,         \* at[j]: where job j is
    left,       \* left[j]: files it has yet to write
    group,      \* progress of the group digest
    mail,       \* mail[j]: the message of its latest run
    requests,   \* jobs whose post waits at the server's socket
    handled,    \* handled[j]: parts the server's handler has sent, or -1
    quiet,      \* _last_notify_ts is less than four hours ago
    reports, kills

web_server == <<requests, handled>>
reportVars == <<route, loop, at, left, group, mail, web_server, quiet, reports, kills>>

Report == {"heartbeat", "news", "people", "market", "expenses", "email", "improve",
           "model", "groups"}
\* The files of a job, in the order it writes them.
Files(j) == CASE j = "people" -> <<"SEEN">> [] j = "improve" -> <<"record">>
              [] j = "model" -> <<"USER-MODEL", "USER-PATTERNS">> [] OTHER -> <<>>

NoMail == [parts |-> 0, next |-> 0, arrived |-> [p \in 1 .. MaxParts |-> 0],
           result |-> "none"]
NoGroups == [categories |-> 0, sources |-> 0, got |-> 0, batches |-> 0, good |-> 0,
             kept |-> 0]

ReportInit ==
    /\ route \in {"token", "server", "none"}
    /\ loop = "free"
    /\ at = [j \in Report |-> "idle"]
    /\ left = [j \in Report |-> <<>>]
    /\ group = NoGroups
    /\ mail = [j \in Report |-> NoMail]
    /\ requests = {} /\ handled = [j \in Report |-> -1]
    /\ quiet = FALSE /\ reports = 0 /\ kills = 0

\* Job j goes on, from one place to another, and keeps the loop or gives it back.
Goes(j, from, to) ==
    /\ at[j] = from /\ loop = j
    /\ at' = [at EXCEPT ![j] = to]
    /\ loop' = IF to \in {"idle", "groups"} THEN "free" ELSE j

Nothing == UNCHANGED <<left, group, mail, web_server, quiet>>
Standing == UNCHANGED <<route, reports, kills>>

-----------------------------------------------------------------------------
(* What each job does until it has something to tell.  A job that finds     *)
(* nothing, or whose model raises or has nothing to say, is over.           *)

\* The runs of a job are an hour apart: what it last posted is long handled.
Begin(j) ==
    /\ loop = "free" /\ at[j] = "idle" /\ reports < MaxReports
    /\ j \notin requests /\ handled[j] = -1
    /\ reports' = reports + 1
    /\ mail' = [mail EXCEPT ![j] = NoMail]
    /\ left' = [left EXCEPT ![j] = Files(j)]
    /\ at' = [at EXCEPT ![j] = "gather"] /\ loop' = j
    /\ UNCHANGED <<route, group, web_server, quiet, kills>>

Gathers(j, outcomes) == \E to \in outcomes : Goes(j, "gather", to) /\ Nothing

\* HEARTBEAT.md may be empty; tasks that Notion does not give are done without.
HeartbeatGathers == Gathers("heartbeat", {"idle", "ask"})
\* brave.search gives an empty list when it fails.
NewsGathers == Gathers("news", {"idle", "ask"})
\* The criteria and the profiles already seen: neither is needed.
PeopleGathers == Gathers("people", {"ask"})
\* There is a line for every ticker, with news or not.
MarketGathers == Gathers("market", {"ask"})
ExpensesGathers == Gathers("expenses", {"idle", "ask"})
\* The search of the mail is a stub that finds nothing.
EmailGathers == Gathers("email", {"idle"})
\* Too few entries of the audit log end these two.
ImproveGathers == Gathers("improve", {"idle", "ask"})
ModelGathers == Gathers("model", {"idle", "ask"})

\* The model raises, or has nothing to say; a summary too short is none.
Asks(j) == (\E to \in {"idle", "keep"} : Goes(j, "ask", to)) /\ Nothing

\* Any answer but "heartbeat: ok" is a problem, an empty one too.
HeartbeatAsks == Asks("heartbeat")
NewsAsks == Asks("news")
\* SEEN.md is written only when there are new profiles.
PeopleAsks ==
    /\ \E to \in {"idle", "keep"} : Goes("people", "ask", to)
    /\ left' \in {left, [left EXCEPT !["people"] = <<>>]}
    /\ UNCHANGED <<group, mail, web_server, quiet>>
MarketAsks == Asks("market")
ExpensesAsks == Asks("expenses")
\* Any answer but "no improvements" is a record, an empty one too.
ImproveAsks == Asks("improve")
ModelAsks == Asks("model")

\* A file is written, or the write raises and the job is over.
Keeps(j) ==
    /\ left[j] # <<>>
    /\ \/ Goes(j, "keep", "keep") /\ left' = [left EXCEPT ![j] = Tail(@)]
       \/ Goes(j, "keep", "idle") /\ left' = [left EXCEPT ![j] = <<>>]
    /\ UNCHANGED <<group, mail, web_server, quiet>>

\* The heartbeat notes the time before it sends; a message that fails is not
\* tried again before the time is over.
StaysQuiet ==
    /\ quiet
    /\ Goes("heartbeat", "keep", "idle") /\ Nothing

Tells(j) ==
    /\ left[j] = <<>> /\ (j = "heartbeat" => ~quiet)
    /\ \E n \in 1 .. MaxParts :
          mail' = [mail EXCEPT ![j] = [@ EXCEPT !.parts = n, !.next = 1]]
    /\ Goes(j, "keep", IF route = "token" THEN "send" ELSE "post")
    /\ quiet' = (quiet \/ j = "heartbeat")
    /\ UNCHANGED <<left, group, web_server>>

-----------------------------------------------------------------------------
(* The digest of groups: a category after the other, source by source, then *)
(* its batches; a part of it that fails is left out.                        *)

LoadGroups ==
    /\ \/ Goes("groups", "gather", "idle") /\ UNCHANGED group
       \/ /\ Goes("groups", "gather", "groups")
          /\ group' = [NoGroups EXCEPT !.categories = Category - 1, !.sources = SourcesEach]
    /\ UNCHANGED <<left, mail, web_server, quiet>>

\* _fetch_messages, _filter_significant and the pause after it: awaits.
FetchGroup ==
    /\ at["groups"] = "groups" /\ loop = "free" /\ group.sources > 0
    /\ \E posts \in {0, 1} : group' = [group EXCEPT !.sources = @ - 1, !.got = @ + posts]
    /\ UNCHANGED <<loop, at, left, mail, web_server, quiet>>

BeginSummary ==
    /\ at["groups"] = "groups" /\ loop = "free" /\ group.sources = 0
    /\ at' = [at EXCEPT !["groups"] = "batch"] /\ loop' = "groups"
    /\ group' = [group EXCEPT !.batches = (group.got + BatchSize - 1) \div BatchSize, !.good = 0]
    /\ UNCHANGED <<left, mail, web_server, quiet>>

\* A batch whose summary fails, or is too short, is left out.
SummarizeBatch ==
    /\ group.batches > 0 /\ Goes("groups", "batch", "batch")
    /\ \E ok \in {0, 1} : group' = [group EXCEPT !.batches = @ - 1, !.good = @ + ok]
    /\ UNCHANGED <<left, mail, web_server, quiet>>

\* Two summaries are merged by the model.  When that raises they are put one
\* after the other; when the answer is too short the category is left out.
SummarizeCategory ==
    LET kept == group.kept IN
    /\ group.batches = 0
    /\ \E k \in CASE group.good = 0 -> {kept} [] group.good = 1 -> {kept + 1}
                  [] OTHER -> {kept, kept + 1} :
        IF group.categories > 0
        THEN /\ Goes("groups", "batch", "groups")
             /\ group' = [NoGroups EXCEPT !.categories = group.categories - 1,
                                          !.sources = SourcesEach, !.kept = k]
        ELSE /\ Goes("groups", "batch", IF k = 0 THEN "idle" ELSE "ask")
             /\ group' = [NoGroups EXCEPT !.kept = k]
    /\ UNCHANGED <<left, mail, web_server, quiet>>

\* The digest, or the summaries as they are when the model fails.
SynthesizeDigest == Goes("groups", "ask", "keep") /\ Nothing

-----------------------------------------------------------------------------
(* notify.py: a message leaves. *)

\* After its message self_improve still looks for skills to create.
After(j) == IF j = "improve" THEN "create" ELSE "idle"

Message(j) == mail[j]
Arrives(m, n) == [m EXCEPT !.arrived[m.next] = @ + n]
Ends(j, from, m, result) ==
    /\ Goes(j, from, After(j))
    /\ mail' = [mail EXCEPT ![j] = [m EXCEPT !.result = result]]

\* The part has arrived: the next one, or the end.
PartDone(j, from) ==
    LET m == Arrives(Message(j), 1) IN
    /\ at[j] = from
    /\ IF m.next = m.parts THEN Ends(j, from, m, "sent")
       ELSE /\ mail' = [mail EXCEPT ![j] = [m EXCEPT !.next = @ + 1]]
            /\ Goes(j, from, "send")

\* An error or a time-out: whether the part arrived is not known.
PartLost(j, from) == \E n \in {0, 1} : Ends(j, from, Arrives(Message(j), n), "failed")

\* Mutant: whatever failed is tried again as plain text.
SendPartOver(j) ==
    /\ \/ PartDone(j, "send")
       \/ \E n \in {0, 1} : /\ Goes(j, "send", "plain")
                            /\ mail' = [mail EXCEPT ![j] = Arrives(Message(j), n)]
    /\ UNCHANGED <<left, group, web_server, quiet>>

\* _send_message: the Bot API refuses what it cannot parse, and only that is
\* tried again, as plain text.
SendPart(j) ==
    /\ \/ PartDone(j, "send")
       \/ PartLost(j, "send")
       \/ Goes(j, "send", "plain") /\ UNCHANGED mail
    /\ UNCHANGED <<left, group, web_server, quiet>>

SendPlain(j) ==
    /\ PartDone(j, "plain") \/ PartLost(j, "plain")
    /\ UNCHANGED <<left, group, web_server, quiet>>

\* send_webhook: the request is at the socket, or nobody listens.
PostMessage(j) ==
    /\ \/ route = "server" /\ Goes(j, "post", "posted") /\ requests' = requests \cup {j}
          /\ UNCHANGED mail
       \/ route = "none" /\ Ends(j, "post", Message(j), "failed") /\ UNCHANGED requests
    /\ UNCHANGED <<left, group, handled, quiet>>

\* Mutant: a post without a time-out waits for its answer.
PostAnswered(j) ==
    /\ at[j] = "posted"
    /\ j \notin requests /\ handled[j] = -1
    /\ Ends(j, "posted", Message(j), "sent")
    /\ UNCHANGED <<left, group, web_server, quiet>>

\* The server cannot answer while the loop waits: the post ends by its time-out.
PostTimesOut(j) ==
    /\ Ends(j, "posted", Message(j), "failed")
    /\ UNCHANGED <<left, group, web_server, quiet>>

\* The loop comes to the socket, whose other end is closed by now: the request
\* is handled all the same, or dropped.
Accept ==
    /\ loop = "free"
    /\ \E j \in requests :
        /\ requests' = requests \ {j}
        /\ handled' \in {handled, [handled EXCEPT ![j] = 0]}
    /\ UNCHANGED <<loop, at, left, group, mail, quiet>>

\* _send_to_chat: a part, and a pause; the first failure ends it.
HandlerSends ==
    /\ loop = "free"
    /\ \E j \in Report :
        LET n == handled[j] + 1 IN
        /\ n > 0
        /\ \/ /\ mail' = [mail EXCEPT ![j].arrived[n] = @ + 1]
              /\ handled' = [handled EXCEPT ![j] = IF n = mail[j].parts THEN -1 ELSE n]
           \/ /\ \E k \in {0, 1} : mail' = [mail EXCEPT ![j].arrived[n] = @ + k]
              /\ handled' = [handled EXCEPT ![j] = -1]
    /\ UNCHANGED <<loop, at, left, group, requests, quiet>>

\* Phase 2 of self_improve: see SkillLibrary.
CreateSkills == Goes("improve", "create", "idle") /\ Nothing

-----------------------------------------------------------------------------
QuietEnds ==
    /\ quiet /\ quiet' = FALSE
    /\ UNCHANGED <<route, loop, at, left, group, mail, web_server, reports, kills>>

\* The process dies and starts again; the time of the notification is forgotten.
Kill ==
    /\ kills < MaxKills /\ kills' = kills + 1
    /\ loop' = "free"
    /\ at' = [j \in Report |-> "idle"]
    /\ left' = [j \in Report |-> <<>>] /\ group' = NoGroups
    /\ requests' = {} /\ handled' = [j \in Report |-> -1]
    /\ quiet' = FALSE
    /\ UNCHANGED <<route, mail, reports>>

ReportStep ==
    /\ \/ HeartbeatGathers \/ NewsGathers \/ PeopleGathers \/ MarketGathers
       \/ ExpensesGathers \/ EmailGathers \/ ImproveGathers \/ ModelGathers
       \/ HeartbeatAsks \/ NewsAsks \/ PeopleAsks \/ MarketAsks \/ ExpensesAsks
       \/ ImproveAsks \/ ModelAsks \/ StaysQuiet
       \/ LoadGroups \/ FetchGroup \/ BeginSummary \/ SummarizeBatch
       \/ SummarizeCategory \/ SynthesizeDigest
       \/ CreateSkills \/ Accept \/ HandlerSends
       \/ \E j \in Report : \/ Keeps(j) \/ Tells(j)
                            \/ SendPart(j) \/ SendPlain(j) \/ PostMessage(j) \/ PostTimesOut(j)
    /\ Standing

ReportNext == ReportStep \/ (\E j \in Report : Begin(j)) \/ QuietEnds \/ Kill

ReportSpec == ReportInit /\ [][ReportNext]_reportVars

-----------------------------------------------------------------------------
(* Properties. *)

Busy == \E j \in Report : at[j] # "idle"

\* The jobs come to their end, and with them the loop to the users: also the job
\* that posts to a server which waits for it.
ReportsEnd == Busy ~> ~Busy

\* No part of a message arrives twice, however sending failed and was tried
\* again; and what was told to be sent has arrived whole.
DeliveryIsHonest ==
    \A j \in Report :
        /\ \A p \in 1 .. MaxParts : mail[j].arrived[p] <= 1
        /\ mail[j].result = "sent" =>
              \A p \in 1 .. mail[j].parts : mail[j].arrived[p] = 1

=============================================================================
