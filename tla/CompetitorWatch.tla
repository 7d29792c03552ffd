-------------------------- MODULE CompetitorWatch --------------------------
(***************************************************************************)
(* Competitor monitoring (competitors/, cron/competitor_*.py), two jobs of *)
(* one agent: every four hours the apps of the first tier are fetched and  *)
(* critical changes alerted; once a day, and whenever a user asks, all     *)
(* apps and the web are checked and a digest is written.  Both compare     *)
(* with the latest snapshot in SQLite, save the new one and then the       *)
(* changes, each in a transaction of its own.  A fetch is awaited, so the  *)
(* two interleave; a comparison and its writes are not.                    *)
(*                                                                         *)
(* A listing is the version, rating (tenths), number of ratings, price and *)
(* description of an app.  The web channels are one list of posts.  Texts, *)
(* the digest's too, are left out.                                         *)
(***************************************************************************)
EXTENDS Integers, FiniteSets, Sequences

CONSTANTS
    Comp,       \* the apps of competitors.yaml
    Tier1,
    Listing,    \* what a store may show
    Post,       \* URLs the searches may find
    KnownCap,   \* how many URLs are remembered
    MaxAlerts,  \* MAX_DAILY_ALERTS
    NoListing,
    MaxRows,    \* bound: changes kept for an app
    MaxMoves,   \* bound: changes of what a store shows
    MaxFaults,  \* bound: failed writes and crashes
    LastWatchDay     \* bound: days

\* An app has no name of a state of a check; what a store does not tell is 0.
ASSUME CompetitorAssumption ==
    /\ Tier1 \subseteq Comp /\ {"idle", "fetch"} \cap Comp = {}
    /\ Listing \subseteq [version : Nat, rating : Nat, count : Nat, text : Nat, price : Nat]
    /\ NoListing \notin Listing

VARIABLES
    market,    \* market[c]: what the store shows
    first,     \* first[c]: the oldest snapshot
    latest,    \* latest[c]: the newest
    rows,      \* rows[c]: the changes of c saved, oldest first
    known,     \* known[c]: the remembered posts
    reported,  \* reported[c]: the posts saved as changes
    torn,      \* apps of which a write failed
    alerts,    \* the check of the first tier
    digest,    \* the check of everything
    critical,  \* critical changes saved today
    today,
    moves,
    faults

world == <<market, moves>>
store == <<first, latest, rows, critical>>
web == <<known, reported>>
competitorVars == <<world, store, web, torn, alerts, digest, today, faults>>

NoCheck == [pc |-> "idle", todo |-> {}, got |-> NoListing]

CompetitorInit ==
    /\ market \in [Comp -> Listing]
    /\ first = [c \in Comp |-> NoListing] /\ latest = first
    /\ rows = [c \in Comp |-> <<>>]
    /\ known = [c \in Comp |-> {}] /\ reported = known
    /\ torn = {}
    /\ alerts = NoCheck /\ digest = NoCheck
    /\ critical = 0 /\ today = 0 /\ moves = 0 /\ faults = 0

-----------------------------------------------------------------------------
(* diff_snapshots: the changes between two listings, in its order.  A field *)
(* that is empty or zero on either side is not compared, the price is.      *)

Absolute(x) == IF x < 0 THEN -x ELSE x
Row(kind, severity, old, new) ==
    [kind |-> kind, severity |-> severity, old |-> old, new |-> new]

Differs(prev, curr, field) ==
    prev[field] # 0 /\ curr[field] # 0 /\ prev[field] # curr[field]

RatingRow(prev, curr) ==
    Row("rating",
        IF Absolute(curr.rating - prev.rating) >= 3 THEN "important" ELSE "info",
        prev.rating, curr.rating)

Told(seen, row) == IF seen THEN <<row>> ELSE <<>>

DiffSnapshots(prev, curr) ==
    IF prev = NoListing THEN <<Row("new", "info", 0, 0)>>
    ELSE Told(Differs(prev, curr, "version"),
              Row("version", "important", prev.version, curr.version))
         \o Told(Differs(prev, curr, "rating"), RatingRow(prev, curr))
         \o Told(prev.count # 0 /\ 20 * (curr.count - prev.count) > prev.count,
                 Row("reviews", "info", prev.count, curr.count))
         \o Told(Differs(prev, curr, "text"),
                 Row("description", "info", prev.text, curr.text))
         \o Told(prev.price # curr.price,
                 Row("price", "critical", prev.price, curr.price))

Criticals(changes) == Len(SelectSeq(changes, LAMBDA r : r.severity = "critical"))

\* Snapshot, then change by change; a write that fails, or a crash, leaves
\* the snapshot and the first n changes, or nothing at all.
Save(c, curr, changes, n) ==
    /\ Len(rows[c]) + n <= MaxRows
    /\ first' = [first EXCEPT ![c] = IF @ = NoListing THEN curr ELSE @]
    /\ latest' = [latest EXCEPT ![c] = curr]
    /\ rows' = [rows EXCEPT ![c] = @ \o SubSeq(changes, 1, n)]
    /\ critical' = critical + Criticals(SubSeq(changes, 1, n))

Fault(c) ==
    /\ faults < MaxFaults /\ faults' = faults + 1
    /\ torn' = torn \cup {c}

Whole == UNCHANGED <<torn, faults>>

-----------------------------------------------------------------------------
(* The check of the first tier. *)

\* check_critical_alerts counts today's critical changes before it begins.
BeginAlerts ==
    /\ alerts.pc = "idle" /\ Tier1 # {} /\ critical < MaxAlerts
    /\ alerts' = [NoCheck EXCEPT !.pc = "fetch", !.todo = Tier1]
    /\ UNCHANGED <<world, store, web, torn, digest, today, faults>>

\* fetch_all_for_competitor: a fetch that fails brings no listing.
AlertsFetch(c) ==
    /\ alerts.pc = "fetch" /\ c \in alerts.todo
    /\ \E got \in {market[c], NoListing} :
          alerts' = [alerts EXCEPT !.pc = IF got = NoListing THEN "fetch" ELSE c,
                                   !.got = got,
                                   !.todo = IF got = NoListing THEN @ \ {c} ELSE @]
    /\ UNCHANGED <<world, store, web, torn, digest, today, faults>>

\* Mutant: an alert check records only what it alerts.
AlertsSaveCritical(c) ==
    LET changes == DiffSnapshots(latest[c], alerts.got)
        kept == SelectSeq(changes, LAMBDA r : r.severity = "critical")
    IN
    /\ alerts.pc = c /\ latest[c] # NoListing
    /\ alerts' = [alerts EXCEPT !.pc = "fetch", !.todo = @ \ {c}, !.got = NoListing]
    /\ Save(c, alerts.got, kept, Len(kept)) /\ Whole
    /\ UNCHANGED <<world, web, digest, today>>

\* An app without a baseline is left to the daily check.
AlertsSave(c) ==
    LET changes == DiffSnapshots(latest[c], alerts.got) IN
    /\ alerts.pc = c
    /\ alerts' = [alerts EXCEPT !.pc = "fetch", !.todo = @ \ {c}, !.got = NoListing]
    /\ \/ latest[c] = NoListing /\ Whole /\ UNCHANGED store
       \/ /\ latest[c] # NoListing
          /\ \/ Save(c, alerts.got, changes, Len(changes)) /\ Whole
             \/ /\ Fault(c)
                /\ \/ UNCHANGED store
                   \/ \E n \in 0 .. Len(changes) - 1 : Save(c, alerts.got, changes, n)
    /\ UNCHANGED <<world, web, digest, today>>

\* The messages are sent: of the critical changes as many as the cap leaves.
SendAlerts ==
    /\ alerts.pc = "fetch" /\ alerts.todo = {}
    /\ alerts' = NoCheck
    /\ UNCHANGED <<world, store, web, torn, digest, today, faults>>

-----------------------------------------------------------------------------
(* The check of everything. *)

BeginDigest ==
    /\ digest.pc = "idle"
    /\ digest' = [NoCheck EXCEPT !.pc = "fetch", !.todo = Comp]
    /\ UNCHANGED <<world, store, web, torn, alerts, today, faults>>

DigestFetch(c) ==
    /\ digest.pc = "fetch" /\ c \in digest.todo
    /\ \E got \in {market[c], NoListing} :
          digest' = [digest EXCEPT !.pc = c, !.got = got]
    /\ UNCHANGED <<world, store, web, torn, alerts, today, faults>>

\* What the searches for posts, mentions, launches and jobs bring: nothing, too,
\* when they fail or their results are judged to be about something else.
Found == SUBSET Post

\* A channel tells what it does not remember.
Fresh(c, found) == found \ known[c]

\* The list is cut to its length in no order.
Cuts(all) ==
    {keep \in SUBSET all : Cardinality(keep) = IF Cardinality(all) > KnownCap THEN KnownCap
                                               ELSE Cardinality(all)}

\* check_all_web_channels, and the changes saved.  What an early channel found is
\* lost when a later one raises, or when the first change fails to be saved.
CheckWeb(c) ==
    \E found \in Found :
        /\ \E keep \in Cuts(known[c] \cup found) : known' = [known EXCEPT ![c] = keep]
        /\ \/ reported' = [reported EXCEPT ![c] = @ \cup Fresh(c, found)] /\ Whole
           \/ Fresh(c, found) # {} /\ Fault(c) /\ UNCHANGED reported

\* _check_competitor: the listing, then the web.  A failure at the listing
\* leaves the web unchecked.
DigestSave(c) ==
    LET got == digest.got
        changes == IF got = NoListing THEN <<>> ELSE DiffSnapshots(latest[c], got)
        next == [digest EXCEPT !.pc = "fetch", !.todo = @ \ {c}, !.got = NoListing]
    IN
    /\ digest.pc = c
    /\ \/ /\ IF got = NoListing THEN UNCHANGED store
             ELSE Save(c, got, changes, Len(changes))
          /\ CheckWeb(c)
       \/ /\ got # NoListing /\ Fault(c)
          /\ \/ UNCHANGED store
             \/ \E n \in 0 .. Len(changes) - 1 : Save(c, got, changes, n)
          /\ UNCHANGED web
    /\ digest' = next
    /\ UNCHANGED <<world, alerts, today>>

\* run_daily_check ends: it tells of a baseline, of nothing or of the changes it
\* saw itself; a model that raises changes nothing more.
EndDigest ==
    /\ digest.pc = "fetch" /\ digest.todo = {}
    /\ digest' = NoCheck
    /\ UNCHANGED <<world, store, web, torn, alerts, today, faults>>

-----------------------------------------------------------------------------

\* The store shows something else.
MarketMoves(c) ==
    /\ moves < MaxMoves /\ moves' = moves + 1
    /\ \E l \in Listing \ {market[c]} : market' = [market EXCEPT ![c] = l]
    /\ UNCHANGED <<store, web, torn, alerts, digest, today, faults>>

NewDay ==
    /\ today < LastWatchDay /\ today' = today + 1
    /\ critical' = 0
    /\ UNCHANGED <<world, first, latest, rows, web, torn, alerts, digest, faults>>

\* The process is killed between two awaits; one that dies within the writes of
\* a check is among its faults.
WatchCrash ==
    /\ alerts.pc # "idle" \/ digest.pc # "idle"
    /\ faults < MaxFaults /\ faults' = faults + 1
    /\ alerts' = NoCheck /\ digest' = NoCheck
    /\ UNCHANGED <<world, store, web, torn, today>>

CompetitorNext ==
    \/ BeginAlerts \/ SendAlerts
    \/ BeginDigest \/ EndDigest
    \/ \E c \in Comp : \/ AlertsFetch(c) \/ AlertsSave(c)
                       \/ DigestFetch(c) \/ DigestSave(c)
                       \/ MarketMoves(c)
    \/ NewDay \/ WatchCrash

CompetitorSpec == CompetitorInit /\ [][CompetitorNext]_competitorVars

-----------------------------------------------------------------------------
(* Properties. *)

\* The rows of one kind are a history without holes: the first begins at the one
\* value, each where the one before ended, and the last ends at the other.
Linked(told, kind, from, to) ==
    LET At == {i \in DOMAIN told : told[i].kind = kind} IN
    /\ At = {} => from = to
    /\ \A i \in At :
          /\ (\A k \in At : i <= k) => told[i].old = from
          /\ (\A k \in At : k <= i) => told[i].new = to
          /\ \A k \in At :
                i < k /\ (\A l \in At : l <= i \/ k <= l) => told[i].new = told[k].old

\* The fields no change of which escapes: the price, and the version in a store
\* that shows one for every app.
Tracked == {"price"} \cup {field \in {"version"} : \A l \in Listing : l.version # 0}

\* The recorded versions and prices of an app are a history without holes:
\* whichever check saw a change, however the two interleaved, each row begins
\* where the one before ended, from the first snapshot to the latest; and a
\* post that is no longer news was reported.  Unless a write failed between a
\* snapshot and its changes.
EveryMoveIsRecorded ==
    \A c \in Comp \ torn :
        /\ known[c] \subseteq reported[c]
        /\ latest[c] # NoListing =>
            \A field \in Tracked : Linked(rows[c], field, first[c][field], latest[c][field])

=============================================================================
