------------------------------- MODULE SafeDB -------------------------------
(***************************************************************************)
(* The SQLite wrapper under every store of the program (kronos/db.py).     *)
(* A process keeps ONE connection per database file and serialises every   *)
(* call on it by a threading.Lock; the shared ledger file is opened by one *)
(* process per agent, so that several connections compete for SQLite's     *)
(* single write transaction.  A write runs BEGIN IMMEDIATE, its            *)
(* statements and COMMIT.  An OperationalError on the way is answered by   *)
(* _rollback_safe and one second attempt; any other exception, and any     *)
(* exception of the second attempt, goes to the caller as it is.           *)
(*                                                                         *)
(* Statements are abstracted to the rows they write: call n with k         *)
(* statements writes the rows <<n, 1>> ... <<n, k>>.                       *)
(***************************************************************************)
EXTENDS Naturals

CONSTANTS
    Conn,        \* the connections to one file, one per process
    Thread,      \* the threads that call SafeDB
    Home,        \* Home[t]: the connection of the process of thread t
    NoThread,    \* nobody holds the threading.Lock
    MaxCalls,    \* bound: calls made in a behaviour
    MaxFaults,   \* bound: errors that are not a consequence of the state
    MaxCrashes   \* bound: processes killed

ASSUME HomeAssumption == Home \in [Thread -> Conn]
ASSUME NoThreadAssumption == NoThread \notin Thread
ASSUME BoundAssumption == /\ MaxCalls \in Nat
                          /\ MaxFaults \in Nat
                          /\ MaxCrashes \in Nat

VARIABLES
    file,      \* the committed rows
    open,      \* open[c]: a transaction is open on connection c
    buf,       \* buf[c]: the rows written in that transaction
    closed,    \* closed[c]: the connection was closed and not reopened
    owner,     \* owner[c]: the thread that holds the lock of c
    pc,        \* pc[t]: where thread t is in its call
    cur,       \* cur[t]: the number of its call
    attempt,   \* attempt[t]: 1, or 2 in the except branch
    at,        \* at[t]: statements executed in this attempt
    kind,      \* kind[n]: the method of call n
    result,    \* result[n]: what became of call n
    dirty,     \* dirty[t]: uncommitted rows the last read of t returned
    calls, faults, crashes

db     == <<file, open, buf, closed>>
bound  == <<calls, faults, crashes>>
vars   == <<file, open, buf, closed, owner, pc, cur, attempt, at, kind,
            result, dirty, calls, faults, crashes>>

CallId == 1 .. MaxCalls

\* write; write_many and write_tx; read and read_one; init_schema.
Kind   == {"write", "many", "read", "schema"}
Result == {"none", "pending", "done", "raised", "crashed"}
Place  == {"idle", "lock", "begin", "body", "recover", "read", "schema"}

\* Two statements are enough for a transaction that can be half done.
Size(k)  == CASE k = "write" -> 1 [] k = "many" -> 2 [] OTHER -> 0
RowsOf(n, k) == {n} \X (1 .. Size(k))
Rows(n)  == RowsOf(n, kind[n])
AllRows  == CallId \X (1 .. 2)
Busy(t)  == pc[t] # "idle"

Init ==
    /\ file = {}
    /\ open = [c \in Conn |-> FALSE]
    /\ buf = [c \in Conn |-> {}]
    /\ closed = [c \in Conn |-> FALSE]
    /\ owner = [c \in Conn |-> NoThread]
    /\ pc = [t \in Thread |-> "idle"]
    /\ cur = [t \in Thread |-> 0]
    /\ attempt = [t \in Thread |-> 1]
    /\ at = [t \in Thread |-> 0]
    /\ kind = [n \in CallId |-> "read"]
    /\ result = [n \in CallId |-> "none"]
    /\ dirty = [t \in Thread |-> {}]
    /\ calls = 0
    /\ faults = 0
    /\ crashes = 0

-----------------------------------------------------------------------------
(* The pieces the methods share. *)

Goto(t, place) == pc' = [pc EXCEPT ![t] = place]

\* Leaving the "with self._lock" block with a result or with an exception.
\* Neither touches the transaction; the method's locals are gone.
Leave(t, outcome) ==
    /\ Goto(t, "idle")
    /\ cur' = [cur EXCEPT ![t] = 0]
    /\ attempt' = [attempt EXCEPT ![t] = 1]
    /\ at' = [at EXCEPT ![t] = 0]
    /\ owner' = [owner EXCEPT ![Home[t]] = NoThread]
    /\ result' = [result EXCEPT ![cur[t]] = outcome]

\* ROLLBACK, or the connection that replaces this one: nothing is open.
Close(c) ==
    /\ open' = [open EXCEPT ![c] = FALSE]
    /\ buf' = [buf EXCEPT ![c] = {}]

\* Mutant: the retry is retried.
OperationalAlways(t) ==
    /\ Goto(t, "recover")
    /\ UNCHANGED <<owner, result, cur, attempt, at>>

\* except sqlite3.OperationalError: the first attempt is rolled back and
\* repeated; in the except branch itself nothing catches it.
Operational(t) ==
    IF attempt[t] = 1
    THEN Goto(t, "recover") /\ UNCHANGED <<owner, result, cur, attempt, at>>
    ELSE Leave(t, "raised")

Fault == faults < MaxFaults /\ faults' = faults + 1

-----------------------------------------------------------------------------
(* The calls. *)

Call(t, k) ==
    /\ pc[t] = "idle"
    /\ calls < MaxCalls
    /\ calls' = calls + 1
    /\ Goto(t, "lock")
    /\ cur' = [cur EXCEPT ![t] = calls + 1]
    /\ kind' = [kind EXCEPT ![calls + 1] = k]
    /\ result' = [result EXCEPT ![calls + 1] = "pending"]
    /\ dirty' = [dirty EXCEPT ![t] = {}]
    /\ UNCHANGED <<db, owner, attempt, at, faults, crashes>>

Entry(k) == IF k \in {"read", "schema"} THEN k ELSE "begin"

\* Mutant: a read does not take the lock.
AcquireToWrite(t) ==
    /\ pc[t] = "lock"
    /\ kind[cur[t]] = "read" \/ owner[Home[t]] = NoThread
    /\ owner' = IF kind[cur[t]] = "read" THEN owner
                ELSE [owner EXCEPT ![Home[t]] = t]
    /\ Goto(t, Entry(kind[cur[t]]))
    /\ UNCHANGED <<db, cur, attempt, at, kind, result, dirty, bound>>

Acquire(t) ==
    /\ pc[t] = "lock"
    /\ owner[Home[t]] = NoThread
    /\ owner' = [owner EXCEPT ![Home[t]] = t]
    /\ Goto(t, Entry(kind[cur[t]]))
    /\ UNCHANGED <<db, cur, attempt, at, kind, result, dirty, bound>>

\* Mutant: a transaction that is already open is joined.
BeginOrJoin(t) ==
    /\ pc[t] = "begin"
    /\ ~closed[Home[t]]
    /\ \A c \in Conn \ {Home[t]} : ~open[c]
    /\ open' = [open EXCEPT ![Home[t]] = TRUE]
    /\ Goto(t, "body")
    /\ UNCHANGED <<file, buf, closed, owner, cur, attempt, at, kind, result,
                   dirty, bound>>

\* BEGIN IMMEDIATE takes SQLite's write lock.
Begin(t) ==
    /\ pc[t] = "begin"
    /\ ~closed[Home[t]]
    /\ \A c \in Conn : ~open[c]
    /\ open' = [open EXCEPT ![Home[t]] = TRUE]
    /\ Goto(t, "body")
    /\ UNCHANGED <<file, buf, closed, owner, cur, attempt, at, kind, result,
                   dirty, bound>>

\* Mutant: no busy timeout.
BeginFailsOnce(t) ==
    /\ pc[t] = "begin"
    /\ ~closed[Home[t]]
    /\ IF open[Home[t]] THEN UNCHANGED faults ELSE Fault
    /\ Operational(t)
    /\ UNCHANGED <<db, kind, dirty, calls, crashes>>

\* It fails inside an open transaction, after the busy timeout of 30 s when
\* another process has one, or for a reason of its own.
BeginFails(t) ==
    /\ pc[t] = "begin"
    /\ ~closed[Home[t]]
    /\ IF \E c \in Conn : open[c] THEN UNCHANGED faults ELSE Fault
    /\ Operational(t)
    /\ UNCHANGED <<db, kind, dirty, calls, crashes>>

Statement(t) ==
    /\ pc[t] = "body"
    /\ at[t] < Size(kind[cur[t]])
    /\ at' = [at EXCEPT ![t] = @ + 1]
    /\ buf' = [buf EXCEPT ![Home[t]] = @ \cup {<<cur[t], at[t] + 1>>}]
    /\ UNCHANGED <<file, open, closed, owner, pc, cur, attempt, kind, result,
                   dirty, bound>>

\* Mutant: the except branch returns without its COMMIT.
CommitFirst(t) ==
    /\ pc[t] = "body"
    /\ at[t] = Size(kind[cur[t]])
    /\ IF attempt[t] = 1
       THEN file' = file \cup buf[Home[t]] /\ Close(Home[t])
       ELSE UNCHANGED <<file, open, buf>>
    /\ Leave(t, "done")
    /\ UNCHANGED <<closed, kind, dirty, bound>>

\* Mutant: an error after the COMMIT is taken for one before it.
CommitAgain(t) ==
    /\ pc[t] = "body"
    /\ at[t] = Size(kind[cur[t]])
    /\ file' = file \cup buf[Home[t]]
    /\ Close(Home[t])
    /\ Leave(t, "done") \/ Operational(t)
    /\ UNCHANGED <<closed, kind, dirty, bound>>

Commit(t) ==
    /\ pc[t] = "body"
    /\ at[t] = Size(kind[cur[t]])
    /\ file' = file \cup buf[Home[t]]
    /\ Close(Home[t])
    /\ Leave(t, "done")
    /\ UNCHANGED <<closed, kind, dirty, bound>>

\* A statement or the COMMIT raises OperationalError; SQLite may have rolled
\* the transaction back by itself (a full disk, an I/O error).
BodyOperational(t) ==
    /\ pc[t] = "body"
    /\ Fault
    /\ \/ UNCHANGED <<open, buf>>
       \/ Close(Home[t])
    /\ Operational(t)
    /\ UNCHANGED <<file, closed, kind, dirty, calls, crashes>>

\* A statement or fn raises anything else: IntegrityError, DatabaseError, an
\* error of the Python code of fn.  Nothing catches it.
BodyOther(t) ==
    /\ pc[t] = "body"
    /\ Fault
    /\ Leave(t, "raised")
    /\ UNCHANGED <<db, kind, dirty, calls, crashes>>

\* Mutant: the second attempt goes on where the first failed.
RecoverOn(t) ==
    /\ pc[t] = "recover"
    /\ Close(Home[t])
    /\ attempt' = [attempt EXCEPT ![t] = @ + 1]
    /\ Goto(t, Entry(kind[cur[t]]))
    /\ UNCHANGED <<file, closed, owner, cur, at, kind, result, dirty, bound>>

\* _rollback_safe, then the second attempt.  The rollback may itself fail
\* and leave the transaction: the exception is swallowed.
Recover(t) ==
    /\ pc[t] = "recover"
    /\ \/ Close(Home[t]) /\ UNCHANGED faults
       \/ Fault /\ UNCHANGED <<open, buf>>
    /\ attempt' = [attempt EXCEPT ![t] = @ + 1]
    /\ at' = [at EXCEPT ![t] = 0]
    /\ Goto(t, Entry(kind[cur[t]]))
    /\ UNCHANGED <<file, closed, owner, cur, kind, result, dirty, calls,
                   crashes>>

\* _rollback_safe finds the connection dead, closes it and fails to replace
\* it: _conn stays the closed one, or is the new one when a PRAGMA failed.
\* The exception goes to the caller.
ReconnectFails(t) ==
    /\ pc[t] = "recover"
    /\ Fault
    /\ Close(Home[t])
    /\ \/ closed' = [closed EXCEPT ![Home[t]] = TRUE]
       \/ UNCHANGED closed
    /\ Leave(t, "raised")
    /\ UNCHANGED <<file, kind, dirty, calls, crashes>>

\* ProgrammingError of a closed connection, which is no OperationalError.
RaiseClosed(t) ==
    /\ pc[t] \in {"begin", "read", "schema"}
    /\ closed[Home[t]]
    /\ Leave(t, "raised")
    /\ UNCHANGED <<db, kind, dirty, bound>>

\* A read sees the open transaction of its own connection.
Read(t) ==
    /\ pc[t] = "read"
    /\ ~closed[Home[t]]
    /\ dirty' = [dirty EXCEPT ![t] = buf[Home[t]]]
    /\ Leave(t, "done")
    /\ UNCHANGED <<db, kind, bound>>

\* OperationalError rolls back and reads again, anything else is raised.
ReadFails(t) ==
    /\ pc[t] = "read"
    /\ ~closed[Home[t]]
    /\ Fault
    /\ \/ Operational(t)
       \/ Leave(t, "raised")
    /\ UNCHANGED <<db, kind, dirty, calls, crashes>>

\* init_schema: executescript and the final COMMIT commit whatever is open.
Schema(t) ==
    /\ pc[t] = "schema"
    /\ ~closed[Home[t]]
    /\ file' = file \cup buf[Home[t]]
    /\ Close(Home[t])
    /\ Leave(t, "done")
    /\ UNCHANGED <<closed, kind, dirty, bound>>

\* fn raises, before or after the implicit COMMIT of executescript.
SchemaFails(t) ==
    /\ pc[t] = "schema"
    /\ ~closed[Home[t]]
    /\ Fault
    /\ \/ UNCHANGED <<file, open, buf>>
       \/ file' = file \cup buf[Home[t]] /\ Close(Home[t])
    /\ Leave(t, "raised")
    /\ UNCHANGED <<closed, kind, dirty, calls, crashes>>

\* A process is killed while it uses the file, and started again: SQLite
\* drops its transaction.
Crash(c) ==
    LET dead(t) == Home[t] = c /\ Busy(t) IN
    /\ crashes < MaxCrashes
    /\ open[c] \/ owner[c] # NoThread
    /\ crashes' = crashes + 1
    /\ Close(c)
    /\ closed' = [closed EXCEPT ![c] = FALSE]
    /\ owner' = [owner EXCEPT ![c] = NoThread]
    /\ pc' = [t \in Thread |-> IF dead(t) THEN "idle" ELSE pc[t]]
    /\ cur' = [t \in Thread |-> IF dead(t) THEN 0 ELSE cur[t]]
    /\ attempt' = [t \in Thread |-> IF dead(t) THEN 1 ELSE attempt[t]]
    /\ at' = [t \in Thread |-> IF dead(t) THEN 0 ELSE at[t]]
    /\ result' = [n \in CallId |->
                    IF \E t \in Thread : dead(t) /\ cur[t] = n
                    THEN "crashed" ELSE result[n]]
    /\ dirty' = [t \in Thread |-> IF Home[t] = c THEN {} ELSE dirty[t]]
    /\ UNCHANGED <<file, kind, calls, faults>>

-----------------------------------------------------------------------------

Step(t) ==
    \/ Acquire(t)
    \/ Begin(t)
    \/ BeginFails(t)
    \/ Statement(t)
    \/ Commit(t)
    \/ BodyOperational(t)
    \/ BodyOther(t)
    \/ Recover(t)
    \/ ReconnectFails(t)
    \/ RaiseClosed(t)
    \/ Read(t)
    \/ ReadFails(t)
    \/ Schema(t)
    \/ SchemaFails(t)

Next ==
    \/ \E t \in Thread, k \in Kind : Call(t, k)
    \/ \E t \in Thread : Step(t)
    \/ \E c \in Conn : Crash(c)

Spec == Init /\ [][Next]_vars

\* A running thread is scheduled; BEGIN IMMEDIATE returns or times out.
\* Nobody has to call, and no error has to happen.
Fairness == \A t \in Thread : WF_vars(Step(t))

LiveSpec == Spec /\ Fairness

-----------------------------------------------------------------------------
(* Properties. *)

\* Every variable has its type.
TypeOK ==
    /\ file \in SUBSET AllRows
    /\ open \in [Conn -> BOOLEAN]
    /\ buf \in [Conn -> SUBSET AllRows]
    /\ closed \in [Conn -> BOOLEAN]
    /\ owner \in [Conn -> Thread \cup {NoThread}]
    /\ pc \in [Thread -> Place]
    /\ cur \in [Thread -> 0 .. MaxCalls]
    /\ attempt \in [Thread -> 1 .. 2]
    /\ at \in [Thread -> 0 .. 2]
    /\ kind \in [CallId -> Kind]
    /\ result \in [CallId -> Result]
    /\ dirty \in [Thread -> SUBSET AllRows]
    /\ calls \in 0 .. MaxCalls
    /\ faults \in 0 .. MaxFaults
    /\ crashes \in 0 .. MaxCrashes

\* What a caller was told is written is in the file with all its statements,
\* whatever failed in the first attempt (write, write_many, write_tx), and
\* stays there through later errors, rollbacks and crashes.
DoneIsWritten == \A n \in CallId : result[n] = "done" => Rows(n) \subseteq file

\* A transaction is open on a connection nobody is using only when the call
\* that began it raised: a call that returns, a read or a killed process never
\* leaves SQLite's write lock taken for the other agents.
DanglingOnlyAfterRaise ==
    \A c \in Conn :
        (open[c] /\ owner[c] = NoThread) =>
            \A r \in buf[c] : result[r[1]] = "raised"

\* A read never returns rows of a call that is still running on the same
\* connection: the lock covers a whole transaction.  What it can return
\* uncommitted are rows of a call that raised.
DirtyReadsAreOfRaisedCalls ==
    \A t \in Thread : \A r \in dirty[t] : result[r[1]] = "raised"

\* The second attempt never repeats work of the first: no row is about to be
\* written that the file already has.
NothingTwice == \A c \in Conn : buf[c] \cap file = {}

\* Seen from outside, a call writes its rows in one step or not at all, and what
\* it tells its caller is which: every step of the connections, the lock and the
\* two attempts is one of AtomicCalls or changes nothing of that.
Atomic == INSTANCE AtomicCalls WITH stored <- file, told <- result, method <- kind

ImplementsAtomicCalls == Atomic!CallsSpec

\* Every call returns or raises, also when another process has left the
\* write lock taken: the busy timeout and the single retry bound it.
EveryCallEnds == \A t \in Thread : Busy(t) ~> ~Busy(t)

=============================================================================
