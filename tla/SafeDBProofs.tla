---------------------------- MODULE SafeDBProofs ----------------------------
(***************************************************************************)
(* Proofs about SafeDB, for every number of processes, threads, calls,     *)
(* errors and crashes.                                                     *)
(***************************************************************************)
EXTENDS SafeDB, TLAPS

-----------------------------------------------------------------------------
(* The inductive invariant. *)

Locked(t) == pc[t] \notin {"idle", "lock"}
Writes(k) == k \in {"write", "many"}

\* Calls are numbered: a number is used once, by one thread, while its
\* result is pending.
CallInv ==
    /\ \A n \in CallId : n > calls => result[n] = "none"
    /\ \A t \in Thread : Busy(t) => cur[t] \in 1 .. calls
    /\ \A t \in Thread : Busy(t) => result[cur[t]] = "pending"
    /\ \A t, u \in Thread : Busy(t) /\ Busy(u) /\ cur[t] = cur[u] => t = u

\* The holder of a connection's lock is its only thread inside a method.
LockInv ==
    \A c \in Conn, t \in Thread : owner[c] = t <=> Home[t] = c /\ Locked(t)

\* A thread is where its method can be; in a transaction, exactly the
\* statements it has executed are in the connection's buffer.
PlaceOf(t) ==
    /\ pc[t] \in {"idle", "lock", "begin"} => at[t] = 0
    /\ pc[t] \in {"read", "schema"} => kind[cur[t]] = pc[t]
    /\ pc[t] \in {"begin", "body"} => Writes(kind[cur[t]])
    /\ pc[t] = "recover" => attempt[t] = 1 /\ kind[cur[t]] # "schema"
    /\ pc[t] = "body" => /\ open[Home[t]]
                         /\ buf[Home[t]] = {cur[t]} \X (1 .. at[t])
                         /\ at[t] <= Size(kind[cur[t]])
PlaceInv == \A t \in Thread : PlaceOf(t)

\* At most one transaction is open, and its rows are of a write in progress
\* on the same connection or of a call that raised.
BufInv ==
    /\ \A c \in Conn : ~open[c] => buf[c] = {}
    /\ \A c, d \in Conn : open[c] /\ open[d] => c = d
    /\ \A c \in Conn : \A r \in buf[c] :
          \/ result[r[1]] = "raised"
          \/ \E t \in Thread : /\ owner[c] = t
                               /\ cur[t] = r[1]
                               /\ Writes(kind[r[1]])

\* What is committed is of calls that have ended.
FileInv ==
    /\ \A r \in file : result[r[1]] \in {"done", "raised"}
    /\ NothingTwice

Inv == /\ TypeOK
       /\ CallInv
       /\ LockInv
       /\ PlaceInv
       /\ BufInv
       /\ FileInv
       /\ DoneIsWritten
       /\ DirtyReadsAreOfRaisedCalls

-----------------------------------------------------------------------------
(* Types. *)

\* The number of statements of a method.
LEMMA SizeType == ASSUME NEW k PROVE Size(k) \in 0 .. 2
BY DEF Size

LEMMA InitTypeOK == Init => TypeOK
BY BoundAssumption DEF Init, TypeOK, CallId, Kind, Result, Place, AllRows

\* Leaving a method keeps the type of what it changes.
LEMMA LeaveType ==
    ASSUME TypeOK, NEW t \in Thread, NEW o \in Result, Leave(t, o)
    PROVE  /\ pc' \in [Thread -> Place]
           /\ cur' \in [Thread -> 0 .. MaxCalls]
           /\ attempt' \in [Thread -> 1 .. 2]
           /\ at' \in [Thread -> 0 .. 2]
           /\ owner' \in [Conn -> Thread \cup {NoThread}]
           /\ result' \in [CallId -> Result]
<1>1. pc' \in [Thread -> Place]
    BY DEF TypeOK, Leave, Goto, Place
<1>2. cur' \in [Thread -> 0 .. MaxCalls] /\ at' \in [Thread -> 0 .. 2]
    BY BoundAssumption DEF TypeOK, Leave
<1>3. attempt' \in [Thread -> 1 .. 2]
    BY DEF TypeOK, Leave
<1>4. owner' \in [Conn -> Thread \cup {NoThread}]
    BY DEF TypeOK, Leave
<1>5. result' \in [CallId -> Result]
    BY DEF TypeOK, Leave
<1> QED BY <1>1, <1>2, <1>3, <1>4, <1>5

LEMMA OperationalType ==
    ASSUME TypeOK, NEW t \in Thread, Operational(t)
    PROVE  /\ pc' \in [Thread -> Place]
           /\ cur' \in [Thread -> 0 .. MaxCalls]
           /\ attempt' \in [Thread -> 1 .. 2]
           /\ at' \in [Thread -> 0 .. 2]
           /\ owner' \in [Conn -> Thread \cup {NoThread}]
           /\ result' \in [CallId -> Result]
<1>1. CASE attempt[t] = 1
    BY <1>1 DEF TypeOK, Operational, Goto, Place
<1>2. CASE attempt[t] # 1
    BY <1>2, LeaveType DEF Operational, Result
<1> QED BY <1>1, <1>2

LEMMA NextTypeOK == Inv /\ [Next]_vars => TypeOK'
<1> SUFFICES ASSUME Inv, [Next]_vars PROVE TypeOK'
    OBVIOUS
<1>0. TypeOK
    BY DEF Inv
<1>a. ASSUME NEW c \in Conn, Close(c)
      PROVE  open' \in [Conn -> BOOLEAN] /\ buf' \in [Conn -> SUBSET AllRows]
    BY <1>0, <1>a DEF Close, TypeOK
<1>b. Fault => faults' \in 0 .. MaxFaults
    BY <1>0, BoundAssumption DEF Fault, TypeOK
<1>c. ASSUME NEW t \in Thread PROVE Home[t] \in Conn
    BY HomeAssumption
<1>d. "done" \in Result /\ "raised" \in Result
    BY DEF Result
<1>e. ASSUME NEW c \in Conn, file' = file \cup buf[c]
      PROVE  file' \in SUBSET AllRows
    BY <1>0, <1>e DEF TypeOK
<1>f. ASSUME NEW t \in Thread, NEW p \in Place, Goto(t, p)
      PROVE  pc' \in [Thread -> Place]
    BY <1>0, <1>f DEF TypeOK, Goto
<1>g. ASSUME NEW k \in Kind
      PROVE  Entry(k) \in Place
    BY DEF Entry, Place, Kind
<1>h. ASSUME NEW t \in Thread, Busy(t)
      PROVE  cur[t] \in CallId /\ kind[cur[t]] \in Kind
    <2>1. cur[t] \in 1 .. calls /\ calls \in 0 .. MaxCalls
        BY <1>0, <1>h DEF Inv, CallInv, TypeOK
    <2>2. cur[t] \in CallId
        BY <2>1, BoundAssumption DEF CallId
    <2> QED BY <1>0, <2>2 DEF TypeOK
<1>1. ASSUME NEW t \in Thread, NEW k \in Kind, Call(t, k) PROVE TypeOK'
    <2>1. pc' \in [Thread -> Place]
        BY <1>1, <1>f DEF Call, Place
    <2>2. calls + 1 \in CallId /\ calls + 1 \in 0 .. MaxCalls
        BY <1>0, <1>1, BoundAssumption DEF TypeOK, Call, CallId
    <2>3. "pending" \in Result
        BY DEF Result
    <2> QED BY <1>0, <1>1, <2>1, <2>2, <2>3 DEF TypeOK, Call, db
<1>2. ASSUME NEW t \in Thread, Acquire(t) PROVE TypeOK'
    <2>1. pc' \in [Thread -> Place]
        BY <1>2, <1>f, <1>g, <1>h DEF Acquire, Busy
    <2> QED BY <1>0, <1>2, <1>c, <2>1 DEF TypeOK, Acquire, db, bound
<1>3. ASSUME NEW t \in Thread, Begin(t) PROVE TypeOK'
    <2>1. pc' \in [Thread -> Place]
        BY <1>3, <1>f DEF Begin, Place
    <2> QED BY <1>0, <1>3, <1>c, <2>1 DEF TypeOK, Begin, bound
<1>4. ASSUME NEW t \in Thread, BeginFails(t) PROVE TypeOK'
    BY <1>0, <1>4, <1>b, OperationalType DEF TypeOK, BeginFails, db
<1>5. ASSUME NEW t \in Thread, Statement(t) PROVE TypeOK'
    <2>1. cur[t] \in CallId
        BY <1>5, <1>h DEF Statement, Busy
    <2>2. at[t] + 1 \in 1 .. 2
        BY <1>0, <1>5, SizeType DEF Statement, TypeOK
    <2>3. buf' \in [Conn -> SUBSET AllRows]
        BY <1>0, <1>5, <1>c, <2>1, <2>2 DEF Statement, TypeOK, AllRows
    <2>4. at' \in [Thread -> 0 .. 2]
        BY <1>0, <1>5, <2>2 DEF Statement, TypeOK
    <2> QED BY <1>0, <1>5, <2>3, <2>4 DEF TypeOK, Statement, bound
<1>6. ASSUME NEW t \in Thread, Commit(t) PROVE TypeOK'
    BY <1>0, <1>6, <1>a, <1>c, <1>d, <1>e, LeaveType DEF TypeOK, Commit, bound
<1>7. ASSUME NEW t \in Thread, BodyOperational(t) PROVE TypeOK'
    <2>1. open' \in [Conn -> BOOLEAN] /\ buf' \in [Conn -> SUBSET AllRows]
        BY <1>0, <1>7, <1>a, <1>c DEF TypeOK, BodyOperational
    <2> QED BY <1>0, <1>7, <1>b, <2>1, OperationalType
               DEF TypeOK, BodyOperational
<1>8. ASSUME NEW t \in Thread, BodyOther(t) PROVE TypeOK'
    BY <1>0, <1>8, <1>b, <1>d, LeaveType DEF TypeOK, BodyOther, db
<1>9. ASSUME NEW t \in Thread, Recover(t) PROVE TypeOK'
    <2>1. open' \in [Conn -> BOOLEAN] /\ buf' \in [Conn -> SUBSET AllRows]
        BY <1>0, <1>9, <1>a, <1>c DEF TypeOK, Recover
    <2>2. pc' \in [Thread -> Place]
        BY <1>9, <1>f, <1>g, <1>h DEF Recover, Busy
    <2>3. attempt[t] = 1
        BY <1>9 DEF Inv, PlaceInv, PlaceOf, Recover
    <2>4. faults' \in 0 .. MaxFaults
        BY <1>0, <1>9, <1>b DEF TypeOK, Recover
    <2>5. attempt' \in [Thread -> 1 .. 2] /\ at' \in [Thread -> 0 .. 2]
        BY <1>0, <1>9, <2>3 DEF TypeOK, Recover
    <2> QED BY <1>0, <1>9, <2>1, <2>2, <2>4, <2>5 DEF TypeOK, Recover
<1>10. ASSUME NEW t \in Thread, ReconnectFails(t) PROVE TypeOK'
    BY <1>0, <1>10, <1>a, <1>b, <1>c, <1>d, LeaveType
       DEF TypeOK, ReconnectFails
<1>11. ASSUME NEW t \in Thread, RaiseClosed(t) PROVE TypeOK'
    BY <1>0, <1>11, <1>d, LeaveType DEF TypeOK, RaiseClosed, db, bound
<1>12. ASSUME NEW t \in Thread, Read(t) PROVE TypeOK'
    BY <1>0, <1>12, <1>c, <1>d, LeaveType DEF TypeOK, Read, db, bound
<1>13. ASSUME NEW t \in Thread, ReadFails(t) PROVE TypeOK'
    BY <1>0, <1>13, <1>b, <1>d, LeaveType, OperationalType
       DEF TypeOK, ReadFails, db
<1>14. ASSUME NEW t \in Thread, Schema(t) PROVE TypeOK'
    BY <1>0, <1>14, <1>a, <1>c, <1>d, <1>e, LeaveType DEF TypeOK, Schema, bound
<1>15. ASSUME NEW t \in Thread, SchemaFails(t) PROVE TypeOK'
    BY <1>0, <1>15, <1>a, <1>b, <1>c, <1>d, <1>e, LeaveType
       DEF TypeOK, SchemaFails
<1>16. ASSUME NEW c \in Conn, Crash(c) PROVE TypeOK'
    <2>1. pc' \in [Thread -> Place] /\ attempt' \in [Thread -> 1 .. 2]
        BY <1>0, <1>16 DEF TypeOK, Crash, Place
    <2>2. cur' \in [Thread -> 0 .. MaxCalls] /\ at' \in [Thread -> 0 .. 2]
        BY <1>0, <1>16, BoundAssumption DEF TypeOK, Crash
    <2>3. result' \in [CallId -> Result]
        BY <1>0, <1>16 DEF TypeOK, Crash, Result
    <2>4. crashes' \in 0 .. MaxCrashes
        BY <1>0, <1>16, BoundAssumption DEF TypeOK, Crash
    <2>5. dirty' \in [Thread -> SUBSET AllRows]
        BY <1>0, <1>16 DEF TypeOK, Crash
    <2> QED BY <1>0, <1>16, <1>a, <2>1, <2>2, <2>3, <2>4, <2>5
               DEF TypeOK, Crash
<1>17. CASE UNCHANGED vars
    BY <1>0, <1>17 DEF TypeOK, vars
<1>18. CASE Next
    BY <1>18, <1>1, <1>2, <1>3, <1>4, <1>5, <1>6, <1>7, <1>8, <1>9, <1>10,
       <1>11, <1>12, <1>13, <1>14, <1>15, <1>16, Zenon DEF Next, Step
<1> QED BY <1>17, <1>18

-----------------------------------------------------------------------------
(* The invariant is kept. *)

\* A running call has a number of its own and no result yet.
LEMMA BusyCall ==
    ASSUME Inv, NEW t \in Thread, Busy(t)
    PROVE  /\ cur[t] \in CallId
           /\ cur[t] <= calls
           /\ result[cur[t]] = "pending"
           /\ kind[cur[t]] \in Kind
<1>1. cur[t] \in 1 .. calls /\ calls \in 0 .. MaxCalls
    BY DEF Inv, CallInv, TypeOK
<1>2. cur[t] \in CallId
    BY <1>1, BoundAssumption DEF CallId
<1> QED BY <1>1, <1>2 DEF Inv, CallInv, TypeOK

\* Two threads are never inside methods of one connection.
LEMMA OneInside ==
    ASSUME Inv, NEW t \in Thread, NEW u \in Thread,
           Locked(t), Locked(u), Home[t] = Home[u]
    PROVE  t = u
BY HomeAssumption DEF Inv, LockInv

\* A step of the lock's holder that leaves the other connections alone does
\* not move the other threads.
LEMMA OtherPlaces ==
    ASSUME Inv, NEW t \in Thread, NEW u \in Thread, u # t, Locked(t),
           pc'[u] = pc[u], at'[u] = at[u], cur'[u] = cur[u],
           attempt'[u] = attempt[u], kind' = kind,
           \A c \in Conn \ {Home[t]} : open'[c] = open[c] /\ buf'[c] = buf[c]
    PROVE  PlaceOf(u)'
<1>1. PlaceOf(u)
    BY DEF Inv, PlaceInv
<1>2. CASE pc[u] = "body"
    <2>1. Home[u] \in Conn \ {Home[t]}
        BY <1>2, OneInside, HomeAssumption DEF Locked
    <2> QED BY <1>1, <1>2, <2>1 DEF PlaceOf, Writes, Size
<1>3. CASE pc[u] # "body"
    BY <1>1, <1>3 DEF PlaceOf, Writes
<1> QED BY <1>2, <1>3

\* Numbers and results.
LEMMA CallStep == Inv /\ [Next]_vars => CallInv'
<1> SUFFICES ASSUME Inv, [Next]_vars PROVE CallInv'
    OBVIOUS
<1> USE DEF Inv
<1>1. ASSUME NEW t \in Thread, NEW k \in Kind, Call(t, k) PROVE CallInv'
    BY <1>1, BoundAssumption DEF Call, Goto, Busy, db, CallInv, TypeOK, CallId
<1>2. ASSUME NEW t \in Thread, Acquire(t) PROVE CallInv'
    BY <1>2 DEF Acquire, Goto, Busy, db, bound, CallInv
<1>3. ASSUME NEW t \in Thread, Begin(t) PROVE CallInv'
    BY <1>3 DEF Begin, Goto, Busy, bound, CallInv
<1>4. ASSUME NEW t \in Thread, BeginFails(t) PROVE CallInv'
    <2>1. CASE /\ Goto(t, "recover")
               /\ UNCHANGED <<owner, result, cur, attempt, at>>
        BY <1>4, <2>1 DEF BeginFails, Leave, Goto, Busy, db, CallInv
    <2>2. CASE Leave(t, "raised")
        BY <1>4, <2>2 DEF BeginFails, Leave, Goto, Busy, db, CallInv, TypeOK
    <2> QED BY <1>4, <2>1, <2>2 DEF BeginFails, Operational
<1>5. ASSUME NEW t \in Thread, Statement(t) PROVE CallInv'
    BY <1>5 DEF Statement, Busy, bound, CallInv
<1>6. ASSUME NEW t \in Thread, Commit(t) PROVE CallInv'
    BY <1>6 DEF Commit, Leave, Goto, Busy, bound, CallInv, TypeOK
<1>7. ASSUME NEW t \in Thread, BodyOperational(t) PROVE CallInv'
    <2>1. CASE /\ Goto(t, "recover")
               /\ UNCHANGED <<owner, result, cur, attempt, at>>
        BY <1>7, <2>1 DEF BodyOperational, Leave, Goto, Busy, CallInv
    <2>2. CASE Leave(t, "raised")
        BY <1>7, <2>2 DEF BodyOperational, Leave, Goto, Busy, CallInv, TypeOK
    <2> QED BY <1>7, <2>1, <2>2 DEF BodyOperational, Operational
<1>8. ASSUME NEW t \in Thread, BodyOther(t) PROVE CallInv'
    BY <1>8 DEF BodyOther, Leave, Goto, Busy, db, CallInv, TypeOK
<1>9. ASSUME NEW t \in Thread, Recover(t) PROVE CallInv'
    BY <1>9 DEF Recover, Goto, Busy, CallInv
<1>10. ASSUME NEW t \in Thread, ReconnectFails(t) PROVE CallInv'
    BY <1>10 DEF ReconnectFails, Leave, Goto, Busy, CallInv, TypeOK
<1>11. ASSUME NEW t \in Thread, RaiseClosed(t) PROVE CallInv'
    BY <1>11 DEF RaiseClosed, Leave, Goto, Busy, db, bound, CallInv, TypeOK
<1>12. ASSUME NEW t \in Thread, Read(t) PROVE CallInv'
    BY <1>12 DEF Read, Leave, Goto, Busy, db, bound, CallInv, TypeOK
<1>13. ASSUME NEW t \in Thread, ReadFails(t) PROVE CallInv'
    <2>1. CASE /\ Goto(t, "recover")
               /\ UNCHANGED <<owner, result, cur, attempt, at>>
        BY <1>13, <2>1 DEF ReadFails, Leave, Goto, Busy, db, CallInv
    <2>2. CASE Leave(t, "raised")
        BY <1>13, <2>2 DEF ReadFails, Leave, Goto, Busy, db, CallInv, TypeOK
    <2> QED BY <1>13, <2>1, <2>2 DEF ReadFails, Operational
<1>14. ASSUME NEW t \in Thread, Schema(t) PROVE CallInv'
    BY <1>14 DEF Schema, Leave, Goto, Busy, bound, CallInv, TypeOK
<1>15. ASSUME NEW t \in Thread, SchemaFails(t) PROVE CallInv'
    BY <1>15 DEF SchemaFails, Leave, Goto, Busy, CallInv, TypeOK
<1>16. ASSUME NEW c \in Conn, Crash(c) PROVE CallInv'
    BY <1>16 DEF Crash, Busy, CallInv, TypeOK, CallId
<1>17. CASE UNCHANGED vars
    BY <1>17 DEF vars, CallInv, Busy
<1>18. CASE Next
    BY <1>18, <1>1, <1>2, <1>3, <1>4, <1>5, <1>6, <1>7, <1>8, <1>9, <1>10,
       <1>11, <1>12, <1>13, <1>14, <1>15, <1>16, Zenon
       DEF Next, Step
<1> QED BY <1>17, <1>18

\* The lock.
LEMMA LockStep == Inv /\ [Next]_vars => LockInv'
<1> SUFFICES ASSUME Inv, [Next]_vars PROVE LockInv'
    OBVIOUS
<1> USE DEF Inv
<1>1. ASSUME NEW t \in Thread, NEW k \in Kind, Call(t, k) PROVE LockInv'
    BY <1>1 DEF Call, Goto, db, LockInv, Locked
<1>2. ASSUME NEW t \in Thread, Acquire(t) PROVE LockInv'
    BY <1>2, NoThreadAssumption
       DEF Acquire, Goto, db, bound, LockInv, Locked, TypeOK, Entry
<1>3. ASSUME NEW t \in Thread, Begin(t) PROVE LockInv'
    BY <1>3 DEF Begin, Goto, bound, LockInv, Locked
<1>4. ASSUME NEW t \in Thread, BeginFails(t) PROVE LockInv'
    <2>1. CASE /\ Goto(t, "recover")
               /\ UNCHANGED <<owner, result, cur, attempt, at>>
        BY <1>4, <2>1 DEF BeginFails, Leave, Goto, db, LockInv, Locked
    <2>2. CASE Leave(t, "raised")
        BY <1>4, <2>2, NoThreadAssumption
           DEF BeginFails, Leave, Goto, db, LockInv, Locked, TypeOK
    <2> QED BY <1>4, <2>1, <2>2 DEF BeginFails, Operational
<1>5. ASSUME NEW t \in Thread, Statement(t) PROVE LockInv'
    BY <1>5 DEF Statement, bound, LockInv, Locked
<1>6. ASSUME NEW t \in Thread, Commit(t) PROVE LockInv'
    BY <1>6, NoThreadAssumption
       DEF Commit, Leave, Goto, bound, LockInv, Locked, TypeOK
<1>7. ASSUME NEW t \in Thread, BodyOperational(t) PROVE LockInv'
    <2>1. CASE /\ Goto(t, "recover")
               /\ UNCHANGED <<owner, result, cur, attempt, at>>
        BY <1>7, <2>1 DEF BodyOperational, Leave, Goto, LockInv, Locked
    <2>2. CASE Leave(t, "raised")
        BY <1>7, <2>2, NoThreadAssumption
           DEF BodyOperational, Leave, Goto, LockInv, Locked, TypeOK
    <2> QED BY <1>7, <2>1, <2>2 DEF BodyOperational, Operational
<1>8. ASSUME NEW t \in Thread, BodyOther(t) PROVE LockInv'
    BY <1>8, NoThreadAssumption
       DEF BodyOther, Leave, Goto, db, LockInv, Locked, TypeOK
<1>9. ASSUME NEW t \in Thread, Recover(t) PROVE LockInv'
    BY <1>9 DEF Recover, Goto, LockInv, Locked, Entry
<1>10. ASSUME NEW t \in Thread, ReconnectFails(t) PROVE LockInv'
    BY <1>10, NoThreadAssumption
       DEF ReconnectFails, Leave, Goto, LockInv, Locked, TypeOK
<1>11. ASSUME NEW t \in Thread, RaiseClosed(t) PROVE LockInv'
    BY <1>11, NoThreadAssumption
       DEF RaiseClosed, Leave, Goto, db, bound, LockInv, Locked, TypeOK
<1>12. ASSUME NEW t \in Thread, Read(t) PROVE LockInv'
    BY <1>12, NoThreadAssumption
       DEF Read, Leave, Goto, db, bound, LockInv, Locked, TypeOK
<1>13. ASSUME NEW t \in Thread, ReadFails(t) PROVE LockInv'
    <2>1. CASE /\ Goto(t, "recover")
               /\ UNCHANGED <<owner, result, cur, attempt, at>>
        BY <1>13, <2>1 DEF ReadFails, Leave, Goto, db, LockInv, Locked
    <2>2. CASE Leave(t, "raised")
        BY <1>13, <2>2, NoThreadAssumption
           DEF ReadFails, Leave, Goto, db, LockInv, Locked, TypeOK
    <2> QED BY <1>13, <2>1, <2>2 DEF ReadFails, Operational
<1>14. ASSUME NEW t \in Thread, Schema(t) PROVE LockInv'
    BY <1>14, NoThreadAssumption
       DEF Schema, Leave, Goto, bound, LockInv, Locked, TypeOK
<1>15. ASSUME NEW t \in Thread, SchemaFails(t) PROVE LockInv'
    BY <1>15, NoThreadAssumption
       DEF SchemaFails, Leave, Goto, LockInv, Locked, TypeOK
<1>16. ASSUME NEW c \in Conn, Crash(c) PROVE LockInv'
    BY <1>16, NoThreadAssumption DEF Crash, Busy, LockInv, Locked, TypeOK
<1>17. CASE UNCHANGED vars
    BY <1>17 DEF vars, LockInv, Locked
<1>18. CASE Next
    BY <1>18, <1>1, <1>2, <1>3, <1>4, <1>5, <1>6, <1>7, <1>8, <1>9, <1>10,
       <1>11, <1>12, <1>13, <1>14, <1>15, <1>16, Zenon
       DEF Next, Step
<1> QED BY <1>17, <1>18

\* Places, and the rows of a transaction in progress.
LEMMA PlaceStep == Inv /\ [Next]_vars => PlaceInv'
<1> SUFFICES ASSUME Inv, [Next]_vars PROVE PlaceInv'
    OBVIOUS
<1>a. TypeOK
    BY DEF Inv
<1>1. ASSUME NEW t \in Thread, NEW k \in Kind, Call(t, k) PROVE PlaceInv'
    BY <1>1 DEF Call, Inv, Goto, Busy, db, PlaceInv, PlaceOf, CallInv, TypeOK
<1>2. ASSUME NEW t \in Thread, Acquire(t) PROVE PlaceInv'
    BY <1>2
       DEF Acquire, Inv, Goto, Busy, db, bound, PlaceInv, PlaceOf, CallInv,
           TypeOK, Entry, Writes, CallId, Kind
<1>3. ASSUME NEW t \in Thread, Begin(t) PROVE PlaceInv'
    <2> SUFFICES ASSUME NEW u \in Thread PROVE PlaceOf(u)'
        BY DEF PlaceInv
    <2>1. CASE u = t
        <3>1. PlaceOf(t) /\ buf[Home[t]] = {}
            BY <1>3, HomeAssumption DEF Inv, PlaceInv, BufInv, Begin
        <3>2. at[t] = 0 /\ {cur[t]} \X (1 .. 0) = {}
            BY <1>3, <3>1 DEF PlaceOf, Begin
        <3> QED BY <1>3, <1>a, <2>1, <3>1, <3>2, HomeAssumption, SizeType
                DEF PlaceOf, Begin, Goto, TypeOK, Writes
    <2>2. CASE u # t
        BY <1>3, <1>a, <2>2, OtherPlaces DEF Begin, Goto, Locked, TypeOK
    <2> QED BY <2>1, <2>2
<1>4. ASSUME NEW t \in Thread, BeginFails(t) PROVE PlaceInv'
    <2> SUFFICES ASSUME NEW u \in Thread PROVE PlaceOf(u)'
        BY DEF PlaceInv
    <2>1. CASE u = t
        BY <1>4, <1>a, <2>1
           DEF Inv, PlaceInv, PlaceOf, BeginFails, Operational, Leave, Goto,
               TypeOK, Writes
    <2>2. CASE u # t
        BY <1>4, <1>a, <2>2, OtherPlaces
           DEF BeginFails, Operational, Leave, Goto, Locked, TypeOK, db
    <2> QED BY <2>1, <2>2
<1>5. ASSUME NEW t \in Thread, Statement(t) PROVE PlaceInv'
    <2> SUFFICES ASSUME NEW u \in Thread PROVE PlaceOf(u)'
        BY DEF PlaceInv
    <2>1. CASE u = t
        <3>1. PlaceOf(t)
            BY DEF Inv, PlaceInv
        <3>2. at[t] \in 0 .. 2 /\ at'[t] = at[t] + 1
            BY <1>5, <1>a DEF Statement, TypeOK
        <3>3. buf'[Home[t]] = {cur[t]} \X (1 .. at[t] + 1)
            BY <1>5, <1>a, <3>1, <3>2, HomeAssumption
               DEF PlaceOf, Statement, TypeOK
        <3> QED BY <1>5, <2>1, <3>1, <3>2, <3>3, SizeType
                DEF PlaceOf, Statement, Writes
    <2>2. CASE u # t
        BY <1>5, <1>a, <2>2, OtherPlaces DEF Statement, Locked
    <2> QED BY <2>1, <2>2
<1>6. ASSUME NEW t \in Thread, Commit(t) PROVE PlaceInv'
    BY <1>6
       DEF Commit, Inv, Leave, Close, Goto, bound, PlaceInv, PlaceOf, LockInv,
           Locked, TypeOK
<1>7. ASSUME NEW t \in Thread, BodyOperational(t) PROVE PlaceInv'
    <2> SUFFICES ASSUME NEW u \in Thread PROVE PlaceOf(u)'
        BY DEF PlaceInv
    <2>0. \A c \in Conn \ {Home[t]} : open'[c] = open[c] /\ buf'[c] = buf[c]
        BY <1>7, <1>a DEF BodyOperational, Close, TypeOK
    <2>1. CASE u = t
        BY <1>7, <1>a, <2>1
           DEF Inv, PlaceInv, PlaceOf, BodyOperational, Operational, Leave,
               Goto, TypeOK, Writes
    <2>2. CASE u # t
        BY <1>7, <1>a, <2>0, <2>2, OtherPlaces
           DEF BodyOperational, Operational, Leave, Goto, Locked, TypeOK
    <2> QED BY <2>1, <2>2
<1>8. ASSUME NEW t \in Thread, BodyOther(t) PROVE PlaceInv'
    BY <1>8 DEF BodyOther, Inv, Leave, Goto, db, PlaceInv, PlaceOf, TypeOK
<1>9. ASSUME NEW t \in Thread, Recover(t) PROVE PlaceInv'
    <2> SUFFICES ASSUME NEW u \in Thread PROVE PlaceOf(u)'
        BY DEF PlaceInv
    <2>0. \A c \in Conn \ {Home[t]} : open'[c] = open[c] /\ buf'[c] = buf[c]
        BY <1>9, <1>a DEF Recover, Close, TypeOK
    <2>1. CASE u = t
        <3>1. kind[cur[t]] \in {"write", "many", "read"}
            BY <1>9, BusyCall DEF Inv, PlaceInv, PlaceOf, Recover, Busy, Kind
        <3> QED BY <1>9, <1>a, <2>1, <3>1
                DEF PlaceOf, Recover, Goto, Entry, TypeOK, Writes
    <2>2. CASE u # t
        BY <1>9, <1>a, <2>0, <2>2, OtherPlaces DEF Recover, Goto, Locked
    <2> QED BY <2>1, <2>2
<1>10. ASSUME NEW t \in Thread, ReconnectFails(t) PROVE PlaceInv'
    BY <1>10
       DEF ReconnectFails, Inv, Leave, Close, Goto, PlaceInv, PlaceOf, LockInv,
           Locked, TypeOK
<1>11. ASSUME NEW t \in Thread, RaiseClosed(t) PROVE PlaceInv'
    BY <1>11
       DEF RaiseClosed, Inv, Leave, Goto, db, bound, PlaceInv, PlaceOf, TypeOK
<1>12. ASSUME NEW t \in Thread, Read(t) PROVE PlaceInv'
    BY <1>12 DEF Read, Inv, Leave, Goto, db, bound, PlaceInv, PlaceOf, TypeOK
<1>13. ASSUME NEW t \in Thread, ReadFails(t) PROVE PlaceInv'
    <2> SUFFICES ASSUME NEW u \in Thread PROVE PlaceOf(u)'
        BY DEF PlaceInv
    <2>1. CASE u = t
        BY <1>13, <1>a, <2>1
           DEF Inv, PlaceInv, PlaceOf, ReadFails, Operational, Leave, Goto,
               TypeOK
    <2>2. CASE u # t
        BY <1>13, <1>a, <2>2, OtherPlaces
           DEF ReadFails, Operational, Leave, Goto, Locked, TypeOK, db
    <2> QED BY <2>1, <2>2
<1>14. ASSUME NEW t \in Thread, Schema(t) PROVE PlaceInv'
    BY <1>14
       DEF Schema, Inv, Leave, Close, Goto, bound, PlaceInv, PlaceOf, CallInv,
           LockInv, Locked, TypeOK
<1>15. ASSUME NEW t \in Thread, SchemaFails(t) PROVE PlaceInv'
    <2> SUFFICES ASSUME NEW u \in Thread PROVE PlaceOf(u)'
        BY DEF PlaceInv
    <2>0. \A c \in Conn \ {Home[t]} : open'[c] = open[c] /\ buf'[c] = buf[c]
        BY <1>15, <1>a DEF SchemaFails, Close, TypeOK
    <2>1. CASE u = t
        BY <1>15, <1>a, <2>1 DEF PlaceOf, SchemaFails, Leave, Goto, TypeOK
    <2>2. CASE u # t
        BY <1>15, <1>a, <2>0, <2>2, OtherPlaces
           DEF SchemaFails, Leave, Goto, Locked
    <2> QED BY <2>1, <2>2
<1>16. ASSUME NEW c \in Conn, Crash(c) PROVE PlaceInv'
    BY <1>16 DEF Crash, Inv, Close, Busy, PlaceInv, PlaceOf
<1>17. CASE UNCHANGED vars
    BY <1>17 DEF vars, Inv, PlaceInv, PlaceOf
<1>18. CASE Next
    BY <1>18, <1>1, <1>2, <1>3, <1>4, <1>5, <1>6, <1>7, <1>8, <1>9, <1>10,
       <1>11, <1>12, <1>13, <1>14, <1>15, <1>16, Zenon
       DEF Next, Step
<1> QED BY <1>17, <1>18

\* Closing a connection's transaction keeps the invariant of the buffers, as
\* long as nothing happens on the other connections.
LEMMA ClosedBuffer ==
    ASSUME Inv, NEW c \in Conn, Close(c), kind' = kind,
           \A n \in CallId : result[n] = "raised" => result'[n] = "raised",
           \A d \in Conn \ {c} : owner'[d] = owner[d],
           \A t \in Thread : Home[t] # c => cur'[t] = cur[t]
    PROVE  BufInv'
<1>1. /\ open' = [open EXCEPT ![c] = FALSE]
      /\ buf' = [buf EXCEPT ![c] = {}]
    BY DEF Close
<1>2. /\ \A d \in Conn : ~open'[d] => buf'[d] = {}
      /\ \A d, e \in Conn : open'[d] /\ open'[e] => d = e
    BY <1>1 DEF Inv, BufInv, TypeOK
<1>3. ASSUME NEW d \in Conn, NEW r \in buf'[d]
      PROVE  \/ result'[r[1]] = "raised"
             \/ \E t \in Thread : /\ owner'[d] = t
                                  /\ cur'[t] = r[1]
                                  /\ Writes(kind'[r[1]])
    <2>1. d # c /\ r \in buf[d] /\ r[1] \in CallId
        BY <1>1, <1>3 DEF Inv, TypeOK, AllRows
    <2>2. CASE result[r[1]] = "raised"
        BY <2>1, <2>2
    <2>3. CASE result[r[1]] # "raised"
        <3>1. PICK t \in Thread :
                   owner[d] = t /\ cur[t] = r[1] /\ Writes(kind[r[1]])
            BY <2>1, <2>3 DEF Inv, BufInv
        <3>2. Home[t] = d
            BY <3>1 DEF Inv, LockInv
        <3> QED BY <2>1, <3>1, <3>2
    <2> QED BY <2>2, <2>3
<1> QED BY <1>2, <1>3 DEF BufInv, Writes

\* Raising leaves the rows of the call where they are, as rows of a call
\* that raised.
LEMMA RaisedBuffer ==
    ASSUME Inv, NEW t \in Thread, Locked(t), Leave(t, "raised"),
           UNCHANGED <<open, buf, kind>>
    PROVE  BufInv'
<1>1. cur[t] \in CallId /\ owner[Home[t]] = t
    BY BusyCall, HomeAssumption DEF Locked, Busy, Inv, LockInv
<1>2. ASSUME NEW d \in Conn, NEW r \in buf[d]
      PROVE  \/ result'[r[1]] = "raised"
             \/ \E u \in Thread : /\ owner'[d] = u
                                  /\ cur'[u] = r[1]
                                  /\ Writes(kind'[r[1]])
    <2>1. r[1] \in CallId
        BY <1>2 DEF Inv, TypeOK, AllRows
    <2>2. CASE result[r[1]] = "raised"
        BY <1>1, <2>1, <2>2 DEF Leave, Inv, TypeOK
    <2>3. CASE result[r[1]] # "raised"
        <3>1. PICK u \in Thread :
                   owner[d] = u /\ cur[u] = r[1] /\ Writes(kind[r[1]])
            BY <1>2, <2>3 DEF Inv, BufInv
        <3>2. CASE u = t
            BY <1>1, <3>1, <3>2 DEF Leave, Inv, TypeOK
        <3>3. CASE u # t
            BY <1>1, <3>1, <3>3, HomeAssumption DEF Leave, Inv, TypeOK
        <3> QED BY <3>2, <3>3
    <2> QED BY <2>2, <2>3
<1> QED BY <1>2 DEF BufInv, Writes, Inv

\* The buffers.
LEMMA BufStep == Inv /\ [Next]_vars => BufInv'
<1> SUFFICES ASSUME Inv, [Next]_vars PROVE BufInv'
    OBVIOUS
<1>a. TypeOK
    BY DEF Inv
<1>1. ASSUME NEW t \in Thread, NEW k \in Kind, Call(t, k) PROVE BufInv'
    BY <1>1 DEF Call, Inv, Busy, db, BufInv, CallInv, LockInv, Locked, TypeOK
<1>2. ASSUME NEW t \in Thread, Acquire(t) PROVE BufInv'
    BY <1>2, NoThreadAssumption DEF Acquire, Inv, db, bound, BufInv
<1>3. ASSUME NEW t \in Thread, Begin(t) PROVE BufInv'
    BY <1>3 DEF Begin, Inv, bound, BufInv
<1>4. ASSUME NEW t \in Thread, BeginFails(t) PROVE BufInv'
    <2>1. CASE /\ Goto(t, "recover")
               /\ UNCHANGED <<owner, result, cur, attempt, at>>
        BY <1>4, <2>1 DEF BeginFails, Inv, Leave, db, BufInv
    <2>2. CASE Leave(t, "raised")
        BY <1>4, <2>2
           DEF BeginFails, Inv, Leave, Busy, db, BufInv, CallInv, LockInv,
               Locked, TypeOK, CallId
    <2> QED BY <1>4, <2>1, <2>2 DEF BeginFails, Operational
<1>5. ASSUME NEW t \in Thread, Statement(t) PROVE BufInv'
    BY <1>5
       DEF Statement, Inv, bound, BufInv, PlaceInv, PlaceOf, LockInv, Locked
<1>6. ASSUME NEW t \in Thread, Commit(t) PROVE BufInv'
    BY <1>6
       DEF Commit, Inv, Leave, Close, Busy, bound, BufInv, CallInv, LockInv,
           TypeOK
<1>7. ASSUME NEW t \in Thread, BodyOperational(t) PROVE BufInv'
    <2>1. Locked(t) /\ cur[t] \in CallId /\ result[cur[t]] = "pending"
        BY <1>7, BusyCall DEF BodyOperational, Locked, Busy
    <2>2. CASE Close(Home[t])
        BY <1>7, <1>a, <2>1, <2>2, ClosedBuffer, HomeAssumption
           DEF BodyOperational, Operational, Leave, TypeOK
    <2>3. CASE UNCHANGED <<open, buf>> /\ Leave(t, "raised")
        BY <1>7, <2>1, <2>3, RaisedBuffer DEF BodyOperational
    <2>4. CASE UNCHANGED <<open, buf, owner, cur, result>>
        BY <1>7, <2>4 DEF BodyOperational, BufInv, Inv
    <2> QED BY <1>7, <2>2, <2>3, <2>4 DEF BodyOperational, Operational
<1>8. ASSUME NEW t \in Thread, BodyOther(t) PROVE BufInv'
    BY <1>8
       DEF BodyOther, Inv, Leave, Busy, db, BufInv, PlaceInv, PlaceOf, CallInv,
           TypeOK, CallId
<1>9. ASSUME NEW t \in Thread, Recover(t) PROVE BufInv'
    <2>1. CASE Close(Home[t])
        BY <1>9, <2>1, ClosedBuffer, HomeAssumption DEF Recover
    <2>2. CASE UNCHANGED <<open, buf>>
        BY <1>9, <2>2 DEF Recover, BufInv, Inv
    <2> QED BY <1>9, <2>1, <2>2 DEF Recover
<1>10. ASSUME NEW t \in Thread, ReconnectFails(t) PROVE BufInv'
    BY <1>10 DEF ReconnectFails, Inv, Leave, Close, BufInv, LockInv, TypeOK
<1>11. ASSUME NEW t \in Thread, RaiseClosed(t) PROVE BufInv'
    BY <1>11
       DEF RaiseClosed, Inv, Leave, Busy, db, bound, BufInv, CallInv, LockInv,
           Locked, TypeOK, CallId
<1>12. ASSUME NEW t \in Thread, Read(t) PROVE BufInv'
    BY <1>12
       DEF Read, Inv, Leave, Busy, db, bound, BufInv, PlaceInv, PlaceOf,
           CallInv, LockInv, Locked, Writes
<1>13. ASSUME NEW t \in Thread, ReadFails(t) PROVE BufInv'
    <2>1. CASE /\ Goto(t, "recover")
               /\ UNCHANGED <<owner, result, cur, attempt, at>>
        BY <1>13, <2>1 DEF ReadFails, Inv, Leave, db, BufInv
    <2>2. CASE Leave(t, "raised")
        BY <1>13, <2>2
           DEF ReadFails, Inv, Leave, db, BufInv, PlaceInv, PlaceOf, LockInv,
               Locked, Writes
    <2> QED BY <1>13, <2>1, <2>2 DEF ReadFails, Operational
<1>14. ASSUME NEW t \in Thread, Schema(t) PROVE BufInv'
    BY <1>14
       DEF Schema, Inv, Leave, Close, Busy, bound, BufInv, PlaceInv, PlaceOf,
           CallInv, TypeOK, Writes
<1>15. ASSUME NEW t \in Thread, SchemaFails(t) PROVE BufInv'
    <2>1. Locked(t) /\ cur[t] \in CallId /\ result[cur[t]] = "pending"
        BY <1>15, BusyCall DEF SchemaFails, Locked, Busy
    <2>2. CASE Close(Home[t])
        BY <1>15, <1>a, <2>1, <2>2, ClosedBuffer, HomeAssumption
           DEF SchemaFails, Leave
    <2>3. CASE UNCHANGED <<open, buf>>
        BY <1>15, <2>1, <2>3, RaisedBuffer DEF SchemaFails
    <2> QED BY <1>15, <2>2, <2>3 DEF SchemaFails
<1>16. ASSUME NEW c \in Conn, Crash(c) PROVE BufInv'
    <2>1. \A n \in CallId : result[n] = "raised" => result'[n] = "raised"
        BY <1>16 DEF Crash, Inv, CallInv
    <2>2. \A t \in Thread : Home[t] # c => cur'[t] = cur[t]
        BY <1>16 DEF Crash
    <2>3. \A d \in Conn \ {c} : owner'[d] = owner[d]
        BY <1>16, <1>a DEF Crash
    <2> QED BY <1>16, <2>1, <2>2, <2>3, ClosedBuffer DEF Crash
<1>17. CASE UNCHANGED vars
    BY <1>17 DEF vars, Inv, BufInv
<1>18. CASE Next
    BY <1>18, <1>1, <1>2, <1>3, <1>4, <1>5, <1>6, <1>7, <1>8, <1>9, <1>10,
       <1>11, <1>12, <1>13, <1>14, <1>15, <1>16, Zenon
       DEF Next, Step
<1> QED BY <1>17, <1>18

\* The rows a method other than a write finds in the buffer are of calls
\* that raised.
LEMMA LeftRows ==
    ASSUME Inv, NEW t \in Thread, Locked(t), ~Writes(kind[cur[t]]),
           NEW r \in buf[Home[t]]
    PROVE  result[r[1]] = "raised"
BY HomeAssumption DEF Inv, LockInv, BufInv

\* Committing what a connection has open keeps it disjoint from the rest.
LEMMA CommittedBuffer ==
    ASSUME Inv, NEW c \in Conn, Close(c), file' = file \cup buf[c]
    PROVE  NothingTwice'
<1>1. ASSUME NEW d \in Conn PROVE buf'[d] \cap file' = {}
    <2>1. CASE d = c
        BY <2>1 DEF Close, Inv, TypeOK
    <2>2. CASE d # c
        <3>1. buf'[d] = buf[d] /\ (buf[d] = {} \/ buf[c] = {})
            BY <2>2 DEF Close, Inv, TypeOK, BufInv
        <3>2. buf[d] \cap file = {}
            BY DEF Inv, FileInv, NothingTwice
        <3> QED BY <3>1, <3>2
    <2> QED BY <2>1, <2>2
<1> QED BY <1>1 DEF NothingTwice

\* The file.
LEMMA FileStep == Inv /\ [Next]_vars => FileInv'
<1> SUFFICES ASSUME Inv, [Next]_vars PROVE FileInv'
    OBVIOUS
<1>a. TypeOK
    BY DEF Inv
<1>b. \A r \in file : r[1] \in CallId /\ result[r[1]] \in {"done", "raised"}
    BY DEF Inv, TypeOK, AllRows, FileInv
<1>c. ASSUME NEW c \in Conn, NEW r \in buf[c] PROVE r[1] \in CallId
    BY <1>a, <1>c DEF TypeOK, AllRows
<1>1. ASSUME NEW t \in Thread, NEW k \in Kind, Call(t, k) PROVE FileInv'
    BY <1>1 DEF Call, Inv, db, FileInv, NothingTwice, CallInv, TypeOK
<1>2. ASSUME NEW t \in Thread, Acquire(t) PROVE FileInv'
    BY <1>2 DEF Acquire, Inv, db, bound, FileInv, NothingTwice
<1>3. ASSUME NEW t \in Thread, Begin(t) PROVE FileInv'
    BY <1>3 DEF Begin, Inv, bound, FileInv, NothingTwice
<1>4. ASSUME NEW t \in Thread, BeginFails(t) PROVE FileInv'
    <2>1. CASE /\ Goto(t, "recover")
               /\ UNCHANGED <<owner, result, cur, attempt, at>>
        BY <1>4, <2>1 DEF BeginFails, Inv, Leave, db, FileInv, NothingTwice
    <2>2. CASE Leave(t, "raised")
        BY <1>4, <2>2 DEF BeginFails, Inv, Leave, db, FileInv, NothingTwice
    <2> QED BY <1>4, <2>1, <2>2 DEF BeginFails, Operational
<1>5. ASSUME NEW t \in Thread, Statement(t) PROVE FileInv'
    <2>1. cur[t] \in CallId /\ result[cur[t]] = "pending"
        BY <1>5, BusyCall DEF Statement, Busy
    <2>2. <<cur[t], at[t] + 1>> \notin file
        BY <1>b, <2>1
    <2> QED BY <1>5, <1>a, <2>2
               DEF Statement, Inv, FileInv, NothingTwice, TypeOK
<1>6. ASSUME NEW t \in Thread, Commit(t) PROVE FileInv'
    <2>1. cur[t] \in CallId /\ result[cur[t]] = "pending"
        BY <1>6, BusyCall DEF Commit, Busy
    <2>2. \A r \in buf[Home[t]] : r[1] = cur[t]
        BY <1>6 DEF Commit, Inv, PlaceInv, PlaceOf
    <2>3. \A r \in file' : result'[r[1]] \in {"done", "raised"}
        BY <1>6, <1>a, <1>b, <2>1, <2>2 DEF Commit, Leave, TypeOK
    <2>4. NothingTwice'
        BY <1>6, CommittedBuffer, HomeAssumption DEF Commit
    <2> QED BY <2>3, <2>4 DEF FileInv
<1>7. ASSUME NEW t \in Thread, BodyOperational(t) PROVE FileInv'
    <2>1. cur[t] \in CallId /\ result[cur[t]] = "pending"
        BY <1>7, BusyCall DEF BodyOperational, Busy
    <2>2. \A r \in file' : result'[r[1]] \in {"done", "raised"}
        BY <1>7, <1>a, <1>b, <2>1
           DEF BodyOperational, Operational, Leave, TypeOK
    <2>3. NothingTwice'
        BY <1>7, <1>a
           DEF BodyOperational, Close, Inv, FileInv, NothingTwice, TypeOK
    <2> QED BY <2>2, <2>3 DEF FileInv
<1>8. ASSUME NEW t \in Thread, BodyOther(t) PROVE FileInv'
    BY <1>8 DEF BodyOther, Inv, Leave, db, FileInv, NothingTwice
<1>9. ASSUME NEW t \in Thread, Recover(t) PROVE FileInv'
    BY <1>9 DEF Recover, Inv, Close, FileInv, NothingTwice, TypeOK
<1>10. ASSUME NEW t \in Thread, ReconnectFails(t) PROVE FileInv'
    BY <1>10 DEF ReconnectFails, Inv, Leave, Close, FileInv, NothingTwice
<1>11. ASSUME NEW t \in Thread, RaiseClosed(t) PROVE FileInv'
    BY <1>11 DEF RaiseClosed, Inv, Leave, db, bound, FileInv, NothingTwice
<1>12. ASSUME NEW t \in Thread, Read(t) PROVE FileInv'
    BY <1>12 DEF Read, Inv, Leave, db, bound, FileInv, NothingTwice
<1>13. ASSUME NEW t \in Thread, ReadFails(t) PROVE FileInv'
    <2>1. CASE /\ Goto(t, "recover")
               /\ UNCHANGED <<owner, result, cur, attempt, at>>
        BY <1>13, <2>1 DEF ReadFails, Inv, Leave, db, FileInv, NothingTwice
    <2>2. CASE Leave(t, "raised")
        BY <1>13, <2>2 DEF ReadFails, Inv, Leave, db, FileInv, NothingTwice
    <2> QED BY <1>13, <2>1, <2>2 DEF ReadFails, Operational
<1>14. ASSUME NEW t \in Thread, Schema(t) PROVE FileInv'
    <2>1. Locked(t) /\ cur[t] \in CallId /\ result[cur[t]] = "pending"
        BY <1>14, BusyCall DEF Schema, Locked, Busy
    <2>2. \A r \in buf[Home[t]] : r[1] \in CallId /\ result[r[1]] = "raised"
        BY <1>14, <1>c, <2>1, LeftRows, HomeAssumption
           DEF Schema, Inv, PlaceInv, PlaceOf, Writes
    <2>3. \A r \in file' : result'[r[1]] \in {"done", "raised"}
        BY <1>14, <1>a, <1>b, <2>1, <2>2 DEF Schema, Leave
    <2>4. NothingTwice'
        BY <1>14, CommittedBuffer, HomeAssumption DEF Schema
    <2> QED BY <2>3, <2>4 DEF FileInv
<1>15. ASSUME NEW t \in Thread, SchemaFails(t) PROVE FileInv'
    <2>1. Locked(t) /\ cur[t] \in CallId /\ result[cur[t]] = "pending"
        BY <1>15, BusyCall DEF SchemaFails, Locked, Busy
    <2>2. \A r \in buf[Home[t]] : r[1] \in CallId /\ result[r[1]] = "raised"
        BY <1>15, <1>c, <2>1, LeftRows, HomeAssumption
           DEF SchemaFails, Inv, PlaceInv, PlaceOf, Writes
    <2>3. \A r \in file' : result'[r[1]] \in {"done", "raised"}
        BY <1>15, <1>a, <1>b, <2>1, <2>2 DEF SchemaFails, Leave
    <2>4. NothingTwice'
        BY <1>15, CommittedBuffer, HomeAssumption
           DEF SchemaFails, Inv, FileInv, NothingTwice
    <2> QED BY <2>3, <2>4 DEF FileInv
<1>16. ASSUME NEW c \in Conn, Crash(c) PROVE FileInv'
    <2>1. \A n \in CallId :
              result[n] \in {"done", "raised"} => result'[n] = result[n]
        BY <1>16 DEF Crash, Inv, CallInv
    <2>2. \A r \in file' : result'[r[1]] \in {"done", "raised"}
        BY <1>16, <1>b, <2>1 DEF Crash
    <2>3. NothingTwice'
        BY <1>16, <1>a DEF Crash, Close, Inv, FileInv, NothingTwice
    <2> QED BY <2>2, <2>3 DEF FileInv
<1>17. CASE UNCHANGED vars
    BY <1>17 DEF vars, Inv, FileInv, NothingTwice
<1>18. CASE Next
    BY <1>18, <1>1, <1>2, <1>3, <1>4, <1>5, <1>6, <1>7, <1>8, <1>9, <1>10,
       <1>11, <1>12, <1>13, <1>14, <1>15, <1>16, Zenon
       DEF Next, Step
<1> QED BY <1>17, <1>18

\* What was reported done is written.
LEMMA DoneStep == Inv /\ [Next]_vars => DoneIsWritten'
<1> SUFFICES ASSUME Inv, [Next]_vars PROVE DoneIsWritten'
    OBVIOUS
<1> USE DEF Inv
<1>1. ASSUME NEW t \in Thread, NEW k \in Kind, Call(t, k) PROVE DoneIsWritten'
    BY <1>1 DEF Call, db, DoneIsWritten, Rows, RowsOf, TypeOK
<1>2. ASSUME NEW t \in Thread, Acquire(t) PROVE DoneIsWritten'
    BY <1>2 DEF Acquire, db, bound, DoneIsWritten, Rows, RowsOf
<1>3. ASSUME NEW t \in Thread, Begin(t) PROVE DoneIsWritten'
    BY <1>3 DEF Begin, bound, DoneIsWritten, Rows, RowsOf
<1>4. ASSUME NEW t \in Thread, BeginFails(t) PROVE DoneIsWritten'
    <2>1. CASE /\ Goto(t, "recover")
               /\ UNCHANGED <<owner, result, cur, attempt, at>>
        BY <1>4, <2>1 DEF BeginFails, Leave, db, DoneIsWritten, Rows, RowsOf
    <2>2. CASE Leave(t, "raised")
        BY <1>4, <2>2 DEF BeginFails, Leave, db, DoneIsWritten, Rows, RowsOf
    <2> QED BY <1>4, <2>1, <2>2 DEF BeginFails, Operational
<1>5. ASSUME NEW t \in Thread, Statement(t) PROVE DoneIsWritten'
    BY <1>5 DEF Statement, bound, DoneIsWritten, Rows, RowsOf
<1>6. ASSUME NEW t \in Thread, Commit(t) PROVE DoneIsWritten'
    BY <1>6 DEF Commit, Leave, bound, DoneIsWritten, Rows, RowsOf, PlaceInv, PlaceOf
<1>7. ASSUME NEW t \in Thread, BodyOperational(t) PROVE DoneIsWritten'
    <2>1. CASE /\ Goto(t, "recover")
               /\ UNCHANGED <<owner, result, cur, attempt, at>>
        BY <1>7, <2>1 DEF BodyOperational, Leave, DoneIsWritten, Rows, RowsOf
    <2>2. CASE Leave(t, "raised")
        BY <1>7, <2>2 DEF BodyOperational, Leave, DoneIsWritten, Rows, RowsOf
    <2> QED BY <1>7, <2>1, <2>2 DEF BodyOperational, Operational
<1>8. ASSUME NEW t \in Thread, BodyOther(t) PROVE DoneIsWritten'
    BY <1>8 DEF BodyOther, Leave, db, DoneIsWritten, Rows, RowsOf
<1>9. ASSUME NEW t \in Thread, Recover(t) PROVE DoneIsWritten'
    BY <1>9 DEF Recover, DoneIsWritten, Rows, RowsOf
<1>10. ASSUME NEW t \in Thread, ReconnectFails(t) PROVE DoneIsWritten'
    BY <1>10 DEF ReconnectFails, Leave, DoneIsWritten, Rows, RowsOf
<1>11. ASSUME NEW t \in Thread, RaiseClosed(t) PROVE DoneIsWritten'
    BY <1>11 DEF RaiseClosed, Leave, db, bound, DoneIsWritten, Rows, RowsOf
<1>12. ASSUME NEW t \in Thread, Read(t) PROVE DoneIsWritten'
    BY <1>12
       DEF Read, Leave, db, bound, DoneIsWritten, Rows, RowsOf, Size, PlaceInv, PlaceOf
<1>13. ASSUME NEW t \in Thread, ReadFails(t) PROVE DoneIsWritten'
    <2>1. CASE /\ Goto(t, "recover")
               /\ UNCHANGED <<owner, result, cur, attempt, at>>
        BY <1>13, <2>1 DEF ReadFails, Leave, db, DoneIsWritten, Rows, RowsOf
    <2>2. CASE Leave(t, "raised")
        BY <1>13, <2>2 DEF ReadFails, Leave, db, DoneIsWritten, Rows, RowsOf
    <2> QED BY <1>13, <2>1, <2>2 DEF ReadFails, Operational
<1>14. ASSUME NEW t \in Thread, Schema(t) PROVE DoneIsWritten'
    BY <1>14
       DEF Schema, Leave, bound, DoneIsWritten, Rows, RowsOf, Size, PlaceInv, PlaceOf
<1>15. ASSUME NEW t \in Thread, SchemaFails(t) PROVE DoneIsWritten'
    BY <1>15 DEF SchemaFails, Leave, DoneIsWritten, Rows, RowsOf
<1>16. ASSUME NEW c \in Conn, Crash(c) PROVE DoneIsWritten'
    BY <1>16 DEF Crash, DoneIsWritten, Rows, RowsOf
<1>17. CASE UNCHANGED vars
    BY <1>17 DEF vars, DoneIsWritten, Rows, RowsOf
<1>18. CASE Next
    BY <1>18, <1>1, <1>2, <1>3, <1>4, <1>5, <1>6, <1>7, <1>8, <1>9, <1>10,
       <1>11, <1>12, <1>13, <1>14, <1>15, <1>16, Zenon
       DEF Next, Step
<1> QED BY <1>17, <1>18

\* What reads returned.
LEMMA DirtyStep == Inv /\ [Next]_vars => DirtyReadsAreOfRaisedCalls'
<1> SUFFICES ASSUME Inv, [Next]_vars PROVE DirtyReadsAreOfRaisedCalls'
    OBVIOUS
<1>a. TypeOK
    BY DEF Inv
<1>1. ASSUME NEW t \in Thread, NEW k \in Kind, Call(t, k)
      PROVE DirtyReadsAreOfRaisedCalls'
    BY <1>1 DEF Call, Inv, db, DirtyReadsAreOfRaisedCalls, CallInv, TypeOK
<1>2. ASSUME NEW t \in Thread, Acquire(t) PROVE DirtyReadsAreOfRaisedCalls'
    BY <1>2 DEF Acquire, Inv, db, bound, DirtyReadsAreOfRaisedCalls
<1>3. ASSUME NEW t \in Thread, Begin(t) PROVE DirtyReadsAreOfRaisedCalls'
    BY <1>3 DEF Begin, Inv, bound, DirtyReadsAreOfRaisedCalls
<1>4. ASSUME NEW t \in Thread, BeginFails(t) PROVE DirtyReadsAreOfRaisedCalls'
    <2>1. CASE /\ Goto(t, "recover")
               /\ UNCHANGED <<owner, result, cur, attempt, at>>
        BY <1>4, <2>1
           DEF BeginFails, Inv, Leave, db, DirtyReadsAreOfRaisedCalls
    <2>2. CASE Leave(t, "raised")
        BY <1>4, <2>2
           DEF BeginFails, Inv, Leave, db, DirtyReadsAreOfRaisedCalls
    <2> QED BY <1>4, <2>1, <2>2 DEF BeginFails, Operational
<1>5. ASSUME NEW t \in Thread, Statement(t) PROVE DirtyReadsAreOfRaisedCalls'
    BY <1>5 DEF Statement, Inv, bound, DirtyReadsAreOfRaisedCalls
<1>6. ASSUME NEW t \in Thread, Commit(t) PROVE DirtyReadsAreOfRaisedCalls'
    BY <1>6
       DEF Commit, Inv, Leave, Busy, bound, DirtyReadsAreOfRaisedCalls, CallInv
<1>7. ASSUME NEW t \in Thread, BodyOperational(t)
      PROVE DirtyReadsAreOfRaisedCalls'
    <2>1. CASE /\ Goto(t, "recover")
               /\ UNCHANGED <<owner, result, cur, attempt, at>>
        BY <1>7, <2>1
           DEF BodyOperational, Inv, Leave, DirtyReadsAreOfRaisedCalls
    <2>2. CASE Leave(t, "raised")
        BY <1>7, <2>2
           DEF BodyOperational, Inv, Leave, DirtyReadsAreOfRaisedCalls
    <2> QED BY <1>7, <2>1, <2>2 DEF BodyOperational, Operational
<1>8. ASSUME NEW t \in Thread, BodyOther(t) PROVE DirtyReadsAreOfRaisedCalls'
    BY <1>8 DEF BodyOther, Inv, Leave, db, DirtyReadsAreOfRaisedCalls
<1>9. ASSUME NEW t \in Thread, Recover(t) PROVE DirtyReadsAreOfRaisedCalls'
    BY <1>9 DEF Recover, Inv, DirtyReadsAreOfRaisedCalls
<1>10. ASSUME NEW t \in Thread, ReconnectFails(t)
      PROVE DirtyReadsAreOfRaisedCalls'
    BY <1>10 DEF ReconnectFails, Inv, Leave, DirtyReadsAreOfRaisedCalls
<1>11. ASSUME NEW t \in Thread, RaiseClosed(t)
      PROVE DirtyReadsAreOfRaisedCalls'
    BY <1>11 DEF RaiseClosed, Inv, Leave, db, bound, DirtyReadsAreOfRaisedCalls
<1>12. ASSUME NEW t \in Thread, Read(t) PROVE DirtyReadsAreOfRaisedCalls'
    <2>1. Locked(t) /\ cur[t] \in CallId /\ result[cur[t]] = "pending"
        BY <1>12, BusyCall DEF Read, Locked, Busy
    <2>2. \A r \in buf[Home[t]] : r[1] \in CallId /\ result[r[1]] = "raised"
        BY <1>12, <1>a, <2>1, LeftRows, HomeAssumption
           DEF Read, Inv, PlaceInv, PlaceOf, Writes, TypeOK, AllRows
    <2>3. \A n \in CallId : result[n] = "raised" => result'[n] = "raised"
        BY <1>12, <1>a, <2>1 DEF Read, Leave
    <2>4. \A u \in Thread : \A r \in dirty[u] :
              r[1] \in CallId /\ result[r[1]] = "raised"
        BY <1>a DEF Inv, DirtyReadsAreOfRaisedCalls, TypeOK, AllRows
    <2> QED BY <1>12, <1>a, <2>2, <2>3, <2>4
               DEF Read, DirtyReadsAreOfRaisedCalls, TypeOK
<1>13. ASSUME NEW t \in Thread, ReadFails(t) PROVE DirtyReadsAreOfRaisedCalls'
    <2>1. CASE /\ Goto(t, "recover")
               /\ UNCHANGED <<owner, result, cur, attempt, at>>
        BY <1>13, <2>1
           DEF ReadFails, Inv, Leave, db, DirtyReadsAreOfRaisedCalls
    <2>2. CASE Leave(t, "raised")
        BY <1>13, <2>2
           DEF ReadFails, Inv, Leave, db, DirtyReadsAreOfRaisedCalls
    <2> QED BY <1>13, <2>1, <2>2 DEF ReadFails, Operational
<1>14. ASSUME NEW t \in Thread, Schema(t) PROVE DirtyReadsAreOfRaisedCalls'
    BY <1>14
       DEF Schema, Inv, Leave, Busy, bound, DirtyReadsAreOfRaisedCalls, CallInv
<1>15. ASSUME NEW t \in Thread, SchemaFails(t)
      PROVE DirtyReadsAreOfRaisedCalls'
    BY <1>15 DEF SchemaFails, Inv, Leave, DirtyReadsAreOfRaisedCalls
<1>16. ASSUME NEW c \in Conn, Crash(c) PROVE DirtyReadsAreOfRaisedCalls'
    <2>1. \A n \in CallId : result[n] = "raised" => result'[n] = "raised"
        BY <1>16 DEF Crash, Inv, CallInv
    <2>2. \A u \in Thread : \A r \in dirty[u] :
              r[1] \in CallId /\ result[r[1]] = "raised"
        BY <1>a DEF Inv, DirtyReadsAreOfRaisedCalls, TypeOK, AllRows
    <2> QED BY <1>16, <2>1, <2>2 DEF Crash, DirtyReadsAreOfRaisedCalls
<1>17. CASE UNCHANGED vars
    BY <1>17 DEF vars, Inv, DirtyReadsAreOfRaisedCalls
<1>18. CASE Next
    BY <1>18, <1>1, <1>2, <1>3, <1>4, <1>5, <1>6, <1>7, <1>8, <1>9, <1>10,
       <1>11, <1>12, <1>13, <1>14, <1>15, <1>16, Zenon
       DEF Next, Step
<1> QED BY <1>17, <1>18

LEMMA InitInv == Init => Inv
<1> SUFFICES ASSUME Init PROVE Inv
    OBVIOUS
<1>1. TypeOK
    BY InitTypeOK
<1>2. LockInv
    BY NoThreadAssumption DEF Init, LockInv, Locked
<1>3. CallInv /\ PlaceInv /\ DirtyReadsAreOfRaisedCalls
    BY DEF Init, CallInv, PlaceInv, PlaceOf, Busy, DirtyReadsAreOfRaisedCalls
<1>4. BufInv /\ FileInv /\ DoneIsWritten
    BY DEF Init, BufInv, FileInv, NothingTwice, DoneIsWritten
<1> QED BY <1>1, <1>2, <1>3, <1>4 DEF Inv

\* The inductive invariant holds in every reachable state.
THEOREM Invariance == Spec => []Inv
<1>1. Init => Inv
    BY InitInv
<1>2. Inv /\ [Next]_vars => Inv'
    BY NextTypeOK, CallStep, LockStep, PlaceStep, BufStep, FileStep, DoneStep,
       DirtyStep DEF Inv
<1> QED BY <1>1, <1>2, PTL DEF Spec

-----------------------------------------------------------------------------
(* The properties. *)

\* The variables keep their types for every number of threads and errors.
THEOREM TypeCorrect == Spec => []TypeOK
<1>1. Inv => TypeOK
    BY DEF Inv
<1> QED BY <1>1, Invariance, PTL

\* A write that returned is in the file with all its statements
\* (db.py:110-170), whatever happened before it returned and afterwards.
THEOREM DoneWritten == Spec => []DoneIsWritten
<1>1. Inv => DoneIsWritten
    BY DEF Inv
<1> QED BY <1>1, Invariance, PTL

\* Only a call that raised can leave a transaction open behind it.
THEOREM DanglingAfterRaise == Spec => []DanglingOnlyAfterRaise
<1>1. Inv => DanglingOnlyAfterRaise
    BY NoThreadAssumption DEF Inv, BufInv, DanglingOnlyAfterRaise
<1> QED BY <1>1, Invariance, PTL

\* A read returns no row of a call that is still running.
THEOREM DirtyReadsOfRaised == Spec => []DirtyReadsAreOfRaisedCalls
<1>1. Inv => DirtyReadsAreOfRaisedCalls
    BY DEF Inv
<1> QED BY <1>1, Invariance, PTL

\* The retry repeats nothing that was committed.
THEOREM RetryWritesNothingTwice == Spec => []NothingTwice
<1>1. Inv => NothingTwice
    BY DEF Inv, FileInv
<1> QED BY <1>1, Invariance, PTL

-----------------------------------------------------------------------------
(* The refinement of AtomicCalls: what a transaction holds is of one call.   *)

OneCallEach == \A c \in Conn : \A r, q \in buf[c] : r[1] = q[1] /\ r \in Rows(r[1])

\* A step that takes no number and executes no statement writes no rows.
LEMMA NothingBuffered ==
    ASSUME OneCallEach, kind' = kind, \A c \in Conn : buf'[c] \subseteq buf[c]
    PROVE  OneCallEach'
BY DEF OneCallEach, Rows, RowsOf

LEMMA ClosedIsLess ==
    ASSUME TypeOK, NEW c \in Conn, Close(c)
    PROVE  \A d \in Conn : buf'[d] \subseteq buf[d]
BY DEF Close, TypeOK

LEMMA OneCallStep == Inv /\ OneCallEach /\ [Next]_vars => OneCallEach'
<1> SUFFICES ASSUME Inv, OneCallEach, [Next]_vars PROVE OneCallEach'
    OBVIOUS
<1>a. TypeOK /\ \A t \in Thread : Home[t] \in Conn
    BY HomeAssumption DEF Inv
<1>1. ASSUME NEW t \in Thread, NEW k \in Kind, Call(t, k) PROVE OneCallEach'
    <2>1. buf' = buf /\ kind' = [kind EXCEPT ![calls + 1] = k]
        BY <1>1 DEF Call, db
    <2>2. ASSUME NEW c \in Conn, NEW r \in buf[c]
          PROVE  r[1] \in CallId /\ r[1] # calls + 1
        <3>1. r[1] \in CallId
            BY <1>a, <2>2 DEF TypeOK, AllRows
        <3>2. CASE result[r[1]] = "raised"
            BY <1>a, <3>1, <3>2, BoundAssumption DEF Inv, CallInv, TypeOK, CallId
        <3>3. CASE result[r[1]] # "raised"
            <4>1. PICK u \in Thread : owner[c] = u /\ cur[u] = r[1]
                BY <2>2, <3>3 DEF Inv, BufInv
            <4>2. Busy(u)
                BY <4>1 DEF Inv, LockInv, Locked, Busy
            <4> QED BY <1>a, <3>1, <4>1, <4>2 DEF Inv, CallInv, TypeOK
        <3> QED BY <3>2, <3>3
    <2>3. \A c \in Conn : \A r \in buf[c] : kind'[r[1]] = kind[r[1]]
        BY <1>a, <2>1, <2>2 DEF TypeOK
    <2> QED BY <2>1, <2>3 DEF OneCallEach, Rows, RowsOf
<1>2. ASSUME NEW t \in Thread, Statement(t) PROVE OneCallEach'
    <2>1. /\ buf' = [buf EXCEPT ![Home[t]] = @ \cup {<<cur[t], at[t] + 1>>}]
          /\ kind' = kind /\ at[t] < Size(kind[cur[t]])
        BY <1>2 DEF Statement
    <2>2. buf[Home[t]] = {cur[t]} \X (1 .. at[t]) /\ at[t] \in Nat
        BY <1>2, <1>a DEF Statement, Inv, PlaceInv, PlaceOf, TypeOK
    <2>3. PICK size : size = Size(kind[cur[t]])
        OBVIOUS
    <2>4. size \in Nat /\ at[t] + 1 \in 1 .. size
        BY <2>1, <2>2, <2>3, SizeType
    <2>5. \A r \in buf'[Home[t]] : r[1] = cur[t] /\ r \in {cur[t]} \X (1 .. size)
        BY <1>a, <2>1, <2>2, <2>4 DEF TypeOK
    <2>6. ASSUME NEW c \in Conn, NEW r \in buf'[c], NEW q \in buf'[c]
          PROVE  r[1] = q[1] /\ r \in Rows(r[1])'
        <3>1. CASE c = Home[t]
            BY <2>1, <2>3, <2>5, <2>6, <3>1 DEF Rows, RowsOf
        <3>2. CASE c # Home[t]
            BY <1>a, <2>1, <2>6, <3>2 DEF OneCallEach, Rows, RowsOf, TypeOK
        <3> QED BY <3>1, <3>2
    <2> QED BY <2>6 DEF OneCallEach
<1>3. ASSUME NEW t \in Thread,
             \/ Acquire(t) \/ Begin(t) \/ BeginFails(t) \/ BodyOther(t)
             \/ RaiseClosed(t) \/ Read(t) \/ ReadFails(t)
      PROVE  OneCallEach'
    <2>1. kind' = kind /\ buf' = buf
        BY <1>3 DEF Acquire, Begin, BeginFails, BodyOther, RaiseClosed, Read, ReadFails, db
    <2> QED BY <2>1, NothingBuffered
<1>4. ASSUME NEW t \in Thread,
             \/ Commit(t) \/ BodyOperational(t) \/ Recover(t) \/ ReconnectFails(t)
             \/ Schema(t) \/ SchemaFails(t)
      PROVE  OneCallEach'
    <2>1. kind' = kind /\ (buf' = buf \/ Close(Home[t]))
        BY <1>4 DEF Commit, BodyOperational, Recover, ReconnectFails, Schema, SchemaFails
    <2> QED BY <1>a, <2>1, NothingBuffered, ClosedIsLess
<1>5. ASSUME NEW c \in Conn, Crash(c) PROVE OneCallEach'
    BY <1>a, <1>5, NothingBuffered, ClosedIsLess DEF Crash
<1>6. CASE UNCHANGED vars
    BY <1>6, NothingBuffered DEF vars
<1> QED BY <1>1, <1>2, <1>3, <1>4, <1>5, <1>6 DEF Next, Step

\* Leaving a method answers its call.
LEMMA LeaveAnswers ==
    ASSUME Inv, NEW t \in Thread, Busy(t), NEW outcome, Leave(t, outcome), kind' = kind
    PROVE  cur[t] \in CallId /\ Atomic!Answer(cur[t], outcome)
BY BusyCall DEF Leave, Atomic!Answer

\* A step that leaves the file alone and answers no call, or raises.
LEMMA StepRaises ==
    ASSUME Inv, NEW t \in Thread, Busy(t), kind' = kind, file' = file,
           result' = result \/ Leave(t, "raised")
    PROVE  [Atomic!CallsNext]_(Atomic!callVars)
<1>1. CASE result' = result
    BY <1>1 DEF Atomic!callVars
<1>2. CASE Leave(t, "raised")
    <2>1. cur[t] \in CallId /\ Atomic!Raise(cur[t])
        BY <1>2, LeaveAnswers DEF Atomic!Raise
    <2> QED BY <2>1 DEF Atomic!CallsNext
<1> QED BY <1>1, <1>2

\* init_schema commits rows of a call that raised, or none.
LEMMA StepSweeps ==
    ASSUME Inv, OneCallEach, NEW t \in Thread, pc[t] = "schema", kind' = kind,
           file' = file \cup buf[Home[t]],
           NEW outcome \in {"done", "raised"}, Leave(t, outcome)
    PROVE  Atomic!CallsNext
<1>1. Busy(t) /\ Locked(t) /\ kind[cur[t]] = "schema" /\ Home[t] \in Conn
    BY HomeAssumption DEF Busy, Locked, Inv, PlaceInv, PlaceOf
<1>2. cur[t] \in CallId /\ Atomic!Answer(cur[t], outcome)
    BY <1>1, LeaveAnswers
<1>3. CASE buf[Home[t]] = {}
    <2>1. file' = file
        BY <1>3
    <2>2. CASE outcome = "done"
        <3>1. RowsOf(cur[t], kind[cur[t]]) = {}
            BY <1>1 DEF RowsOf, Size
        <3> QED BY <1>2, <2>1, <2>2, <3>1 DEF Atomic!CallsNext, Atomic!Return
    <2>3. CASE outcome = "raised"
        BY <1>2, <2>1, <2>3 DEF Atomic!CallsNext, Atomic!Raise
    <2> QED BY <2>2, <2>3
<1>4. CASE buf[Home[t]] # {}
    <2>1. PICK r \in buf[Home[t]] : TRUE
        BY <1>4
    <2>2. PICK m : m = r[1]
        OBVIOUS
    <2>3. m \in CallId /\ result[m] = "raised"
        BY <1>1, <2>1, <2>2, LeftRows DEF Writes, Inv, TypeOK, AllRows
    <2>4. buf[Home[t]] \in SUBSET RowsOf(m, kind[m])
        BY <1>1, <2>1, <2>2 DEF OneCallEach, Rows
    <2>5. buf[Home[t]] \intersect file = {}
        BY <1>1 DEF Inv, FileInv, NothingTwice
    <2>6. Atomic!ComeToLight(cur[t])
        BY <1>1, <1>2, <2>3, <2>4, <2>5 DEF Atomic!ComeToLight
    <2> QED BY <1>2, <2>6 DEF Atomic!CallsNext
<1> QED BY <1>3, <1>4

\* Every step is one of AtomicCalls, or a stutter.
LEMMA AtomicStep ==
    Inv /\ OneCallEach /\ [Next]_vars => [Atomic!CallsNext]_(Atomic!callVars)
<1> SUFFICES ASSUME Inv, OneCallEach, [Next]_vars
             PROVE  [Atomic!CallsNext]_(Atomic!callVars)
    OBVIOUS
<1>a. TypeOK
    BY DEF Inv
<1>1. ASSUME NEW t \in Thread, NEW k \in Kind, Call(t, k)
      PROVE  Atomic!CallsNext
    <2>1. PICK n : n = calls + 1
        OBVIOUS
    <2>2. n \in CallId /\ n > calls
        BY <1>1, <1>a, <2>1, BoundAssumption DEF Call, TypeOK, CallId
    <2>3. result[n] = "none"
        BY <2>2 DEF Inv, CallInv
    <2>4. Atomic!Ask(n, k)
        BY <1>1, <2>1, <2>3 DEF Call, db, Atomic!Ask
    <2> QED BY <2>2, <2>4 DEF Atomic!CallsNext
<1>2. ASSUME NEW t \in Thread,
             Acquire(t) \/ Begin(t) \/ Statement(t) \/ Recover(t)
      PROVE  UNCHANGED Atomic!callVars
    BY <1>2 DEF Acquire, Begin, Statement, Recover, db, Atomic!callVars
<1>3. ASSUME NEW t \in Thread,
             \/ BeginFails(t) \/ BodyOperational(t) \/ BodyOther(t) \/ ReconnectFails(t)
             \/ RaiseClosed(t) \/ ReadFails(t)
      PROVE  [Atomic!CallsNext]_(Atomic!callVars)
    <2>1. Busy(t) /\ kind' = kind /\ file' = file
        BY <1>3 DEF BeginFails, BodyOperational, BodyOther, ReconnectFails,
                    RaiseClosed, ReadFails, Busy, db
    <2>2. result' = result \/ Leave(t, "raised")
        BY <1>3 DEF BeginFails, BodyOperational, BodyOther, ReconnectFails,
                    RaiseClosed, ReadFails, Operational
    <2> QED BY <2>1, <2>2, StepRaises
<1>4. ASSUME NEW t \in Thread, Commit(t)
      PROVE  Atomic!CallsNext
    <2>1. cur[t] \in CallId /\ Atomic!Answer(cur[t], "done")
        BY <1>4, LeaveAnswers DEF Commit, Busy
    <2>2. buf[Home[t]] = RowsOf(cur[t], kind[cur[t]])
        BY <1>4 DEF Commit, Inv, PlaceInv, PlaceOf, RowsOf
    <2>3. Atomic!Return(cur[t])
        BY <1>4, <2>1, <2>2 DEF Commit, Atomic!Return
    <2> QED BY <2>1, <2>3 DEF Atomic!CallsNext
<1>5. ASSUME NEW t \in Thread, Read(t)
      PROVE  Atomic!CallsNext
    <2>1. cur[t] \in CallId /\ Atomic!Answer(cur[t], "done")
        BY <1>5, LeaveAnswers DEF Read, Busy
    <2>2. kind[cur[t]] = "read"
        BY <1>5 DEF Read, Inv, PlaceInv, PlaceOf
    <2>3. RowsOf(cur[t], kind[cur[t]]) = {}
        BY <2>2 DEF RowsOf, Size
    <2>4. Atomic!Return(cur[t])
        BY <1>5, <2>1, <2>3 DEF Read, db, Atomic!Return
    <2> QED BY <2>1, <2>4 DEF Atomic!CallsNext
<1>6. ASSUME NEW t \in Thread, Schema(t)
      PROVE  Atomic!CallsNext
    BY <1>6, StepSweeps DEF Schema
<1>7. ASSUME NEW t \in Thread, SchemaFails(t)
      PROVE  [Atomic!CallsNext]_(Atomic!callVars)
    <2>1. CASE file' = file
        BY <1>7, <2>1, StepRaises DEF SchemaFails, Busy
    <2>2. CASE file' # file
        BY <1>7, <2>2, StepSweeps DEF SchemaFails
    <2> QED BY <2>1, <2>2
<1>8. ASSUME NEW c \in Conn, Crash(c)
      PROVE  Atomic!CallsNext
    <2>1. PICK dead : dead = {n \in CallId : \E t \in Thread :
                                 Home[t] = c /\ Busy(t) /\ cur[t] = n}
        OBVIOUS
    <2>2. \A n \in dead : result[n] = "pending"
        BY <2>1 DEF Inv, CallInv
    <2>3. result' = [n \in CallId |-> IF n \in dead THEN "crashed" ELSE result[n]]
        BY <1>8, <2>1 DEF Crash
    <2>4. Atomic!Die(dead)
        BY <1>8, <2>2, <2>3 DEF Crash, Atomic!Die
    <2>5. dead \in SUBSET CallId
        BY <2>1
    <2> QED BY <2>4, <2>5 DEF Atomic!CallsNext
<1>9. CASE UNCHANGED vars
    BY <1>9 DEF vars, Atomic!callVars
<1> QED BY <1>1, <1>2, <1>3, <1>4, <1>5, <1>6, <1>7, <1>8, <1>9 DEF Next, Step

\* To its callers SafeDB is a store of atomic calls, for every number of
\* processes, threads, errors and crashes (db.py:79-182): a call that returns has
\* written everything in one step, one that raises nothing, except what a later
\* init_schema commits of it.
THEOREM CallsAreAtomic == Spec => ImplementsAtomicCalls
<1>1. Init => Atomic!CallsInit
    BY DEF Init, Atomic!CallsInit, Kind
<1>2. Init => OneCallEach
    BY DEF Init, OneCallEach
<1>3. Inv /\ OneCallEach /\ [Next]_vars => OneCallEach'
    BY OneCallStep
<1>4. Inv /\ OneCallEach /\ [Next]_vars => [Atomic!CallsNext]_(Atomic!callVars)
    BY AtomicStep
<1> QED BY <1>1, <1>2, <1>3, <1>4, Invariance, PTL
        DEF Spec, ImplementsAtomicCalls, Atomic!CallsSpec

-----------------------------------------------------------------------------
(* How long a call takes: what bounds it besides the wait for its lock.      *)

\* The steps that a call has left at a place, in an attempt, after its first n
\* statements.
Left(place, tries, n) ==
    CASE place = "idle"                        -> 0
      [] place = "lock"                        -> 10
      [] place \in {"begin", "read", "schema"} -> IF tries = 1 THEN 9 ELSE 4
      [] place = "body"                        -> IF tries = 1 THEN 8 - n ELSE 3 - n
      [] place = "recover"                     -> 5

StepsLeft(t) == Left(pc[t], attempt[t], at[t])

LEMMA LeftAt ==
    ASSUME NEW tries, NEW n \in 0 .. 2
    PROVE  /\ Left("idle", tries, n) = 0 /\ Left("lock", tries, n) = 10
           /\ Left("recover", tries, n) = 5
           /\ \A place \in {"begin", "read", "schema"} :
                 Left(place, tries, n) = IF tries = 1 THEN 9 ELSE 4
           /\ Left("body", tries, n) = IF tries = 1 THEN 8 - n ELSE 3 - n
           /\ \A place \in Place : Left(place, tries, n) \in 0 .. 10
BY DEF Left, Place

\* A call takes at most ten steps of its own, of which the first is the lock: a
\* step of a thread always leaves it fewer, and steps of others leave it as many
\* or, when its process is killed, none.
CallsAreShort ==
    [][\A t \in Thread :
          /\ StepsLeft(t) \in 0 .. 10
          /\ Step(t) => StepsLeft(t)' < StepsLeft(t)
          /\ Busy(t) => StepsLeft(t)' <= StepsLeft(t)]_vars

\* Leaving ends the call; so does the second error, and the first leaves it the
\* recovery and the second attempt.
LEMMA LeaveIsLast ==
    ASSUME TypeOK, NEW t \in Thread, NEW outcome, Leave(t, outcome)
    PROVE  StepsLeft(t)' = 0
<1>1. pc'[t] = "idle"
    BY DEF Leave, Goto, TypeOK
<1> QED BY <1>1 DEF StepsLeft, Left

LEMMA OperationalIsLess ==
    ASSUME TypeOK, NEW t \in Thread, Operational(t),
           pc[t] \in {"begin", "read", "schema", "body"}
    PROVE  StepsLeft(t)' < StepsLeft(t)
<1>1. PICK tries, n : tries = attempt[t] /\ n = at[t]
    OBVIOUS
<1>2. n \in 0 .. 2
    BY <1>1 DEF TypeOK
<1>3. /\ pc[t] \in {"begin", "read", "schema"} => StepsLeft(t) = IF tries = 1 THEN 9 ELSE 4
      /\ pc[t] = "body" => StepsLeft(t) = IF tries = 1 THEN 8 - n ELSE 3 - n
    BY <1>1, <1>2, LeftAt DEF StepsLeft
<1>4. CASE tries = 1
    <2>1. pc'[t] = "recover" /\ attempt' = attempt /\ at' = at
        BY <1>1, <1>4 DEF Operational, Goto, TypeOK
    <2>2. StepsLeft(t)' = 5
        BY <2>1 DEF StepsLeft, Left
    <2> QED BY <1>2, <1>3, <1>4, <2>2
<1>5. CASE tries # 1
    <2>1. StepsLeft(t)' = 0
        BY <1>1, <1>5, LeaveIsLast DEF Operational
    <2> QED BY <1>2, <1>3, <1>5, <2>1
<1> QED BY <1>4, <1>5

LEMMA StepIsLess ==
    ASSUME Inv, NEW t \in Thread, Step(t)
    PROVE  StepsLeft(t)' < StepsLeft(t)
<1>a. TypeOK /\ PlaceOf(t) /\ at[t] \in 0 .. 2 /\ attempt[t] \in 1 .. 2
    BY DEF Inv, PlaceInv, TypeOK
<1>b. PICK tries, n : tries = attempt[t] /\ n = at[t]
    OBVIOUS
<1>c. /\ pc[t] = "lock" => StepsLeft(t) = 10
      /\ pc[t] \in {"begin", "read", "schema"} => StepsLeft(t) = IF tries = 1 THEN 9 ELSE 4
      /\ pc[t] = "body" => StepsLeft(t) = IF tries = 1 THEN 8 - n ELSE 3 - n
      /\ pc[t] = "recover" => StepsLeft(t) = 5
    BY <1>a, <1>b, LeftAt DEF StepsLeft
<1>d. n \in 0 .. 2
    BY <1>a, <1>b
<1>e. ASSUME NEW outcome, Leave(t, outcome), pc[t] \in {"begin", "read", "schema", "body", "recover"}
      PROVE  StepsLeft(t)' < StepsLeft(t)
    <2>1. StepsLeft(t)' = 0
        BY <1>a, <1>e, LeaveIsLast
    <2> QED BY <1>c, <1>d, <1>e, <2>1
<1>f. ASSUME NEW k
      PROVE  Entry(k) \in {"begin", "read", "schema"}
    BY DEF Entry
<1>1. CASE Acquire(t)
    <2>1. pc'[t] \in {"begin", "read", "schema"} /\ attempt' = attempt /\ at' = at /\ pc[t] = "lock"
        BY <1>1, <1>a, <1>f DEF Acquire, Goto, TypeOK
    <2>2. StepsLeft(t)' = IF tries = 1 THEN 9 ELSE 4
        BY <1>a, <1>b, <2>1 DEF StepsLeft, Left
    <2> QED BY <1>c, <2>1, <2>2
<1>2. CASE Begin(t)
    <2>1. pc'[t] = "body" /\ attempt' = attempt /\ at' = at /\ pc[t] = "begin" /\ n = 0
        BY <1>2, <1>a, <1>b DEF Begin, Goto, TypeOK, PlaceOf
    <2>2. StepsLeft(t)' = IF tries = 1 THEN 8 ELSE 3
        BY <1>b, <2>1 DEF StepsLeft, Left
    <2> QED BY <1>c, <2>1, <2>2
<1>3. CASE Statement(t)
    <2>1. PICK size : size = Size(kind[cur[t]])
        OBVIOUS
    <2>2. n < size /\ size \in 0 .. 2
        BY <1>3, <1>b, <2>1, SizeType DEF Statement
    <2>3. pc' = pc /\ pc[t] = "body" /\ attempt' = attempt /\ at'[t] = n + 1
        BY <1>3, <1>a, <1>b DEF Statement, TypeOK
    <2>4. StepsLeft(t)' = IF tries = 1 THEN 8 - (n + 1) ELSE 3 - (n + 1)
        BY <1>b, <2>3 DEF StepsLeft, Left
    <2> QED BY <1>c, <1>d, <2>3, <2>4
<1>4. CASE Recover(t)
    <2>1. pc[t] = "recover" /\ pc'[t] \in {"begin", "read", "schema"} /\ attempt'[t] = 2
        BY <1>4, <1>a, <1>f DEF Recover, Goto, TypeOK, PlaceOf
    <2>2. StepsLeft(t)' = 4
        BY <2>1 DEF StepsLeft, Left
    <2> QED BY <1>c, <2>1, <2>2
<1>5. CASE BeginFails(t) \/ BodyOperational(t)
    BY <1>5, <1>a, OperationalIsLess DEF BeginFails, BodyOperational
<1>6. CASE ReadFails(t)
    <2>1. CASE Operational(t)
        BY <1>6, <1>a, <2>1, OperationalIsLess DEF ReadFails
    <2>2. CASE Leave(t, "raised")
        BY <1>6, <1>e, <2>2 DEF ReadFails
    <2> QED BY <1>6, <2>1, <2>2 DEF ReadFails
<1>7. CASE \/ Commit(t) \/ BodyOther(t) \/ ReconnectFails(t) \/ RaiseClosed(t)
           \/ Read(t) \/ Schema(t) \/ SchemaFails(t)
    BY <1>7, <1>e DEF Commit, BodyOther, ReconnectFails, RaiseClosed, Read, Schema, SchemaFails
<1> QED BY <1>1, <1>2, <1>3, <1>4, <1>5, <1>6, <1>7 DEF Step

\* What bounds a call: two attempts, and no other loop (db.py:110-170).
THEOREM CallsEndSoon == Spec => CallsAreShort
<1> DEFINE Shorter == \A t \in Thread :
                         /\ StepsLeft(t) \in 0 .. 10
                         /\ Step(t) => StepsLeft(t)' < StepsLeft(t)
                         /\ Busy(t) => StepsLeft(t)' <= StepsLeft(t)
<1>1. Inv /\ Inv' /\ [Next]_vars => [Shorter]_vars
    <2> SUFFICES ASSUME Inv, Inv', Next, NEW t \in Thread
                 PROVE  /\ StepsLeft(t) \in 0 .. 10
                        /\ Step(t) => StepsLeft(t)' < StepsLeft(t)
                        /\ Busy(t) => StepsLeft(t)' <= StepsLeft(t)
        OBVIOUS
    <2>1. StepsLeft(t) \in 0 .. 10
        BY LeftAt DEF StepsLeft, Inv, TypeOK
    <2>2. CASE Step(t)
        <3>1. StepsLeft(t)' < StepsLeft(t)
            BY <2>2, StepIsLess
        <3>2. StepsLeft(t)' \in 0 .. 10
            <4>1. PICK place, tries, n :
                      place = pc'[t] /\ tries = attempt'[t] /\ n = at'[t]
                OBVIOUS
            <4>2. place \in Place /\ n \in 0 .. 2
                BY <4>1 DEF Inv, TypeOK
            <4> QED BY <4>1, <4>2, LeftAt DEF StepsLeft
        <3> QED BY <2>1, <2>2, <3>1, <3>2
    <2>3. ASSUME ~Step(t), Busy(t)
          PROVE  StepsLeft(t)' <= StepsLeft(t)
        <3>1. CASE \E c \in Conn : Crash(c)
            <4>1. PICK c \in Conn : Crash(c)
                BY <3>1
            <4>2. \/ pc'[t] = "idle"
                  \/ pc'[t] = pc[t] /\ attempt'[t] = attempt[t] /\ at'[t] = at[t]
                BY <4>1 DEF Crash
            <4>3. StepsLeft(t)' = 0 \/ StepsLeft(t)' = StepsLeft(t)
                BY <4>2 DEF StepsLeft, Left
            <4> QED BY <2>1, <4>3
        <3>2. CASE \E u \in Thread : Step(u) \/ \E k \in Kind : Call(u, k)
            <4>1. PICK u \in Thread : Step(u) \/ \E k \in Kind : Call(u, k)
                BY <3>2
            <4>2. u # t
                BY <2>3, <4>1 DEF Busy, Call
            <4>3. pc'[t] = pc[t] /\ attempt'[t] = attempt[t] /\ at'[t] = at[t]
                BY <4>1, <4>2 DEF Step, Inv, TypeOK, Call, Acquire, Begin, BeginFails,
                   Statement, Commit, BodyOperational, BodyOther, Recover, ReconnectFails,
                   RaiseClosed, Read, ReadFails, Schema, SchemaFails, Operational, Leave, Goto
            <4>4. StepsLeft(t)' = StepsLeft(t)
                BY <4>3 DEF StepsLeft
            <4> QED BY <2>1, <4>4
        <3> QED BY <3>1, <3>2 DEF Next
    <2> QED BY <2>1, <2>2, <2>3
<1>2. Spec => [][Shorter]_vars
    BY <1>1, Invariance, PTL DEF Spec
<1> QED BY <1>2 DEF CallsAreShort
=============================================================================
