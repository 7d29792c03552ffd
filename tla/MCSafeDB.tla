------------------------------ MODULE MCSafeDB ------------------------------
(***************************************************************************)
(* Instances of SafeDB: two agents with a connection each to the shared    *)
(* file, two threads in the first and one in the second.                   *)
(***************************************************************************)
EXTENDS SafeDB

CONSTANTS a, b, a1, a2, b1

MCConn   == {a, b}
MCThread == {a1, a2, b1}
MCHome   == [t \in MCThread |-> IF t = b1 THEN b ELSE a]

=============================================================================
