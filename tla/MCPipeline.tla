------------------------------ MODULE MCPipeline ------------------------------
(***************************************************************************)
(* One session: a Start, another Start of it with a second card, which     *)
(* PostgreSQL rejects, and the Stop with that card. In a batch of stage 2  *)
(* the Stop is a conflict (A) with the first Start, and with the second    *)
(* one it is of one subscriber, on which stage 2 raises. S1 may send each  *)
(* record twice.                                                           *)
(***************************************************************************)
EXTENDS Pipeline, TLC

CONSTANTS good, bad, stop

R(i, t) == [sess |-> 1, imsi |-> i, msisdn |-> i, imei |-> i, status |-> t]
MCRow == (good :> R(1, "Start")) @@ (bad :> R(2, "Start")) @@ (stop :> R(2, "Stop"))
MCTime == (good :> 1) @@ (bad :> 1) @@ (stop :> 2)
MCKeyOf == [r \in Rec |-> <<Row[r].sess, Row[r].status>>]
MCKey == {MCKeyOf[r] : r \in Rec}
=============================================================================
