--------------------------- MODULE MCDedupTrigger ---------------------------
(***************************************************************************)
(* Three COPY transactions over three keys. The first two take the same    *)
(* keys in opposite orders, so that they can deadlock; the second holds a  *)
(* duplicate inside its own batch; the third replays the first.            *)
(***************************************************************************)
EXTENDS DedupTrigger, TLC

CONSTANTS t1, t2, t3, a, b, c

MCBatch == (t1 :> <<a, b, c>>) @@ (t2 :> <<b, a, b>>) @@ (t3 :> <<a, b, c>>)
=============================================================================
