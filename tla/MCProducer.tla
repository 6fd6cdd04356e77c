----------------------------- MODULE MCProducer -----------------------------
(***************************************************************************)
(* Five lines about two numbers, which interleave, in chunks of three: the *)
(* file ends at and off a boundary of the chunks.                          *)
(***************************************************************************)
EXTENDS Producer, TLC

CONSTANTS n1, n2, p1, p2

MCMsisdnOf == <<n1, n2, n1, n1, n2>>
MCPartitionOf == (n1 :> p1) @@ (n2 :> p2)
=============================================================================
