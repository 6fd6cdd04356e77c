------------------------------- MODULE MCDedup -------------------------------
(***************************************************************************)
(* One key of each timestamp format. The clock runs well past TTL, and     *)
(* events lie before, around and after it.                                 *)
(***************************************************************************)
EXTENDS Dedup

CONSTANTS iso, epoch
=============================================================================
