----------------------------- MODULE MCProcessor -----------------------------
(***************************************************************************)
(* A number on one SIM card with two sessions, a Stop of the first session *)
(* with another card (conflict A), another Start of the second one on that *)
(* card and a new device, which the HLR would confirm as swaps and which   *)
(* is late in ISO timestamps, a record that breaks a rule and one that is  *)
(* late in Unix timestamps. S1 may send each of them twice. A batch with   *)
(* two of the records may have one card or two.                            *)
(***************************************************************************)
EXTENDS Processor, TLC

CONSTANTS start1, start2, stop1, broken, lateIso, lateUnix

R(s, m, e, st) == [sess |-> s, imsi |-> m, msisdn |-> 1, imei |-> e, status |-> st]
MCRow ==
    (start1 :> R(1, 1, 1, "Start")) @@ (start2 :> R(2, 1, 1, "Start"))
    @@ (stop1 :> R(1, 2, 1, "Stop")) @@ (broken :> R(1, 1, 1, "Interim-Update"))
    @@ (lateIso :> R(2, 2, 2, "Start")) @@ (lateUnix :> R(2, 1, 1, "Stop"))

\* start1 and start2 have the same timestamp.
MCTime ==
    [r \in Rec |-> CASE r = lateIso -> 0 [] r \in {start1, start2} -> 1 [] r = lateUnix -> 4
                     [] OTHER -> 2]

MCConfirmed == (Rec \cap {stop1, lateIso, start1}) \X {"SIM_SWAP", "DEVICE_SWAP"}
=============================================================================
