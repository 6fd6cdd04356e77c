---------------------------- MODULE MCValidation ----------------------------
(***************************************************************************)
(* Two partitions: in one, a good record, one with an unknown IMSI and one *)
(* with an unknown TAC; in the other, the good TAC again with a malformed  *)
(* MSISDN, and a record that breaks R4a.                                   *)
(***************************************************************************)
EXTENDS Validation, TLC

CONSTANTS good, noImsi, noTac, badNumber, badLuhn,
          tac1, tac2, imsi1, imsi2, imsi3, msisdn1, msisdn2

MCPartitions == {{good, noImsi, noTac}, {badNumber, badLuhn}}

MCIdOf == [s \in Service |->
    CASE s = "GSMA_TAC" -> (noTac :> tac2) @@ [r \in Rec |-> tac1]
      [] s = "HLR_HSS"  -> (noImsi :> imsi2) @@ (noTac :> imsi3) @@ [r \in Rec |-> imsi1]
      [] s = "ITU_E164" -> (badNumber :> msisdn2) @@ [r \in Rec |-> msisdn1]]
MCKnown == [s \in Service |->
    CASE s = "GSMA_TAC" -> {tac1} [] s = "HLR_HSS" -> {imsi1, imsi3} [] s = "ITU_E164" -> {msisdn1}]
MCMalformed == [s \in Service |-> IF s = "ITU_E164" THEN {msisdn2} ELSE {}]
MCBroken == (badLuhn :> {"R4a"}) @@ [r \in Rec |-> {}]
=============================================================================
