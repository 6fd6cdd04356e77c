------------------------------- MODULE MCApi -------------------------------
(***************************************************************************)
(* One verification, one request for a swap date, one check with a maxAge  *)
(* of null and one with a wrong key, for a pool of one connection:         *)
(* the limit of DB_POOL_SIZE is reached by fewer requests. (A bad body     *)
(* differs from them in its reply only.) The number has one session that   *)
(* ends in the second in which it starts and one that stays open, and two  *)
(* swaps.                                                                  *)
(***************************************************************************)
EXTENDS Api

CONSTANTS verify, date, check, bad, s1, s2, number

Asks(endpoint) ==
    [endpoint |-> endpoint, msisdn |-> number, type |-> "SIM_SWAP", maxAge |-> 1,
     keyOk |-> TRUE, bodyOk |-> TRUE]

MCKind == [q \in Req |->
    CASE q = verify -> Asks("verify") [] q = date -> Asks("date")
      [] q = check -> [Asks("check") EXCEPT !.maxAge = Null]
      [] q = bad -> [Asks("check") EXCEPT !.keyOk = FALSE]]

Row(sess, status, ts) == [sess |-> sess, status |-> status, msisdn |-> number, ts |-> ts]
MCSession == {Row(s1, "Start", 0), Row(s1, "Stop", 0), Row(s2, "Start", 1)}
MCSwap == {[msisdn |-> number, type |-> "SIM_SWAP", confirmed |-> 1],
           [msisdn |-> number, type |-> "SIM_SWAP", confirmed |-> 2]}
=============================================================================
