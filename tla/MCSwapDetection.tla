--------------------------- MODULE MCSwapDetection ---------------------------
(***************************************************************************)
(* Three families of batches: one subscriber with three sessions, beside   *)
(* another one, two subscribers that share two sessions (conflict A        *)
(* crosses with B), and numbers that move between SIM cards and devices,   *)
(* for an HLR that knows the moves in another order than it loads them.    *)
(* Then the batches of three simulated sessions.                           *)
(***************************************************************************)
EXTENDS Simulation

CONSTANTS s1, s2, s3, m1, m2, n1, n2, e1, e2

-----------------------------------------------------------------------------
\* Hand-made batches.
RecordsOf(sessions, imsis, msisdns, imeis, statuses) ==
    [sess : sessions, imsi : imsis, msisdn : msisdns, imei : imeis, status : statuses]

OtherStart == [sess |-> s1, imsi |-> m2, msisdn |-> n2, imei |-> e1, status |-> "Start"]
ConflictBatches ==
    {Append(b, OtherStart) :
        b \in BoundedSeq(RecordsOf({s1, s2, s3}, {m1}, {n1}, {e1}, {"Start", "Stop"}), 5)}
    \cup BoundedSeq(RecordsOf({s1, s2}, {m1, m2}, {n1}, {e1},
                              {"Start", "Stop", "Interim-Update"}), 3)
SwapBatches == BoundedSeq(RecordsOf({s1, s2}, {m1, m2}, {n1, n2}, {e1, e2}, {"Start"}), 3)

On(value, at) == [value |-> value, at |-> at]
Table(rows1, rows2) == [n \in Msisdn |-> IF n = n1 THEN rows1 ELSE IF n = n2 THEN rows2 ELSE <<>>]
NothingOnFile == [SIM_SWAP |-> NoHistory, DEVICE_SWAP |-> NoHistory]
\* n1 gets the card m2 after m1, n2 the other way round and m1 again.
Swapped ==
    [SIM_SWAP |-> Table(<<On(m2, 2), On(m1, 1)>>, <<On(m1, 3), On(m1, 1), On(m2, 2)>>),
     DEVICE_SWAP |-> Table(<<On(e1, 1), On(e2, 2)>>, <<On(e2, 1)>>)]

NoDraw == [by |-> "test", rolls |-> [s \in {} |-> "none"], bad |-> {}, bypass |-> FALSE]
HandMade ==
    {[batch |-> b, onFile |-> NothingOnFile, origin |-> NoDraw] : b \in ConflictBatches}
    \cup {[batch |-> b, onFile |-> Swapped, origin |-> NoDraw] : b \in SwapBatches}

-----------------------------------------------------------------------------
\* Simulated batches: all rolls, and the loss of any records of one session, or
\* of the Starts around the second of two swaps.
Draw(rolls, bad, bypass) == [by |-> "simulator", rolls |-> rolls, bad |-> bad, bypass |-> bypass]
Rolls == [0..(Sessions - 1) -> Roll]
KeysOf(rolls, s) == {KeyOf(r) : r \in Injected(rolls, s)}
Draws ==
    {Draw(rolls, {}, bypass) : rolls \in Rolls, bypass \in BOOLEAN}
    \cup UNION {{Draw(rolls, bad, TRUE) : bad \in SUBSET KeysOf(rolls, s)} :
                    rolls \in {r \in Rolls : r[1] \in {"none", "D"} \/ r = [t \in 0..2 |-> "C"]}, s \in {0, 2}}
    \cup {Draw(rolls, bad, TRUE) :
              rolls \in {r \in Rolls : r[0] = "C" /\ r[1] = "C"},
              bad \in SUBSET {<<<<"SESS_C", 1>>, "Start">>, <<<<"SESS", 2>>, "Start">>}}

-----------------------------------------------------------------------------
\* The durations grow from session to session.
MCDuration == [s \in 0..(Sessions - 1) |-> 8 + 2 * s]
\* Records of equal times, such as the Stops of SESS_C_1 and SESS_2, in the order
\* of their sessions and in the other one.
Frame(draw, before(_, _)) ==
    LET S == Accepted(draw)
        record(n) == CHOOSE r \in S : Cardinality({q \in S : before(q, r)}) = n - 1
    IN  [n \in 1..Cardinality(S) |-> Row(record(n))]
Forwards(q, r) == q.at < r.at \/ (q.at = r.at /\ q.sess[2] < r.sess[2])
Backwards(q, r) == q.at < r.at \/ (q.at = r.at /\ q.sess[2] > r.sess[2])
Frames(draw) == {Frame(draw, Forwards), Frame(draw, Backwards)}
MCScenario ==
    HandMade
    \cup UNION {{[batch |-> frame, onFile |-> SeededOnFile, origin |-> draw] : frame \in Frames(draw)} :
                    draw \in Draws}
MCBatch == {s.batch : s \in MCScenario}
MCSession == {s1, s2, s3} \cup ({"SESS", "SESS_B", "SESS_C", "SESS_D"} \X (0..(Sessions - 1)))
MCImsi == {m1, m2} \cup (0..(2 * Pool - 1))
MCMsisdn == {n1, n2} \cup Subscriber
MCImei == {e1, e2} \cup ({"TAC"} \X (0..(Sessions - 1))) \cup ({SwapTac} \X (0..(2 * Pool - 1)))
MCGroupOrder == [n \in 1..(2 * Pool) |-> n - 1] \o <<m1, m2>>
=============================================================================
