----------------------------- MODULE Simulation -----------------------------
(***************************************************************************)
(* A simulated run in one batch of stage 2: what the simulator injects and *)
(* what the conflict resolution and the swap detection make of it. origin  *)
(* is the draw that a batch comes from.                                    *)
(***************************************************************************)
EXTENDS SwapDetection, Simulator

\* The numbers of the pool are on file, no others are.
SeededOnFile ==
    [type \in SwapType |->
        [m \in Msisdn |-> IF m \in Subscriber THEN Seeded[type][m] ELSE <<>>]]

\* A simulated batch is a data frame of its draw, against the seeded HLR. It has
\* at most one session per subscriber: maxOffsetsPerTrigger lets in a tenth of
\* the records of a turn of sub_idx.
Simulated(scenario) ==
    LET draw == scenario.origin
    IN  /\ draw.rolls \in [0..(Sessions - 1) -> Roll]
        /\ IsDataFrame(scenario.batch, draw)
        /\ scenario.onFile = SeededOnFile

ASSUME SimulationAssumption ==
    /\ Sessions <= Subscribers
    /\ \A scenario \in Scenario : scenario.origin.by = "simulator" => Simulated(scenario)

-----------------------------------------------------------------------------
\* Whether the record of a key is among S.
Arrived(S, name, s, status) == \E r \in S : KeyOf(r) = <<<<name, s>>, status>>

\* The injected conflicts: a changed Stop and a second Start count if the Start
\* of their session arrives; a new device starts a second session if it arrives
\* and the Stop of the first one does not.
ExpectedConflicts(draw) ==
    LET S == Accepted(draw)
        mutated == {s \in DOMAIN draw.rolls : /\ draw.rolls[s] \in {"A imsi", "A msisdn"}
                                              /\ Arrived(S, "SESS", s, "Start")}
        second(name) == {s \in DOMAIN draw.rolls : /\ Arrived(S, name, s, "Start")
                                                   /\ Arrived(S, "SESS", s, "Start")}
    IN  {<<<<"SESS", s>>, "Stop">> : s \in {s \in mutated : Arrived(S, "SESS", s, "Stop")}}
        \cup {<<<<"SESS_B", s>>, "Start">> : s \in second("SESS_B")}
        \cup {<<<<"SESS_D", s>>, "Start">> :
                  s \in {s \in second("SESS_D") : ~Arrived(S, "SESS", s, "Stop")}}

\* Session s of injection C ends, acceptably, before session t starts.
Ends(draw, s, t) ==
    \E r, q \in Accepted(draw) : /\ KeyOf(r) = <<<<"SESS_C", s>>, "Stop">>
                                 /\ KeyOf(q) = <<<<"SESS_C", t>>, "Start">>
                                 /\ r.at < q.at
\* Its cursor may come back to a subscriber while another session on the new
\* card is open: the simulator does not mean that as a conflict.
PossibleConflicts(draw) ==
    LET ofC == {s \in DOMAIN draw.rolls : draw.rolls[s] = "C"}
        open(s, t) == ~Ends(draw, s, t) /\ ~Ends(draw, t, s)
    IN  {<<<<"SESS_C", s>>, "Start">> :
            s \in {s \in ofC : \E t \in ofC \ {s} : /\ SimTarget(draw.rolls, s) = SimTarget(draw.rolls, t)
                                                   /\ open(s, t)}}

\* The injected swaps that are seen, if the records of S are the clean ones: a
\* record of the added session comes after one of its number with another card
\* or device. The added device belongs to the subscriber of the cursor: it is
\* not on file for the number of the session unless this is the same subscriber.
SwapsSeen(draw, S, comesAfter(_, _)) ==
    LET seen(name, s, f) ==
            \E r, q \in S : /\ r.sess = <<name, s>> /\ q.msisdn = r.msisdn
                            /\ comesAfter(r, q) /\ r[f] # q[f]
    IN  {<<"SIM_SWAP", SimTarget(draw.rolls, s)>> :
            s \in {s \in DOMAIN draw.rolls : seen("SESS_C", s, "imsi")}}
        \cup
        {<<"DEVICE_SWAP", SubscriberOf(s)>> :
            s \in {s \in DOMAIN draw.rolls : /\ seen("SESS_D", s, "imei")
                                             /\ DeviceTarget(draw.rolls, s) = SubscriberOf(s)}}

Conflicts == {<<df[i].sess, df[i].status>> : i \in Rows(df) \ CleanRows}
Swaps == {<<e.type, e.msisdn>> : e \in swapEvent}
After(r, q) == q.at < r.at
NotBefore(r, q) == q.at <= r.at
Without(draw, keys) == {r \in Accepted(draw) : KeyOf(r) \notin keys}

\* Stage 2 finds what the simulator injects, and nothing else: a batch that it
\* gets through ends with the injected conflicts in conflict_log and the
\* injected swaps in swap_event, whichever records validation rejects and in
\* whatever order the added sessions interleave with the next ones. Two things
\* are open: whether a new card that a second swap gives out again is a conflict
\* by then, and the order of records that carry the same time.
InjectedFound ==
    LET sure == ExpectedConflicts(origin)
        possible == sure \cup PossibleConflicts(origin)
    IN  step = "done" /\ origin.by = "simulator" /\ dropped = {} =>
            /\ sure \subseteq Conflicts /\ Conflicts \subseteq possible
            /\ SwapsSeen(origin, Without(origin, possible), After) \subseteq Swaps
            /\ Swaps \subseteq SwapsSeen(origin, Without(origin, sure), NotBefore)
=============================================================================
