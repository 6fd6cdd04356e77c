---------------------------- MODULE SwapDetection ----------------------------
(***************************************************************************)
(* Steps 6 and 8 of the callback of stage 2 on one batch: the conflicts    *)
(* are resolved, then conflict_resolution/swap_detector.py asks the HLR    *)
(* about the signals of SIM swaps and of device swaps, and the confirmed   *)
(* ones are written to swap_event.                                         *)
(***************************************************************************)
EXTENDS ConflictResolution, Hlr, SequencesExt

CONSTANTS GroupOrder, \* groupby("imsi") hands out its groups in this order
          BatchSize,  \* msisdns per request (500)
          Scenario    \* batches, with what the HLR has on file and their origin

ASSUME OrderAssumption == ToSet(GroupOrder) = Imsi
\* What the HLR has on file of cards and devices.
OnFile == [SIM_SWAP : [Msisdn -> Seq([value : Imsi, at : Nat])],
           DEVICE_SWAP : [Msisdn -> Seq([value : Imei, at : Nat])]]

ASSUME ScenarioAssumption ==
    {s.batch : s \in Scenario} \subseteq Batch /\ {s.onFile : s \in Scenario} \subseteq OnFile
ASSUME SizeAssumption == BatchSize \in Nat \ {0} /\ BatchSize <= MaxLookups

VARIABLES hlr,       \* the tables of the HLR, per type of swap and number
          origin,    \* where the batch comes from: the simulator's draws
          step,      \* of the callback: the type that verify_batch is at, ...
          pending,   \* msisdns that are still to be asked for
          histories, \* history_by_msisdn
          confirmed, \* confirmed events, not written yet
          swapEvent, \* rows of swap_event
          dropped    \* history: <<type, msisdn>> whose signals a failure dropped
file == <<hlr, origin>>
verify == <<pending, histories, confirmed>>
detection == <<file, step, verify, swapEvent, dropped>>

SwapType == {"SIM_SWAP", "DEVICE_SWAP"}
NoHistory == [m \in Msisdn |-> <<>>]

DetectInit ==
    /\ \E s \in Scenario : df = s.batch /\ hlr = s.onFile /\ origin = s.origin
    /\ LoopInit
    /\ step = "resolve"
    /\ pending = <<>> /\ histories = NoHistory /\ confirmed = {}
    /\ swapEvent = {} /\ dropped = {}

-----------------------------------------------------------------------------
\* The loop over the rows of each imsi, one group after another.
Loop ==
    /\ step = "resolve"
    /\ \E n \in DOMAIN GroupOrder :
          /\ \A k \in 1..(n - 1) : ~HasRow(GroupOrder[k])
          /\ Skip(GroupOrder[n]) \/ Scan(GroupOrder[n])
    /\ UNCHANGED detection

Identity(type, row) == IF type = "SIM_SWAP" THEN row.imsi ELSE row.imei

\* conflict_c_rows and conflict_d_rows.
Signals(type) ==
    {i \in Rows(df) : IF type = "SIM_SWAP" THEN ConflictC(df, flagged, i)
                                           ELSE ConflictD(df, flagged, i)}

\* The keys of by_msisdn, in the order of their first rows.
MsisdnsOf(type) ==
    LET firsts == {i \in Signals(type) :
                      \A j \in Signals(type) : j < i => df[j].msisdn # df[i].msisdn}
        first(n) == CHOOSE i \in firsts : Cardinality({j \in firsts : j < i}) = n - 1
    IN  [n \in 1..Cardinality(firsts) |-> df[first(n)].msisdn]

\* verify_batch begins for a type.
Begin(type) ==
    /\ step' = type
    /\ pending' = MsisdnsOf(type)
    /\ histories' = NoHistory

\* The flags of a single group are a frame, not a column: the exception leaves
\* the callback.
ResolveRaises ==
    /\ step = "resolve" /\ Done
    /\ OneSubscriber(df)
    /\ step' = "raised"
    /\ UNCHANGED <<vars, file, verify, swapEvent, dropped>>

\* "if conflict_c_rows or conflict_d_rows"
Detect ==
    /\ step = "resolve" /\ Done
    /\ ~OneSubscriber(df)
    /\ IF Signals("SIM_SWAP") \cup Signals("DEVICE_SWAP") = {}
       THEN step' = "done" /\ UNCHANGED <<pending, histories>>
       ELSE Begin("SIM_SWAP")
    /\ UNCHANGED <<vars, file, confirmed, swapEvent, dropped>>

\* msisdns[i:i + batch_size], and what comes after it.
Chunk == SubSeq(pending, 1, IF Len(pending) < BatchSize THEN Len(pending) ELSE BatchSize)
\* Fault: the slices are one too far apart.
RestSkippingOne == SubSeq(pending, BatchSize + 2, Len(pending))
Rest == SubSeq(pending, BatchSize + 1, Len(pending))

\* The HLR answers a request.
Answered ==
    /\ step \in SwapType /\ pending # <<>>
    /\ Accepts(Chunk)
    /\ histories' = [m \in Msisdn |-> IF m \in ToSet(Chunk) THEN History(hlr[step][m])
                                                            ELSE histories[m]]
    /\ pending' = Rest
    /\ UNCHANGED <<vars, file, step, confirmed, swapEvent, dropped>>

\* It does not, or with an error, or with something that is no JSON: the chunk
\* is skipped.
Unanswered ==
    /\ step \in SwapType /\ pending # <<>>
    /\ dropped' = dropped \cup {<<step, m>> : m \in ToSet(Chunk)}
    /\ pending' = Rest
    /\ UNCHANGED <<vars, file, step, histories, confirmed, swapEvent>>

\* The events for the signals that carry the latest identity of the history.
Events(type) ==
    LET latest(m) == histories[m][Len(histories[m])]
        previous(m) == histories[m][Len(histories[m]) - 1]
    IN  {[row |-> i, type |-> type, msisdn |-> df[i].msisdn,
          old |-> previous(df[i].msisdn).value, new |-> latest(df[i].msisdn).value,
          confirmed |-> latest(df[i].msisdn).at] :
            i \in {j \in Signals(type) :
                      /\ Len(histories[df[j].msisdn]) >= 2
                      /\ Identity(type, df[j]) = latest(df[j].msisdn).value}}

\* After the SIM swaps the device swaps are verified, then all are written.
NextType ==
    IF step = "SIM_SWAP" THEN Begin("DEVICE_SWAP")
    ELSE step' = "write" /\ UNCHANGED <<pending, histories>>

Verified ==
    /\ step \in SwapType /\ pending = <<>>
    /\ confirmed' = confirmed \cup Events(step)
    /\ NextType
    /\ UNCHANGED <<vars, file, swapEvent, dropped>>

\* An answer of an unexpected shape raises out of verify_batch: all events of
\* the type are gone, the other type goes on.
VerifyRaises ==
    /\ step \in SwapType /\ pending # <<>>
    /\ dropped' = dropped \cup ({step} \X Msisdn)
    /\ IF step = "SIM_SWAP" THEN Begin("DEVICE_SWAP")
       ELSE step' = "write" /\ pending' = <<>> /\ UNCHANGED histories
    /\ UNCHANGED <<vars, file, confirmed, swapEvent>>

\* write_swap_events, if anything is confirmed: one transaction.
Write ==
    /\ step = "write"
    /\ swapEvent' = confirmed
    /\ step' = "done"
    /\ UNCHANGED <<vars, file, verify, dropped>>

\* It rolls back, and the callback logs the exception and goes on.
WriteFails ==
    /\ step = "write" /\ confirmed # {}
    /\ dropped' = SwapType \X Msisdn
    /\ step' = "done"
    /\ UNCHANGED <<vars, file, verify, swapEvent>>

DetectNext ==
    \/ Loop \/ ResolveRaises \/ Detect \/ Answered \/ Unanswered \/ Verified \/ VerifyRaises
    \/ Write \/ WriteFails

DetectSpec == DetectInit /\ [][DetectNext]_<<vars, detection>>
-----------------------------------------------------------------------------
\* Assignment i of a number is the last one of those in S: the reference, in
\* terms of the dates.
IsLast(rows, S, i) ==
    i \in S /\ \A j \in S : rows[j].at < rows[i].at \/ (rows[j].at = rows[i].at /\ j <= i)

\* swap_event only holds swaps that happened and were seen: the two last
\* assignments that the HLR has for the number, in their order and with the
\* date of the second, for a clean row that carries the new identity after one
\* of the same number, in the same batch, with another. The order of the HLR's
\* file, failed requests and mixed chunks do not break this.
EventsAreReassignments ==
    \A e \in swapEvent :
        LET rows == hlr[e.type][e.msisdn]
        IN  /\ \E i, j \in DOMAIN rows :
                  /\ IsLast(rows, DOMAIN rows, i) /\ IsLast(rows, DOMAIN rows \ {i}, j)
                  /\ e.new = rows[i].value /\ e.confirmed = rows[i].at /\ e.old = rows[j].value
            /\ e.row \in CleanRows
            /\ df[e.row].msisdn = e.msisdn /\ Identity(e.type, df[e.row]) = e.new
            /\ \E k \in CleanRows : /\ k < e.row /\ df[k].msisdn = e.msisdn
                                    /\ Identity(e.type, df[k]) # e.new

\* No swap within a batch is missed: if two clean rows of a number carry
\* different identities and the second one is, for the HLR, the latest of
\* several, then swap_event gets it, unless a request or the write failed.
\* Neither the rows in between, nor the chunk in which the number is asked for,
\* nor a failure in the other type or in another chunk make a difference.
SwapsRecorded ==
    step = "done" => \A type \in SwapType : \A i, j \in CleanRows :
        LET rows == hlr[type][df[j].msisdn]
        IN  /\ i < j /\ df[i].msisdn = df[j].msisdn
            /\ Identity(type, df[i]) # Identity(type, df[j])
            /\ Len(rows) >= 2
            /\ \E n \in DOMAIN rows : /\ IsLast(rows, DOMAIN rows, n)
                                      /\ rows[n].value = Identity(type, df[j])
            /\ <<type, df[j].msisdn>> \notin dropped
            => \E e \in swapEvent : /\ e.type = type /\ e.msisdn = df[j].msisdn
                                    /\ e.new = Identity(type, df[j])
=============================================================================
