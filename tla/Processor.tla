------------------------------ MODULE Processor ------------------------------
(***************************************************************************)
(* Stage 2, pipeline/processing/processor.py: the Spark query that turns   *)
(* radius.raw into radius.clean, step by step through its foreachBatch     *)
(* callback, with the failures of PostgreSQL, Kafka, the HLR and of the    *)
(* process itself between any two steps.                                   *)
(*                                                                         *)
(* A message is its offset in raw; the topic has one partition, for the    *)
(* callback shuffles the rows of a batch anyway. Records carry ISO         *)
(* timestamps unless they are in Unix: DEDUP_STATE is then the set of keys *)
(* it holds, and TTL elapses by the action Expire (Dedup has the clock).   *)
(*                                                                         *)
(* External behaviour, from Spark: as in StorageWriter.                    *)
(***************************************************************************)
EXTENDS ConflictRules, FiniteSets

CONSTANTS Rec,       \* records that S1 publishes
          Row,       \* their fields, as ConflictRules wants them
          Time,      \* the order of their event_timestamp_ts (not parsed: last)
          Invalid,   \* records that break one of the rules R1 to R6
          Delayed,   \* records sent too long after their event
          Unix,      \* those of them that carry Unix timestamps
          Confirmed, \* <<record, type>> whose swap of that type the HLR confirms
          MaxRaw, BatchLimit, MaxFaults \* bounds: topic, batch, failures

ASSUME RecAssumption ==
    /\ Time \in [Rec -> Nat]
    /\ Invalid \subseteq Rec
    /\ Confirmed \subseteq Rec \X {"SIM_SWAP", "DEVICE_SWAP"}
    /\ Unix \subseteq Delayed /\ Delayed \subseteq Rec
    /\ \A u \in Unix, r \in Rec : Time[r] <= Time[u]
ASSUME BoundAssumption == MaxRaw \in Nat /\ BatchLimit \in Nat \ {0}

VARIABLES raw,         \* radius.raw
          planned,     \* end offset of the latest batch in offsets/
          committed,   \* end offset of the latest batch in commits/
          pc,          \* where the S2 process is
          work,        \* the lists of rows of the callback
          dedup,       \* keys of DEDUP_STATE
          invalidLog,  \* rows of invalid_log, per message
          conflictLog, \* rows of conflict_log, per message
          swapEvent,   \* rows of swap_event, per message and type
          clean,       \* messages of radius.clean, per message of radius.raw
          lostInvalid, \* history: messages whose invalid_log row was not written
          lostConflict, \* history: messages whose conflict_log row was not written
          renewals,    \* history: how often DEDUP_STATE forgot each key
          faults
spark == <<planned, committed, pc>>
tables == <<invalidLog, conflictLog, swapEvent, clean>>
history == <<lostInvalid, lostConflict, renewals>>
vars == <<raw, planned, committed, pc, work, dedup, invalidLog, conflictLog,
          swapEvent, clean, lostInvalid, lostConflict, renewals, faults>>

Offset == 1..MaxRaw
RowOf(i) == Row[raw[i]]
\* (acct_session_id, acct_status_type)
KeyAt(i) == <<RowOf(i).sess, RowOf(i).status>>
AllKeys == {<<Row[r].sess, Row[r].status>> : r \in Rec}
Signal == Offset \X {"SIM_SWAP", "DEVICE_SWAP"}

NoWork == [invalid |-> {}, onTime |-> {}, conflicts |-> {}, signals |-> {}, clean |-> {}]

TypeOK ==
    /\ raw \in Seq(Rec) /\ Len(raw) <= MaxRaw
    /\ committed \in Nat /\ planned \in Nat
    /\ committed <= planned /\ planned <= Len(raw)
    /\ pc \in {"idle", "planned", "collected", "logged", "resolved", "conflictsLogged",
               "publishing", "done", "raised", "down"}
    /\ work \in [invalid : SUBSET Offset, onTime : SUBSET Offset, conflicts : SUBSET Offset,
                 signals : SUBSET Signal, clean : SUBSET Offset]
    /\ dedup \subseteq AllKeys
    /\ invalidLog \in [Offset -> Nat] /\ conflictLog \in [Offset -> Nat]
    /\ swapEvent \in [Signal -> Nat] /\ clean \in [Offset -> Nat]
    /\ lostInvalid \subseteq Offset /\ lostConflict \subseteq Offset
    /\ renewals \in [AllKeys -> Nat] /\ faults \in Nat

None(S) == [x \in S |-> 0]

Init ==
    /\ raw = <<>>
    /\ planned = 0 /\ committed = 0
    /\ pc = "idle" /\ work = NoWork
    /\ dedup = {}
    /\ invalidLog = None(Offset) /\ conflictLog = None(Offset)
    /\ swapEvent = None(Signal) /\ clean = None(Offset)
    /\ lostInvalid = {} /\ lostConflict = {} /\ renewals = None(AllKeys)
    /\ faults = 0

-----------------------------------------------------------------------------
CountFault == faults < MaxFaults /\ faults' = faults + 1

\* One more row for each member of S.
AddRows(log, S) == [x \in DOMAIN log |-> log[x] + (IF x \in S THEN 1 ELSE 0)]

Batch == (committed + 1)..planned

\* S1 sends a record, maybe one it has sent before.
Publish(r) ==
    /\ Len(raw) < MaxRaw
    /\ raw' = Append(raw, r)
    /\ UNCHANGED <<spark, work, dedup, tables, history, faults>>

\* A trigger finds new offsets and logs them, at most maxOffsetsPerTrigger.
Plan ==
    /\ pc = "idle"
    /\ committed < Len(raw)
    /\ planned' = IF Len(raw) < committed + BatchLimit THEN Len(raw) ELSE committed + BatchLimit
    /\ pc' = "planned"
    /\ UNCHANGED <<raw, committed, work, dedup, tables, history, faults>>

\* int() parses both timestamps and their difference is over the threshold.
IsLate(r) == r \in Delayed /\ r \in Unix

\* Validation, collect(), _split_validated and _split_late_arrival; failed are
\* the rows of the partitions whose validation raised.
Collect(failed) ==
    /\ pc = "planned"
    /\ LET invalid == {i \in Batch : raw[i] \in Invalid} \cup failed
           late == {i \in Batch \ invalid : IsLate(raw[i])}
       IN  work' = [NoWork EXCEPT !.invalid = invalid \cup late,
                                  !.onTime = Batch \ (invalid \cup late)]
    /\ pc' = "collected"
    /\ UNCHANGED <<raw, planned, committed, dedup, tables, history>>

Validate == Collect({}) /\ UNCHANGED faults
ValidationFails == CountFault /\ \E failed \in SUBSET Batch \ {{}} : Collect(failed)

\* "if not on_time_rows: return"
AfterInvalidLog == IF work.onTime = {} THEN "done" ELSE "logged"

LogInvalid ==
    /\ pc = "collected"
    /\ invalidLog' = AddRows(invalidLog, work.invalid)
    /\ pc' = AfterInvalidLog
    /\ UNCHANGED <<raw, planned, committed, work, dedup, conflictLog, swapEvent, clean,
                   history, faults>>

\* The exception is logged and swallowed.
LogInvalidFails ==
    /\ CountFault
    /\ pc = "collected"
    /\ work.invalid # {}
    /\ lostInvalid' = lostInvalid \cup work.invalid
    /\ pc' = AfterInvalidLog
    /\ UNCHANGED <<raw, planned, committed, work, dedup, tables, lostConflict, renewals>>

\* Fault: the keys are compared with DEDUP_STATE as the batch found it.
KeptOfOldState == {{i \in work.onTime : KeyAt(i) \notin dedup}}
\* _dedup_filter keeps, of the new keys, the row that collect() put first.
Kept ==
    {S \in SUBSET work.onTime :
        /\ \A i \in S : KeyAt(i) \notin dedup
        /\ \A i, j \in S : KeyAt(i) = KeyAt(j) => i = j
        /\ \A i \in work.onTime : KeyAt(i) \notin dedup => \E j \in S : KeyAt(j) = KeyAt(i)}

\* sort_values("event_timestamp_ts"), with equal timestamps in any order.
Sorted(S) ==
    {df \in [1..Cardinality(S) -> S] :
        /\ \A i \in S : \E n \in DOMAIN df : df[n] = i
        /\ \A n, m \in DOMAIN df : n < m => Time[raw[df[n]]] <= Time[raw[df[m]]]}

RowsOf(df) == [n \in DOMAIN df |-> RowOf(df[n])]

\* _dedup_filter and _resolve_conflicts. Without rows to publish or to log the
\* callback returns.
Resolve ==
    /\ pc = "logged"
    /\ \E S \in Kept : \E df \in Sorted(S) :
          LET rows == RowsOf(df)
              F == FlaggedB(rows)
              cleanRows == Clean(rows, F)
          IN  /\ ~OneSubscriber(rows)
              /\ dedup' = dedup \cup {KeyAt(i) : i \in S}
              /\ work' = [work EXCEPT
                   !.conflicts = {df[n] : n \in Rows(rows) \ cleanRows},
                   !.signals =
                        {<<df[n], "SIM_SWAP">> : n \in {m \in cleanRows : ConflictC(rows, F, m)}}
                        \cup
                        {<<df[n], "DEVICE_SWAP">> : n \in {m \in cleanRows : ConflictD(rows, F, m)}},
                   !.clean = {df[n] : n \in cleanRows}]
              /\ pc' = IF S = {} THEN "done" ELSE "resolved"
    /\ UNCHANGED <<raw, planned, committed, tables, history, faults>>

LogConflicts ==
    /\ pc = "resolved"
    /\ conflictLog' = AddRows(conflictLog, work.conflicts)
    /\ pc' = "conflictsLogged"
    /\ UNCHANGED <<raw, planned, committed, work, dedup, invalidLog, swapEvent, clean,
                   history, faults>>

\* Fault: no try around the write; the exception leaves the callback.
LogConflictsRaises ==
    /\ CountFault
    /\ pc = "resolved"
    /\ work.conflicts # {}
    /\ lostConflict' = lostConflict \cup work.conflicts
    /\ pc' = "raised"
    /\ UNCHANGED <<raw, planned, committed, work, dedup, tables, lostInvalid, renewals>>
\* The exception is logged and swallowed.
LogConflictsFails ==
    /\ CountFault
    /\ pc = "resolved"
    /\ work.conflicts # {}
    /\ lostConflict' = lostConflict \cup work.conflicts
    /\ pc' = "conflictsLogged"
    /\ UNCHANGED <<raw, planned, committed, work, dedup, tables, lostInvalid, renewals>>

\* "if not clean_rows: return"
AfterSwaps == IF work.clean = {} THEN "done" ELSE "publishing"

\* _process_swap_signals: of the signals in S, those the HLR confirms.
Record(S) ==
    /\ pc = "conflictsLogged"
    /\ swapEvent' = AddRows(swapEvent, {s \in S : <<raw[s[1]], s[2]>> \in Confirmed})
    /\ pc' = AfterSwaps
    /\ UNCHANGED <<raw, planned, committed, work, dedup, invalidLog, conflictLog, clean, history>>

RecordSwaps == Record(work.signals) /\ UNCHANGED faults

\* The HLR does not answer a request for some msisdns, or PostgreSQL does not
\* take the rows: those signals are dropped.
RecordSwapsFails ==
    /\ CountFault
    /\ \E S \in SUBSET work.signals \ {work.signals} : Record(S)

\* The Kafka sink writes the clean rows one by one, in any order.
PublishClean(i) ==
    /\ pc = "publishing"
    /\ i \in work.clean
    /\ clean' = AddRows(clean, {i})
    /\ work' = [work EXCEPT !.clean = @ \ {i}]
    /\ pc' = IF work.clean = {i} THEN "done" ELSE "publishing"
    /\ UNCHANGED <<raw, planned, committed, dedup, invalidLog, conflictLog, swapEvent,
                   history, faults>>

CommitBatch ==
    /\ pc = "done"
    /\ committed' = planned
    /\ pc' = "idle"
    /\ work' = NoWork
    /\ UNCHANGED <<raw, planned, dedup, tables, history, faults>>

Forget(S) ==
    /\ dedup' = dedup \ S
    /\ renewals' = AddRows(renewals, S \cap dedup)

\* Fault: DEDUP_STATE is persisted, as DedupStateManager plans.
ForgetNothing == Forget({})
\* DEDUP_STATE lives in the process.
ForgetAll == Forget(dedup)

\* _resolve_conflicts raises on the rows of one subscriber, outside any try: the
\* exception leaves the callback, the query and main(). The keys that the batch
\* has just put into DEDUP_STATE go with the others.
ResolveRaises ==
    /\ pc = "logged"
    /\ \E S \in Kept : \E df \in Sorted(S) : OneSubscriber(RowsOf(df))
    /\ pc' = "raised"
    /\ work' = NoWork
    /\ ForgetAll
    /\ UNCHANGED <<raw, planned, committed, tables, lostInvalid, lostConflict, faults>>

Ended == pc \in {"raised", "down"}

\* The process dies, on its own or because the Kafka write raised.
Crash ==
    /\ CountFault
    /\ ~Ended
    /\ pc' = "down"
    /\ work' = NoWork
    /\ ForgetAll
    /\ UNCHANGED <<raw, planned, committed, tables, lostInvalid, lostConflict>>

\* processor.py started by hand on the same checkpoint.
Restart ==
    /\ Ended
    /\ pc' = IF planned = committed THEN "idle" ELSE "planned"
    /\ UNCHANGED <<raw, planned, committed, work, dedup, tables, history, faults>>

\* TTL has elapsed since the key was accepted.
Expire(k) ==
    /\ CountFault
    /\ k \in dedup
    /\ Forget({k})
    /\ UNCHANGED <<raw, spark, work, tables, lostInvalid, lostConflict>>

Advance ==
    \/ Plan \/ Validate \/ LogInvalid \/ Resolve \/ LogConflicts \/ RecordSwaps
    \/ \E i \in Offset : PublishClean(i)
    \/ CommitBatch
S2Step == Advance \/ ResolveRaises

Next ==
    \/ \E r \in Rec : Publish(r)
    \/ S2Step
    \/ ValidationFails \/ LogInvalidFails \/ LogConflictsFails \/ RecordSwapsFails
    \/ Crash \/ Restart
    \/ \E k \in AllKeys : Expire(k)

Spec == Init /\ [][Next]_vars

\* The query loop of Spark runs as long as the process lives; nothing in the
\* repository restarts a dead S2.
FairSpec == Spec /\ WF_vars(S2Step)
-----------------------------------------------------------------------------
Invalidated(i) == invalidLog[i] > 0 \/ i \in lostInvalid
Resolved(i) == clean[i] > 0 \/ conflictLog[i] > 0 \/ i \in lostConflict

\* Stage 2 loses no record silently: each message behind the committed offset
\* is in invalid_log, or some message of its key is on radius.clean or in
\* conflict_log; the exceptions are the logs whose write failed. Crashes between
\* any two steps, replays and the loss of DEDUP_STATE do not break this.
NothingLost ==
    \A i \in 1..committed : Invalidated(i) \/ \E j \in 1..committed : KeyAt(j) = KeyAt(i) /\ Resolved(j)

\* The rows of a log for the messages of a key, each with its number.
RowsOfKey(log, k) == UNION {{i} \X (1..log[i]) : i \in {j \in 1..Len(raw) : KeyAt(j) = k}}
EffectsOfKey(k) == Cardinality(RowsOfKey(clean, k)) + Cardinality(RowsOfKey(conflictLog, k))
SwapLog(t) == [i \in Offset |-> swapEvent[<<i, t>>]]

\* Each time the key of a message is new to DEDUP_STATE it has one effect: a
\* row of conflict_log, or a message on radius.clean with at most one
\* swap_event of each type. A crash between two of the writes and the replay of
\* the batch cost one repetition and no more.
EffectsBounded ==
    \A k \in {KeyAt(i) : i \in 1..Len(raw)} :
        /\ EffectsOfKey(k) <= 1 + renewals[k]
        /\ \A t \in {"SIM_SWAP", "DEVICE_SWAP"} : Cardinality(RowsOfKey(SwapLog(t), k)) <= 1 + renewals[k]

\* The batch has two records of one subscriber that can be kept together.
HoldsTwoOfOne ==
    \E i, j \in Batch : /\ KeyAt(i) # KeyAt(j) /\ RowOf(i).imsi = RowOf(j).imsi
                        /\ \A k \in {i, j} : raw[k] \notin Invalid /\ ~IsLate(raw[k])

\* Stage 2 reaches the end of the topic unless it dies for good: no failure of
\* a log, of the HLR or of a validation blocks it. The one exception is a batch
\* with two records of one subscriber, on which the callback may raise at each
\* replay.
BacklogDrains ==
    \/ []<>(committed = Len(raw))
    \/ <>[](pc = "down")
    \/ []<>(pc = "raised" /\ HoldsTwoOfOne)

\* "(b) Late arrival check : đánh dấu trước watermark -> invalid_log", "[GAP-3]
\* Tách record đến trễ hơn LATE_ARRIVAL_THRESHOLD_SECONDS so với event_timestamp":
\* a record that arrives too long after its event goes to invalid_log.
LateIsLogged == \A i \in 1..committed : raw[i] \in Delayed => Invalidated(i)

\* "2 sự kiện START đồng thời kích hoạt trên cùng một IMSI mà không có STOP ở
\* giữa -> CONFLICT_B" (TC27): two Starts of one IMSI are not both clean unless
\* one of the sessions has a Stop.
ActiveStartsConflict ==
    \A i, j \in 1..committed :
        /\ clean[i] > 0 /\ clean[j] > 0
        /\ RowOf(i).status = "Start" /\ RowOf(j).status = "Start"
        /\ RowOf(i).imsi = RowOf(j).imsi
        /\ RowOf(i).sess # RowOf(j).sess
        => \E k \in 1..Len(raw) : /\ RowOf(k).status = "Stop"
                                  /\ RowOf(k).sess \in {RowOf(i).sess, RowOf(j).sess}
=============================================================================
