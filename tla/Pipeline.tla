------------------------------- MODULE Pipeline -------------------------------
(***************************************************************************)
(* Stages 2 and 3 at work: the processor publishes to radius.clean what    *)
(* the writer reads from it, while PostgreSQL and both processes fail, and *)
(* run_pipeline.py may run the whole again. StorageWriter has the state    *)
(* and the steps of stage 3; those of stage 2 are S2!... of Processor, on  *)
(* variables of their own. Both spend the same budget of faults.           *)
(***************************************************************************)
EXTENDS StorageWriter

CONSTANTS Rec, Row, Time, Invalid, Delayed, Unix, Confirmed, MaxRaw, BatchLimit \* of Processor

VARIABLES planned2, committed2, pc2, \* of the query and the process of stage 2
          raw, work, dedup, invalidLog, conflictLog, swapEvent, clean,
          lostInvalid, lostConflict, renewals,
          spotless \* history: nothing has failed since the last rerun began

S2 == INSTANCE Processor WITH planned <- planned2, committed <- committed2, pc <- pc2

\* Messages are records, and both stages call the same thing a key.
ASSUME KeyAssumption == Msg = Rec /\ KeyOf = [r \in Rec |-> <<Row[r].sess, Row[r].status>>]

\* What Processor assumes of the records and the bounds.
ASSUME StageAssumption == S2!RecAssumption /\ S2!BoundAssumption

\* The state of one stage that the other one does not touch; they share the
\* topic and the budget of faults.
own2 == <<planned2, committed2, pc2, raw, work, dedup, invalidLog, conflictLog, swapEvent, clean,
          lostInvalid, lostConflict, renewals>>
own3 == <<planned, committed, pc, db, disk, rolledBack, forgotten>>
all == <<own2, own3, topic, spotless, faults>>

PipelineInit == S2!Init /\ Init /\ spotless = FALSE

-----------------------------------------------------------------------------
\* A row that stage 2 publishes is a message on radius.clean.
PublishBoth(i) ==
    /\ S2!PublishClean(i)
    /\ \E p \in Partition : Publish(p, raw[i])
    /\ UNCHANGED spotless

\* The other steps of stage 2.
Quiet2 ==
    /\ \/ S2!Plan \/ S2!Validate \/ S2!LogInvalid \/ S2!Resolve \/ S2!LogConflicts
       \/ S2!RecordSwaps \/ S2!CommitBatch \/ S2!ResolveRaises
    /\ UNCHANGED <<own3, topic, spotless>>
Stage2 == Quiet2 \/ \E i \in S2!Offset : PublishBoth(i)

Stage3 == S3Step /\ UNCHANGED <<own2, spotless>>

\* S1 sends, a stage is started by hand, the WAL writer catches up.
Around ==
    /\ \/ /\ S2!Restart \/ \E r \in Rec : S2!Publish(r)
          /\ UNCHANGED <<own3, topic>>
       \/ (Restart \/ Flush) /\ UNCHANGED own2
    /\ UNCHANGED spotless

Fails ==
    /\ \/ /\ \/ S2!ValidationFails \/ S2!LogInvalidFails \/ S2!LogConflictsFails
             \/ S2!RecordSwapsFails \/ S2!Crash
          /\ UNCHANGED <<own3, topic>>
       \/ (ConnectFails \/ CopyFails \/ Crash \/ DbCrash) /\ UNCHANGED own2
    /\ spotless' = FALSE

\* Fault: a new run removes the checkpoint of the storage query only.
Checkpoint2Kept == UNCHANGED <<planned2, committed2>>
\* shutil.rmtree on the checkpoint of the processing query.
Checkpoint2Removed == planned2' = 0 /\ committed2' = 0

\* run_pipeline.py once more, for both stages.
RerunBoth ==
    /\ Rerun
    /\ Checkpoint2Removed
    /\ pc2' = "idle"
    /\ work' = S2!NoWork /\ S2!ForgetAll
    /\ spotless' = TRUE
    /\ UNCHANGED <<raw, invalidLog, conflictLog, swapEvent, clean, lostInvalid, lostConflict>>

PipelineNext == Stage2 \/ Stage3 \/ Around \/ Fails \/ RerunBoth

\* Both query loops run as long as their processes live.
PipelineSpec ==
    PipelineInit /\ [][PipelineNext]_all /\ WF_all(Stage2) /\ WF_all(Stage3)
-----------------------------------------------------------------------------
Stored(i) == S2!KeyAt(i) \in db.seen
OfKey(i) == {j \in 1..Len(raw) : S2!KeyAt(j) = S2!KeyAt(i)}
\* A clean message of the key of i that stage 3 has yet to take, or lost.
OnItsWay(i) ==
    \E m \in Published : /\ KeyOf[MsgAt(m)] = S2!KeyAt(i)
                         /\ m[2] > committed[m[1]] \/ m \in rolledBack

\* From end to end no record gets lost without a trace: one that stage 2 has
\* behind it is in radius_sessions (its key is), on its way there, or in one of
\* the logs; the exceptions are log rows that were not written, batches of stage
\* 3 that rolled back and keys that a crash of PostgreSQL forgot. Neither
\* crashes of either stage nor reruns, between any two steps, break this.
EndToEnd ==
    \A i \in 1..committed2 :
        \/ S2!Invalidated(i)
        \/ \E j \in OfKey(i) : conflictLog[j] > 0 \/ j \in lostConflict
        \/ Stored(i) \/ OnItsWay(i) \/ S2!KeyAt(i) \in forgotten

Drained == committed2 = Len(raw) /\ committed = Ends

\* A rerun repairs: once both stages have reached the ends of their topics, and
\* nothing has failed since the checkpoints were removed, every valid record is
\* in the database, whatever crashes of the stages and of PostgreSQL and failed
\* writes had taken away before; all that is still missing are conflicts and the
\* batches that a record rolled back which PostgreSQL rejects.
RerunRepairs ==
    spotless /\ Drained =>
        \A i \in 1..Len(raw) :
            \/ raw[i] \in Invalid \/ S2!IsLate(raw[i])
            \/ Stored(i)
            \/ \E j \in OfKey(i) : conflictLog[j] > 0
            \/ \E m \in rolledBack : KeyOf[MsgAt(m)] = S2!KeyAt(i)

\* Whatever S1 sends arrives: both stages reach the ends of their topics again
\* and again, unless one of them is down for good, or stage 2 comes back again
\* and again to a batch with two records of one subscriber and raises on it.
PipelineDrains ==
    \/ []<>Drained
    \/ <>[](pc = "down" \/ pc2 = "down")
    \/ []<>(pc2 = "raised" /\ S2!HoldsTwoOfOne)
=============================================================================
