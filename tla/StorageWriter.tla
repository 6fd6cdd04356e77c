---------------------------- MODULE StorageWriter ----------------------------
(***************************************************************************)
(* Stage 3, pipeline/storage/writer.py: the Spark query that copies        *)
(* radius.clean into radius_sessions, one micro-batch at a time.           *)
(*                                                                         *)
(* External behaviour, from Spark: the query writes the end offsets of a   *)
(* batch to offsets/ before it runs the callback, and to commits/ after    *)
(* the callback returns; a restarted query runs again the batch that is in *)
(* offsets/ and not in commits/.                                           *)
(*                                                                         *)
(* External behaviour, from PostgreSQL with synchronous_commit = OFF: a    *)
(* transaction is visible as soon as it commits but reaches the disk       *)
(* later; a crash of the server forgets the latest transactions, whole.    *)
(***************************************************************************)
EXTENDS Integers, Sequences, FiniteSets

CONSTANTS Partition, \* of radius.clean
          Key,       \* (acct_session_id, acct_status_type) pairs
          Msg,       \* clean records
          KeyOf,     \* the key of each record
          Rejected,  \* records that violate a constraint of radius_sessions
          MaxMsgs,   \* bound: messages published to the topic
          MaxFaults  \* bound: crashes, restarts from scratch and failed statements

ASSUME KeyOfAssumption == KeyOf \in [Msg -> Key]
ASSUME PartitionAssumption == IsFiniteSet(Partition)

VARIABLES topic,      \* radius.clean, per partition
          planned,    \* end offsets of the latest batch in offsets/
          committed,  \* end offsets of the latest batch in commits/
          pc,         \* where the S3 process is
          db,         \* what PostgreSQL shows
          disk,       \* what PostgreSQL has flushed
          rolledBack, \* history: messages of batches whose COPY rolled back
          forgotten,  \* history: keys that a crash of PostgreSQL forgot
          faults
spark == <<planned, committed, pc>>
vars == <<topic, planned, committed, pc, db, disk, rolledBack, forgotten, faults>>

Offsets == [Partition -> Nat]
Tables == [rows : [Key -> Nat], dups : [Key -> Nat], seen : SUBSET Key]

TypeOK ==
    /\ topic \in [Partition -> Seq(Msg)]
    /\ planned \in Offsets
    /\ committed \in Offsets
    /\ \A p \in Partition : committed[p] <= planned[p] /\ planned[p] <= Len(topic[p])
    /\ pc \in {"idle", "planned", "open", "copied", "down"}
    /\ db \in Tables
    /\ disk \in Tables
    /\ rolledBack \subseteq Partition \X Nat
    /\ forgotten \subseteq Key
    /\ faults \in Nat

EmptyTables == [rows |-> [k \in Key |-> 0], dups |-> [k \in Key |-> 0], seen |-> {}]
NoOffsets == [p \in Partition |-> 0]

Init ==
    /\ topic = [p \in Partition |-> <<>>]
    /\ planned = NoOffsets
    /\ committed = NoOffsets
    /\ pc = "idle"
    /\ db = EmptyTables
    /\ disk = EmptyTables
    /\ rolledBack = {}
    /\ forgotten = {}
    /\ faults = 0

-----------------------------------------------------------------------------
Ends == [p \in Partition |-> Len(topic[p])]
Published == UNION {{p} \X (1..Len(topic[p])) : p \in Partition}
MsgAt(m) == topic[m[1]][m[2]]

\* The messages of the batch between commits/ and offsets/.
InBatch(m) == committed[m[1]] < m[2] /\ m[2] <= planned[m[1]]
BatchMsgs == {m \in Published : InBatch(m)}
BatchRows(k) == Cardinality({m \in BatchMsgs : KeyOf[MsgAt(m)] = k})
BatchKeys == {KeyOf[MsgAt(m)] : m \in BatchMsgs}

CountFault == faults < MaxFaults /\ faults' = faults + 1

\* S2 appends clean records without a key: any partition may get them.
Publish(p, m) ==
    /\ Cardinality(Published) < MaxMsgs
    /\ topic' = [topic EXCEPT ![p] = Append(@, m)]
    /\ UNCHANGED <<planned, committed, pc, db, disk, rolledBack, forgotten, faults>>

\* A trigger of the query finds new offsets and logs them.
Plan ==
    /\ pc = "idle"
    /\ Ends # committed
    /\ planned' = Ends
    /\ pc' = "planned"
    /\ UNCHANGED <<topic, committed, db, disk, rolledBack, forgotten, faults>>

\* collect(), then psycopg2.connect outside the try.
Connect ==
    /\ pc = "planned"
    /\ pc' = "open"
    /\ UNCHANGED <<topic, planned, committed, db, disk, rolledBack, forgotten, faults>>

\* The exception leaves the callback, the query and main().
ConnectFails ==
    /\ CountFault
    /\ pc = "planned"
    /\ pc' = "down"
    /\ UNCHANGED <<topic, planned, committed, db, disk, rolledBack, forgotten>>

\* Fault: no trigger on radius_sessions, COPY inserts every row.
CopiedWithoutTrigger(t) ==
    [t EXCEPT !.rows = [k \in Key |-> t.rows[k] + BatchRows(k)],
              !.seen = t.seen \cup BatchKeys]

\* The tables after the COPY of the batch, row by row through the trigger: one
\* row of a key that was never seen is stored, the others are logged.
Copied(t) ==
    LET fresh(k) == k \in BatchKeys /\ k \notin t.seen
    IN  [rows |-> [k \in Key |-> t.rows[k] + (IF fresh(k) THEN 1 ELSE 0)],
         dups |-> [k \in Key |-> t.dups[k] + BatchRows(k) - (IF fresh(k) THEN 1 ELSE 0)],
         seen |-> t.seen \cup BatchKeys]

\* copy_expert and the COMMIT of "with conn" succeed.
CopyCommits ==
    /\ pc = "open"
    /\ \A m \in BatchMsgs : MsgAt(m) \notin Rejected
    /\ db' = Copied(db)
    /\ pc' = "copied"
    /\ UNCHANGED <<topic, planned, committed, disk, rolledBack, forgotten, faults>>

\* Fault: the handler re-raises, so that Spark never commits the batch.
SwallowAndStop == pc' = "down" /\ rolledBack' = rolledBack

\* The handler logs the exception and returns: for Spark the batch is done.
Swallow == pc' = "copied" /\ rolledBack' = rolledBack \cup BatchMsgs

\* One bad row rolls the whole batch back, and so does any other error.
CopyRejected ==
    /\ pc = "open"
    /\ \E m \in BatchMsgs : MsgAt(m) \in Rejected
    /\ Swallow
    /\ UNCHANGED <<topic, planned, committed, db, disk, forgotten, faults>>

CopyFails ==
    /\ CountFault
    /\ pc = "open"
    /\ Swallow
    /\ UNCHANGED <<topic, planned, committed, db, disk, forgotten>>

CommitBatch ==
    /\ pc = "copied"
    /\ committed' = planned
    /\ pc' = "idle"
    /\ UNCHANGED <<topic, planned, db, disk, rolledBack, forgotten, faults>>

Crash ==
    /\ CountFault
    /\ pc # "down"
    /\ pc' = "down"
    /\ UNCHANGED <<topic, planned, committed, db, disk, rolledBack, forgotten>>

\* Fault: the restarted query trusts offsets/ and skips the pending batch.
RestartFromOffsets ==
    /\ pc = "down"
    /\ pc' = "idle"
    /\ committed' = planned
    /\ UNCHANGED <<topic, planned, db, disk, rolledBack, forgotten, faults>>

\* writer.py started by hand on the same checkpoint.
Restart ==
    /\ pc = "down"
    /\ pc' = IF planned = committed THEN "idle" ELSE "planned"
    /\ UNCHANGED <<topic, planned, committed, db, disk, rolledBack, forgotten, faults>>

\* run_pipeline.py once more, after the last run left no process behind: it
\* removes the checkpoint and launches this stage, which reads the whole topic.
Rerun ==
    /\ CountFault
    /\ planned' = NoOffsets /\ committed' = NoOffsets /\ rolledBack' = {}
    /\ pc' = "idle"
    /\ UNCHANGED <<topic, db, disk, forgotten>>

\* The WAL writer catches up.
Flush ==
    /\ disk # db
    /\ disk' = db
    /\ UNCHANGED <<topic, planned, committed, pc, db, rolledBack, forgotten, faults>>

\* Recovery brings back whole transactions.
Recovered == disk

\* PostgreSQL crashes and recovers; an open COPY breaks.
DbCrash ==
    /\ CountFault
    /\ db' = Recovered
    /\ disk' = Recovered
    /\ forgotten' = forgotten \cup (db.seen \ disk.seen)
    /\ IF pc = "open" THEN Swallow ELSE UNCHANGED <<pc, rolledBack>>
    /\ UNCHANGED <<topic, planned, committed>>

S3Step == Plan \/ Connect \/ CopyCommits \/ CopyRejected \/ CommitBatch

Next ==
    \/ \E p \in Partition, m \in Msg : Publish(p, m)
    \/ S3Step
    \/ ConnectFails \/ CopyFails \/ Crash \/ Restart \/ Rerun
    \/ Flush \/ DbCrash

Spec == Init /\ [][Next]_vars

\* The query loop of Spark runs as long as the process lives. Nothing in the
\* repository restarts a dead S3, so restarts are not fair.
FairSpec == Spec /\ WF_vars(S3Step)
-----------------------------------------------------------------------------
\* Whatever is replayed after a crash of S3, a rerun from an empty checkpoint
\* or a crash of PostgreSQL, radius_sessions holds exactly one row of every key
\* in dedup_seen_keys and none of any other.
SeenMatchesSessions ==
    \A k \in Key : db.rows[k] = IF k \in db.seen THEN 1 ELSE 0

\* Why a message behind the committed offsets may be missing from the database.
Accounted(m) ==
    \/ KeyOf[MsgAt(m)] \in db.seen
    \/ m \in rolledBack
    \/ KeyOf[MsgAt(m)] \in forgotten

\* S3 never moves past a message that it has not stored, except those that were
\* in a batch that rolled back (the callback swallows the error) or whose key a
\* crash of PostgreSQL forgot (synchronous_commit = OFF).
CommittedAccounted ==
    \A m \in Published : m[2] <= committed[m[1]] => Accounted(m)

\* A record that PostgreSQL rejects never wedges the stream: S3 always reaches
\* the end of the topic, unless it is down for good.
StreamNeverWedges == []<>(committed = Ends) \/ <>[](pc = "down")
=============================================================================
