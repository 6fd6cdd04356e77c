---------------------------- MODULE DedupTrigger ----------------------------
(***************************************************************************)
(* storage/migrations/004_dedup_trigger.sql as it runs under concurrent    *)
(* COPY transactions of pipeline/storage/writer.py.                        *)
(*                                                                         *)
(* Two writers exist when a run of run_pipeline.py starts while an S3 of   *)
(* an earlier run still lives: the signal handlers that stop the stages    *)
(* are installed only after all of them are launched, and a killed         *)
(* orchestrator never stops its children.                                  *)
(*                                                                         *)
(* External behaviour, from PostgreSQL (READ COMMITTED, the default of     *)
(* psycopg2): INSERT ... ON CONFLICT DO NOTHING on a key that an           *)
(* unfinished transaction has inserted waits for that transaction to end;  *)
(* a cycle of waiting transactions is broken by aborting one of them; an   *)
(* aborted transaction leaves no row behind in any table.                  *)
(***************************************************************************)
EXTENDS Naturals, Sequences

CONSTANTS Txn, Key, Batch,
          NoTxn  \* "no live tuple": a key that dedup_seen_keys does not hold

ASSUME BatchAssumption == Batch \in [Txn -> Seq(Key)]
ASSUME NoTxnAssumption == NoTxn \notin Txn

VARIABLES status,   \* of each transaction
          pos,      \* how many rows of its batch have been through the trigger
          holder,   \* dedup_seen_keys: the transaction that inserted each key
          sessions, \* radius_sessions, with the rows of unfinished transactions
          dupLog    \* duplicate_log, likewise
vars == <<status, pos, holder, sessions, dupLog>>

RowsOf(t) == {t} \X (1..Len(Batch[t]))
Row == UNION {RowsOf(t) : t \in Txn}
KeyOf(r) == Batch[r[1]][r[2]]

TypeOK ==
    /\ status \in [Txn -> {"idle", "running", "committed", "aborted"}]
    /\ pos \in [Txn -> Nat]
    /\ \A t \in Txn : pos[t] <= Len(Batch[t])
    /\ holder \in [Key -> Txn \cup {NoTxn}]
    /\ sessions \subseteq Row
    /\ dupLog \subseteq Row

Init ==
    /\ status = [t \in Txn |-> "idle"]
    /\ pos = [t \in Txn |-> 0]
    /\ holder = [k \in Key |-> NoTxn]
    /\ sessions = {}
    /\ dupLog = {}

-----------------------------------------------------------------------------
HasRow(t) == status[t] = "running" /\ pos[t] < Len(Batch[t])
NextKey(t) == Batch[t][pos[t] + 1]
NextRow(t) == <<t, pos[t] + 1>>

\* Fault: the check reads a snapshot, which hides unfinished transactions.
KeyFreeOnSnapshot(k) == holder[k] \in Txn => status[holder[k]] # "committed"
\* INSERT INTO dedup_seen_keys returns TRUE: nobody holds the key.
KeyFree(k) == holder[k] = NoTxn

\* Fault: the check does not wait for the transaction that holds the key.
KeyTakenUnlocked(t, k) == holder[k] # NoTxn
\* ... DO NOTHING: the key belongs to this transaction or to a committed one.
KeyTaken(t, k) == holder[k] # NoTxn /\ (holder[k] = t \/ status[holder[k]] = "committed")

\* t is blocked in its INSERT by the unfinished transaction u.
WaitsFor(t, u) == HasRow(t) /\ u # t /\ holder[NextKey(t)] = u /\ status[u] = "running"

\* with conn: opens the transaction that COPYs the batch.
Begin(t) ==
    /\ status[t] = "idle"
    /\ status' = [status EXCEPT ![t] = "running"]
    /\ UNCHANGED <<pos, holder, sessions, dupLog>>

\* Fault: RETURN NULL on both branches of the trigger.
InsertKeyOnly(t) ==
    /\ HasRow(t)
    /\ KeyFree(NextKey(t))
    /\ holder' = [holder EXCEPT ![NextKey(t)] = t]
    /\ pos' = [pos EXCEPT ![t] = @ + 1]
    /\ UNCHANGED <<status, sessions, dupLog>>

\* Fault: the INSERT INTO duplicate_log precedes the IF.
InsertNewLogged(t) ==
    /\ HasRow(t)
    /\ KeyFree(NextKey(t))
    /\ holder' = [holder EXCEPT ![NextKey(t)] = t]
    /\ sessions' = sessions \cup {NextRow(t)}
    /\ dupLog' = dupLog \cup {NextRow(t)}
    /\ pos' = [pos EXCEPT ![t] = @ + 1]
    /\ UNCHANGED status

\* RETURN NEW: the row goes into radius_sessions.
InsertNew(t) ==
    /\ HasRow(t)
    /\ KeyFree(NextKey(t))
    /\ holder' = [holder EXCEPT ![NextKey(t)] = t]
    /\ sessions' = sessions \cup {NextRow(t)}
    /\ pos' = [pos EXCEPT ![t] = @ + 1]
    /\ UNCHANGED <<status, dupLog>>

\* Fault: the trigger drops the row without logging it.
SuppressSilently(t) ==
    /\ HasRow(t)
    /\ KeyTaken(t, NextKey(t))
    /\ pos' = [pos EXCEPT ![t] = @ + 1]
    /\ UNCHANGED <<status, holder, sessions, dupLog>>

\* RETURN NULL after the INSERT INTO duplicate_log.
Suppress(t) ==
    /\ HasRow(t)
    /\ KeyTaken(t, NextKey(t))
    /\ dupLog' = dupLog \cup {NextRow(t)}
    /\ pos' = [pos EXCEPT ![t] = @ + 1]
    /\ UNCHANGED <<status, holder, sessions>>

Commit(t) ==
    /\ status[t] = "running"
    /\ pos[t] = Len(Batch[t])
    /\ status' = [status EXCEPT ![t] = "committed"]
    /\ UNCHANGED <<pos, holder, sessions, dupLog>>

\* Everything t wrote disappears, its keys in dedup_seen_keys included.
RollBackKeys(t) == [k \in Key |-> IF holder[k] = t THEN NoTxn ELSE holder[k]]

Undo(t) ==
    /\ status[t] = "running"
    /\ status' = [status EXCEPT ![t] = "aborted"]
    /\ holder' = RollBackKeys(t)
    /\ sessions' = sessions \ RowsOf(t)
    /\ dupLog' = dupLog \ RowsOf(t)
    /\ UNCHANGED pos

\* A bad row, a lost connection or a dead S3: the transaction rolls back.
Abort(t) == Undo(t)

\* The deadlock detector picks a victim on a cycle of waiting transactions.
InDeadlock(t) ==
    \E S \in SUBSET Txn :
        /\ t \in S
        /\ \A u \in S : \E v \in S : WaitsFor(u, v)
        /\ \A v \in S : \E u \in S : WaitsFor(u, v)

\* Fault: no deadlock detection.
DeadlockNeverBroken(t) == FALSE /\ Undo(t)
DeadlockAbort(t) == InDeadlock(t) /\ Undo(t)

Progress(t) == Begin(t) \/ InsertNew(t) \/ Suppress(t) \/ Commit(t)

Next == \E t \in Txn : Progress(t) \/ Abort(t) \/ DeadlockAbort(t)

Spec == Init /\ [][Next]_vars

\* PostgreSQL keeps executing statements and runs its deadlock detector after
\* deadlock_timeout; nothing forces an error.
FairSpec == Spec /\ \A t \in Txn : WF_vars(Progress(t)) /\ WF_vars(DeadlockAbort(t))
-----------------------------------------------------------------------------
Committed == {t \in Txn : status[t] = "committed"}
Visible(table) == {r \in table : r[1] \in Committed}

\* No reader ever sees two radius_sessions rows with one (session, status)
\* key, whatever the interleaving of the transactions that copied them (the
\* comment of the trigger claims its check-and-set is race free).
OneVisibleRowPerKey ==
    \A r, s \in Visible(sessions) : KeyOf(r) = KeyOf(s) => r = s

\* dedup_seen_keys and radius_sessions never drift apart: a key held by a
\* committed transaction has its session row. A key without a row would make
\* the trigger drop every later record of that session for good.
SeenKeyHasSession ==
    \A k \in Key : holder[k] \in Committed =>
        \E r \in Visible(sessions) : KeyOf(r) = k

\* A committed duplicate_log row is about a key that radius_sessions really
\* has: the trigger never took a row for the duplicate of one that was then
\* rolled back.
DuplicateHasOriginal ==
    \A d \in Visible(dupLog) : \E r \in Visible(sessions) : KeyOf(r) = KeyOf(d)

\* A committed COPY accounts for each of its rows exactly once, as a session or
\* as a logged duplicate.
EveryRowAccounted ==
    \A t \in Committed : \A r \in RowsOf(t) :
        (r \in sessions) # (r \in dupLog)

\* Transactions that copy overlapping keys in opposite orders wait for each
\* other; still, every COPY that starts ends.
EveryCopyEnds ==
    \A t \in Txn : status[t] = "running" ~> status[t] \in {"committed", "aborted"}

\* The trigger implements the atomic store: each commit is one step of it and
\* everything else is invisible.
Store == INSTANCE SessionStore
            WITH done <- Committed, stored <- Visible(sessions), dups <- Visible(dupLog)
ImplementsStore == Store!Spec
=============================================================================
