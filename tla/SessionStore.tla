---------------------------- MODULE SessionStore ----------------------------
(***************************************************************************)
(* What the dedup backstop of PostgreSQL promises to whoever copies rows   *)
(* into radius_sessions: a COPY is one atomic step that stores the first   *)
(* row of every (acct_session_id, acct_status_type) key that the table has *)
(* never seen, and writes every other row of the batch to duplicate_log.   *)
(*                                                                         *)
(* A row is identified by the COPY it belongs to and its place in it.      *)
(***************************************************************************)
EXTENDS Naturals, Sequences

CONSTANTS Txn,   \* COPY transactions
          Key,   \* (acct_session_id, acct_status_type) pairs
          Batch  \* the keys of the rows that each transaction copies, in order

VARIABLES done,    \* the transactions that committed
          stored,  \* rows of radius_sessions
          dups     \* rows of duplicate_log
vars == <<done, stored, dups>>

RowsOf(t) == {t} \X (1..Len(Batch[t]))
Row == UNION {RowsOf(t) : t \in Txn}
KeyOf(r) == Batch[r[1]][r[2]]

TypeOK ==
    /\ done \subseteq Txn
    /\ stored \subseteq Row
    /\ dups \subseteq Row

-----------------------------------------------------------------------------
Init == done = {} /\ stored = {} /\ dups = {}

StoredKeys == {KeyOf(r) : r \in stored}

\* The rows of t that radius_sessions takes: first of a key not stored before.
Fresh(t) == {r \in RowsOf(t) :
                /\ KeyOf(r) \notin StoredKeys
                /\ \A i \in 1..(r[2] - 1) : Batch[t][i] # KeyOf(r)}

Store(t) ==
    /\ t \notin done
    /\ done' = done \cup {t}
    /\ stored' = stored \cup Fresh(t)
    /\ dups' = dups \cup (RowsOf(t) \ Fresh(t))

Next == \E t \in Txn : Store(t)

Spec == Init /\ [][Next]_vars
=============================================================================
