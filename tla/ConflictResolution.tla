------------------------- MODULE ConflictResolution -------------------------
(***************************************************************************)
(* _resolve_conflicts of pipeline/processing/processor.py on one batch:    *)
(* the loop of _flag_conflict_b over the rows of each imsi, then the split *)
(* into clean rows, conflict_log rows and swap signals.                    *)
(*                                                                         *)
(* groupby("imsi") hands the groups to the loop one after another; they    *)
(* share nothing, so the model lets their rows interleave.                 *)
(***************************************************************************)
EXTENDS ConflictRules

CONSTANTS Session, Imsi, Msisdn, Imei,
          Batch  \* the batches: sequences of records

Record == [sess : Session, imsi : Imsi, msisdn : Msisdn, imei : Imei,
           status : {"Start", "Stop", "Interim-Update"}]

ASSUME BatchAssumption == Batch \subseteq Seq(Record)

VARIABLES df,           \* the data frame
          cursor,       \* the row that the loop of each imsi has reached
          openSessions, \* its open_sessions
          flagged       \* the rows it flagged
vars == <<df, cursor, openSessions, flagged>>

TypeOK ==
    /\ df \in Seq(Record)
    /\ cursor \in [Imsi -> Nat] /\ \A m \in Imsi : cursor[m] <= Len(df)
    /\ openSessions \in [Imsi -> SUBSET Session]
    /\ flagged \subseteq Rows(df)

\* The loop has yet to begin.
LoopInit ==
    /\ cursor = [m \in Imsi |-> 0]
    /\ openSessions = [m \in Imsi |-> {}]
    /\ flagged = {}

Init == df \in Batch /\ LoopInit

-----------------------------------------------------------------------------
HasRow(m) == cursor[m] < Len(df)
NextRow(m) == cursor[m] + 1

\* A row of another group, or one that is already in conflict A.
Skip(m) ==
    /\ HasRow(m)
    /\ NextRow(m) \notin Scanned(df, m)
    /\ cursor' = [cursor EXCEPT ![m] = @ + 1]
    /\ UNCHANGED <<df, openSessions, flagged>>

\* The branch of a Start: already open, refused, or opened.
Start(m) ==
    LET row == df[NextRow(m)]
    IN  /\ row.status = "Start"
        /\ IF row.sess \notin openSessions[m] /\ openSessions[m] # {}
           THEN flagged' = flagged \cup {NextRow(m)} /\ UNCHANGED openSessions
           ELSE /\ openSessions' = [openSessions EXCEPT ![m] = @ \cup {row.sess}]
                /\ UNCHANGED flagged

\* Fault: a Stop closes whatever session of the subscriber is open.
CloseAny(m) ==
    /\ Closes(df[NextRow(m)])
    /\ openSessions' = [openSessions EXCEPT ![m] = {}]
    /\ UNCHANGED flagged
\* open_sessions.discard.
Close(m) ==
    /\ Closes(df[NextRow(m)])
    /\ openSessions' = [openSessions EXCEPT ![m] = @ \ {df[NextRow(m)].sess}]
    /\ UNCHANGED flagged

Other(m) ==
    /\ df[NextRow(m)].status # "Start" /\ ~Closes(df[NextRow(m)])
    /\ UNCHANGED <<openSessions, flagged>>

Scan(m) ==
    /\ HasRow(m)
    /\ NextRow(m) \in Scanned(df, m)
    /\ Start(m) \/ Close(m) \/ Other(m)
    /\ cursor' = [cursor EXCEPT ![m] = @ + 1]
    /\ UNCHANGED df

Next == \E m \in Imsi : Skip(m) \/ Scan(m)

Spec == Init /\ [][Next]_vars

-----------------------------------------------------------------------------
Done == \A m \in Imsi : ~HasRow(m)
CleanRows == Clean(df, flagged)

\* The loop computes the rule: however its groups interleave, a Start is
\* refused exactly when another session of its subscriber is open and its own
\* is not.
LoopComputesRule == Done => flagged = FlaggedB(df)

\* The clean stream never shows a subscriber with two sessions open: between
\* the Starts of two of its sessions comes a clean Stop of the first one. No
\* order of the rows (several access servers, equal timestamps, records that
\* arrive before those they follow), refused Start or rejected Stop breaks this.
OneOpenSessionPerImsi ==
    Done => \A i, j \in CleanRows :
        /\ i < j
        /\ df[i].status = "Start" /\ df[j].status = "Start"
        /\ df[i].imsi = df[j].imsi
        /\ ~SameSession(df, i, j)
        => \E k \in CleanRows : /\ i < k /\ k < j
                                /\ SameSession(df, i, k)
                                /\ df[k].status = "Stop"
                                /\ df[k].imsi = df[i].imsi

\* A session that starts with its Start, and has no other, keeps one identity
\* in the clean stream.
SessionKeepsIdentity ==
    Done => \A i, j \in CleanRows :
        /\ SameSession(df, i, j)
        /\ \A k \in Rows(df) : SameSession(df, i, k) /\ df[k].status = "Start"
                                  => IsFirstOfSession(df, k)
        => SameIdentity(df, i, j)
=============================================================================
