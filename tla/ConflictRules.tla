---------------------------- MODULE ConflictRules ----------------------------
(***************************************************************************)
(* What _resolve_conflicts of pipeline/processing/processor.py calls a     *)
(* conflict, as rules about the rows of one batch: df is the sequence of   *)
(* records that passed deduplication, in the order of the data frame after *)
(* sort_values. R1 has rejected records without a session, msisdn, imsi or *)
(* imei, so no row of df lacks one.                                        *)
(*                                                                         *)
(* Rule B is stated here as a fixpoint, without the loop that computes it: *)
(* ConflictResolution is that loop.                                        *)
(***************************************************************************)
EXTENDS Naturals, Sequences

Rows(df) == 1..Len(df)

\* groupby("imsi").apply(...) is a series of flags only for several groups. For
\* one group it is a frame with a column for each row, and assigning that to
\* df["is_conflict_b"] raises unless it has just one column.
OneSubscriber(df) == Len(df) >= 2 /\ \A i, j \in Rows(df) : df[i].imsi = df[j].imsi

SameSession(df, i, j) == df[i].sess = df[j].sess
SameIdentity(df, i, j) == df[i].imsi = df[j].imsi /\ df[i].msisdn = df[j].msisdn

\* groupby("acct_session_id").first(): i is the first row of its session.
IsFirstOfSession(df, i) == \A j \in 1..(i - 1) : ~SameSession(df, i, j)

\* Fault: a row is compared with the one before it in its session.
ConflictAPrevious(df, i) ==
    /\ df[i].status # "Start"
    /\ \E j \in 1..(i - 1) :
          /\ SameSession(df, i, j)
          /\ \A k \in (j + 1)..(i - 1) : ~SameSession(df, i, k)
          /\ ~SameIdentity(df, i, j)
\* is_conflict_a: the identity differs from the one of the first row.
ConflictA(df, i) ==
    /\ df[i].status # "Start"
    /\ \E j \in 1..i : /\ SameSession(df, i, j)
                       /\ IsFirstOfSession(df, j)
                       /\ ~SameIdentity(df, i, j)

\* The rows that the scan of the subscriber m looks at without skipping.
Scanned(df, m) == {i \in Rows(df) : df[i].imsi = m /\ ~ConflictA(df, i)}

\* Fault: interim updates close their session, as the code's "Interim" suggests.
ClosesOnInterim(row) == row.status \in {"Stop", "Interim-Update"}
\* status in ("Stop", "Interim"): R5 lets through "Interim-Update", never
\* "Interim", so that only a Stop closes a session.
Closes(row) == row.status \in {"Stop", "Interim"}

\* When the scan of m reaches row i, with the Starts in F refused, the session
\* of row j is open.
OpenAt(df, F, m, j, i) ==
    /\ j \in Scanned(df, m) /\ j < i
    /\ df[j].status = "Start"
    /\ j \notin F
    /\ \A k \in Scanned(df, m) : j < k /\ k < i /\ SameSession(df, j, k) => ~Closes(df[k])

\* is_conflict_b: a Start while another session of its subscriber is open and
\* its own is not.
ConflictB(df, F, i) ==
    LET m == df[i].imsi
    IN  /\ i \in Scanned(df, m)
        /\ df[i].status = "Start"
        /\ \E j \in Rows(df) : OpenAt(df, F, m, j, i)
        /\ \A j \in Rows(df) : OpenAt(df, F, m, j, i) => ~SameSession(df, i, j)

\* The rows flagged B: each row depends only on the rows before it, so there
\* is exactly one such set.
FlaggedB(df) == CHOOSE F \in SUBSET Rows(df) : \A i \in Rows(df) : i \in F <=> ConflictB(df, F, i)

\* legit_mask, which is also what stays in the clean stream.
Clean(df, F) == {i \in Rows(df) : ~ConflictA(df, i) /\ i \notin F}

\* Fault: shift(1) over all rows of the batch.
PreviousOfAll(df, F, i, j) ==
    /\ j \in Rows(df) /\ j < i /\ df[j].msisdn = df[i].msisdn
    /\ \A k \in Rows(df) : j < k /\ k < i => df[k].msisdn # df[i].msisdn
\* groupby("msisdn").shift(1) over the clean rows: j comes just before i.
PreviousOf(df, F, i, j) ==
    /\ j \in Clean(df, F) /\ j < i /\ df[j].msisdn = df[i].msisdn
    /\ \A k \in Clean(df, F) : j < k /\ k < i => df[k].msisdn # df[i].msisdn

\* is_conflict_c and is_conflict_d: the signals of a SIM or a device swap.
ConflictC(df, F, i) ==
    i \in Clean(df, F) /\ \E j \in Rows(df) : PreviousOf(df, F, i, j) /\ df[j].imsi # df[i].imsi
ConflictD(df, F, i) ==
    i \in Clean(df, F) /\ \E j \in Rows(df) : PreviousOf(df, F, i, j) /\ df[j].imei # df[i].imei
=============================================================================
