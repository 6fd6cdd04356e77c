--------------------------------- MODULE Hlr ---------------------------------
(***************************************************************************)
(* The HLR/HSS mock, mock_services/hlr_hss, as swap_detector.py asks it:   *)
(* POST /subscribers/batch-history. Its tables are loaded before it serves *)
(* and never change.                                                       *)
(*                                                                         *)
(* A table has the rows of each number in the order of the CSV file: a     *)
(* SIM card or a device with the date of its assignment.                   *)
(***************************************************************************)
EXTENDS Naturals, Sequences, FiniteSets

CONSTANT MaxLookups \* msisdns that BatchHistoryRequest accepts (1000)

\* Fault: the rows stay in the order of the file.
HistoryAsLoaded(rows) == rows

\* sorted(records, key = date) is stable: how many rows come before row i.
Rank(rows, i) ==
    Cardinality({j \in DOMAIN rows : \/ rows[j].at < rows[i].at
                                     \/ rows[j].at = rows[i].at /\ j < i})

\* _build_identity_history; <<>> for a number that is not found.
History(rows) ==
    [n \in DOMAIN rows |-> rows[CHOOSE i \in DOMAIN rows : Rank(rows, i) = n - 1]]

\* A longer list is answered with 422.
Accepts(msisdns) == Len(msisdns) <= MaxLookups
=============================================================================
