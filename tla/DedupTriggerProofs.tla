------------------------- MODULE DedupTriggerProofs -------------------------
(***************************************************************************)
(* The dedup trigger is correct for every set of transactions, every set   *)
(* of keys and every content of the batches: its safety properties, and    *)
(* that it implements the atomic store of SessionStore, and that no set of *)
(* COPYs is ever stuck.                                                    *)
(***************************************************************************)
EXTENDS DedupTrigger, FiniteSetTheorems, WellFoundedInduction, TLAPS

Live(t) == status[t] \in {"running", "committed"}

\* Rows are those that live transactions have been through so far.
RowsProcessed ==
    \A r \in sessions \cup dupLog : Live(r[1]) /\ r[2] <= pos[r[1]]

CursorMatchesStatus ==
    \A t \in Txn : /\ status[t] = "idle" => pos[t] = 0
                   /\ status[t] = "committed" => pos[t] = Len(Batch[t])

ProcessedAccounted ==
    \A t \in Txn : Live(t) =>
        \A i \in 1..pos[t] : (<<t, i>> \in sessions) # (<<t, i>> \in dupLog)

\* The unique index of dedup_seen_keys and the rows of radius_sessions agree,
\* rows of unfinished transactions included.
HolderHasRow ==
    \A k \in Key : holder[k] # NoTxn =>
        /\ Live(holder[k])
        /\ \E r \in sessions : r[1] = holder[k] /\ KeyOf(r) = k

RowHasHolder == \A r \in sessions : holder[KeyOf(r)] = r[1]

OneRowPerKey == \A r, s \in sessions : KeyOf(r) = KeyOf(s) => r = s

\* Why a row was suppressed: a committed transaction has its key, or an earlier
\* row of its own batch has.
DuplicateHasReason ==
    \A d \in dupLog :
        \/ holder[KeyOf(d)] \in Committed
        \/ \E i \in 1..(d[2] - 1) : /\ <<d[1], i>> \in sessions
                                    /\ KeyOf(<<d[1], i>>) = KeyOf(d)

IInv ==
    /\ TypeOK
    /\ RowsProcessed
    /\ CursorMatchesStatus
    /\ ProcessedAccounted
    /\ HolderHasRow
    /\ RowHasHolder
    /\ OneRowPerKey
    /\ DuplicateHasReason

-----------------------------------------------------------------------------
\* A row names its transaction, its place in the batch and its key.
LEMMA RowFacts ==
    /\ \A r \in Row : /\ r[1] \in Txn
                      /\ r[2] \in 1..Len(Batch[r[1]])
                      /\ r = <<r[1], r[2]>>
                      /\ KeyOf(r) \in Key
    /\ \A t \in Txn : \A i \in 1..Len(Batch[t]) :
          /\ <<t, i>> \in Row
          /\ KeyOf(<<t, i>>) = Batch[t][i]
          /\ Batch[t][i] \in Key
    /\ \A t \in Txn : Len(Batch[t]) \in Nat
    /\ \A t \in Txn : \A r \in Row : r \in RowsOf(t) <=> r[1] = t
BY BatchAssumption DEF Row, RowsOf, KeyOf

\* The row that a transaction is about to put through the trigger.
LEMMA NextRowFacts ==
    ASSUME NEW t \in Txn, TypeOK, HasRow(t)
    PROVE  /\ NextRow(t) \in Row
           /\ NextRow(t)[1] = t
           /\ NextRow(t)[2] = pos[t] + 1
           /\ KeyOf(NextRow(t)) = NextKey(t)
           /\ NextKey(t) \in Key
           /\ pos[t] \in Nat
           /\ pos[t] + 1 \in 1..Len(Batch[t])
           /\ status[t] = "running"
<1>1. pos[t] \in Nat /\ Len(Batch[t]) \in Nat
  BY RowFacts DEF TypeOK
<1>2. pos[t] + 1 \in 1..Len(Batch[t])
  BY <1>1 DEF HasRow
<1> QED
  BY <1>1, <1>2, RowFacts DEF NextRow, NextKey, HasRow

\* The table variables always have their shape.
LEMMA TypeStep == TypeOK /\ [Next]_vars => TypeOK'
<1> SUFFICES ASSUME TypeOK, [Next]_vars PROVE TypeOK'
  OBVIOUS
<1>1. ASSUME NEW t \in Txn, Begin(t) PROVE TypeOK'
  BY <1>1 DEF TypeOK, Begin
<1>2. ASSUME NEW t \in Txn, InsertNew(t) PROVE TypeOK'
  <2>1. HasRow(t)
    BY <1>2 DEF InsertNew
  <2> QED
    BY <1>2, <2>1, NextRowFacts DEF TypeOK, InsertNew
<1>3. ASSUME NEW t \in Txn, Suppress(t) PROVE TypeOK'
  <2>1. HasRow(t)
    BY <1>3 DEF Suppress
  <2> QED
    BY <1>3, <2>1, NextRowFacts DEF TypeOK, Suppress
<1>4. ASSUME NEW t \in Txn, Commit(t) PROVE TypeOK'
  BY <1>4 DEF TypeOK, Commit
<1>5. ASSUME NEW t \in Txn, Undo(t) PROVE TypeOK'
  BY <1>5 DEF TypeOK, Undo, RollBackKeys
<1>6. CASE UNCHANGED vars
  BY <1>6 DEF TypeOK, vars
<1> QED
  BY <1>1, <1>2, <1>3, <1>4, <1>5, <1>6 DEF Next, Progress, Abort, DeadlockAbort

\* The invariant is preserved by each kind of step.
LEMMA BeginStep ==
    ASSUME IInv, NEW t \in Txn, Begin(t), TypeOK' PROVE IInv'
<1>1. /\ \A u \in Txn : u # t => status'[u] = status[u]
      /\ status[t] = "idle" /\ status'[t] = "running"
      /\ pos' = pos /\ holder' = holder /\ sessions' = sessions /\ dupLog' = dupLog
  BY DEF Begin, IInv, TypeOK
<1>2. \A u \in Txn : Live(u) => Live(u)'
  BY <1>1 DEF Live
<1>3. Committed' = Committed
  BY <1>1 DEF Committed
<1>4. RowsProcessed'
  BY <1>1, <1>2, RowFacts DEF IInv, TypeOK, RowsProcessed
<1>5. ProcessedAccounted' /\ CursorMatchesStatus'
  BY <1>1, RowFacts DEF IInv, TypeOK, ProcessedAccounted, CursorMatchesStatus, Live
<1>6. HolderHasRow'
  BY <1>1, <1>2 DEF IInv, TypeOK, HolderHasRow, KeyOf
<1>7. RowHasHolder' /\ OneRowPerKey' /\ DuplicateHasReason'
  BY <1>1, <1>3 DEF IInv, RowHasHolder, OneRowPerKey, DuplicateHasReason, KeyOf
<1> QED
  BY <1>4, <1>5, <1>6, <1>7 DEF IInv

LEMMA CommitStep ==
    ASSUME IInv, NEW t \in Txn, Commit(t), TypeOK' PROVE IInv'
<1>1. /\ \A u \in Txn : u # t => status'[u] = status[u]
      /\ status[t] = "running" /\ status'[t] = "committed"
      /\ pos[t] = Len(Batch[t])
      /\ pos' = pos /\ holder' = holder /\ sessions' = sessions /\ dupLog' = dupLog
  BY DEF Commit, IInv, TypeOK
<1>2. \A u \in Txn : Live(u) <=> Live(u)'
  BY <1>1 DEF Live
<1>3. Committed \subseteq Committed'
  BY <1>1 DEF Committed
<1>4. RowsProcessed'
  BY <1>1, <1>2, RowFacts DEF IInv, TypeOK, RowsProcessed
<1>5. ProcessedAccounted' /\ CursorMatchesStatus'
  BY <1>1, <1>2 DEF IInv, ProcessedAccounted, CursorMatchesStatus
<1>6. HolderHasRow'
  BY <1>1, <1>2 DEF IInv, TypeOK, HolderHasRow, KeyOf
<1>7. RowHasHolder' /\ OneRowPerKey'
  BY <1>1 DEF IInv, RowHasHolder, OneRowPerKey, KeyOf
<1>8. DuplicateHasReason'
  BY <1>1, <1>3 DEF IInv, DuplicateHasReason, KeyOf
<1> QED
  BY <1>4, <1>5, <1>6, <1>7, <1>8 DEF IInv

LEMMA InsertNewStep ==
    ASSUME IInv, NEW t \in Txn, InsertNew(t), TypeOK' PROVE IInv'
<1> DEFINE n == NextRow(t)
<1>1. /\ n \in Row /\ n[1] = t /\ n[2] = pos[t] + 1 /\ n = <<t, pos[t] + 1>>
      /\ KeyOf(n) = NextKey(t) /\ NextKey(t) \in Key
      /\ pos[t] \in Nat /\ status[t] = "running"
  BY NextRowFacts DEF InsertNew, IInv, NextRow
<1> HIDE DEF n
<1>2. /\ status' = status /\ dupLog' = dupLog /\ sessions' = sessions \cup {n}
      /\ pos' = [pos EXCEPT ![t] = @ + 1]
      /\ holder' = [holder EXCEPT ![NextKey(t)] = t]
      /\ holder[NextKey(t)] = NoTxn
  BY DEF InsertNew, KeyFree, n
<1>3. /\ \A u \in Txn : Live(u) <=> Live(u)'
      /\ Committed' = Committed
      /\ \A u \in Txn : pos[u] \in Nat /\ pos'[u] >= pos[u]
      /\ \A u \in Txn : u # t => pos'[u] = pos[u]
      /\ pos'[t] = pos[t] + 1
  BY <1>1, <1>2 DEF Live, Committed, IInv, TypeOK
<1>4. \A k \in Key : k # NextKey(t) => holder'[k] = holder[k]
  BY <1>2 DEF IInv, TypeOK
<1>5. holder'[NextKey(t)] = t
  BY <1>1, <1>2 DEF IInv, TypeOK
<1>6. Live(t)
  BY <1>1 DEF Live
<1>7. \A r \in sessions \cup dupLog : r \in Row /\ r # n
  BY <1>1, <1>3, RowFacts DEF IInv, TypeOK, RowsProcessed
<1>8. \A r \in sessions : KeyOf(r) # NextKey(t)
  BY <1>1, <1>2, <1>7, RowFacts, NoTxnAssumption DEF IInv, RowHasHolder
<1>9. RowsProcessed'
  BY <1>1, <1>2, <1>3, <1>6, <1>7, RowFacts DEF IInv, RowsProcessed
<1>10. ProcessedAccounted'
  <2> SUFFICES ASSUME NEW u \in Txn, Live(u), NEW i \in 1..pos'[u]
               PROVE (<<u, i>> \in sessions') # (<<u, i>> \in dupLog')
    BY <1>3 DEF ProcessedAccounted
  <2>1. CASE u = t /\ i = pos[t] + 1
    BY <2>1, <1>1, <1>2, <1>7
  <2>2. CASE ~(u = t /\ i = pos[t] + 1)
    <3>1. i \in 1..pos[u] /\ <<u, i>> # n
      BY <2>2, <1>1, <1>3
    <3> QED
      BY <3>1, <1>2 DEF IInv, ProcessedAccounted
  <2> QED
    BY <2>1, <2>2
<1>11. HolderHasRow'
  <2> SUFFICES ASSUME NEW k \in Key, holder'[k] # NoTxn
               PROVE /\ status'[holder'[k]] \in {"running", "committed"}
                     /\ \E r \in sessions' : r[1] = holder'[k] /\ KeyOf(r) = k
    BY DEF HolderHasRow, KeyOf, Live
  <2>1. CASE k = NextKey(t)
    BY <2>1, <1>1, <1>2, <1>5
  <2>2. CASE k # NextKey(t)
    <3>1. holder'[k] = holder[k] /\ holder[k] \in Txn
      BY <2>2, <1>4 DEF IInv, TypeOK
    <3> QED
      BY <3>1, <1>2 DEF IInv, HolderHasRow, Live
  <2> QED
    BY <2>1, <2>2
<1>12. RowHasHolder'
  <2> SUFFICES ASSUME NEW r \in sessions' PROVE holder'[KeyOf(r)] = r[1]
    BY DEF RowHasHolder, KeyOf
  <2>1. CASE r = n
    BY <2>1, <1>1, <1>5
  <2>2. CASE r \in sessions
    BY <2>2, <1>4, <1>7, <1>8, RowFacts DEF IInv, RowHasHolder
  <2> QED
    BY <2>1, <2>2, <1>2
<1>13. OneRowPerKey'
  <2> SUFFICES ASSUME NEW r \in sessions', NEW s \in sessions', KeyOf(r) = KeyOf(s)
               PROVE r = s
    BY DEF OneRowPerKey, KeyOf
  <2> QED
    BY <1>1, <1>2, <1>8 DEF IInv, OneRowPerKey
<1>14. DuplicateHasReason'
  <2> SUFFICES ASSUME NEW d \in dupLog
               PROVE \/ holder'[KeyOf(d)] \in Committed
                     \/ \E i \in 1..(d[2] - 1) : /\ <<d[1], i>> \in sessions'
                                                 /\ KeyOf(<<d[1], i>>) = KeyOf(d)
    BY <1>2, <1>3 DEF DuplicateHasReason, KeyOf
  <2>1. CASE holder[KeyOf(d)] \in Committed
    <3>1. holder[KeyOf(d)] # NoTxn
      BY <2>1, NoTxnAssumption DEF Committed
    <3> QED
      BY <3>1, <2>1, <1>2, <1>4, <1>7, RowFacts
  <2>2. CASE holder[KeyOf(d)] \notin Committed
    BY <2>2, <1>2 DEF IInv, DuplicateHasReason
  <2> QED
    BY <2>1, <2>2
<1>15. CursorMatchesStatus'
  BY <1>1, <1>2, <1>3 DEF IInv, CursorMatchesStatus
<1> QED
  BY <1>9, <1>10, <1>11, <1>12, <1>13, <1>14, <1>15 DEF IInv

LEMMA SuppressStep ==
    ASSUME IInv, NEW t \in Txn, Suppress(t), TypeOK' PROVE IInv'
<1> DEFINE n == NextRow(t)
<1>1. /\ n \in Row /\ n[1] = t /\ n[2] = pos[t] + 1 /\ n = <<t, pos[t] + 1>>
      /\ KeyOf(n) = NextKey(t) /\ NextKey(t) \in Key
      /\ pos[t] \in Nat /\ status[t] = "running"
  BY NextRowFacts DEF Suppress, IInv, NextRow
<1> HIDE DEF n
<1>2. /\ status' = status /\ sessions' = sessions /\ dupLog' = dupLog \cup {n}
      /\ pos' = [pos EXCEPT ![t] = @ + 1]
      /\ holder' = holder
      /\ holder[NextKey(t)] # NoTxn
      /\ holder[NextKey(t)] = t \/ status[holder[NextKey(t)]] = "committed"
  BY DEF Suppress, KeyTaken, n
<1>3. /\ \A u \in Txn : Live(u) <=> Live(u)'
      /\ Committed' = Committed
      /\ \A u \in Txn : pos[u] \in Nat /\ pos'[u] >= pos[u]
      /\ \A u \in Txn : u # t => pos'[u] = pos[u]
      /\ pos'[t] = pos[t] + 1
  BY <1>1, <1>2 DEF Live, Committed, IInv, TypeOK
<1>4. Live(t)
  BY <1>1 DEF Live
<1>5. \A r \in sessions \cup dupLog : r \in Row /\ r # n
  BY <1>1, <1>3, RowFacts DEF IInv, TypeOK, RowsProcessed
<1>6. RowsProcessed'
  BY <1>1, <1>2, <1>3, <1>4, <1>5, RowFacts DEF IInv, RowsProcessed
<1>7. ProcessedAccounted'
  <2> SUFFICES ASSUME NEW u \in Txn, Live(u), NEW i \in 1..pos'[u]
               PROVE (<<u, i>> \in sessions') # (<<u, i>> \in dupLog')
    BY <1>3 DEF ProcessedAccounted
  <2>1. CASE u = t /\ i = pos[t] + 1
    BY <2>1, <1>1, <1>2, <1>5
  <2>2. CASE ~(u = t /\ i = pos[t] + 1)
    <3>1. i \in 1..pos[u] /\ <<u, i>> # n
      BY <2>2, <1>1, <1>3
    <3> QED
      BY <3>1, <1>2 DEF IInv, ProcessedAccounted
  <2> QED
    BY <2>1, <2>2
<1>8. HolderHasRow'
  BY <1>2, <1>3 DEF IInv, TypeOK, HolderHasRow, KeyOf
<1>9. RowHasHolder' /\ OneRowPerKey'
  BY <1>2 DEF IInv, RowHasHolder, OneRowPerKey, KeyOf
<1>10. DuplicateHasReason'
  <2> SUFFICES ASSUME NEW d \in dupLog'
               PROVE \/ holder[KeyOf(d)] \in Committed
                     \/ \E i \in 1..(d[2] - 1) : /\ <<d[1], i>> \in sessions
                                                 /\ KeyOf(<<d[1], i>>) = KeyOf(d)
    BY <1>2, <1>3 DEF DuplicateHasReason, KeyOf
  <2>1. CASE d \in dupLog
    BY <2>1 DEF IInv, DuplicateHasReason
  <2>2. CASE d = n /\ holder[NextKey(t)] # t
    BY <2>2, <1>1, <1>2 DEF IInv, TypeOK, Committed
  <2>3. CASE d = n /\ holder[NextKey(t)] = t
    <3>1. PICK r \in sessions : r[1] = t /\ KeyOf(r) = NextKey(t)
      BY <2>3, <1>1, <1>2 DEF IInv, HolderHasRow
    <3>2. r = <<t, r[2]>> /\ r[2] \in 1..pos[t]
      BY <3>1, <1>5, RowFacts DEF IInv, RowsProcessed
    <3>3. d[1] = t /\ d[2] - 1 = pos[t] /\ KeyOf(d) = NextKey(t)
      BY <2>3, <1>1
    <3> QED
      BY <3>1, <3>2, <3>3
  <2> QED
    BY <2>1, <2>2, <2>3, <1>2
<1>11. CursorMatchesStatus'
  BY <1>1, <1>2, <1>3 DEF IInv, CursorMatchesStatus
<1> QED
  BY <1>6, <1>7, <1>8, <1>9, <1>10, <1>11 DEF IInv

LEMMA UndoStep ==
    ASSUME IInv, NEW t \in Txn, Undo(t), TypeOK' PROVE IInv'
<1>1. /\ \A u \in Txn : u # t => status'[u] = status[u]
      /\ status[t] = "running" /\ status'[t] = "aborted"
      /\ pos' = pos /\ holder' = RollBackKeys(t)
      /\ sessions' = sessions \ RowsOf(t) /\ dupLog' = dupLog \ RowsOf(t)
  BY DEF Undo, IInv, TypeOK
<1>2. \A r \in sessions \cup dupLog : r \in Row /\ (r \in RowsOf(t) <=> r[1] = t)
  BY RowFacts DEF IInv, TypeOK
<1>3. /\ \A u \in Txn : u # t => (Live(u) <=> Live(u)')
      /\ ~Live(t)'
      /\ Committed' = Committed /\ t \notin Committed
  BY <1>1 DEF Live, Committed
<1>4. \A k \in Key : IF holder[k] = t THEN holder'[k] = NoTxn ELSE holder'[k] = holder[k]
  BY <1>1 DEF RollBackKeys
<1>5. RowsProcessed' /\ CursorMatchesStatus'
  BY <1>1, <1>2, <1>3, RowFacts DEF IInv, RowsProcessed, CursorMatchesStatus
<1>6. ProcessedAccounted'
  <2> SUFFICES ASSUME NEW u \in Txn, u # t, Live(u), NEW i \in 1..pos[u]
               PROVE (<<u, i>> \in sessions') # (<<u, i>> \in dupLog')
    BY <1>1, <1>3 DEF ProcessedAccounted
  <2> QED
    BY <1>1, <1>2 DEF IInv, ProcessedAccounted
<1>7. HolderHasRow'
  <2> SUFFICES ASSUME NEW k \in Key, holder'[k] # NoTxn
               PROVE /\ status'[holder'[k]] \in {"running", "committed"}
                     /\ \E r \in sessions' : r[1] = holder'[k] /\ KeyOf(r) = k
    BY DEF HolderHasRow, KeyOf, Live
  <2>1. holder'[k] = holder[k] /\ holder[k] # t /\ holder[k] \in Txn
    BY <1>4 DEF IInv, TypeOK
  <2>2. PICK r \in sessions : r[1] = holder[k] /\ KeyOf(r) = k
    BY <2>1 DEF IInv, HolderHasRow
  <2>3. r \in sessions'
    BY <2>1, <2>2, <1>1, <1>2
  <2>4. status'[holder[k]] \in {"running", "committed"}
    BY <2>1, <1>1 DEF IInv, HolderHasRow, Live
  <2> QED
    BY <2>1, <2>2, <2>3, <2>4
<1>8. RowHasHolder'
  <2> SUFFICES ASSUME NEW r \in sessions' PROVE holder'[KeyOf(r)] = r[1]
    BY DEF RowHasHolder, KeyOf
  <2> QED
    BY <1>1, <1>2, <1>4, RowFacts DEF IInv, RowHasHolder
<1>9. OneRowPerKey'
  BY <1>1 DEF IInv, OneRowPerKey, KeyOf
<1>10. DuplicateHasReason'
  <2> SUFFICES ASSUME NEW d \in dupLog, d \notin RowsOf(t)
               PROVE \/ holder'[KeyOf(d)] \in Committed
                     \/ \E i \in 1..(d[2] - 1) : /\ <<d[1], i>> \in sessions'
                                                 /\ KeyOf(<<d[1], i>>) = KeyOf(d)
    BY <1>1, <1>3 DEF DuplicateHasReason, KeyOf
  <2>1. CASE holder[KeyOf(d)] \in Committed
    BY <2>1, <1>2, <1>3, <1>4, RowFacts
  <2>2. ASSUME NEW i \in 1..(d[2] - 1), <<d[1], i>> \in sessions,
               KeyOf(<<d[1], i>>) = KeyOf(d)
        PROVE <<d[1], i>> \in sessions'
    <3>1. d[1] # t /\ <<d[1], i>>[1] = d[1]
      BY <1>2
    <3> QED
      BY <2>2, <3>1, <1>1, <1>2
  <2> QED
    BY <2>1, <2>2 DEF IInv, DuplicateHasReason
<1> QED
  BY <1>5, <1>6, <1>7, <1>8, <1>9, <1>10 DEF IInv

LEMMA Inductive == IInv /\ [Next]_vars => IInv'
<1> SUFFICES ASSUME IInv, [Next]_vars PROVE IInv'
  OBVIOUS
<1>1. TypeOK'
  BY TypeStep DEF IInv
<1>2. CASE UNCHANGED vars
  <2>1. RowsProcessed' /\ CursorMatchesStatus' /\ ProcessedAccounted'
    BY <1>2 DEF vars, IInv, RowsProcessed, CursorMatchesStatus, ProcessedAccounted, Live
  <2>2. HolderHasRow' /\ RowHasHolder' /\ OneRowPerKey'
    BY <1>2 DEF vars, IInv, HolderHasRow, RowHasHolder, OneRowPerKey, Live, KeyOf
  <2>3. DuplicateHasReason'
    BY <1>2 DEF vars, IInv, DuplicateHasReason, Committed, KeyOf
  <2> QED
    BY <1>1, <2>1, <2>2, <2>3 DEF IInv
<1>3. CASE Next
  BY <1>1, <1>3, BeginStep, InsertNewStep, SuppressStep, CommitStep, UndoStep
     DEF Next, Progress, Abort, DeadlockAbort
<1> QED
  BY <1>2, <1>3

LEMMA Initially == Init => IInv
BY RowFacts, NoTxnAssumption
   DEF Init, IInv, TypeOK, RowsProcessed, CursorMatchesStatus, ProcessedAccounted, HolderHasRow,
       RowHasHolder, OneRowPerKey, DuplicateHasReason, Live

\* The inductive invariant holds in every reachable state.
THEOREM Invariance == Spec => []IInv
BY Initially, Inductive, PTL DEF Spec

\* Every table keeps its shape, and no cursor runs past its batch.
THEOREM TypeCorrect == Spec => []TypeOK
<1>1. IInv => TypeOK
  BY DEF IInv
<1> QED
  BY <1>1, Invariance, PTL

\* radius_sessions never shows two rows of one (session, status) key, for any
\* number of concurrent COPY transactions with any content.
THEOREM UniqueSessions == Spec => []OneVisibleRowPerKey
<1>1. IInv => OneVisibleRowPerKey
  BY DEF IInv, OneRowPerKey, OneVisibleRowPerKey, Visible
<1> QED
  BY <1>1, Invariance, PTL

\* dedup_seen_keys holds no key whose session row is missing.
THEOREM SeenKeysBacked == Spec => []SeenKeyHasSession
<1>1. IInv => SeenKeyHasSession
  <2> SUFFICES ASSUME IInv, NEW k \in Key, holder[k] \in Committed
               PROVE \E r \in Visible(sessions) : KeyOf(r) = k
    BY DEF SeenKeyHasSession
  <2>1. holder[k] # NoTxn
    BY NoTxnAssumption DEF Committed
  <2> QED
    BY <2>1 DEF IInv, HolderHasRow, Visible
<1> QED
  BY <1>1, Invariance, PTL

\* Nothing in duplicate_log is the duplicate of a row that was rolled back.
THEOREM DuplicatesBacked == Spec => []DuplicateHasOriginal
<1>1. IInv => DuplicateHasOriginal
  <2> SUFFICES ASSUME IInv, NEW d \in Visible(dupLog)
               PROVE \E r \in Visible(sessions) : KeyOf(r) = KeyOf(d)
    BY DEF DuplicateHasOriginal
  <2>1. d \in dupLog /\ d[1] \in Committed /\ KeyOf(d) \in Key
    BY RowFacts DEF Visible, IInv, TypeOK
  <2>2. CASE holder[KeyOf(d)] \in Committed
    <3>1. holder[KeyOf(d)] # NoTxn
      BY <2>2, NoTxnAssumption DEF Committed
    <3> QED
      BY <3>1, <2>1, <2>2 DEF IInv, HolderHasRow, Visible
  <2>3. ASSUME NEW i \in 1..(d[2] - 1), <<d[1], i>> \in sessions,
               KeyOf(<<d[1], i>>) = KeyOf(d)
        PROVE \E r \in Visible(sessions) : KeyOf(r) = KeyOf(d)
    <3>1. <<d[1], i>> \in Visible(sessions)
      BY <2>1, <2>3 DEF Visible
    <3> QED
      BY <3>1, <2>3
  <2> QED
    BY <2>1, <2>2, <2>3 DEF IInv, DuplicateHasReason
<1> QED
  BY <1>1, Invariance, PTL

-----------------------------------------------------------------------------
\* A transaction that commits has put in radius_sessions exactly the rows that
\* the atomic store would take, and in duplicate_log all the others.
LEMMA CommitIsStore ==
    ASSUME IInv, NEW t \in Txn, Commit(t)
    PROVE  Store!Store(t)
<1>1. /\ status[t] = "running" /\ pos[t] = Len(Batch[t])
      /\ status' = [status EXCEPT ![t] = "committed"]
      /\ sessions' = sessions /\ dupLog' = dupLog
  BY DEF Commit
<1>2. t \notin Committed /\ Committed' = Committed \cup {t}
  BY <1>1 DEF Committed, IInv, TypeOK
<1>3. \A r \in RowsOf(t) : (r \in sessions) # (r \in dupLog)
  BY <1>1, RowFacts DEF IInv, ProcessedAccounted, Live, RowsOf
<1>4. \A r \in RowsOf(t) : r \in sessions => r \in Store!Fresh(t)
  <2> SUFFICES ASSUME NEW r \in RowsOf(t), r \in sessions
               PROVE /\ KeyOf(r) \notin {KeyOf(s) : s \in Visible(sessions)}
                     /\ \A i \in 1..(r[2] - 1) : Batch[t][i] # KeyOf(r)
    BY DEF Store!Fresh, Store!RowsOf, Store!KeyOf, Store!StoredKeys, RowsOf, KeyOf
  <2>1. r = <<t, r[2]>> /\ r[2] \in 1..Len(Batch[t]) /\ r[1] = t /\ KeyOf(r) \in Key
    BY RowFacts DEF IInv, TypeOK, RowsOf
  <2>2. holder[KeyOf(r)] = t
    BY <2>1 DEF IInv, RowHasHolder
  <2>3. ASSUME NEW s \in Visible(sessions), KeyOf(s) = KeyOf(r) PROVE FALSE
    BY <2>1, <2>3, <1>2 DEF IInv, OneRowPerKey, Visible
  <2>4. ASSUME NEW i \in 1..(r[2] - 1), Batch[t][i] = KeyOf(r) PROVE FALSE
    <3>1. i \in 1..Len(Batch[t]) /\ <<t, i>> \in RowsOf(t) /\ KeyOf(<<t, i>>) = KeyOf(r)
      BY <2>1, <2>4, RowFacts DEF RowsOf
    <3>2. <<t, i>> \notin sessions
      BY <3>1, <2>1 DEF IInv, OneRowPerKey
    <3>3. <<t, i>> \in dupLog
      BY <3>1, <3>2, <1>3
    <3>4. PICK j \in 1..(i - 1) : <<t, j>> \in sessions /\ KeyOf(<<t, j>>) = KeyOf(r)
      BY <3>1, <3>3, <2>2, <1>2 DEF IInv, DuplicateHasReason
    <3>5. <<t, j>> = r
      BY <3>4 DEF IInv, OneRowPerKey
    <3> QED
      BY <3>4, <3>5, <2>1, <2>4
  <2> QED
    BY <2>3, <2>4
<1>5. \A r \in RowsOf(t) : r \in dupLog => r \notin Store!Fresh(t)
  <2> SUFFICES ASSUME NEW r \in RowsOf(t), r \in dupLog
               PROVE \/ KeyOf(r) \in {KeyOf(s) : s \in Visible(sessions)}
                     \/ \E i \in 1..(r[2] - 1) : Batch[t][i] = KeyOf(r)
    BY DEF Store!Fresh, Store!RowsOf, Store!KeyOf, Store!StoredKeys, RowsOf, KeyOf
  <2>1. r = <<t, r[2]>> /\ r[2] \in 1..Len(Batch[t]) /\ r[1] = t /\ KeyOf(r) \in Key
    BY RowFacts DEF IInv, TypeOK, RowsOf
  <2>2. CASE holder[KeyOf(r)] \in Committed
    <3>1. holder[KeyOf(r)] # NoTxn
      BY <2>2, NoTxnAssumption DEF Committed
    <3>2. PICK s \in sessions : s[1] = holder[KeyOf(r)] /\ KeyOf(s) = KeyOf(r)
      BY <3>1, <2>1 DEF IInv, HolderHasRow
    <3> QED
      BY <3>2, <2>2 DEF Visible
  <2>3. ASSUME NEW i \in 1..(r[2] - 1), <<t, i>> \in sessions,
               KeyOf(<<t, i>>) = KeyOf(r)
        PROVE Batch[t][i] = KeyOf(r)
    BY <2>1, <2>3, RowFacts
  <2> QED
    BY <2>1, <2>2, <2>3 DEF IInv, DuplicateHasReason
<1>6. \A r \in sessions \cup dupLog : r[1] = t <=> r \in RowsOf(t)
  BY RowFacts DEF IInv, TypeOK
<1>7. Store!Fresh(t) \subseteq RowsOf(t) /\ Store!RowsOf(t) = RowsOf(t)
  BY DEF Store!Fresh, Store!RowsOf, RowsOf
<1>8. Visible(sessions)' = Visible(sessions) \cup Store!Fresh(t)
  BY <1>1, <1>2, <1>3, <1>4, <1>5, <1>6, <1>7 DEF Visible
<1>9. Visible(dupLog)' = Visible(dupLog) \cup (RowsOf(t) \ Store!Fresh(t))
  BY <1>1, <1>2, <1>3, <1>4, <1>5, <1>6, <1>7 DEF Visible
<1> QED
  BY <1>2, <1>7, <1>8, <1>9 DEF Store!Store

\* A committed COPY put each of its rows in exactly one of the two tables.
THEOREM RowsAccounted == Spec => []EveryRowAccounted
<1>1. IInv => EveryRowAccounted
  <2> SUFFICES ASSUME IInv, NEW t \in Committed, NEW r \in RowsOf(t)
               PROVE (r \in sessions) # (r \in dupLog)
    BY DEF EveryRowAccounted
  <2>1. t \in Txn /\ status[t] = "committed"
    BY DEF Committed
  <2>2. pos[t] = Len(Batch[t]) /\ r = <<t, r[2]>> /\ r[2] \in 1..Len(Batch[t])
    BY <2>1, RowFacts DEF IInv, CursorMatchesStatus, RowsOf
  <2> QED
    BY <2>1, <2>2 DEF IInv, ProcessedAccounted, Live
<1> QED
  BY <1>1, Invariance, PTL

\* The trigger under any interleaving of COPY transactions, rollbacks and
\* deadlock victims implements the atomic store of SessionStore.
THEOREM Refinement == Spec => ImplementsStore
<1>1. Init => Store!Init
  BY DEF Init, Store!Init, Committed, Visible
<1>2. IInv /\ [Next]_vars => [Store!Next]_(Store!vars)
  <2> SUFFICES ASSUME IInv, [Next]_vars
               PROVE  Store!Next \/ UNCHANGED Store!vars
    BY DEF Store!vars
  <2>1. ASSUME NEW t \in Txn, Commit(t) PROVE Store!Next
    BY <2>1, CommitIsStore DEF Store!Next
  <2>2. ASSUME Committed' = Committed,
               Visible(sessions)' = Visible(sessions), Visible(dupLog)' = Visible(dupLog)
        PROVE UNCHANGED Store!vars
    BY <2>2 DEF Store!vars
  <2>3. ASSUME NEW t \in Txn, Begin(t) PROVE UNCHANGED Store!vars
    <3>1. Committed' = Committed /\ sessions' = sessions /\ dupLog' = dupLog
      BY <2>3 DEF Begin, IInv, TypeOK, Committed
    <3> QED
      BY <3>1, <2>2 DEF Visible
  <2>4. ASSUME NEW t \in Txn, InsertNew(t) \/ Suppress(t) PROVE UNCHANGED Store!vars
    <3>1. t \notin Committed /\ Committed' = Committed /\ NextRow(t)[1] = t
      BY <2>4 DEF InsertNew, Suppress, HasRow, Committed, NextRow
    <3>2. /\ sessions' = sessions \/ sessions' = sessions \cup {NextRow(t)}
          /\ dupLog' = dupLog \/ dupLog' = dupLog \cup {NextRow(t)}
      BY <2>4 DEF InsertNew, Suppress
    <3> QED
      BY <3>1, <3>2, <2>2 DEF Visible
  <2>5. ASSUME NEW t \in Txn, Undo(t) PROVE UNCHANGED Store!vars
    <3>1. t \notin Committed /\ Committed' = Committed
      BY <2>5 DEF Undo, IInv, TypeOK, Committed
    <3>2. \A r \in sessions \cup dupLog : r \in RowsOf(t) <=> r[1] = t
      BY RowFacts DEF IInv, TypeOK
    <3>3. sessions' = sessions \ RowsOf(t) /\ dupLog' = dupLog \ RowsOf(t)
      BY <2>5 DEF Undo
    <3> QED
      BY <3>1, <3>2, <3>3, <2>2 DEF Visible
  <2>6. CASE UNCHANGED vars
    BY <2>6, <2>2 DEF vars, Committed, Visible
  <2> QED
    BY <2>1, <2>3, <2>4, <2>5, <2>6 DEF Next, Progress, Abort, DeadlockAbort
<1> QED
  BY <1>1, <1>2, Invariance, PTL DEF Spec, ImplementsStore, Store!Spec

-----------------------------------------------------------------------------
(***************************************************************************)
(* Why every COPY ends. EveryCopyEnds itself needs fairness and is checked *)
(* by TLC; what follows is the part of its argument that holds of any      *)
(* number of transactions and keys: somebody can always go on, and every   *)
(* step brings one COPY nearer to its end and no other one further away.   *)
(***************************************************************************)
Running == {t \in Txn : status[t] = "running"}

FewRunning == IsFiniteSet(Running)

\* t may commit, put its next row through the trigger, or be chosen as the
\* victim of a deadlock: the guards of Commit, InsertNew, Suppress, DeadlockAbort.
CanGoOn(t) ==
    \/ status[t] = "running" /\ pos[t] = Len(Batch[t])
    \/ HasRow(t) /\ (KeyFree(NextKey(t)) \/ KeyTaken(t, NextKey(t)))
    \/ status[t] = "running" /\ InDeadlock(t)

\* Among the COPYs that run, one can go on without waiting for another one.
SomeCopyGoesOn == Running # {} => \E t \in Running : CanGoOn(t)

\* What is left to do of a COPY: to begin, its rows, to end.
Remaining(t) ==
    CASE status[t] = "idle" -> Len(Batch[t]) + 2
      [] status[t] = "running" -> Len(Batch[t]) - pos[t] + 1
      [] OTHER -> 0

\* A step takes something from what is left of one COPY.
Advances ==
    \E t \in Txn : /\ Remaining(t)' < Remaining(t)
                   /\ \A u \in Txn \ {t} : Remaining(u)' = Remaining(u)

\* Everybody in a finite set waits for somebody in it: then some of them wait
\* for each other in a cycle (or in several).
LEMMA WaitCycle ==
    ASSUME NEW R, IsFiniteSet(R), R # {},
           NEW f, \A u \in R : f[u] \in R
    PROVE  \E S \in SUBSET R : /\ S # {}
                               /\ \A u \in S : f[u] \in S
                               /\ \A v \in S : \E u \in S : f[u] = v
<1> DEFINE Closed == {S \in SUBSET R : S # {} /\ \A u \in S : f[u] \in S}
           Sizes == {Cardinality(S) : S \in Closed}
<1>1. \A S \in Closed : IsFiniteSet(S) /\ Cardinality(S) \in Nat
  <2>1. ASSUME NEW S \in Closed PROVE IsFiniteSet(S)
    BY FS_Subset
  <2> QED
    BY <2>1, FS_CardinalityType
<1>2. R \in Closed
  OBVIOUS
<1>3. Sizes \subseteq Nat /\ Sizes # {}
  BY <1>1, <1>2
<1>4. PICK n \in Sizes : \A k \in Sizes : ~ (<<k, n>> \in OpToRel(<, Nat))
  BY <1>3, NatLessThanWellFounded, WFMin
<1>5. PICK S \in Closed : n = Cardinality(S)
  OBVIOUS
<1> DEFINE T == {f[u] : u \in S}
<1>6. T \in Closed /\ T \in SUBSET S
  OBVIOUS
<1>7. IsFiniteSet(S) /\ IsFiniteSet(T) /\ Cardinality(T) \in Nat /\ Cardinality(S) \in Nat
  BY <1>1, <1>6
<1>8. Cardinality(T) <= Cardinality(S) /\ (Cardinality(S) = Cardinality(T) => S = T)
  <2> HIDE DEF T
  <2> QED
    BY <1>6, <1>7, FS_Subset
<1>9. ~ (Cardinality(T) < Cardinality(S))
  <2>1. Cardinality(T) \in Sizes
    BY <1>6
  <2>2. ~ (<<Cardinality(T), Cardinality(S)>> \in OpToRel(<, Nat))
    BY <2>1, <1>4, <1>5
  <2> HIDE DEF T
  <2> QED
    BY <2>2, <1>7 DEF OpToRel
<1>10. S = T
  <2> HIDE DEF T
  <2> QED
    BY <1>7, <1>8, <1>9
<1>11. \A v \in S : \E u \in S : f[u] = v
  BY <1>10
<1> QED
  BY <1>5, <1>11

\* A transaction that cannot go on waits for one that runs, too.
LEMMA BlockedWaits ==
    ASSUME IInv, NEW t \in Running, ~CanGoOn(t)
    PROVE  /\ holder[NextKey(t)] \in Running
           /\ WaitsFor(t, holder[NextKey(t)])
<1>1. HasRow(t)
  BY RowFacts DEF IInv, TypeOK, CanGoOn, Running, HasRow
<1>2. NextKey(t) \in Key
  BY <1>1, NextRowFacts DEF IInv, Running
<1>3. ~KeyFree(NextKey(t)) /\ ~KeyTaken(t, NextKey(t))
  BY <1>1 DEF CanGoOn
<1>4. holder[NextKey(t)] # NoTxn /\ holder[NextKey(t)] # t
  BY <1>3 DEF KeyFree, KeyTaken
<1>5. holder[NextKey(t)] \in Txn
  BY <1>2, <1>4 DEF IInv, TypeOK
<1>6. status[holder[NextKey(t)]] = "running"
  BY <1>2, <1>3, <1>4 DEF IInv, HolderHasRow, Live, KeyTaken
<1> QED
  BY <1>1, <1>4, <1>5, <1>6 DEF WaitsFor, Running

LEMMA GoesOn == IInv /\ FewRunning => SomeCopyGoesOn
<1> SUFFICES ASSUME IInv, FewRunning, Running # {}, \A t \in Running : ~CanGoOn(t)
             PROVE  FALSE
  BY DEF SomeCopyGoesOn
<1> DEFINE f == [t \in Running |-> holder[NextKey(t)]]
<1>1. \A t \in Running : f[t] \in Running /\ WaitsFor(t, f[t])
  BY BlockedWaits
<1> HIDE DEF f
<1>2. PICK S \in SUBSET Running : /\ S # {}
                                  /\ \A u \in S : f[u] \in S
                                  /\ \A v \in S : \E u \in S : f[u] = v
  BY <1>1, WaitCycle DEF FewRunning
<1>3. PICK t \in S : TRUE
  BY <1>2
<1>4. /\ S \in SUBSET Txn /\ t \in S
      /\ \A u \in S : \E v \in S : WaitsFor(u, v)
      /\ \A v \in S : \E u \in S : WaitsFor(u, v)
  BY <1>1, <1>2, <1>3 DEF Running
<1>5. InDeadlock(t)
  BY <1>4 DEF InDeadlock
<1> QED
  BY <1>5, <1>2 DEF CanGoOn, Running

\* Only finitely many transactions run at a time, for they begin one by one.
LEMMA FewStep == TypeOK /\ FewRunning /\ [Next]_vars => FewRunning'
<1> SUFFICES ASSUME TypeOK, FewRunning, [Next]_vars PROVE FewRunning'
  OBVIOUS
<1>1. PICK x : Running' \subseteq Running \cup {x}
  <2>1. ASSUME NEW t \in Txn, Begin(t) PROVE Running' \subseteq Running \cup {t}
    BY <2>1 DEF TypeOK, Begin, Running
  <2>2. ASSUME NEW t \in Txn, InsertNew(t) \/ Suppress(t) \/ Commit(t) \/ Undo(t)
        PROVE  Running' \subseteq Running
    BY <2>2 DEF TypeOK, InsertNew, Suppress, Commit, Undo, Running
  <2>3. CASE UNCHANGED vars
    BY <2>3 DEF vars, Running
  <2> QED
    BY <2>1, <2>2, <2>3 DEF Next, Progress, Abort, DeadlockAbort
<1>2. IsFiniteSet(Running \cup {x})
  BY FS_AddElement DEF FewRunning
<1> QED
  BY <1>1, <1>2, FS_Subset DEF FewRunning

\* No set of COPYs, however many and however their keys overlap, is ever stuck:
\* one of them can commit, copy a row, or is on a cycle that PostgreSQL breaks.
THEOREM NeverStuck == Spec => []SomeCopyGoesOn
<1>1. Init => FewRunning
  <2>1. Init => Running = {}
    BY DEF Init, Running
  <2> QED
    BY <2>1, FS_EmptySet DEF FewRunning
<1>2. IInv => TypeOK
  BY DEF IInv
<1> QED
  BY <1>1, <1>2, FewStep, GoesOn, Invariance, PTL DEF Spec

\* What is left of a COPY is a number.
LEMMA RemainingFacts ==
    ASSUME TypeOK, NEW t \in Txn
    PROVE  /\ status[t] = "idle" => Remaining(t) = Len(Batch[t]) + 2
           /\ status[t] = "running" => Remaining(t) = Len(Batch[t]) - pos[t] + 1
           /\ status[t] \in {"committed", "aborted"} => Remaining(t) = 0
           /\ Remaining(t) \in Nat
<1>1. /\ status[t] \in {"idle", "running", "committed", "aborted"}
      /\ pos[t] \in Nat /\ Len(Batch[t]) \in Nat /\ pos[t] <= Len(Batch[t])
  BY RowFacts DEF TypeOK
<1> QED
  BY <1>1 DEF Remaining

LEMMA StepAdvances ==
    ASSUME IInv, IInv', Next
    PROVE  Advances
<1>1. PICK t \in Txn : Progress(t) \/ Abort(t) \/ DeadlockAbort(t)
  BY DEF Next
<1>2. TypeOK /\ TypeOK'
  BY DEF IInv
<1>3. \A u \in Txn \ {t} : status'[u] = status[u] /\ pos'[u] = pos[u]
  BY <1>1, <1>2 DEF Progress, Abort, DeadlockAbort, Begin, InsertNew, Suppress, Commit, Undo, TypeOK
<1>4. \A u \in Txn \ {t} : Remaining(u)' = Remaining(u)
  BY <1>3 DEF Remaining
<1>5. /\ pos[t] \in Nat /\ Len(Batch[t]) \in Nat /\ pos[t] <= Len(Batch[t])
  BY <1>2, RowFacts DEF TypeOK
<1>6. /\ status[t] = "idle" => Remaining(t) = Len(Batch[t]) + 2
      /\ status[t] = "running" => Remaining(t) = Len(Batch[t]) - pos[t] + 1
  BY <1>2, RemainingFacts
<1>7. /\ status'[t] = "running" => Remaining(t)' = Len(Batch[t]) - pos'[t] + 1
      /\ status'[t] \in {"committed", "aborted"} => Remaining(t)' = 0
  BY DEF Remaining
<1>8. CASE Begin(t)
  <2>1. status[t] = "idle" /\ status'[t] = "running" /\ pos'[t] = pos[t]
    BY <1>8, <1>2 DEF Begin, TypeOK
  <2>2. pos[t] = 0
    BY <2>1 DEF IInv, CursorMatchesStatus
  <2>3. Remaining(t)' < Remaining(t)
    BY <2>1, <2>2, <1>5, <1>6, <1>7
  <2> QED
    BY <2>3, <1>4 DEF Advances
<1>9. CASE InsertNew(t) \/ Suppress(t)
  <2>1. status[t] = "running" /\ status'[t] = "running" /\ pos'[t] = pos[t] + 1
    BY <1>9, <1>2 DEF InsertNew, Suppress, HasRow, TypeOK
  <2>2. Remaining(t)' < Remaining(t)
    BY <2>1, <1>5, <1>6, <1>7
  <2> QED
    BY <2>2, <1>4 DEF Advances
<1>10. CASE Commit(t) \/ Undo(t)
  <2>1. status[t] = "running" /\ status'[t] \in {"committed", "aborted"}
    BY <1>10, <1>2 DEF Commit, Undo, TypeOK
  <2>2. Remaining(t)' < Remaining(t)
    BY <2>1, <1>5, <1>6, <1>7
  <2> QED
    BY <2>2, <1>4 DEF Advances
<1> QED
  BY <1>1, <1>8, <1>9, <1>10 DEF Progress, Abort, DeadlockAbort

\* Every step brings one COPY nearer to its end and no other further from it: a
\* rolled-back transaction is not tried again, and a row is not copied twice.
THEOREM CopiesAdvance == Spec => [][Advances]_vars
<1>1. ASSUME IInv, IInv', [Next]_vars PROVE [Advances]_vars
  BY <1>1, StepAdvances
<1> QED
  BY <1>1, Invariance, PTL DEF Spec
=============================================================================
