-------------------------- MODULE ProcessorProofs ---------------------------
(***************************************************************************)
(* Stage 2 for every topic, every batch size and every number of crashes,  *)
(* failed writes and expiries.                                             *)
(*                                                                         *)
(* No record is lost silently, and none has more effects than DEDUP_STATE  *)
(* forgot its key, and one. Two records of one subscriber are all that can *)
(* stop the query, and so many steps are left. At the end: what the tables *)
(* hold in a process that has met no failure.                              *)
(***************************************************************************)
EXTENDS Processor, FiniteSetTheorems, TLAPS

Callback == {"collected", "logged", "resolved", "conflictsLogged", "publishing", "done"}

\* The message is in a list that the callback has still to write.
Pending(j) ==
    \/ pc = "resolved" /\ j \in work.conflicts
    \/ pc \in {"resolved", "conflictsLogged", "publishing"} /\ j \in work.clean

\* Some message of the key of i has left the deduplication, and is or will be
\* on radius.clean or in conflict_log.
Accounted(i) == \E j \in 1..planned : KeyAt(j) = KeyAt(i) /\ (Resolved(j) \/ Pending(j))

IdleHasNoBatch == pc = "idle" => planned = committed

\* The callback knows each message of its batch.
WorkIsBatch == pc \in Callback => work.invalid \cup work.onTime = Batch

RejectedLogged == pc \in Callback \ {"collected"} => \A i \in work.invalid : Invalidated(i)

\* A key that DEDUP_STATE holds is not held for nothing.
DedupJustified ==
    \A k \in dedup : \E j \in 1..planned : KeyAt(j) = k /\ (Resolved(j) \/ Pending(j))

OnTimeAccounted ==
    pc \in Callback \ {"collected", "logged"} => \A i \in work.onTime : Accounted(i)

IInv ==
    /\ TypeOK
    /\ IdleHasNoBatch
    /\ WorkIsBatch
    /\ RejectedLogged
    /\ DedupJustified
    /\ OnTimeAccounted
    /\ NothingLost

-----------------------------------------------------------------------------
LEMMA AddRowsFacts ==
  ASSUME NEW D, NEW log \in [D -> Nat], NEW S
  PROVE  /\ AddRows(log, S) \in [D -> Nat]
         /\ \A x \in D : AddRows(log, S)[x] >= log[x]
         /\ \A x \in D : x \in S => AddRows(log, S)[x] > 0
BY DEF AddRows

\* A batch lies inside the topic and its keys are known.
LEMMA BatchFacts ==
  ASSUME TypeOK
  PROVE  /\ Batch \subseteq 1..planned
         /\ 1..planned \subseteq 1..Len(raw)
         /\ 1..Len(raw) \subseteq Offset
         /\ \A i \in 1..Len(raw) : raw[i] \in Rec /\ KeyAt(i) \in AllKeys
<1>1. /\ raw \in Seq(Rec) /\ Len(raw) \in Nat /\ Len(raw) <= MaxRaw
      /\ committed \in Nat /\ planned \in Nat /\ planned <= Len(raw)
  BY DEF TypeOK
<1>2. \A i \in 1..Len(raw) : raw[i] \in Rec
  BY <1>1
<1>3. \A i \in 1..Len(raw) : KeyAt(i) \in AllKeys
  BY <1>2 DEF KeyAt, RowOf, AllKeys
<1>4. Batch \subseteq 1..planned
  BY <1>1 DEF Batch
<1>5. 1..Len(raw) \subseteq Offset
  BY <1>1, BoundAssumption DEF Offset
<1> QED
  BY <1>1, <1>2, <1>3, <1>4, <1>5

\* What a step must keep so that no message falls out of the account.
Keeps ==
    /\ Len(raw) <= Len(raw')
    /\ \A i \in 1..Len(raw) : raw'[i] = raw[i]
    /\ planned <= planned'
    /\ \A i \in 1..Len(raw) : Invalidated(i) => Invalidated(i)'
    /\ \A i \in 1..Len(raw) : Resolved(i) => Resolved(i)'

LEMMA KeptAccounts ==
  ASSUME IInv, TypeOK', Keeps
  PROVE  /\ \A i \in 1..Len(raw) : KeyAt(i)' = KeyAt(i)
         /\ committed' = committed => NothingLost'
         /\ (\A j \in 1..planned : Pending(j) => Pending(j)' \/ Resolved(j)')
              => /\ \A i \in 1..Len(raw) : Accounted(i) => Accounted(i)'
                 /\ dedup' \subseteq dedup => DedupJustified'
<1>1. \A i \in 1..Len(raw) : KeyAt(i)' = KeyAt(i)
  BY DEF Keeps, KeyAt, RowOf
<1>2. /\ 1..planned \subseteq 1..Len(raw) /\ 1..planned \subseteq 1..planned'
      /\ 1..committed \subseteq 1..Len(raw)
  BY DEF Keeps, IInv, TypeOK
<1>3. ASSUME committed' = committed PROVE NothingLost'
  <2> SUFFICES ASSUME NEW i \in 1..committed
               PROVE  \/ Invalidated(i)'
                      \/ \E j \in 1..committed : KeyAt(j)' = KeyAt(i)' /\ Resolved(j)'
    BY <1>3 DEF NothingLost
  <2>1. CASE Invalidated(i)
    BY <1>2, <2>1 DEF Keeps
  <2>2. CASE \E j \in 1..committed : KeyAt(j) = KeyAt(i) /\ Resolved(j)
    BY <1>1, <1>2, <2>2 DEF Keeps
  <2> QED
    BY <2>1, <2>2 DEF IInv, NothingLost
<1>4. ASSUME \A j \in 1..planned : Pending(j) => Pending(j)' \/ Resolved(j)'
      PROVE  /\ \A i \in 1..Len(raw) : Accounted(i) => Accounted(i)'
             /\ dedup' \subseteq dedup => DedupJustified'
  <2>1. \A j \in 1..planned : Resolved(j) \/ Pending(j) => Resolved(j)' \/ Pending(j)'
    BY <1>2, <1>4 DEF Keeps
  <2>2. \A i \in 1..Len(raw) : Accounted(i) => Accounted(i)'
    BY <1>1, <1>2, <2>1 DEF Accounted
  <2>3. ASSUME dedup' \subseteq dedup PROVE DedupJustified'
    BY <1>1, <1>2, <2>1, <2>3 DEF IInv, DedupJustified
  <2> QED
    BY <2>2, <2>3
<1> QED
  BY <1>1, <1>3, <1>4

\* The lists of the callback lie in its batch.
LEMMA WorkFacts ==
  ASSUME IInv, pc \in Callback
  PROVE  /\ work.invalid \subseteq 1..planned /\ work.onTime \subseteq 1..planned
         /\ work.invalid \subseteq 1..Len(raw) /\ work.onTime \subseteq 1..Len(raw)
BY BatchFacts DEF IInv, WorkIsBatch

LEMMA KeepsWithin ==
  ASSUME TypeOK, raw' = raw, planned <= planned',
         \A i \in Offset : (Invalidated(i) => Invalidated(i)') /\ (Resolved(i) => Resolved(i)')
  PROVE  Keeps
<1>1. Len(raw) \in Nat /\ 1..Len(raw) \subseteq Offset
  BY BatchFacts DEF TypeOK
<1> QED
  BY <1>1 DEF Keeps

-----------------------------------------------------------------------------
LEMMA PublishStep ==
  ASSUME IInv, NEW r \in Rec, Publish(r)
  PROVE  IInv'
<1>0. /\ raw' \in Seq(Rec) /\ Len(raw') = Len(raw) + 1 /\ Len(raw) \in Nat
      /\ \A i \in 1..Len(raw) : raw'[i] = raw[i]
  BY DEF IInv, TypeOK, Publish
<1>1. TypeOK'
  <2>1. Len(raw') <= MaxRaw
    BY <1>0, BoundAssumption DEF Publish
  <2>2. planned' \in Nat /\ committed' \in Nat /\ committed' <= planned' /\ planned' <= Len(raw')
    BY <1>0 DEF IInv, TypeOK, Publish, spark
  <2>3. UNCHANGED <<pc, work, dedup, invalidLog, conflictLog, swapEvent, clean, lostInvalid,
                    lostConflict, renewals, faults>>
    BY DEF Publish, spark, tables, history
  <2> QED
    BY <1>0, <2>1, <2>2, <2>3 DEF IInv, TypeOK
<1>2. \A i \in Offset : (Invalidated(i)' <=> Invalidated(i)) /\ (Resolved(i)' <=> Resolved(i))
  BY DEF Publish, Invalidated, Resolved, tables, history
<1>3. \A i \in Offset : Pending(i)' <=> Pending(i)
  BY DEF Publish, Pending, spark
<1>4. Keeps
  <2>1. planned <= planned' /\ 1..Len(raw) \subseteq Offset
    BY BatchFacts DEF IInv, TypeOK, Publish, spark
  <2> QED
    BY <1>0, <1>2, <2>1 DEF Keeps
<1>5. 1..planned \subseteq Offset /\ 1..Len(raw) \subseteq Offset
  BY BatchFacts DEF IInv
<1>6. NothingLost'
  BY <1>1, <1>4, KeptAccounts DEF Publish, spark
<1>7. DedupJustified' /\ \A i \in 1..Len(raw) : Accounted(i) => Accounted(i)'
  BY <1>1, <1>3, <1>4, <1>5, KeptAccounts DEF Publish
<1>8. IdleHasNoBatch' /\ WorkIsBatch'
  BY DEF IInv, IdleHasNoBatch, WorkIsBatch, Batch, Publish, spark
<1>9. RejectedLogged' /\ OnTimeAccounted'
  BY <1>2, <1>5, <1>7, WorkFacts DEF IInv, RejectedLogged, OnTimeAccounted, Publish, spark, Callback
<1> QED
  BY <1>1, <1>6, <1>7, <1>8, <1>9 DEF IInv

\* The steps outside of the callback that leave no list behind.
LEMMA OutsideStep ==
  ASSUME IInv, TypeOK', pc' \in {"idle", "planned", "raised", "down"}, raw' = raw,
         planned <= planned', committed' = committed, UNCHANGED tables,
         lostInvalid' = lostInvalid, lostConflict' = lostConflict,
         pc' = "idle" => planned' = committed',
         dedup' = {} \/ (pc \in {"idle", "planned", "raised", "down"} /\ dedup' = dedup)
  PROVE  IInv'
<1>1. \A i \in Offset : (Invalidated(i)' <=> Invalidated(i)) /\ (Resolved(i)' <=> Resolved(i))
  BY DEF Invalidated, Resolved, tables
<1>2. Keeps
  BY <1>1, KeepsWithin DEF IInv
<1>3. NothingLost'
  BY <1>2, KeptAccounts
<1>4. DedupJustified'
  <2>1. CASE dedup' = {}
    BY <2>1 DEF DedupJustified
  <2>2. CASE pc \in {"idle", "planned", "raised", "down"} /\ dedup' = dedup
    BY <1>2, <2>2, KeptAccounts DEF Pending
  <2> QED
    BY <2>1, <2>2
<1>5. IdleHasNoBatch'
  BY DEF IdleHasNoBatch
<1>6. WorkIsBatch' /\ RejectedLogged' /\ OnTimeAccounted'
  BY DEF WorkIsBatch, RejectedLogged, OnTimeAccounted, Callback
<1> QED
  BY <1>3, <1>4, <1>5, <1>6 DEF IInv

LEMMA PlanStep ==
  ASSUME IInv, Plan
  PROVE  IInv'
<1>1. TypeOK'
  BY BoundAssumption DEF IInv, TypeOK, Plan, tables, history
<1>2. planned <= planned'
  BY <1>1, BoundAssumption DEF IInv, TypeOK, IdleHasNoBatch, Plan
<1> QED
  BY <1>1, <1>2, OutsideStep DEF Plan, history, tables

LEMMA CrashStep ==
  ASSUME IInv, Crash
  PROVE  IInv'
<1>1. renewals' \in [AllKeys -> Nat] /\ dedup' = {}
  BY AddRowsFacts DEF IInv, TypeOK, Crash, ForgetAll, Forget
<1>2. work' \in [invalid : SUBSET Offset, onTime : SUBSET Offset, conflicts : SUBSET Offset,
                 signals : SUBSET Signal, clean : SUBSET Offset]
  BY DEF Crash, NoWork
<1>3. TypeOK'
  BY <1>1, <1>2 DEF IInv, TypeOK, Crash, CountFault, tables
<1> QED
  BY <1>1, <1>3, OutsideStep DEF IInv, TypeOK, Crash

LEMMA ResolveRaisesStep ==
  ASSUME IInv, ResolveRaises
  PROVE  IInv'
<1>1. renewals' \in [AllKeys -> Nat] /\ dedup' = {}
  BY AddRowsFacts DEF IInv, TypeOK, ResolveRaises, ForgetAll, Forget
<1>2. work' \in [invalid : SUBSET Offset, onTime : SUBSET Offset, conflicts : SUBSET Offset,
                 signals : SUBSET Signal, clean : SUBSET Offset]
  BY DEF ResolveRaises, NoWork
<1>3. TypeOK'
  BY <1>1, <1>2 DEF IInv, TypeOK, ResolveRaises, tables
<1> QED
  BY <1>1, <1>3, OutsideStep DEF IInv, TypeOK, ResolveRaises

LEMMA RestartStep ==
  ASSUME IInv, Restart
  PROVE  IInv'
<1>1. TypeOK'
  BY DEF IInv, TypeOK, Restart, tables, history
<1> QED
  BY <1>1, OutsideStep DEF IInv, TypeOK, Restart, Ended, history

LEMMA ExpireStep ==
  ASSUME IInv, NEW k \in AllKeys, Expire(k)
  PROVE  IInv'
<1>1. renewals' \in [AllKeys -> Nat] /\ dedup' \subseteq dedup
  BY AddRowsFacts DEF IInv, TypeOK, Expire, Forget
<1>2. TypeOK'
  BY <1>1 DEF IInv, TypeOK, Expire, CountFault, spark, tables
<1>3. \A i \in Offset : (Invalidated(i)' <=> Invalidated(i)) /\ (Resolved(i)' <=> Resolved(i))
  BY DEF Expire, Invalidated, Resolved, tables
<1>4. \A i \in Offset : Pending(i)' <=> Pending(i)
  BY DEF Expire, Pending, spark
<1>5. Keeps
  BY <1>3, KeepsWithin DEF IInv, TypeOK, Expire, spark
<1>6. 1..planned \subseteq Offset /\ 1..Len(raw) \subseteq Offset
  BY BatchFacts DEF IInv
<1>7. NothingLost'
  BY <1>2, <1>5, KeptAccounts DEF Expire, spark
<1>8. DedupJustified' /\ \A i \in 1..Len(raw) : Accounted(i) => Accounted(i)'
  BY <1>1, <1>2, <1>4, <1>5, <1>6, KeptAccounts
<1>9. IdleHasNoBatch' /\ WorkIsBatch'
  BY DEF IInv, IdleHasNoBatch, WorkIsBatch, Batch, Expire, spark
<1>10. RejectedLogged' /\ OnTimeAccounted'
  BY <1>3, <1>6, <1>8, WorkFacts DEF IInv, RejectedLogged, OnTimeAccounted, Expire, spark, Callback
<1> QED
  BY <1>2, <1>7, <1>8, <1>9, <1>10 DEF IInv

-----------------------------------------------------------------------------
LEMMA CollectStep ==
  ASSUME IInv, NEW failed \in SUBSET Batch, Collect(failed), faults' \in Nat
  PROVE  IInv'
<1> DEFINE invalid == {i \in Batch : raw[i] \in Invalid} \cup failed
           late == {i \in Batch \ invalid : IsLate(raw[i])}
<1>1. work' = [invalid |-> invalid \cup late, onTime |-> Batch \ (invalid \cup late),
               conflicts |-> {}, signals |-> {}, clean |-> {}]
  BY DEF Collect, NoWork
<1>2. invalid \subseteq Batch /\ late \subseteq Batch /\ Batch \subseteq Offset
  BY BatchFacts DEF IInv
<1> HIDE DEF invalid, late
<1>3. work' \in [invalid : SUBSET Offset, onTime : SUBSET Offset, conflicts : SUBSET Offset,
                 signals : SUBSET Signal, clean : SUBSET Offset]
  BY <1>1, <1>2
<1>4. TypeOK'
  BY <1>3 DEF IInv, TypeOK, Collect, tables, history
<1>5. \A i \in Offset : (Invalidated(i)' <=> Invalidated(i)) /\ (Resolved(i)' <=> Resolved(i))
  BY DEF Collect, Invalidated, Resolved, tables, history
<1>6. Keeps
  BY <1>5, KeepsWithin DEF IInv, TypeOK, Collect
<1>7. NothingLost' /\ DedupJustified'
  BY <1>4, <1>6, KeptAccounts DEF Collect, Pending
<1>8. WorkIsBatch'
  BY <1>1, <1>2 DEF WorkIsBatch, Batch, Collect
<1>9. IdleHasNoBatch' /\ RejectedLogged' /\ OnTimeAccounted'
  BY DEF Collect, IdleHasNoBatch, RejectedLogged, OnTimeAccounted, Callback
<1> QED
  BY <1>4, <1>7, <1>8, <1>9 DEF IInv

\* The steps of the callback once the batch is collected.
LEMMA InsideStep ==
  ASSUME IInv, TypeOK', pc \in Callback, pc' \in Callback \ {"collected"},
         UNCHANGED <<raw, planned, committed>>,
         work'.invalid = work.invalid, work'.onTime = work.onTime,
         \A i \in Offset : (Invalidated(i) => Invalidated(i)') /\ (Resolved(i) => Resolved(i)'),
         \A i \in work.invalid : Invalidated(i)',
         \A j \in 1..planned : Pending(j) => Pending(j)' \/ Resolved(j)',
         dedup' = dedup \/ DedupJustified',
         pc \notin {"collected", "logged"} \/ OnTimeAccounted'
  PROVE  IInv'
<1>1. Keeps
  BY KeepsWithin DEF IInv, TypeOK
<1>2. NothingLost'
  BY <1>1, KeptAccounts
<1>3. \A i \in 1..Len(raw) : Accounted(i) => Accounted(i)'
  BY <1>1, KeptAccounts
<1>4. DedupJustified'
  BY <1>1, KeptAccounts
<1>5. WorkIsBatch' /\ IdleHasNoBatch' /\ RejectedLogged'
  BY DEF IInv, WorkIsBatch, Batch, IdleHasNoBatch, RejectedLogged, Callback
<1>6. OnTimeAccounted'
  <2>1. CASE pc \notin {"collected", "logged"}
    BY <1>3, <2>1, WorkFacts DEF IInv, OnTimeAccounted
  <2> QED
    BY <2>1
<1> QED
  BY <1>2, <1>4, <1>5, <1>6 DEF IInv

\* The rows of invalid_log are written, or known as lost.
LEMMA LogInvalidSteps ==
  ASSUME IInv, LogInvalid \/ LogInvalidFails
  PROVE  IInv'
<1>1. /\ pc = "collected" /\ pc' = AfterInvalidLog
      /\ UNCHANGED <<raw, planned, committed, work, dedup, conflictLog, swapEvent, clean,
                     lostConflict, renewals>>
  BY DEF LogInvalid, LogInvalidFails, history, tables
<1>2. /\ invalidLog' \in [Offset -> Nat] /\ lostInvalid' \subseteq Offset /\ faults' \in Nat
      /\ \A i \in Offset : Invalidated(i) => Invalidated(i)'
      /\ \A i \in work.invalid : Invalidated(i)'
  <2>0. invalidLog \in [Offset -> Nat] /\ work.invalid \subseteq Offset /\ lostInvalid \subseteq Offset
        /\ faults \in Nat
    BY DEF IInv, TypeOK
  <2>1. CASE LogInvalid
    <3>1. invalidLog' = AddRows(invalidLog, work.invalid) /\ UNCHANGED <<lostInvalid, faults>>
      BY <2>1 DEF LogInvalid, history
    <3>2. /\ invalidLog' \in [Offset -> Nat]
          /\ \A x \in Offset : invalidLog'[x] >= invalidLog[x]
          /\ \A x \in work.invalid : invalidLog'[x] > 0
      BY <2>0, <3>1, AddRowsFacts
    <3> QED
      BY <2>0, <3>1, <3>2 DEF Invalidated
  <2>2. CASE LogInvalidFails
    BY <2>0, <2>2 DEF LogInvalidFails, CountFault, tables, Invalidated
  <2> QED
    BY <2>1, <2>2
<1>3. pc' \in {"logged", "done"} /\ (pc' = "done" => work.onTime = {})
  BY <1>1 DEF AfterInvalidLog
<1>4. TypeOK'
  BY <1>1, <1>2, <1>3 DEF IInv, TypeOK
<1>5. \A i \in Offset : Resolved(i) => Resolved(i)'
  BY <1>1 DEF Resolved
<1>6. \A j \in 1..planned : ~Pending(j)
  BY <1>1 DEF Pending
<1>7. OnTimeAccounted'
  BY <1>1, <1>3 DEF OnTimeAccounted, Callback
<1> QED
  BY <1>1, <1>2, <1>3, <1>4, <1>5, <1>6, <1>7, InsideStep DEF Callback

LEMMA LogConflictsSteps ==
  ASSUME IInv, LogConflicts \/ LogConflictsFails
  PROVE  IInv'
<1>1. /\ pc = "resolved" /\ pc' = "conflictsLogged"
      /\ UNCHANGED <<raw, planned, committed, work, dedup, invalidLog, swapEvent, clean,
                     lostInvalid, renewals>>
  BY DEF LogConflicts, LogConflictsFails, history, tables
<1>2. /\ conflictLog' \in [Offset -> Nat] /\ lostConflict' \subseteq Offset /\ faults' \in Nat
      /\ \A i \in Offset : Resolved(i) => Resolved(i)'
      /\ \A i \in work.conflicts : Resolved(i)'
  <2>0. /\ conflictLog \in [Offset -> Nat] /\ work.conflicts \subseteq Offset
        /\ lostConflict \subseteq Offset /\ faults \in Nat
    BY DEF IInv, TypeOK
  <2>1. CASE LogConflicts
    <3>1. conflictLog' = AddRows(conflictLog, work.conflicts) /\ UNCHANGED <<clean, lostConflict, faults>>
      BY <2>1 DEF LogConflicts, history
    <3>2. /\ conflictLog' \in [Offset -> Nat]
          /\ \A x \in Offset : conflictLog'[x] >= conflictLog[x]
          /\ \A x \in work.conflicts : conflictLog'[x] > 0
      BY <2>0, <3>1, AddRowsFacts
    <3> QED
      BY <2>0, <3>1, <3>2 DEF Resolved
  <2>2. CASE LogConflictsFails
    BY <2>0, <2>2 DEF LogConflictsFails, CountFault, tables, Resolved
  <2> QED
    BY <2>1, <2>2
<1>3. TypeOK'
  BY <1>1, <1>2 DEF IInv, TypeOK
<1>4. \A i \in Offset : Invalidated(i)' <=> Invalidated(i)
  BY <1>1 DEF Invalidated
<1>5. \A j \in 1..planned : Pending(j) => Pending(j)' \/ Resolved(j)'
  BY <1>1, <1>2 DEF Pending
<1>6. \A i \in work.invalid : Invalidated(i)
  BY <1>1 DEF IInv, RejectedLogged, Callback
<1>7. \A i \in work.invalid : Invalidated(i)'
  BY <1>4, <1>6 DEF IInv, TypeOK
<1> QED
  BY <1>1, <1>2, <1>3, <1>4, <1>5, <1>7, InsideStep DEF Callback

LEMMA RecordStep ==
  ASSUME IInv, NEW S \in SUBSET work.signals, Record(S), faults' \in Nat
  PROVE  IInv'
<1>1. /\ pc = "conflictsLogged" /\ pc' = AfterSwaps
      /\ UNCHANGED <<raw, planned, committed, work, dedup, invalidLog, conflictLog, clean,
                     lostInvalid, lostConflict, renewals>>
  BY DEF Record, history
<1>2. swapEvent' \in [Signal -> Nat]
  BY AddRowsFacts DEF IInv, TypeOK, Record
<1>3. pc' \in {"publishing", "done"} /\ (pc' = "done" => work.clean = {})
  BY <1>1 DEF AfterSwaps
<1>4. TypeOK'
  BY <1>1, <1>2, <1>3 DEF IInv, TypeOK
<1>5. \A i \in Offset : (Invalidated(i)' <=> Invalidated(i)) /\ (Resolved(i)' <=> Resolved(i))
  BY <1>1 DEF Invalidated, Resolved
<1>6. \A j \in 1..planned : Pending(j) => Pending(j)'
  BY <1>1, <1>3 DEF Pending
<1>7. \A i \in work.invalid : Invalidated(i)
  BY <1>1 DEF IInv, RejectedLogged, Callback
<1>8. \A i \in work.invalid : Invalidated(i)'
  BY <1>5, <1>7 DEF IInv, TypeOK
<1> QED
  BY <1>1, <1>3, <1>4, <1>5, <1>6, <1>8, InsideStep DEF Callback

LEMMA PublishCleanStep ==
  ASSUME IInv, NEW i \in Offset, PublishClean(i)
  PROVE  IInv'
<1>1. /\ pc = "publishing" /\ i \in work.clean
      /\ pc' = IF work.clean = {i} THEN "done" ELSE "publishing"
      /\ work' = [work EXCEPT !.clean = @ \ {i}]
      /\ clean' = AddRows(clean, {i})
      /\ UNCHANGED <<raw, planned, committed, dedup, invalidLog, conflictLog, swapEvent,
                     lostInvalid, lostConflict, renewals, faults>>
  BY DEF PublishClean, history
<1>2. /\ clean' \in [Offset -> Nat]
      /\ \A j \in Offset : clean'[j] >= clean[j]
      /\ clean'[i] > 0
  BY <1>1, AddRowsFacts DEF IInv, TypeOK
<1>3. work \in [invalid : SUBSET Offset, onTime : SUBSET Offset, conflicts : SUBSET Offset,
                signals : SUBSET Signal, clean : SUBSET Offset]
  BY DEF IInv, TypeOK
<1>4. /\ work'.invalid = work.invalid /\ work'.onTime = work.onTime
      /\ work'.clean = work.clean \ {i}
      /\ work' \in [invalid : SUBSET Offset, onTime : SUBSET Offset, conflicts : SUBSET Offset,
                    signals : SUBSET Signal, clean : SUBSET Offset]
  BY <1>1, <1>3
<1>5. TypeOK'
  BY <1>1, <1>2, <1>4 DEF IInv, TypeOK
<1>6. \A j \in Offset : (Invalidated(j)' <=> Invalidated(j)) /\ (Resolved(j) => Resolved(j)')
  <2>1. clean \in [Offset -> Nat]
    BY DEF IInv, TypeOK
  <2>2. \A j \in Offset : clean[j] > 0 => clean'[j] > 0
    BY <1>2, <2>1
  <2> QED
    BY <1>1, <2>2 DEF Invalidated, Resolved
<1>7. \A j \in 1..planned : Pending(j) => Pending(j)' \/ Resolved(j)'
  <2> SUFFICES ASSUME NEW j \in 1..planned, j \in work.clean
               PROVE  Pending(j)' \/ Resolved(j)'
    BY <1>1 DEF Pending
  <2>1. CASE j = i
    BY <1>2, <2>1 DEF Resolved
  <2>2. CASE j # i
    BY <1>1, <1>4, <2>2 DEF Pending
  <2> QED
    BY <2>1, <2>2
<1>8. \A j \in work.invalid : Invalidated(j)
  BY <1>1 DEF IInv, RejectedLogged, Callback
<1>9. \A j \in work.invalid : Invalidated(j)'
  BY <1>3, <1>6, <1>8
<1> QED
  BY <1>1, <1>4, <1>5, <1>6, <1>7, <1>9, InsideStep DEF Callback

\* What the callback leaves at its end is what the commit needs.
LEMMA CommitStep ==
  ASSUME IInv, CommitBatch
  PROVE  IInv'
<1>1. /\ pc = "done" /\ pc' = "idle" /\ committed' = planned /\ work' = NoWork
      /\ UNCHANGED <<raw, planned, dedup, invalidLog, conflictLog, swapEvent, clean,
                     lostInvalid, lostConflict, renewals, faults>>
  BY DEF CommitBatch, tables, history
<1>2. work' \in [invalid : SUBSET Offset, onTime : SUBSET Offset, conflicts : SUBSET Offset,
                 signals : SUBSET Signal, clean : SUBSET Offset]
  BY <1>1 DEF NoWork
<1>3. TypeOK'
  BY <1>1, <1>2 DEF IInv, TypeOK
<1>4. \A i \in Offset : (Invalidated(i)' <=> Invalidated(i)) /\ (Resolved(i)' <=> Resolved(i))
  BY <1>1 DEF Invalidated, Resolved
<1>5. Keeps
  BY <1>1, <1>4, KeepsWithin DEF IInv, TypeOK
<1>6. \A i : ~Pending(i)
  BY <1>1 DEF Pending
<1>7. DedupJustified'
  BY <1>1, <1>3, <1>5, <1>6, KeptAccounts
<1>8. \A i \in 1..planned : Invalidated(i) \/ \E j \in 1..planned : KeyAt(j) = KeyAt(i) /\ Resolved(j)
  <2> SUFFICES ASSUME NEW i \in 1..planned
               PROVE  Invalidated(i) \/ \E j \in 1..planned : KeyAt(j) = KeyAt(i) /\ Resolved(j)
    OBVIOUS
  <2>0. committed \in Nat /\ planned \in Nat /\ committed <= planned
    BY DEF IInv, TypeOK
  <2>1. CASE i <= committed
    BY <2>0, <2>1 DEF IInv, NothingLost
  <2>2. CASE i > committed
    <3>1. i \in work.invalid \cup work.onTime
      BY <1>1, <2>0, <2>2 DEF IInv, WorkIsBatch, Batch, Callback
    <3>2. CASE i \in work.invalid
      BY <1>1, <3>2 DEF IInv, RejectedLogged, Callback
    <3>3. CASE i \in work.onTime
      <4>1. Accounted(i)
        BY <1>1, <3>3 DEF IInv, OnTimeAccounted, Callback
      <4> QED
        BY <1>6, <4>1 DEF Accounted
    <3> QED
      BY <3>1, <3>2, <3>3
  <2> QED
    BY <2>0, <2>1, <2>2
<1>9. 1..planned \subseteq 1..Len(raw) /\ 1..planned \subseteq Offset
  BY BatchFacts DEF IInv
<1>10. \A i \in 1..planned : KeyAt(i)' = KeyAt(i)
  BY <1>1 DEF KeyAt, RowOf
<1>11. NothingLost'
  BY <1>1, <1>4, <1>8, <1>9, <1>10 DEF NothingLost
<1>12. IdleHasNoBatch' /\ WorkIsBatch' /\ RejectedLogged' /\ OnTimeAccounted'
  BY <1>1 DEF IdleHasNoBatch, WorkIsBatch, RejectedLogged, OnTimeAccounted, Callback
<1> QED
  BY <1>3, <1>7, <1>11, <1>12 DEF IInv

-----------------------------------------------------------------------------
\* The data frame of a finite set of messages holds each of them.
LEMMA SortedFacts ==
  ASSUME TypeOK, NEW S \in SUBSET Offset, NEW df \in Sorted(S),
         NEW rows, rows = [n \in DOMAIN df |-> RowOf(df[n])]
  PROVE  /\ \A n \in DOMAIN df : df[n] \in S
         /\ \A i \in S : \E n \in DOMAIN df : df[n] = i
         /\ \A n, m \in DOMAIN df : df[n] = df[m] => n = m
         /\ Rows(rows) = DOMAIN df
<1>1. IsFiniteSet(Offset)
  BY FS_Interval, BoundAssumption DEF Offset
<1>2. IsFiniteSet(S)
  BY <1>1, FS_Subset
<1>3. Cardinality(S) \in Nat
  BY <1>2, FS_CardinalityType
<1>4. /\ df \in [1..Cardinality(S) -> S]
      /\ \A i \in S : \E n \in DOMAIN df : df[n] = i
  BY DEF Sorted
<1>5. DOMAIN rows = 1..Cardinality(S)
  BY <1>4
<1>6. rows \in Seq({RowOf(i) : i \in S})
  <2>1. rows \in [1..Cardinality(S) -> {RowOf(i) : i \in S}]
    BY <1>4
  <2> QED
    BY <1>3, <2>1
<1>7. Len(rows) = Cardinality(S)
  BY <1>3, <1>5, <1>6
<1>8. \A n, m \in DOMAIN df : df[n] = df[m] => n = m
  <2> DEFINE N == 1..Cardinality(S)
  <2>1. df \in Surjection(N, S)
    BY <1>4 DEF Surjection
  <2>2. IsFiniteSet(N) /\ Cardinality(N) = Cardinality(S)
    BY <1>3, FS_Interval
  <2> HIDE DEF N
  <2>3. df \in Injection(N, S)
    BY <2>1, <2>2, FS_SurjSameCardinalityImpliesInj
  <2> QED
    BY <1>4, <2>3 DEF Injection, IsInjective, N
<1> QED
  BY <1>4, <1>7, <1>8 DEF Rows

\* Deduplication and conflict resolution part the rows that pass into clean
\* ones and conflicts.
LEMMA ResolveFacts ==
  ASSUME IInv, Resolve
  PROVE  \E S \in Kept :
            /\ S \subseteq work.onTime /\ S \subseteq 1..planned
            /\ dedup' = dedup \cup {KeyAt(i) : i \in S}
            /\ work'.invalid = work.invalid /\ work'.onTime = work.onTime
            /\ work'.conflicts \cup work'.clean = S
            /\ work'.conflicts \cap work'.clean = {}
            /\ work'.signals \subseteq work'.clean \X {"SIM_SWAP", "DEVICE_SWAP"}
            /\ pc' = IF S = {} THEN "done" ELSE "resolved"
<1>1. PICK S \in Kept : \E df \in Sorted(S) :
          LET rows == [n \in DOMAIN df |-> RowOf(df[n])]
              F == FlaggedB(rows)
              cleanRows == Clean(rows, F)
          IN  /\ dedup' = dedup \cup {KeyAt(i) : i \in S}
              /\ work' = [work EXCEPT
                   !.conflicts = {df[n] : n \in Rows(rows) \ cleanRows},
                   !.signals =
                        {<<df[n], "SIM_SWAP">> : n \in {m \in cleanRows : ConflictC(rows, F, m)}}
                        \cup
                        {<<df[n], "DEVICE_SWAP">> : n \in {m \in cleanRows : ConflictD(rows, F, m)}},
                   !.clean = {df[n] : n \in cleanRows}]
              /\ pc' = IF S = {} THEN "done" ELSE "resolved"
  BY DEF Resolve, RowsOf
<1>2. PICK df \in Sorted(S) :
          LET rows == [n \in DOMAIN df |-> RowOf(df[n])]
              F == FlaggedB(rows)
              cleanRows == Clean(rows, F)
          IN  /\ dedup' = dedup \cup {KeyAt(i) : i \in S}
              /\ work' = [work EXCEPT
                   !.conflicts = {df[n] : n \in Rows(rows) \ cleanRows},
                   !.signals =
                        {<<df[n], "SIM_SWAP">> : n \in {m \in cleanRows : ConflictC(rows, F, m)}}
                        \cup
                        {<<df[n], "DEVICE_SWAP">> : n \in {m \in cleanRows : ConflictD(rows, F, m)}},
                   !.clean = {df[n] : n \in cleanRows}]
              /\ pc' = IF S = {} THEN "done" ELSE "resolved"
  BY <1>1
<1> DEFINE rows == [n \in DOMAIN df |-> RowOf(df[n])]
           F == FlaggedB(rows)
           cleanRows == Clean(rows, F)
           sim == {<<df[n], "SIM_SWAP">> : n \in {m \in cleanRows : ConflictC(rows, F, m)}}
           device == {<<df[n], "DEVICE_SWAP">> : n \in {m \in cleanRows : ConflictD(rows, F, m)}}
<1>3. pc = "logged"
  BY DEF Resolve
<1>4. /\ dedup' = dedup \cup {KeyAt(i) : i \in S}
      /\ work' = [work EXCEPT !.conflicts = {df[n] : n \in Rows(rows) \ cleanRows},
                              !.signals = sim \cup device,
                              !.clean = {df[n] : n \in cleanRows}]
      /\ pc' = IF S = {} THEN "done" ELSE "resolved"
  BY <1>2
<1>5. S \subseteq work.onTime /\ work.onTime \subseteq 1..planned /\ 1..planned \subseteq Offset
  BY <1>3, BatchFacts, WorkFacts DEF Kept, IInv, Callback
<1>6. /\ \A n \in DOMAIN df : df[n] \in S
      /\ \A i \in S : \E n \in DOMAIN df : df[n] = i
      /\ \A n, m \in DOMAIN df : df[n] = df[m] => n = m
      /\ Rows(rows) = DOMAIN df
  BY <1>5, SortedFacts DEF IInv
<1>7. cleanRows \subseteq Rows(rows)
  BY DEF Clean
<1> HIDE DEF rows, F, cleanRows
<1>8. /\ {df[n] : n \in Rows(rows) \ cleanRows} \cup {df[n] : n \in cleanRows} = S
      /\ {df[n] : n \in Rows(rows) \ cleanRows} \cap {df[n] : n \in cleanRows} = {}
  BY <1>6, <1>7
<1>9. sim \cup device \subseteq {df[n] : n \in cleanRows} \X {"SIM_SWAP", "DEVICE_SWAP"}
  OBVIOUS
<1> HIDE DEF sim, device
<1>10. work \in [invalid : SUBSET Offset, onTime : SUBSET Offset, conflicts : SUBSET Offset,
                 signals : SUBSET Signal, clean : SUBSET Offset]
  BY DEF IInv, TypeOK
<1>11. /\ work'.invalid = work.invalid /\ work'.onTime = work.onTime
       /\ work'.conflicts = {df[n] : n \in Rows(rows) \ cleanRows}
       /\ work'.signals = sim \cup device
       /\ work'.clean = {df[n] : n \in cleanRows}
  BY <1>4, <1>10
<1> QED
  BY <1>4, <1>5, <1>8, <1>9, <1>11

\* They drop no key: a row that does not pass has a key that DEDUP_STATE held,
\* or that a row beside it brings in.
LEMMA ResolveStep ==
  ASSUME IInv, Resolve
  PROVE  IInv'
<1>1. PICK S \in Kept :
          /\ S \subseteq work.onTime /\ S \subseteq 1..planned
          /\ dedup' = dedup \cup {KeyAt(i) : i \in S}
          /\ work'.invalid = work.invalid /\ work'.onTime = work.onTime
          /\ work'.conflicts \cup work'.clean = S
          /\ work'.conflicts \cap work'.clean = {}
          /\ work'.signals \subseteq work'.clean \X {"SIM_SWAP", "DEVICE_SWAP"}
          /\ pc' = IF S = {} THEN "done" ELSE "resolved"
  BY ResolveFacts
<1>2. \E c, g, l : work' = [work EXCEPT !.conflicts = c, !.signals = g, !.clean = l]
  BY DEF Resolve
<1>3. /\ pc = "logged"
      /\ UNCHANGED <<raw, planned, committed, invalidLog, conflictLog, swapEvent, clean,
                     lostInvalid, lostConflict, renewals, faults>>
  BY DEF Resolve, tables, history
<1>4. \A i \in work.onTime : KeyAt(i) \notin dedup => \E j \in S : KeyAt(j) = KeyAt(i)
  BY DEF Kept
<1>6. /\ work.onTime \subseteq 1..planned /\ 1..planned \subseteq 1..Len(raw)
      /\ 1..Len(raw) \subseteq Offset
      /\ \A i \in 1..Len(raw) : KeyAt(i) \in AllKeys
  BY <1>3, BatchFacts, WorkFacts DEF IInv, Callback
<1>12. work \in [invalid : SUBSET Offset, onTime : SUBSET Offset, conflicts : SUBSET Offset,
                 signals : SUBSET Signal, clean : SUBSET Offset]
  BY DEF IInv, TypeOK
<1>13. work' \in [invalid : SUBSET Offset, onTime : SUBSET Offset, conflicts : SUBSET Offset,
                  signals : SUBSET Signal, clean : SUBSET Offset]
  <2>1. /\ work'.conflicts \subseteq Offset /\ work'.clean \subseteq Offset
        /\ work'.signals \subseteq Signal
    BY <1>1, <1>6 DEF Signal
  <2> QED
    BY <1>2, <1>12, <2>1
<1>14. dedup' \subseteq AllKeys
  BY <1>1, <1>6 DEF IInv, TypeOK
<1>15. TypeOK'
  BY <1>1, <1>3, <1>13, <1>14 DEF IInv, TypeOK
<1>16. \A i \in Offset : (Invalidated(i)' <=> Invalidated(i)) /\ (Resolved(i)' <=> Resolved(i))
  BY <1>3 DEF Invalidated, Resolved
<1>17. \A i : ~Pending(i)
  BY <1>3 DEF Pending
<1>18. \A i \in S : Pending(i)'
  BY <1>1 DEF Pending
<1>19. \A i \in 1..Len(raw) : KeyAt(i)' = KeyAt(i)
  BY <1>3 DEF KeyAt, RowOf
<1>20. DedupJustified'
  <2> SUFFICES ASSUME NEW k \in dedup'
               PROVE  \E j \in 1..planned : KeyAt(j)' = k /\ (Resolved(j)' \/ Pending(j)')
    BY <1>3 DEF DedupJustified
  <2>1. CASE k \in dedup
    BY <1>6, <1>16, <1>17, <1>19, <2>1 DEF IInv, DedupJustified
  <2>2. CASE \E i \in S : k = KeyAt(i)
    BY <1>1, <1>6, <1>18, <1>19, <2>2
  <2> QED
    BY <1>1, <2>1, <2>2
<1>21. \A i \in work.onTime : KeyAt(i) \in dedup'
  BY <1>1, <1>4
<1>22. OnTimeAccounted'
  BY <1>1, <1>3, <1>6, <1>19, <1>20, <1>21 DEF OnTimeAccounted, DedupJustified, Accounted
<1>23. \A i \in work.invalid : Invalidated(i)
  BY <1>3 DEF IInv, RejectedLogged, Callback
<1>24. \A i \in work.invalid : Invalidated(i)'
  BY <1>12, <1>16, <1>23
<1> QED
  BY <1>1, <1>3, <1>15, <1>16, <1>17, <1>20, <1>22, <1>24, InsideStep DEF Callback

-----------------------------------------------------------------------------
LEMMA Initially == Init => IInv
<1> SUFFICES ASSUME Init PROVE IInv
  OBVIOUS
<1>1. TypeOK
  BY BoundAssumption DEF Init, TypeOK, NoWork, None
<1> QED
  BY <1>1 DEF Init, IInv, IdleHasNoBatch, WorkIsBatch, RejectedLogged, DedupJustified,
     OnTimeAccounted, NothingLost, Callback

LEMMA Inductive == IInv /\ [Next]_vars => IInv'
<1> SUFFICES ASSUME IInv, [Next]_vars PROVE IInv'
  OBVIOUS
<1>0. faults \in Nat
  BY DEF IInv, TypeOK
<1>1. CASE \E r \in Rec : Publish(r)
  BY <1>1, PublishStep
<1>2. CASE Plan
  BY <1>2, PlanStep
<1>3. CASE Validate
  <2>1. Collect({}) /\ faults' \in Nat
    BY <1>0, <1>3 DEF Validate
  <2> QED
    BY <2>1, CollectStep
<1>4. CASE ValidationFails
  <2>1. PICK failed \in SUBSET Batch : Collect(failed)
    BY <1>4 DEF ValidationFails
  <2>2. faults' \in Nat
    BY <1>0, <1>4 DEF ValidationFails, CountFault
  <2> QED
    BY <2>1, <2>2, CollectStep
<1>5. CASE LogInvalid \/ LogInvalidFails
  BY <1>5, LogInvalidSteps
<1>6. CASE Resolve
  BY <1>6, ResolveStep
<1>7. CASE LogConflicts \/ LogConflictsFails
  BY <1>7, LogConflictsSteps
<1>8. CASE RecordSwaps
  <2>1. Record(work.signals) /\ faults' \in Nat
    BY <1>0, <1>8 DEF RecordSwaps
  <2> QED
    BY <2>1, RecordStep
<1>9. CASE RecordSwapsFails
  <2>1. PICK S \in SUBSET work.signals : Record(S)
    BY <1>9 DEF RecordSwapsFails
  <2>2. faults' \in Nat
    BY <1>0, <1>9 DEF RecordSwapsFails, CountFault
  <2> QED
    BY <2>1, <2>2, RecordStep
<1>10. CASE \E i \in Offset : PublishClean(i)
  BY <1>10, PublishCleanStep
<1>11. CASE CommitBatch
  BY <1>11, CommitStep
<1>12. CASE Crash
  BY <1>12, CrashStep
<1>13. CASE Restart
  BY <1>13, RestartStep
<1>14. CASE \E k \in AllKeys : Expire(k)
  BY <1>14, ExpireStep
<1>16. CASE ResolveRaises
  BY <1>16, ResolveRaisesStep
<1>15. CASE UNCHANGED vars
  <2>1. UNCHANGED <<raw, planned, committed, pc, work, dedup, invalidLog, conflictLog,
                    swapEvent, clean, lostInvalid, lostConflict, renewals, faults>>
    BY <1>15 DEF vars
  <2>2. TypeOK'
    BY <2>1 DEF IInv, TypeOK
  <2>3. IdleHasNoBatch' /\ WorkIsBatch'
    BY <2>1 DEF IInv, IdleHasNoBatch, WorkIsBatch, Batch
  <2>4. RejectedLogged' /\ NothingLost'
    BY <2>1 DEF IInv, RejectedLogged, NothingLost, Invalidated, Resolved, KeyAt, RowOf
  <2>5. DedupJustified' /\ OnTimeAccounted'
    BY <2>1 DEF IInv, DedupJustified, OnTimeAccounted, Accounted, Pending, Resolved, KeyAt, RowOf
  <2> QED
    BY <2>2, <2>3, <2>4, <2>5 DEF IInv
<1> QED
  BY <1>1, <1>2, <1>3, <1>4, <1>5, <1>6, <1>7, <1>8, <1>9, <1>10, <1>11, <1>12, <1>13,
     <1>14, <1>15, <1>16 DEF Next, S2Step, Advance

\* The inductive invariant: every message behind the committed offset is
\* accounted for, and so is every one the callback has gone through.
LEMMA Invariance == Spec => []IInv
BY Initially, Inductive, PTL DEF Spec

\* Every variable of stage 2 keeps its type.
THEOREM TypeCorrect == Spec => []TypeOK
<1>1. IInv => TypeOK
  BY DEF IInv
<1> QED
  BY <1>1, Invariance, PTL

\* Stage 2 loses no record silently: what lies behind the committed offset is
\* in invalid_log, or its key is on radius.clean or in conflict_log, up to the
\* rows whose INSERT failed. No crash, replay or loss of DEDUP_STATE between
\* two steps of the callback breaks this.
THEOREM NoRecordLost == Spec => []NothingLost
<1>1. IInv => NothingLost
  BY DEF IInv
<1> QED
  BY <1>1, Invariance, PTL

-----------------------------------------------------------------------------
\* Effects. A key is good for one effect when DEDUP_STATE takes it in and for
\* one more each time DEDUP_STATE forgets it; a row in a list of the callback
\* counts as the effect that it will be.
Types == {"SIM_SWAP", "DEVICE_SWAP"}
Count(b) == IF b THEN 1 ELSE 0

Signalled(j, t) == pc \in {"resolved", "conflictsLogged"} /\ <<j, t>> \in work.signals

ListsWithin ==
    /\ work.conflicts \subseteq 1..planned /\ work.clean \subseteq 1..planned
    /\ work.signals \subseteq (1..planned) \X Types
ListsApart == work.conflicts \cap work.clean = {}
\* The deduplication lets one row of a key pass.
PendingOnce == \A i, j \in 1..Len(raw) : Pending(i) /\ Pending(j) /\ KeyAt(i) = KeyAt(j) => i = j
SignalsOfClean == \A j \in 1..Len(raw), t \in Types : Signalled(j, t) => j \in work.clean

\* Nothing is known of a message that is not on the topic.
NoneBeyond ==
    \A i \in Offset : i > Len(raw) =>
        clean[i] = 0 /\ conflictLog[i] = 0 /\ \A t \in Types : swapEvent[<<i, t>>] = 0

PendingKey(k) == \E j \in 1..Len(raw) : Pending(j) /\ KeyAt(j) = k
SignalledKey(k, t) == \E j \in 1..Len(raw) : Signalled(j, t) /\ KeyAt(j) = k
Allowed(k) == renewals[k] + Count(k \in dedup)
EffectsCounted ==
    \A k \in AllKeys :
        /\ EffectsOfKey(k) + Count(PendingKey(k)) <= Allowed(k)
        /\ \A t \in Types :
              Cardinality(RowsOfKey(SwapLog(t), k)) + Count(SignalledKey(k, t)) <= Allowed(k)

Lists == ListsWithin /\ ListsApart /\ PendingOnce /\ SignalsOfClean
EInv == IInv /\ Lists /\ NoneBeyond /\ EffectsCounted

LEMMA RowsFacts ==
  ASSUME TypeOK, NEW log \in [Offset -> Nat], NEW k
  PROVE  /\ \A e : e \in RowsOfKey(log, k) <=>
               \E i \in 1..Len(raw) : KeyAt(i) = k /\ \E n \in 1..log[i] : e = <<i, n>>
         /\ IsFiniteSet(RowsOfKey(log, k))
         /\ Cardinality(RowsOfKey(log, k)) \in Nat
<1> DEFINE mine == {j \in 1..Len(raw) : KeyAt(j) = k}
           perMessage == {{i} \X (1..log[i]) : i \in mine}
           f == [i \in mine |-> {i} \X (1..log[i])]
<1>1. \A e : e \in RowsOfKey(log, k) <=>
          \E i \in 1..Len(raw) : KeyAt(i) = k /\ \E n \in 1..log[i] : e = <<i, n>>
  BY DEF RowsOfKey
<1>2. f \in Surjection(mine, perMessage)
  BY DEF Surjection
<1>3. IsFiniteSet(mine)
  <2>1. IsFiniteSet(1..Len(raw))
    BY FS_Interval DEF TypeOK
  <2> QED
    BY <2>1, FS_Subset
<1>4. IsFiniteSet(perMessage)
  BY <1>2, <1>3, FS_Surjection
<1>5. ASSUME NEW i \in mine PROVE IsFiniteSet({i} \X (1..log[i]))
  <2>1. log[i] \in Nat
    BY BatchFacts
  <2>2. IsFiniteSet({i})
    BY FS_Singleton
  <2>3. IsFiniteSet(1..log[i])
    BY <2>1, FS_Interval
  <2> QED
    BY <2>2, <2>3, FS_Product
<1>6. \A T \in perMessage : IsFiniteSet(T)
  BY <1>5
<1>7. RowsOfKey(log, k) = UNION perMessage
  BY DEF RowsOfKey
<1> HIDE DEF perMessage
<1>8. IsFiniteSet(RowsOfKey(log, k))
  BY <1>4, <1>6, <1>7, FS_UNION
<1> QED
  BY <1>1, <1>8, FS_CardinalityType

\* One more row for each message of a set that holds one of the key, or none.
LEMMA AddedRows ==
  ASSUME TypeOK, NEW log \in [Offset -> Nat], NEW S, NEW k,
         \A i, j \in 1..Len(raw) : i \in S /\ j \in S /\ KeyAt(i) = k /\ KeyAt(j) = k => i = j
  PROVE  /\ (\E i \in 1..Len(raw) : i \in S /\ KeyAt(i) = k) =>
                Cardinality(RowsOfKey(AddRows(log, S), k)) = Cardinality(RowsOfKey(log, k)) + 1
         /\ (~\E i \in 1..Len(raw) : i \in S /\ KeyAt(i) = k) =>
                Cardinality(RowsOfKey(AddRows(log, S), k)) = Cardinality(RowsOfKey(log, k))
<1>0. 1..Len(raw) \subseteq Offset
  BY BatchFacts
<1> DEFINE more == AddRows(log, S)
<1>1. more \in [Offset -> Nat]
  BY AddRowsFacts
<1>2. \A i \in 1..Len(raw) : more[i] = log[i] + Count(i \in S)
  BY <1>0 DEF AddRows, Count
<1> HIDE DEF more
<1>3. /\ \A e : e \in RowsOfKey(log, k) <=>
             \E i \in 1..Len(raw) : KeyAt(i) = k /\ \E n \in 1..log[i] : e = <<i, n>>
      /\ IsFiniteSet(RowsOfKey(log, k)) /\ Cardinality(RowsOfKey(log, k)) \in Nat
  BY RowsFacts
<1>4. \A e : e \in RowsOfKey(more, k) <=>
             \E i \in 1..Len(raw) : KeyAt(i) = k /\ \E n \in 1..more[i] : e = <<i, n>>
  BY <1>1, RowsFacts
<1>5. CASE ~\E i \in 1..Len(raw) : i \in S /\ KeyAt(i) = k
  <2>1. \A i \in 1..Len(raw) : KeyAt(i) = k => more[i] = log[i]
    BY <1>0, <1>2, <1>5 DEF Count
  <2>2. RowsOfKey(more, k) = RowsOfKey(log, k)
    BY <1>3, <1>4, <2>1
  <2> QED
    BY <1>5, <2>2 DEF more
<1>6. CASE \E i \in 1..Len(raw) : i \in S /\ KeyAt(i) = k
  <2>1. PICK i \in 1..Len(raw) : i \in S /\ KeyAt(i) = k
    BY <1>6
  <2>2. \A j \in 1..Len(raw) : KeyAt(j) = k /\ j # i => more[j] = log[j]
    BY <1>0, <1>2, <2>1 DEF Count
  <2>3. log[i] \in Nat /\ more[i] = log[i] + 1
    BY <1>0, <1>2, <2>1 DEF Count
  <2>4. RowsOfKey(more, k) = RowsOfKey(log, k) \cup {<<i, log[i] + 1>>}
    <3>1. ASSUME NEW e \in RowsOfKey(more, k)
          PROVE  e \in RowsOfKey(log, k) \cup {<<i, log[i] + 1>>}
      <4>1. PICK j \in 1..Len(raw) : KeyAt(j) = k /\ \E n \in 1..more[j] : e = <<j, n>>
        BY <1>4, <3>1
      <4>2. PICK n \in 1..more[j] : e = <<j, n>>
        BY <4>1
      <4>3. CASE n \in 1..log[j]
        BY <1>3, <4>1, <4>2, <4>3
      <4>4. CASE n \notin 1..log[j]
        BY <2>2, <2>3, <4>1, <4>2, <4>4
      <4> QED
        BY <4>3, <4>4
    <3>2. ASSUME NEW e \in RowsOfKey(log, k) PROVE e \in RowsOfKey(more, k)
      <4>1. PICK j \in 1..Len(raw) : KeyAt(j) = k /\ \E n \in 1..log[j] : e = <<j, n>>
        BY <1>3, <3>2
      <4>2. log[j] \in Nat /\ more[j] \in Nat /\ log[j] <= more[j]
        BY <1>0, <1>1, <1>2 DEF Count
      <4> QED
        BY <1>4, <4>1, <4>2
    <3>3. <<i, log[i] + 1>> \in RowsOfKey(more, k)
      BY <1>4, <2>1, <2>3
    <3> QED
      BY <3>1, <3>2, <3>3
  <2>5. <<i, log[i] + 1>> \notin RowsOfKey(log, k)
    BY <1>3, <2>3
  <2>6. Cardinality(RowsOfKey(more, k)) = Cardinality(RowsOfKey(log, k)) + 1
    <3>1. IsFiniteSet(RowsOfKey(log, k))
      BY <1>3
    <3>2. Cardinality(RowsOfKey(log, k) \cup {<<i, log[i] + 1>>}) = Cardinality(RowsOfKey(log, k)) + 1
      BY <2>5, <3>1, FS_AddElement
    <3> QED
      BY <2>4, <3>2
  <2> QED
    BY <1>6, <2>6 DEF more
<1> QED
  BY <1>5, <1>6

LEMMA CountFacts == \A b : Count(b) \in {0, 1}
BY DEF Count

LEMMA LogFacts ==
  ASSUME TypeOK
  PROVE  /\ clean \in [Offset -> Nat] /\ conflictLog \in [Offset -> Nat]
         /\ \A t \in Types : SwapLog(t) \in [Offset -> Nat]
         /\ \A k : /\ Cardinality(RowsOfKey(clean, k)) \in Nat
                   /\ Cardinality(RowsOfKey(conflictLog, k)) \in Nat
                   /\ \A t \in Types : Cardinality(RowsOfKey(SwapLog(t), k)) \in Nat
         /\ \A k \in AllKeys : renewals[k] \in Nat /\ Allowed(k) \in Nat
<1>1. clean \in [Offset -> Nat] /\ conflictLog \in [Offset -> Nat]
  BY DEF TypeOK
<1>2. ASSUME NEW t \in Types PROVE SwapLog(t) \in [Offset -> Nat]
  BY DEF TypeOK, SwapLog, Signal, Types
<1>3. \A k \in AllKeys : renewals[k] \in Nat /\ Allowed(k) \in Nat
  BY DEF TypeOK, Allowed, Count
<1> QED
  BY <1>1, <1>2, <1>3, RowsFacts

\* The counts after a step that leaves the topic alone.
LEMMA SameTopic ==
  ASSUME raw' = raw
  PROVE  /\ \A i : KeyAt(i)' = KeyAt(i)
         /\ \A k : EffectsOfKey(k)' =
                Cardinality(RowsOfKey(clean', k)) + Cardinality(RowsOfKey(conflictLog', k))
         /\ \A k, t : Cardinality(RowsOfKey(SwapLog(t), k))' =
                Cardinality(RowsOfKey([i \in Offset |-> swapEvent'[<<i, t>>]], k))
BY DEF KeyAt, RowOf, RowsOfKey, EffectsOfKey, SwapLog

\* A step that writes no effect keeps the account if no list grows and if a key
\* leaves DEDUP_STATE only by being forgotten.
LEMMA FewerPending ==
  ASSUME EInv, IInv', raw' = raw, UNCHANGED <<clean, conflictLog, swapEvent>>,
         planned <= planned' \/ work' = NoWork,
         work'.conflicts \subseteq work.conflicts, work'.clean \subseteq work.clean,
         work'.signals \subseteq work.signals,
         \A j : Pending(j)' => Pending(j),
         \A j, t : Signalled(j, t)' => Signalled(j, t) /\ work'.clean = work.clean,
         \A k \in AllKeys : Allowed(k) <= Allowed(k)'
  PROVE  EInv'
<1>1. \A i : KeyAt(i)' = KeyAt(i)
  BY SameTopic
<1>2. /\ \A k : EffectsOfKey(k)' = EffectsOfKey(k)
      /\ \A k, t : Cardinality(RowsOfKey(SwapLog(t), k))' = Cardinality(RowsOfKey(SwapLog(t), k))
  BY DEF RowsOfKey, EffectsOfKey, SwapLog, KeyAt, RowOf
<1>3. planned \in Nat /\ planned' \in Nat
  BY DEF EInv, IInv, TypeOK
<1>4. ListsWithin' /\ ListsApart'
  BY <1>3 DEF EInv, Lists, ListsWithin, ListsApart, NoWork
<1>5. PendingOnce'
  BY <1>1 DEF EInv, Lists, PendingOnce
<1>6. SignalsOfClean'
  BY DEF EInv, Lists, SignalsOfClean
<1>7. NoneBeyond'
  BY DEF EInv, NoneBeyond
<1>8. \A k : /\ PendingKey(k)' => PendingKey(k)
             /\ \A t : SignalledKey(k, t)' => SignalledKey(k, t)
  BY <1>1 DEF PendingKey, SignalledKey
<1>9. \A k : /\ Count(PendingKey(k))' <= Count(PendingKey(k))
             /\ \A t : Count(SignalledKey(k, t))' <= Count(SignalledKey(k, t))
  BY <1>8 DEF Count
<1>10. EffectsCounted'
  <2> SUFFICES ASSUME NEW k \in AllKeys
               PROVE  /\ EffectsOfKey(k)' + Count(PendingKey(k))' <= Allowed(k)'
                      /\ \A t \in Types :
                            Cardinality(RowsOfKey(SwapLog(t), k))' + Count(SignalledKey(k, t))'
                                <= Allowed(k)'
    BY DEF EffectsCounted
  <2>1. Allowed(k) \in Nat /\ Allowed(k)' \in Nat /\ Allowed(k) <= Allowed(k)'
    <3>1. Allowed(k) \in Nat
      BY LogFacts DEF EInv, IInv
    <3>2. Allowed(k)' \in Nat
      BY DEF IInv, TypeOK, Allowed, Count
    <3> QED
      BY <3>1, <3>2
  <2>2. EffectsOfKey(k)' + Count(PendingKey(k))' <= Allowed(k)'
    <3>1. EffectsOfKey(k) \in Nat /\ EffectsOfKey(k) + Count(PendingKey(k)) <= Allowed(k)
      BY LogFacts DEF EInv, IInv, EffectsCounted, EffectsOfKey
    <3>2. Count(PendingKey(k)) \in {0, 1} /\ Count(PendingKey(k))' \in {0, 1}
      BY DEF Count
    <3>3. EffectsOfKey(k)' = EffectsOfKey(k) /\ Count(PendingKey(k))' <= Count(PendingKey(k))
      BY <1>2, <1>9
    <3> QED
      BY <2>1, <3>1, <3>2, <3>3
  <2>3. ASSUME NEW t \in Types
        PROVE  Cardinality(RowsOfKey(SwapLog(t), k))' + Count(SignalledKey(k, t))' <= Allowed(k)'
    <3>1. /\ Cardinality(RowsOfKey(SwapLog(t), k)) \in Nat
          /\ Cardinality(RowsOfKey(SwapLog(t), k)) + Count(SignalledKey(k, t)) <= Allowed(k)
      BY LogFacts DEF EInv, IInv, EffectsCounted
    <3>2. Count(SignalledKey(k, t)) \in {0, 1} /\ Count(SignalledKey(k, t))' \in {0, 1}
      BY DEF Count
    <3>3. /\ Cardinality(RowsOfKey(SwapLog(t), k))' = Cardinality(RowsOfKey(SwapLog(t), k))
          /\ Count(SignalledKey(k, t))' <= Count(SignalledKey(k, t))
      BY <1>2, <1>9
    <3> QED
      BY <2>1, <3>1, <3>2, <3>3
  <2> QED
    BY <2>2, <2>3
<1> QED
  BY <1>4, <1>5, <1>6, <1>7, <1>10 DEF EInv, Lists

\* The steps that write no effect.
LEMMA QuietSteps ==
  ASSUME EInv, IInv',
         \/ Plan \/ Restart \/ CommitBatch \/ LogInvalid \/ LogInvalidFails \/ LogConflictsFails
         \/ \E failed \in SUBSET Batch : Collect(failed)
  PROVE  EInv'
<1>1. UNCHANGED <<raw, clean, conflictLog, swapEvent, dedup, renewals>>
  BY DEF Plan, Restart, CommitBatch, LogInvalid, LogInvalidFails, LogConflictsFails, Collect,
         tables, history
<1>2. \A k : Allowed(k)' = Allowed(k)
  BY <1>1 DEF Allowed
<1>3. \A k \in AllKeys : Allowed(k) <= Allowed(k)'
  BY <1>2, LogFacts DEF EInv, IInv
<1>4. planned \in Nat /\ planned' \in Nat /\ committed' \in Nat /\ committed' <= planned'
  BY DEF EInv, IInv, TypeOK
<1>5. CASE Plan
  <2>1. planned = committed /\ committed' = committed
    BY <1>5 DEF EInv, IInv, IdleHasNoBatch, Plan
  <2>2. planned <= planned' /\ work' = work /\ pc' = "planned"
    BY <1>4, <1>5, <2>1 DEF Plan
  <2> QED
    BY <1>1, <1>3, <2>2, FewerPending DEF Pending, Signalled
<1>6. CASE Restart
  <2>1. planned <= planned' /\ work' = work /\ pc' \in {"idle", "planned"}
    BY <1>4, <1>6 DEF Restart
  <2> QED
    BY <1>1, <1>3, <2>1, FewerPending DEF Pending, Signalled
<1>7. CASE CommitBatch
  <2>1. planned <= planned' /\ pc' = "idle" /\ work' = NoWork
    BY <1>4, <1>7 DEF CommitBatch
  <2>2. work'.conflicts = {} /\ work'.clean = {} /\ work'.signals = {}
    BY <2>1 DEF NoWork
  <2> QED
    BY <1>1, <1>3, <2>1, <2>2, FewerPending DEF Pending, Signalled
<1>8. CASE LogInvalid \/ LogInvalidFails
  <2>1. planned <= planned' /\ work' = work /\ pc' \in {"done", "logged"}
    BY <1>4, <1>8 DEF LogInvalid, LogInvalidFails, AfterInvalidLog
  <2> QED
    BY <1>1, <1>3, <2>1, FewerPending DEF Pending, Signalled
<1>9. CASE LogConflictsFails
  <2>1. planned <= planned' /\ work' = work /\ pc = "resolved" /\ pc' = "conflictsLogged"
    BY <1>4, <1>9 DEF LogConflictsFails
  <2>2. \A j : Pending(j)' => Pending(j)
    BY <2>1 DEF Pending
  <2>3. \A j, t : Signalled(j, t)' => Signalled(j, t) /\ work'.clean = work.clean
    BY <2>1 DEF Signalled
  <2> QED
    BY <1>1, <1>3, <2>1, <2>2, <2>3, FewerPending
<1>10. ASSUME NEW failed \in SUBSET Batch, Collect(failed) PROVE EInv'
  <2>0. planned' = planned /\ pc' = "collected"
    BY <1>10 DEF Collect
  <2>1. planned <= planned'
    BY <1>4, <2>0
  <2>2. work'.conflicts = {} /\ work'.clean = {} /\ work'.signals = {}
    BY <1>10 DEF Collect, NoWork
  <2> QED
    BY <1>1, <1>3, <2>0, <2>1, <2>2, FewerPending DEF Pending, Signalled
<1> QED
  BY <1>5, <1>6, <1>7, <1>8, <1>9, <1>10

\* What DEDUP_STATE forgets is one more renewal.
LEMMA ForgetCounts ==
  ASSUME EInv, NEW S, Forget(S)
  PROVE  \A k \in AllKeys : Allowed(k) <= Allowed(k)'
<1>1. renewals \in [AllKeys -> Nat]
  BY DEF EInv, IInv, TypeOK
<1>2. \A k \in AllKeys : renewals'[k] = renewals[k] + Count(k \in S \cap dedup)
  BY <1>1 DEF Forget, AddRows, Count
<1>3. dedup' = dedup \ S
  BY DEF Forget
<1> QED
  BY <1>1, <1>2, <1>3 DEF Allowed, Count

LEMMA ForgetSteps ==
  ASSUME EInv, IInv', Crash \/ ResolveRaises \/ \E k \in AllKeys : Expire(k)
  PROVE  EInv'
<1>1. UNCHANGED <<raw, clean, conflictLog, swapEvent, planned>> /\ planned <= planned'
  <2>1. UNCHANGED <<raw, clean, conflictLog, swapEvent, planned>>
    BY DEF Crash, ResolveRaises, Expire, spark, tables
  <2>2. planned \in Nat
    BY DEF EInv, IInv, TypeOK
  <2> QED
    BY <2>1, <2>2
<1>3. \A k \in AllKeys : Allowed(k) <= Allowed(k)'
  BY ForgetCounts DEF Crash, ResolveRaises, Expire, ForgetAll
<1>4. CASE Crash \/ ResolveRaises
  <2>1. /\ pc' \in {"raised", "down"}
        /\ work'.conflicts = {} /\ work'.clean = {} /\ work'.signals = {}
    BY <1>4 DEF Crash, ResolveRaises, NoWork
  <2> QED
    BY <1>1, <1>3, <2>1, FewerPending DEF Pending, Signalled
<1>5. CASE \E k \in AllKeys : Expire(k)
  <2>1. pc' = pc /\ work' = work
    BY <1>5 DEF Expire, spark
  <2>2. \A j : Pending(j)' => Pending(j)
    BY <2>1 DEF Pending
  <2>3. \A j, t : Signalled(j, t)' => Signalled(j, t) /\ work'.clean = work.clean
    BY <2>1 DEF Signalled
  <2> QED
    BY <1>1, <1>3, <2>1, <2>2, <2>3, FewerPending
<1> QED
  BY <1>4, <1>5

\* A message that S1 sends has no effects yet.
LEMMA EffectsPublishStep ==
  ASSUME EInv, IInv', NEW r \in Rec, Publish(r)
  PROVE  EInv'
<1>1. UNCHANGED <<planned, pc, work, dedup, clean, conflictLog, swapEvent, renewals>>
  BY DEF Publish, spark, tables, history
<1>2. /\ Len(raw') = Len(raw) + 1 /\ Len(raw) \in Nat
      /\ \A i \in 1..Len(raw) : raw'[i] = raw[i]
  BY DEF EInv, IInv, TypeOK, Publish
<1>3. Len(raw') \in Offset /\ 1..Len(raw) \subseteq Offset /\ 1..planned \subseteq 1..Len(raw)
  <2>1. Len(raw') <= MaxRaw
    BY <1>2 DEF IInv, TypeOK
  <2> QED
    BY <1>2, <2>1, BatchFacts, BoundAssumption DEF Offset, EInv, IInv
<1>4. \A i \in 1..Len(raw) : KeyAt(i)' = KeyAt(i)
  BY <1>2 DEF KeyAt, RowOf
<1>5. \A j : (Pending(j)' <=> Pending(j)) /\ \A t : Signalled(j, t)' <=> Signalled(j, t)
  BY <1>1 DEF Pending, Signalled
<1>6. \A j : /\ Pending(j) => j \in 1..planned
             /\ \A t \in Types : Signalled(j, t) => j \in 1..planned
  BY DEF EInv, Lists, ListsWithin, Pending, Signalled
<1>7. NoneBeyond'
  BY <1>1, <1>2, <1>3 DEF EInv, NoneBeyond, Offset
<1>8. ListsWithin' /\ ListsApart'
  BY <1>1 DEF EInv, Lists, ListsWithin, ListsApart
<1>9. PendingOnce'
  BY <1>3, <1>4, <1>5, <1>6 DEF EInv, Lists, PendingOnce
<1>10. SignalsOfClean'
  BY <1>1, <1>3, <1>5, <1>6 DEF EInv, Lists, SignalsOfClean
<1>11. ASSUME NEW log \in [Offset -> Nat], \A i \in Offset : i > Len(raw) => log[i] = 0, NEW k
       PROVE  UNION {{i} \X (1..log[i]) : i \in {j \in 1..Len(raw') : KeyAt(j)' = k}} = RowsOfKey(log, k)
  <2> DEFINE n == Len(raw)
             after == UNION {{i} \X (1..log[i]) : i \in {j \in 1..Len(raw') : KeyAt(j)' = k}}
  <2>1. /\ \A e : e \in RowsOfKey(log, k) <=>
               \E i \in 1..n : KeyAt(i) = k /\ \E m \in 1..log[i] : e = <<i, m>>
        /\ \A e : e \in after <=>
               \E i \in 1..Len(raw') : KeyAt(i)' = k /\ \E m \in 1..log[i] : e = <<i, m>>
    BY DEF RowsOfKey
  <2>2. log[n + 1] = 0 /\ Len(raw') = n + 1 /\ n \in Nat
    BY <1>2, <1>3, <1>11
  <2>3. \A i \in 1..n : KeyAt(i)' = KeyAt(i)
    BY <1>4
  <2> HIDE DEF n, after
  <2>4. \A i \in 1..(n + 1) : i \in 1..n \/ log[i] = 0
    BY <2>2
  <2>5. \A i \in 1..n : i \in 1..(n + 1)
    BY <2>2
  <2>6. 1..0 = {}
    OBVIOUS
  <2>7. after = RowsOfKey(log, k)
    BY <2>1, <2>2, <2>3, <2>4, <2>5, <2>6
  <2> QED
    BY <2>7 DEF after
<1>12. \A k : /\ PendingKey(k)' => PendingKey(k)
              /\ \A t \in Types : SignalledKey(k, t)' => SignalledKey(k, t)
  BY <1>3, <1>4, <1>5, <1>6 DEF PendingKey, SignalledKey
<1>13. \A k : /\ Count(PendingKey(k))' <= Count(PendingKey(k))
              /\ \A t \in Types : Count(SignalledKey(k, t))' <= Count(SignalledKey(k, t))
  BY <1>12 DEF Count
<1>14. EffectsCounted'
  <2> SUFFICES ASSUME NEW k \in AllKeys
               PROVE  /\ EffectsOfKey(k)' + Count(PendingKey(k))' <= Allowed(k)'
                      /\ \A t \in Types :
                            Cardinality(RowsOfKey(SwapLog(t), k))' + Count(SignalledKey(k, t))'
                                <= Allowed(k)'
    BY DEF EffectsCounted
  <2>1. Allowed(k)' = Allowed(k) /\ Allowed(k) \in Nat
    BY <1>1, LogFacts DEF Allowed, EInv, IInv
  <2>2. EffectsOfKey(k)' + Count(PendingKey(k))' <= Allowed(k)'
    <3>1. clean \in [Offset -> Nat] /\ conflictLog \in [Offset -> Nat]
      BY DEF EInv, IInv, TypeOK
    <3>2. RowsOfKey(clean, k)' = RowsOfKey(clean, k)
      BY <1>1, <1>11, <3>1 DEF EInv, NoneBeyond, RowsOfKey
    <3>3. RowsOfKey(conflictLog, k)' = RowsOfKey(conflictLog, k)
      BY <1>1, <1>11, <3>1 DEF EInv, NoneBeyond, RowsOfKey
    <3>4. EffectsOfKey(k)' = EffectsOfKey(k) /\ EffectsOfKey(k) \in Nat
      BY <3>2, <3>3, LogFacts DEF EffectsOfKey, EInv, IInv
    <3>5. EffectsOfKey(k) + Count(PendingKey(k)) <= Allowed(k)
      BY DEF EInv, EffectsCounted
    <3>6. Count(PendingKey(k)) \in {0, 1} /\ Count(PendingKey(k))' \in {0, 1}
      BY DEF Count
    <3> QED
      BY <1>13, <2>1, <3>4, <3>5, <3>6
  <2>3. ASSUME NEW t \in Types
        PROVE  Cardinality(RowsOfKey(SwapLog(t), k))' + Count(SignalledKey(k, t))' <= Allowed(k)'
    <3>1. SwapLog(t) \in [Offset -> Nat] /\ \A i \in Offset : i > Len(raw) => SwapLog(t)[i] = 0
      BY LogFacts DEF EInv, IInv, NoneBeyond, SwapLog
    <3>2. RowsOfKey(SwapLog(t), k)' = RowsOfKey(SwapLog(t), k)
      <4>1. SwapLog(t)' = SwapLog(t)
        BY <1>1 DEF SwapLog
      <4>2. RowsOfKey(SwapLog(t), k)' =
                UNION {{i} \X (1..SwapLog(t)'[i]) : i \in {j \in 1..Len(raw') : KeyAt(j)' = k}}
        BY DEF RowsOfKey
      <4> QED
        BY <1>11, <3>1, <4>1, <4>2
    <3>3. /\ Cardinality(RowsOfKey(SwapLog(t), k)) \in Nat
          /\ Cardinality(RowsOfKey(SwapLog(t), k)) + Count(SignalledKey(k, t)) <= Allowed(k)
      BY LogFacts DEF EInv, IInv, EffectsCounted
    <3>4. Count(SignalledKey(k, t)) \in {0, 1} /\ Count(SignalledKey(k, t))' \in {0, 1}
      BY DEF Count
    <3> QED
      BY <1>13, <2>1, <3>2, <3>3, <3>4
  <2> QED
    BY <2>2, <2>3
<1> QED
  BY <1>7, <1>8, <1>9, <1>10, <1>14 DEF EInv, Lists

\* A row moves from a list of the callback to the log of the list.
LEMMA MovedRow ==
  ASSUME EInv, IInv', UNCHANGED <<raw, dedup, renewals>>,
         \A k \in AllKeys :
            /\ EffectsOfKey(k)' + Count(PendingKey(k))' <= EffectsOfKey(k) + Count(PendingKey(k))
            /\ \A t \in Types :
                  Cardinality(RowsOfKey(SwapLog(t), k))' + Count(SignalledKey(k, t))'
                      <= Cardinality(RowsOfKey(SwapLog(t), k)) + Count(SignalledKey(k, t))
  PROVE  EffectsCounted'
<1> SUFFICES ASSUME NEW k \in AllKeys
             PROVE  /\ EffectsOfKey(k)' + Count(PendingKey(k))' <= Allowed(k)'
                    /\ \A t \in Types :
                          Cardinality(RowsOfKey(SwapLog(t), k))' + Count(SignalledKey(k, t))'
                              <= Allowed(k)'
  BY DEF EffectsCounted
<1>1. /\ Allowed(k)' = Allowed(k) /\ Allowed(k) \in Nat
      /\ EffectsOfKey(k) \in Nat
      /\ \A t \in Types : Cardinality(RowsOfKey(SwapLog(t), k)) \in Nat
  BY LogFacts DEF Allowed, EffectsOfKey, EInv, IInv
<1>2. /\ EffectsOfKey(k)' \in Nat
      /\ \A t \in Types : Cardinality(RowsOfKey(SwapLog(t), k))' \in Nat
  <2>1. TypeOK'
    BY DEF IInv
  <2>2. clean' \in [Offset -> Nat] /\ conflictLog' \in [Offset -> Nat]
        /\ \A t \in Types : [i \in Offset |-> swapEvent'[<<i, t>>]] \in [Offset -> Nat]
    BY <2>1 DEF TypeOK, Signal, Types
  <2>3. TypeOK
    BY DEF EInv, IInv
  <2>4. Cardinality(RowsOfKey(clean', k)) \in Nat /\ Cardinality(RowsOfKey(conflictLog', k)) \in Nat
    BY <2>2, <2>3, RowsFacts
  <2>5. EffectsOfKey(k)' \in Nat
    BY <2>4, SameTopic
  <2>6. ASSUME NEW t \in Types PROVE Cardinality(RowsOfKey(SwapLog(t), k))' \in Nat
    <3>1. [i \in Offset |-> swapEvent'[<<i, t>>]] \in [Offset -> Nat]
      BY <2>2
    <3>2. Cardinality(RowsOfKey([i \in Offset |-> swapEvent'[<<i, t>>]], k)) \in Nat
      BY <2>3, <3>1, RowsFacts
    <3> QED
      BY <3>2, SameTopic
  <2> QED
    BY <2>5, <2>6
<1>3. /\ EffectsOfKey(k) + Count(PendingKey(k)) <= Allowed(k)
      /\ \A t \in Types :
            Cardinality(RowsOfKey(SwapLog(t), k)) + Count(SignalledKey(k, t)) <= Allowed(k)
  BY DEF EInv, EffectsCounted
<1>4. /\ Count(PendingKey(k)) \in {0, 1} /\ Count(PendingKey(k))' \in {0, 1}
      /\ \A t \in Types : Count(SignalledKey(k, t)) \in {0, 1} /\ Count(SignalledKey(k, t))' \in {0, 1}
  BY DEF Count
<1> QED
  BY <1>1, <1>2, <1>3, <1>4

LEMMA EffectsLogConflictsStep ==
  ASSUME EInv, IInv', LogConflicts
  PROVE  EInv'
<1>1. /\ pc = "resolved" /\ pc' = "conflictsLogged"
      /\ conflictLog' = AddRows(conflictLog, work.conflicts)
      /\ UNCHANGED <<raw, planned, work, dedup, swapEvent, clean, renewals>>
  BY DEF LogConflicts, history
<1>2. \A i : KeyAt(i)' = KeyAt(i)
  BY <1>1, SameTopic
<1>3. \A j : /\ Pending(j) <=> j \in work.conflicts \/ j \in work.clean
             /\ Pending(j)' <=> j \in work.clean
  BY <1>1 DEF Pending
<1>4. \A j, t : Signalled(j, t)' <=> Signalled(j, t)
  BY <1>1 DEF Signalled
<1>5. ListsWithin' /\ ListsApart'
  BY <1>1 DEF EInv, Lists, ListsWithin, ListsApart
<1>6. PendingOnce' /\ SignalsOfClean'
  BY <1>1, <1>2, <1>3, <1>4 DEF EInv, Lists, PendingOnce, SignalsOfClean
<1>7. NoneBeyond'
  <2>1. work.conflicts \subseteq 1..Len(raw) /\ Len(raw) \in Nat
    BY BatchFacts DEF EInv, IInv, TypeOK, Lists, ListsWithin
  <2>2. \A i \in Offset : i > Len(raw) => i \notin work.conflicts
    BY <2>1
  <2>3. \A i \in Offset : i > Len(raw) => conflictLog'[i] = 0
    BY <1>1, <2>2 DEF AddRows, EInv, IInv, TypeOK, NoneBeyond
  <2> QED
    BY <1>1, <2>3 DEF EInv, NoneBeyond
<1>8. ASSUME NEW k \in AllKeys
      PROVE  EffectsOfKey(k)' + Count(PendingKey(k))' <= EffectsOfKey(k) + Count(PendingKey(k))
  <2> DEFINE hit == \E i \in 1..Len(raw) : i \in work.conflicts /\ KeyAt(i) = k
  <2>1. \A i, j \in 1..Len(raw) :
            i \in work.conflicts /\ j \in work.conflicts /\ KeyAt(i) = k /\ KeyAt(j) = k => i = j
    BY <1>3 DEF EInv, Lists, PendingOnce
  <2>2. Cardinality(RowsOfKey(conflictLog', k)) = Cardinality(RowsOfKey(conflictLog, k)) + Count(hit)
    <3>1. TypeOK /\ conflictLog \in [Offset -> Nat]
      BY DEF EInv, IInv, TypeOK
    <3>2. /\ hit => Cardinality(RowsOfKey(AddRows(conflictLog, work.conflicts), k)) = Cardinality(RowsOfKey(conflictLog, k)) + 1
          /\ ~hit => Cardinality(RowsOfKey(AddRows(conflictLog, work.conflicts), k)) = Cardinality(RowsOfKey(conflictLog, k))
      BY <2>1, <3>1, AddedRows
    <3>3. Cardinality(RowsOfKey(conflictLog, k)) \in Nat
      BY LogFacts DEF EInv, IInv
    <3> HIDE DEF hit
    <3> QED
      BY <1>1, <3>2, <3>3 DEF Count
  <2>3. EffectsOfKey(k)' = EffectsOfKey(k) + Count(hit)
    <3>1. EffectsOfKey(k)' =
              Cardinality(RowsOfKey(clean', k)) + Cardinality(RowsOfKey(conflictLog', k))
      BY <1>1, SameTopic
    <3>2. Cardinality(RowsOfKey(clean, k)) \in Nat /\ Cardinality(RowsOfKey(conflictLog, k)) \in Nat
      BY LogFacts DEF EInv, IInv
    <3>3. Count(hit) \in Nat
      BY DEF Count
    <3> HIDE DEF hit
    <3> QED
      BY <1>1, <2>2, <3>1, <3>2, <3>3 DEF EffectsOfKey
  <2>4. ~(hit /\ PendingKey(k)')
    BY <1>1, <1>2, <1>3 DEF PendingKey, EInv, Lists, PendingOnce, ListsApart
  <2>5. hit \/ PendingKey(k)' => PendingKey(k)
    BY <1>1, <1>2, <1>3 DEF PendingKey
  <2> HIDE DEF hit
  <2>6. Count(hit) + Count(PendingKey(k))' <= Count(PendingKey(k))
    BY <2>4, <2>5 DEF Count
  <2>7. Count(PendingKey(k))' \in {0, 1}
    BY DEF Count
  <2> QED
    BY <2>3, <2>6, <2>7, LogFacts, CountFacts DEF EffectsOfKey, EInv, IInv
<1>9. ASSUME NEW k \in AllKeys, NEW t \in Types
      PROVE  Cardinality(RowsOfKey(SwapLog(t), k))' + Count(SignalledKey(k, t))'
                 <= Cardinality(RowsOfKey(SwapLog(t), k)) + Count(SignalledKey(k, t))
  <2>1. SignalledKey(k, t)' <=> SignalledKey(k, t)
    BY <1>1, <1>2, <1>4 DEF SignalledKey
  <2>2. Count(SignalledKey(k, t))' = Count(SignalledKey(k, t))
    BY <2>1 DEF Count
  <2>3. Cardinality(RowsOfKey(SwapLog(t), k))' = Cardinality(RowsOfKey(SwapLog(t), k))
    BY <1>1 DEF RowsOfKey, SwapLog, KeyAt, RowOf
  <2>4. Cardinality(RowsOfKey(SwapLog(t), k)) \in Nat
    BY LogFacts DEF EInv, IInv
  <2> QED
    BY <2>2, <2>3, <2>4, CountFacts
<1> QED
  BY <1>1, <1>5, <1>6, <1>7, <1>8, <1>9, MovedRow DEF EInv, Lists

LEMMA EffectsPublishCleanStep ==
  ASSUME EInv, IInv', NEW i \in Offset, PublishClean(i)
  PROVE  EInv'
<1>1. /\ pc = "publishing" /\ pc' \in {"done", "publishing"} /\ i \in work.clean
      /\ work' = [work EXCEPT !.clean = @ \ {i}]
      /\ (pc' = "done" => work.clean = {i})
      /\ clean' = AddRows(clean, {i})
      /\ UNCHANGED <<raw, planned, dedup, conflictLog, swapEvent, renewals>>
  BY DEF PublishClean, history
<1>2. \A j : KeyAt(j)' = KeyAt(j)
  BY <1>1, SameTopic
<1>3. /\ work'.conflicts = work.conflicts /\ work'.signals = work.signals
      /\ work'.clean = work.clean \ {i}
  BY <1>1 DEF EInv, IInv, TypeOK
<1>4. \A j : /\ Pending(j) <=> j \in work.clean
             /\ Pending(j)' <=> j \in work.clean /\ j # i
  BY <1>1, <1>3 DEF Pending
<1>5. \A j, t : ~Signalled(j, t)' /\ ~Signalled(j, t)
  BY <1>1 DEF Signalled
<1>6. ListsWithin' /\ ListsApart'
  BY <1>1, <1>3 DEF EInv, Lists, ListsWithin, ListsApart
<1>7. PendingOnce' /\ SignalsOfClean'
  BY <1>1, <1>2, <1>4, <1>5 DEF EInv, Lists, PendingOnce, SignalsOfClean
<1>8. i \in 1..Len(raw) /\ Len(raw) \in Nat
  BY <1>1, BatchFacts DEF EInv, IInv, TypeOK, Lists, ListsWithin
<1>9. NoneBeyond'
  <2>1. \A j \in Offset : j > Len(raw) => clean'[j] = 0
    BY <1>1, <1>8 DEF AddRows, EInv, IInv, TypeOK, NoneBeyond
  <2> QED
    BY <1>1, <2>1 DEF EInv, NoneBeyond
<1>10. ASSUME NEW k \in AllKeys
       PROVE  EffectsOfKey(k)' + Count(PendingKey(k))' <= EffectsOfKey(k) + Count(PendingKey(k))
  <2> DEFINE hit == \E j \in 1..Len(raw) : j \in {i} /\ KeyAt(j) = k
  <2>1. Cardinality(RowsOfKey(clean', k)) = Cardinality(RowsOfKey(clean, k)) + Count(hit)
    <3>1. TypeOK /\ clean \in [Offset -> Nat]
      BY DEF EInv, IInv, TypeOK
    <3>2. /\ hit => Cardinality(RowsOfKey(AddRows(clean, {i}), k)) = Cardinality(RowsOfKey(clean, k)) + 1
          /\ ~hit => Cardinality(RowsOfKey(AddRows(clean, {i}), k)) = Cardinality(RowsOfKey(clean, k))
      BY <3>1, AddedRows
    <3>3. Cardinality(RowsOfKey(clean, k)) \in Nat
      BY LogFacts DEF EInv, IInv
    <3> HIDE DEF hit
    <3> QED
      BY <1>1, <3>2, <3>3 DEF Count
  <2>2. EffectsOfKey(k)' = EffectsOfKey(k) + Count(hit)
    <3>1. EffectsOfKey(k)' =
              Cardinality(RowsOfKey(clean', k)) + Cardinality(RowsOfKey(conflictLog', k))
      BY <1>1, SameTopic
    <3>2. Cardinality(RowsOfKey(clean, k)) \in Nat /\ Cardinality(RowsOfKey(conflictLog, k)) \in Nat
      BY LogFacts DEF EInv, IInv
    <3>3. Count(hit) \in Nat
      BY DEF Count
    <3> HIDE DEF hit
    <3> QED
      BY <1>1, <2>1, <3>1, <3>2, <3>3 DEF EffectsOfKey
  <2>3. ~(hit /\ PendingKey(k)')
    BY <1>1, <1>2, <1>4, <1>8 DEF PendingKey, EInv, Lists, PendingOnce
  <2>4. hit \/ PendingKey(k)' => PendingKey(k)
    BY <1>1, <1>2, <1>4 DEF PendingKey
  <2> HIDE DEF hit
  <2>5. Count(hit) + Count(PendingKey(k))' <= Count(PendingKey(k))
    BY <2>3, <2>4 DEF Count
  <2>6. Count(PendingKey(k))' \in {0, 1}
    BY DEF Count
  <2> QED
    BY <2>2, <2>5, <2>6, LogFacts, CountFacts DEF EffectsOfKey, EInv, IInv
<1>11. ASSUME NEW k \in AllKeys, NEW t \in Types
       PROVE  Cardinality(RowsOfKey(SwapLog(t), k))' + Count(SignalledKey(k, t))'
                  <= Cardinality(RowsOfKey(SwapLog(t), k)) + Count(SignalledKey(k, t))
  <2>1. Count(SignalledKey(k, t))' = 0 /\ Count(SignalledKey(k, t)) = 0
    BY <1>5 DEF Count, SignalledKey
  <2>2. Cardinality(RowsOfKey(SwapLog(t), k))' = Cardinality(RowsOfKey(SwapLog(t), k))
    BY <1>1 DEF RowsOfKey, SwapLog, KeyAt, RowOf
  <2>3. Cardinality(RowsOfKey(SwapLog(t), k)) \in Nat
    BY LogFacts DEF EInv, IInv
  <2> QED
    BY <2>1, <2>2, <2>3
<1> QED
  BY <1>1, <1>6, <1>7, <1>9, <1>10, <1>11, MovedRow DEF EInv, Lists

\* At most one swap event of each type for a signal.
LEMMA EffectsRecordStep ==
  ASSUME EInv, IInv', NEW S \in SUBSET work.signals, Record(S)
  PROVE  EInv'
<1> DEFINE rows == {s \in S : <<raw[s[1]], s[2]>> \in Confirmed}
<1>1. /\ pc = "conflictsLogged" /\ pc' \in {"publishing", "done"}
      /\ swapEvent' = AddRows(swapEvent, rows)
      /\ UNCHANGED <<raw, planned, work, dedup, conflictLog, clean, renewals>>
  BY DEF Record, AfterSwaps, history
<1>2. rows \subseteq work.signals
  OBVIOUS
<1> HIDE DEF rows
<1>3. \A i : KeyAt(i)' = KeyAt(i)
  BY <1>1, SameTopic
<1>4. /\ \A j : (Pending(j) <=> j \in work.clean) /\ (Pending(j)' => j \in work.clean)
      /\ \A j, t : (Signalled(j, t) <=> <<j, t>> \in work.signals) /\ ~Signalled(j, t)'
  BY <1>1 DEF Pending, Signalled
<1>5. ListsWithin' /\ ListsApart'
  BY <1>1 DEF EInv, Lists, ListsWithin, ListsApart
<1>6. PendingOnce' /\ SignalsOfClean'
  BY <1>1, <1>3, <1>4 DEF EInv, Lists, PendingOnce, SignalsOfClean
<1>7. rows \subseteq (1..Len(raw)) \X Types /\ 1..Len(raw) \subseteq Offset /\ Len(raw) \in Nat
  BY <1>2, BatchFacts DEF EInv, IInv, TypeOK, Lists, ListsWithin
<1>8. NoneBeyond'
  <2>1. \A i \in Offset, t \in Types : i > Len(raw) => swapEvent'[<<i, t>>] = swapEvent[<<i, t>>]
    <3> SUFFICES ASSUME NEW i \in Offset, NEW t \in Types, i > Len(raw)
                 PROVE  swapEvent'[<<i, t>>] = swapEvent[<<i, t>>]
      OBVIOUS
    <3>1. <<i, t>> \notin rows
      BY <1>7
    <3>2. <<i, t>> \in Signal /\ swapEvent \in [Signal -> Nat]
      BY DEF Signal, Types, EInv, IInv, TypeOK
    <3> QED
      BY <1>1, <3>1, <3>2 DEF AddRows
  <2> QED
    BY <1>1, <2>1 DEF EInv, NoneBeyond
<1>9. ASSUME NEW k \in AllKeys
      PROVE  EffectsOfKey(k)' + Count(PendingKey(k))' <= EffectsOfKey(k) + Count(PendingKey(k))
  <2>1. PendingKey(k)' => PendingKey(k)
    BY <1>1, <1>3, <1>4 DEF PendingKey
  <2>2. Count(PendingKey(k))' <= Count(PendingKey(k)) /\ Count(PendingKey(k))' \in {0, 1}
    BY <2>1 DEF Count
  <2>3. EffectsOfKey(k)' = EffectsOfKey(k)
    BY <1>1, SameTopic DEF EffectsOfKey
  <2>4. EffectsOfKey(k) \in Nat
    BY LogFacts DEF EffectsOfKey, EInv, IInv
  <2> QED
    BY <2>2, <2>3, <2>4, CountFacts
<1>10. ASSUME NEW k \in AllKeys, NEW t \in Types
       PROVE  Cardinality(RowsOfKey(SwapLog(t), k))' + Count(SignalledKey(k, t))'
                  <= Cardinality(RowsOfKey(SwapLog(t), k)) + Count(SignalledKey(k, t))
  <2> DEFINE mine == {i \in Offset : <<i, t>> \in rows}
             hit == \E i \in 1..Len(raw) : i \in mine /\ KeyAt(i) = k
  <2>1. [i \in Offset |-> swapEvent'[<<i, t>>]] = AddRows(SwapLog(t), mine)
    <3>1. \A i \in Offset : <<i, t>> \in Signal
      BY DEF Signal, Types
    <3>2. swapEvent \in [Signal -> Nat]
      BY DEF EInv, IInv, TypeOK
    <3> QED
      BY <1>1, <3>1, <3>2 DEF AddRows, SwapLog
  <2>2. \A i \in mine : i \in 1..Len(raw) /\ Signalled(i, t) /\ Pending(i)
    BY <1>2, <1>4, <1>7 DEF EInv, Lists, SignalsOfClean
  <2>3. \A i, j \in 1..Len(raw) : i \in mine /\ j \in mine /\ KeyAt(i) = k /\ KeyAt(j) = k => i = j
    BY <2>2 DEF EInv, Lists, PendingOnce
  <2>4. hit => SignalledKey(k, t)
    BY <2>2 DEF SignalledKey
  <2>5. TypeOK /\ SwapLog(t) \in [Offset -> Nat] /\ Cardinality(RowsOfKey(SwapLog(t), k)) \in Nat
    BY LogFacts DEF EInv, IInv
  <2> HIDE DEF mine
  <2>6. /\ hit => Cardinality(RowsOfKey(AddRows(SwapLog(t), mine), k)) =
                      Cardinality(RowsOfKey(SwapLog(t), k)) + 1
        /\ ~hit => Cardinality(RowsOfKey(AddRows(SwapLog(t), mine), k)) =
                      Cardinality(RowsOfKey(SwapLog(t), k))
    BY <2>3, <2>5, AddedRows
  <2>7. Cardinality(RowsOfKey(SwapLog(t), k))' = Cardinality(RowsOfKey(AddRows(SwapLog(t), mine), k))
    BY <1>1, <2>1, SameTopic
  <2>8. Count(SignalledKey(k, t))' = 0
    BY <1>4 DEF SignalledKey, Count
  <2>9. hit => Count(SignalledKey(k, t)) = 1
    BY <2>4 DEF Count
  <2>10. Count(SignalledKey(k, t)) \in {0, 1}
    BY DEF Count
  <2> HIDE DEF hit
  <2> QED
    BY <2>5, <2>6, <2>7, <2>8, <2>9, <2>10
<1> QED
  BY <1>1, <1>5, <1>6, <1>8, <1>9, <1>10, MovedRow DEF EInv, Lists

\* A key that the deduplication lets pass was not held: its effect is one more,
\* and DEDUP_STATE holds it now.
LEMMA EffectsResolveStep ==
  ASSUME EInv, IInv', Resolve
  PROVE  EInv'
<1>1. PICK S \in Kept :
          /\ S \subseteq work.onTime /\ S \subseteq 1..planned
          /\ dedup' = dedup \cup {KeyAt(i) : i \in S}
          /\ work'.invalid = work.invalid /\ work'.onTime = work.onTime
          /\ work'.conflicts \cup work'.clean = S
          /\ work'.conflicts \cap work'.clean = {}
          /\ work'.signals \subseteq work'.clean \X {"SIM_SWAP", "DEVICE_SWAP"}
          /\ pc' = IF S = {} THEN "done" ELSE "resolved"
  BY ResolveFacts DEF EInv
<1>2. /\ pc = "logged"
      /\ UNCHANGED <<raw, planned, conflictLog, swapEvent, clean, renewals>>
  BY DEF Resolve, tables, history
<1>3. /\ \A i \in S : KeyAt(i) \notin dedup
      /\ \A i, j \in S : KeyAt(i) = KeyAt(j) => i = j
  BY DEF Kept
<1>4. \A i : KeyAt(i)' = KeyAt(i)
  BY <1>2, SameTopic
<1>5. /\ \A j : ~Pending(j) /\ (Pending(j)' => j \in S)
      /\ \A j, t : ~Signalled(j, t) /\ (Signalled(j, t)' => j \in work'.clean)
  BY <1>1, <1>2 DEF Pending, Signalled
<1>6. ListsWithin' /\ ListsApart'
  BY <1>1, <1>2 DEF ListsWithin, ListsApart, Types
<1>7. PendingOnce' /\ SignalsOfClean'
  BY <1>2, <1>3, <1>4, <1>5 DEF PendingOnce, SignalsOfClean
<1>8. NoneBeyond'
  BY <1>2 DEF EInv, NoneBeyond
<1>9. EffectsCounted'
  <2> SUFFICES ASSUME NEW k \in AllKeys
               PROVE  /\ EffectsOfKey(k)' + Count(PendingKey(k))' <= Allowed(k)'
                      /\ \A t \in Types :
                            Cardinality(RowsOfKey(SwapLog(t), k))' + Count(SignalledKey(k, t))'
                                <= Allowed(k)'
    BY DEF EffectsCounted
  <2> DEFINE new == k \in {KeyAt(i) : i \in S}
  <2>1. /\ PendingKey(k)' => new
        /\ \A t \in Types : SignalledKey(k, t)' => new
    BY <1>1, <1>2, <1>4, <1>5 DEF PendingKey, SignalledKey
  <2>2. new => k \notin dedup /\ k \in dedup'
    BY <1>1, <1>3
  <2>3. k \in dedup => k \in dedup'
    BY <1>1
  <2> HIDE DEF new
  <2>4. renewals[k] \in Nat
    BY LogFacts DEF EInv, IInv
  <2>5. /\ Count(PendingKey(k))' \in {0, 1} /\ (~new => Count(PendingKey(k))' = 0)
        /\ \A t \in Types : /\ Count(SignalledKey(k, t))' \in {0, 1}
                            /\ ~new => Count(SignalledKey(k, t))' = 0
    BY <2>1 DEF Count
  <2>6. Count(PendingKey(k)) = 0 /\ \A t \in Types : Count(SignalledKey(k, t)) = 0
    BY <1>5 DEF Count, PendingKey, SignalledKey
  <2>7. /\ Allowed(k) = renewals[k] + Count(k \in dedup)
        /\ Allowed(k)' = renewals[k] + Count(k \in dedup')
    BY <1>2 DEF Allowed, Count
  <2>8. /\ new => Allowed(k)' = Allowed(k) + 1 /\ Allowed(k) \in Nat
        /\ Allowed(k) <= Allowed(k)' /\ Allowed(k) \in Nat /\ Allowed(k)' \in Nat
    BY <2>2, <2>3, <2>4, <2>7 DEF Count
  <2>9. /\ EffectsOfKey(k)' = EffectsOfKey(k) /\ EffectsOfKey(k) \in Nat
        /\ EffectsOfKey(k) <= Allowed(k)
    <3>1. EffectsOfKey(k)' = EffectsOfKey(k)
      BY <1>2, SameTopic DEF EffectsOfKey
    <3>2. EffectsOfKey(k) \in Nat
      BY LogFacts DEF EffectsOfKey, EInv, IInv
    <3>3. EffectsOfKey(k) + Count(PendingKey(k)) <= Allowed(k)
      BY DEF EInv, EffectsCounted
    <3> QED
      BY <2>6, <3>1, <3>2, <3>3
  <2>10. ASSUME NEW t \in Types
         PROVE  /\ Cardinality(RowsOfKey(SwapLog(t), k))' = Cardinality(RowsOfKey(SwapLog(t), k))
                /\ Cardinality(RowsOfKey(SwapLog(t), k)) \in Nat
                /\ Cardinality(RowsOfKey(SwapLog(t), k)) <= Allowed(k)
    <3>1. Cardinality(RowsOfKey(SwapLog(t), k))' = Cardinality(RowsOfKey(SwapLog(t), k))
      BY <1>2 DEF RowsOfKey, SwapLog, KeyAt, RowOf
    <3>2. Cardinality(RowsOfKey(SwapLog(t), k)) \in Nat
      BY LogFacts DEF EInv, IInv
    <3>3. Cardinality(RowsOfKey(SwapLog(t), k)) + Count(SignalledKey(k, t)) <= Allowed(k)
      BY DEF EInv, EffectsCounted
    <3> QED
      BY <2>6, <3>1, <3>2, <3>3
  <2>11. EffectsOfKey(k)' + Count(PendingKey(k))' <= Allowed(k)'
    BY <2>5, <2>8, <2>9
  <2>12. ASSUME NEW t \in Types
         PROVE  Cardinality(RowsOfKey(SwapLog(t), k))' + Count(SignalledKey(k, t))' <= Allowed(k)'
    BY <2>5, <2>8, <2>10
  <2> QED
    BY <2>11, <2>12
<1> QED
  BY <1>6, <1>7, <1>8, <1>9 DEF EInv, Lists

LEMMA EffectsInitially == Init => EInv
<1> SUFFICES ASSUME Init PROVE EInv
  OBVIOUS
<1>1. IInv
  BY Initially
<1>2. raw = <<>> /\ pc = "idle" /\ planned = 0 /\ work = NoWork
  BY DEF Init
<1>3. Lists
  BY <1>2 DEF Lists, ListsWithin, ListsApart, PendingOnce, SignalsOfClean, Pending, Signalled, NoWork
<1>4. NoneBeyond
  BY DEF Init, NoneBeyond, None, Signal, Types
<1>5. \A log, k : Cardinality(RowsOfKey(log, k)) = 0
  <2>1. \A log, k : RowsOfKey(log, k) = {}
    BY <1>2 DEF RowsOfKey
  <2> QED
    BY <2>1, FS_EmptySet
<1>6. \A k : Count(PendingKey(k)) = 0 /\ \A t : Count(SignalledKey(k, t)) = 0
  BY <1>2 DEF PendingKey, SignalledKey, Count
<1>7. \A k \in AllKeys : Allowed(k) \in Nat
  BY <1>1, LogFacts DEF IInv
<1>8. EffectsCounted
  BY <1>5, <1>6, <1>7 DEF EffectsCounted, EffectsOfKey
<1> QED
  BY <1>1, <1>3, <1>4, <1>8 DEF EInv

LEMMA EffectsInductive == EInv /\ [Next]_vars => EInv'
<1> SUFFICES ASSUME EInv, [Next]_vars PROVE EInv'
  OBVIOUS
<1>0. IInv'
  BY Inductive DEF EInv
<1>1. CASE \E r \in Rec : Publish(r)
  BY <1>0, <1>1, EffectsPublishStep
<1>2. CASE Plan \/ Restart \/ CommitBatch \/ LogInvalid \/ LogInvalidFails \/ LogConflictsFails
  BY <1>0, <1>2, QuietSteps
<1>3. CASE Validate \/ ValidationFails
  BY <1>0, <1>3, QuietSteps DEF Validate, ValidationFails
<1>4. CASE Crash \/ ResolveRaises \/ \E k \in AllKeys : Expire(k)
  BY <1>0, <1>4, ForgetSteps
<1>5. CASE Resolve
  BY <1>0, <1>5, EffectsResolveStep
<1>6. CASE LogConflicts
  BY <1>0, <1>6, EffectsLogConflictsStep
<1>7. CASE RecordSwaps \/ RecordSwapsFails
  BY <1>0, <1>7, EffectsRecordStep DEF RecordSwaps, RecordSwapsFails
<1>8. CASE \E i \in Offset : PublishClean(i)
  BY <1>0, <1>8, EffectsPublishCleanStep
<1>9. CASE UNCHANGED vars
  <2>1. UNCHANGED <<raw, planned, pc, work, dedup, conflictLog, swapEvent, clean, renewals>>
    BY <1>9 DEF vars
  <2>2. planned <= planned' /\ \A k \in AllKeys : Allowed(k) <= Allowed(k)'
    BY <2>1, LogFacts DEF EInv, IInv, TypeOK, Allowed
  <2>3. \A j : Pending(j)' => Pending(j)
    BY <2>1 DEF Pending
  <2>4. \A j, t : Signalled(j, t)' => Signalled(j, t) /\ work'.clean = work.clean
    BY <2>1 DEF Signalled
  <2> QED
    BY <1>0, <2>1, <2>2, <2>3, <2>4, FewerPending
<1> QED
  BY <1>1, <1>2, <1>3, <1>4, <1>5, <1>6, <1>7, <1>8, <1>9 DEF Next, S2Step, Advance

\* Each time the key of a message is new to DEDUP_STATE it has one effect: a
\* row of conflict_log, or a message on radius.clean with at most one
\* swap_event of each type, whichever writes a crash separates and however
\* often a batch is replayed.
THEOREM EffectsOncePerRenewal == Spec => []EffectsBounded
<1>1. EInv => EffectsBounded
  <2> SUFFICES ASSUME EInv, NEW i \in 1..Len(raw)
               PROVE  /\ EffectsOfKey(KeyAt(i)) <= 1 + renewals[KeyAt(i)]
                      /\ \A t \in Types :
                            Cardinality(RowsOfKey(SwapLog(t), KeyAt(i))) <= 1 + renewals[KeyAt(i)]
    BY DEF EffectsBounded, Types
  <2> DEFINE k == KeyAt(i)
  <2>1. k \in AllKeys
    BY BatchFacts DEF EInv, IInv
  <2> HIDE DEF k
  <2>2. Allowed(k) <= 1 + renewals[k] /\ Allowed(k) \in Nat /\ renewals[k] \in Nat
    <3>1. renewals[k] \in Nat /\ Allowed(k) \in Nat
      BY <2>1, LogFacts DEF EInv, IInv
    <3>2. Count(k \in dedup) \in {0, 1}
      BY DEF Count
    <3> QED
      BY <3>1, <3>2 DEF Allowed
  <2>3. EffectsOfKey(k) \in Nat /\ EffectsOfKey(k) <= Allowed(k)
    <3>1. EffectsOfKey(k) \in Nat
      BY LogFacts DEF EffectsOfKey, EInv, IInv
    <3>2. Count(PendingKey(k)) \in {0, 1}
      BY DEF Count
    <3> QED
      BY <2>1, <2>2, <3>1, <3>2 DEF EInv, EffectsCounted
  <2>4. ASSUME NEW t \in Types
        PROVE  /\ Cardinality(RowsOfKey(SwapLog(t), k)) \in Nat
               /\ Cardinality(RowsOfKey(SwapLog(t), k)) <= Allowed(k)
    <3>1. Cardinality(RowsOfKey(SwapLog(t), k)) \in Nat
      BY LogFacts DEF EInv, IInv
    <3>2. Count(SignalledKey(k, t)) \in {0, 1}
      BY DEF Count
    <3> QED
      BY <2>1, <2>2, <3>1, <3>2 DEF EInv, EffectsCounted
  <2> QED
    BY <2>2, <2>3, <2>4 DEF k
<1> QED
  BY <1>1, EffectsInitially, EffectsInductive, PTL DEF Spec

-----------------------------------------------------------------------------
\* Progress. The safety half of BacklogDrains: only a batch with two records of
\* one subscriber can stop the query, and each step that it takes brings it
\* nearer to the end of the topic.

\* _dedup_filter always ends with a selection: one row of each new key.
LEMMA SelectionExists == Kept # {}
<1> DEFINE pick(k) == CHOOSE j \in work.onTime : KeyAt(j) = k
           S == {i \in work.onTime : KeyAt(i) \notin dedup /\ pick(KeyAt(i)) = i}
<1>1. \A i \in work.onTime : pick(KeyAt(i)) \in work.onTime /\ KeyAt(pick(KeyAt(i))) = KeyAt(i)
  OBVIOUS
<1>2. \A i, j \in S : KeyAt(i) = KeyAt(j) => i = j
  OBVIOUS
<1>3. ASSUME NEW i \in work.onTime, KeyAt(i) \notin dedup
      PROVE  \E j \in S : KeyAt(j) = KeyAt(i)
  <2>1. pick(KeyAt(i)) \in S /\ KeyAt(pick(KeyAt(i))) = KeyAt(i)
    BY <1>1, <1>3
  <2> QED
    BY <2>1
<1>4. S \in Kept
  BY <1>2, <1>3 DEF Kept
<1> QED
  BY <1>4

\* The messages of S that sort_values may put before message i.
Earlier(S, i) == {j \in S : \/ Time[raw[j]] < Time[raw[i]]
                            \/ Time[raw[j]] = Time[raw[i]] /\ j < i}

\* Of two messages one is earlier.
LEMMA OneEarlier ==
  ASSUME NEW S, S \subseteq Nat, \A i \in S : Time[raw[i]] \in Nat,
         NEW i \in S, NEW j \in S, i # j
  PROVE  i \in Earlier(S, j) \/ j \in Earlier(S, i)
<1>1. PICK a \in Nat, b \in Nat : a = Time[raw[i]] /\ b = Time[raw[j]]
  OBVIOUS
<1>2. i \in Int /\ j \in Int
  OBVIOUS
<1>3. \/ a < b \/ (a = b /\ i < j)
      \/ b < a \/ (b = a /\ j < i)
  BY <1>1, <1>2
<1> QED
  BY <1>1, <1>3 DEF Earlier

\* A place for each message: one more than there are messages before it.
LEMMA PlacesFacts ==
  ASSUME NEW S, IsFiniteSet(S), S \subseteq Nat, \A i \in S : Time[raw[i]] \in Nat
  PROVE  /\ \A n \in 1..Cardinality(S) : \E i \in S : Cardinality(Earlier(S, i)) + 1 = n
         /\ \A i \in S : Cardinality(Earlier(S, i)) + 1 \in 1..Cardinality(S)
         /\ \A i, j \in S : i \in Earlier(S, j) =>
               Cardinality(Earlier(S, i)) + 1 < Cardinality(Earlier(S, j)) + 1
<1> DEFINE place == [i \in S |-> Cardinality(Earlier(S, i)) + 1]
           N == 1..Cardinality(S)
<1>1. Cardinality(S) \in Nat
  BY FS_CardinalityType
<1>2. ASSUME NEW i \in S
      PROVE  /\ IsFiniteSet(Earlier(S, i)) /\ Cardinality(Earlier(S, i)) \in Nat
             /\ Cardinality(Earlier(S, i)) < Cardinality(S)
  <2>1. IsFiniteSet(S \ {i}) /\ Cardinality(S \ {i}) = Cardinality(S) - 1
    BY FS_RemoveElement
  <2>2. Earlier(S, i) \in SUBSET (S \ {i})
    BY DEF Earlier
  <2>3. IsFiniteSet(Earlier(S, i)) /\ Cardinality(Earlier(S, i)) <= Cardinality(S \ {i})
    BY <2>1, <2>2, FS_Subset
  <2>4. Cardinality(Earlier(S, i)) \in Nat
    BY <2>3, FS_CardinalityType
  <2> QED
    BY <1>1, <2>1, <2>3, <2>4
<1>3. ASSUME NEW i \in S, NEW j \in S, i \in Earlier(S, j)
      PROVE  Cardinality(Earlier(S, i)) < Cardinality(Earlier(S, j))
  <2>1. /\ IsFiniteSet(Earlier(S, j) \ {i})
        /\ Cardinality(Earlier(S, j) \ {i}) = Cardinality(Earlier(S, j)) - 1
    BY <1>2, <1>3, FS_RemoveElement
  <2>2. ASSUME NEW k \in Earlier(S, i) PROVE k \in Earlier(S, j) \ {i}
    <3>1. PICK a \in Nat, b \in Nat, c \in Nat :
             a = Time[raw[k]] /\ b = Time[raw[i]] /\ c = Time[raw[j]]
      BY DEF Earlier
    <3>2. k \in S /\ k \in Int /\ i \in Int /\ j \in Int /\ (a < b \/ (a = b /\ k < i))
      BY <3>1 DEF Earlier
    <3>3. b < c \/ (b = c /\ i < j)
      BY <1>3, <3>1 DEF Earlier
    <3>4. k # i /\ (a < c \/ (a = c /\ k < j))
      BY <3>1, <3>2, <3>3
    <3> QED
      BY <3>1, <3>2, <3>4 DEF Earlier
  <2>3. Cardinality(Earlier(S, i)) <= Cardinality(Earlier(S, j) \ {i})
    BY <2>1, <2>2, FS_Subset
  <2> QED
    BY <1>2, <2>1, <2>3
<1>4. place \in [S -> N]
  BY <1>1, <1>2
<1>5. ASSUME NEW i \in S, NEW j \in S, place[i] = place[j] PROVE i = j
  <2>1. Cardinality(Earlier(S, i)) = Cardinality(Earlier(S, j))
    BY <1>2, <1>5
  <2>2. i \notin Earlier(S, j) /\ j \notin Earlier(S, i)
    BY <1>2, <1>3, <2>1
  <2> QED
    BY <2>2, OneEarlier
<1>6. IsFiniteSet(N) /\ Cardinality(N) = Cardinality(S)
  BY <1>1, FS_Interval
<1> HIDE DEF N
<1>7. place \in Injection(S, N)
  BY <1>4, <1>5 DEF Injection, IsInjective
<1>8. place \in Surjection(S, N)
  BY <1>6, <1>7, FS_Injection
<1>9. \A n \in N : \E i \in S : place[i] = n
  BY <1>8 DEF Surjection
<1>10. \A i \in S : Cardinality(Earlier(S, i)) + 1 \in N
  BY <1>4
<1>11. \A i, j \in S : i \in Earlier(S, j) =>
          Cardinality(Earlier(S, i)) + 1 < Cardinality(Earlier(S, j)) + 1
  BY <1>2, <1>3
<1> QED
  BY <1>9, <1>10, <1>11 DEF N

\* sort_values always has an order to return.
LEMMA OrderExists ==
  ASSUME TypeOK, NEW S \in SUBSET (1..Len(raw))
  PROVE  Sorted(S) # {}
<1> DEFINE place(i) == Cardinality(Earlier(S, i)) + 1
           at(n) == CHOOSE i \in S : place(i) = n
           df == [n \in 1..Cardinality(S) |-> at(n)]
<1>1. Len(raw) \in Nat /\ \A i \in 1..Len(raw) : raw[i] \in Rec
  BY DEF TypeOK
<1>2. IsFiniteSet(S)
  <2>1. IsFiniteSet(1..Len(raw))
    BY <1>1, FS_Interval
  <2> QED
    BY <2>1, FS_Subset
<1>3. S \subseteq Nat /\ \A i \in S : Time[raw[i]] \in Nat
  BY <1>1, RecAssumption
<1>4. /\ \A n \in 1..Cardinality(S) : \E i \in S : place(i) = n
      /\ \A i \in S : place(i) \in 1..Cardinality(S)
      /\ \A i, j \in S : i \in Earlier(S, j) => place(i) < place(j)
  BY <1>2, <1>3, PlacesFacts
<1>5. Cardinality(S) \in Nat
  BY <1>2, FS_CardinalityType
<1>6. \A i, j \in S : place(i) = place(j) => i = j
  <2> SUFFICES ASSUME NEW i \in S, NEW j \in S, place(i) = place(j) PROVE i = j
    OBVIOUS
  <2>1. place(i) \in Nat /\ place(j) \in Nat
    BY <1>4, <1>5
  <2> HIDE DEF place
  <2>2. i \notin Earlier(S, j) /\ j \notin Earlier(S, i)
    BY <1>4, <2>1
  <2> QED
    BY <1>3, <2>2, OneEarlier
<1> HIDE DEF place
<1>7. \A n \in 1..Cardinality(S) : at(n) \in S /\ place(at(n)) = n
  BY <1>4
<1>8. \A i \in S : at(place(i)) = i
  BY <1>4, <1>6, <1>7
<1> HIDE DEF at
<1>9. df \in [1..Cardinality(S) -> S]
  BY <1>7
<1>10. \A i \in S : \E n \in DOMAIN df : df[n] = i
  BY <1>4, <1>8
<1>11. ASSUME NEW n \in 1..Cardinality(S), NEW m \in 1..Cardinality(S), n < m
       PROVE  Time[raw[df[n]]] <= Time[raw[df[m]]]
  <2>1. PICK i \in S, j \in S : i = df[n] /\ j = df[m] /\ place(i) = n /\ place(j) = m
    BY <1>7
  <2>2. n \in Int /\ m \in Int /\ ~(m < n)
    BY <1>5, <1>11
  <2>3. j \notin Earlier(S, i)
    BY <1>4, <2>1, <2>2
  <2>4. ~(Time[raw[j]] < Time[raw[i]])
    BY <2>3 DEF Earlier
  <2>5. Time[raw[i]] \in Nat /\ Time[raw[j]] \in Nat
    BY <1>3
  <2> QED
    BY <2>1, <2>4, <2>5
<1>12. df \in Sorted(S)
  BY <1>9, <1>10, <1>11 DEF Sorted
<1> QED
  BY <1>12

\* A batch that has begun is not empty, what is to be published is part of it,
\* the Kafka sink has rows to write, and what the deduplication looks at has
\* passed the rules.
BatchUnderway == pc \notin {"idle", "raised", "down"} => committed < planned
CleanOfBatch == work.clean \subseteq Batch
SinkHasRows == pc = "publishing" => work.clean # {}
OnTimePassed ==
    pc \in Callback => \A i \in work.onTime : raw[i] \notin Invalid /\ ~IsLate(raw[i])
RaisedOnTwo == pc = "raised" => HoldsTwoOfOne
MInv == IInv /\ BatchUnderway /\ CleanOfBatch /\ SinkHasRows /\ OnTimePassed /\ RaisedOnTwo

\* Where the query can go on: it has messages to plan, the callback is at a step
\* that is not choosy, or there is an order to resolve, or a row to publish.
GoesOn ==
    \/ pc = "idle" /\ committed < Len(raw)
    \/ pc \in {"planned", "collected", "resolved", "conflictsLogged", "done"}
    \/ pc = "logged" /\ \E S \in Kept : \E df \in Sorted(S) : ~OneSubscriber(RowsOf(df))
    \/ pc = "publishing" /\ work.clean # {}
QueryGoesOn ==
    \/ GoesOn
    \/ pc = "down"
    \/ pc \in {"logged", "raised"} /\ HoldsTwoOfOne
    \/ pc = "idle" /\ committed = Len(raw)

\* An upper bound of the steps that the query has still to take: eight for each
\* message that is not committed, less what is done of the current batch.
OfBatch ==
    CASE pc = "planned" -> 6 + (planned - committed)
      [] pc = "collected" -> 5 + (planned - committed)
      [] pc = "logged" -> 4 + (planned - committed)
      [] pc = "resolved" -> 3 + Cardinality(work.clean)
      [] pc = "conflictsLogged" -> 2 + Cardinality(work.clean)
      [] pc = "publishing" -> 1 + Cardinality(work.clean)
      [] pc = "done" -> 1
StepsLeft ==
    IF pc \in {"idle", "raised", "down"} THEN 8 * (Len(raw) - committed)
    ELSE 8 * (Len(raw) - planned) + OfBatch

CallbackFails == ValidationFails \/ LogInvalidFails \/ LogConflictsFails \/ RecordSwapsFails
StepsBounded == StepsLeft \in Nat /\ StepsLeft <= 8 * (Len(raw) - committed)
StepsFall ==
    /\ Advance \/ CallbackFails => StepsLeft' < StepsLeft
    /\ (\E r \in Rec : Publish(r)) => StepsLeft' = StepsLeft + 8
    /\ Restart \/ (\E k \in AllKeys : Expire(k)) => StepsLeft' <= StepsLeft

LEMMA PartOfBatch ==
  ASSUME NEW c \in Nat, NEW p \in Nat, c <= p, NEW C \in SUBSET ((c + 1)..p)
  PROVE  IsFiniteSet(C) /\ Cardinality(C) \in Nat /\ Cardinality(C) <= p - c
<1>1. c + 1 \in Int /\ p \in Int
  OBVIOUS
<1>2. IsFiniteSet((c + 1)..p) /\ Cardinality((c + 1)..p) = IF c + 1 > p THEN 0 ELSE p - (c + 1) + 1
  BY <1>1, FS_Interval
<1>3. Cardinality((c + 1)..p) = p - c
  BY <1>2
<1>4. IsFiniteSet(C) /\ Cardinality(C) <= Cardinality((c + 1)..p)
  BY <1>2, FS_Subset
<1> QED
  BY <1>3, <1>4, FS_CardinalityType

\* The rows on which the callback raises are two records of one subscriber that
\* it kept together.
LEMMA RaisesOnTwo ==
  ASSUME MInv, pc = "logged",
         NEW S \in Kept, NEW df \in Sorted(S), OneSubscriber(RowsOf(df))
  PROVE  HoldsTwoOfOne
<1>1. TypeOK /\ IInv
  BY DEF MInv, IInv
<1>2. S \subseteq work.onTime /\ work.onTime \subseteq Batch /\ Batch \subseteq Offset
  <2>1. Batch \subseteq Offset /\ S \subseteq work.onTime
    BY <1>1, BatchFacts DEF Kept
  <2>2. work.onTime \subseteq Batch
    BY <1>1 DEF IInv, WorkIsBatch, Callback
  <2> QED
    BY <2>1, <2>2
<1> DEFINE rows == [n \in DOMAIN df |-> RowOf(df[n])]
<1>3. S \in SUBSET Offset /\ rows = RowsOf(df)
  BY <1>2 DEF RowsOf
<1>4. /\ \A n \in DOMAIN df : df[n] \in S
      /\ \A n, m \in DOMAIN df : df[n] = df[m] => n = m
      /\ Rows(rows) = DOMAIN df
  BY <1>1, <1>3, SortedFacts
<1>5. Len(rows) \in Nat
  <2>1. IsFiniteSet(S)
    <3>1. IsFiniteSet(Offset)
      BY FS_Interval, BoundAssumption DEF Offset
    <3> QED
      BY <1>3, <3>1, FS_Subset
  <2>2. Cardinality(S) \in Nat /\ DOMAIN df = 1..Cardinality(S)
    BY <2>1, FS_CardinalityType DEF Sorted
  <2>3. rows \in [1..Cardinality(S) -> {RowOf(i) : i \in S}]
    BY <1>4, <2>2
  <2>4. rows \in Seq({RowOf(i) : i \in S})
    BY <2>2, <2>3
  <2> QED
    BY <2>4
<1>6. /\ Len(rows) >= 2
      /\ \A n, m \in Rows(rows) : rows[n].imsi = rows[m].imsi
  BY <1>3 DEF OneSubscriber
<1>7. 1 \in DOMAIN df /\ 2 \in DOMAIN df
  BY <1>4, <1>5, <1>6 DEF Rows
<1>8. PICK i \in S, j \in S : i = df[1] /\ j = df[2] /\ i # j /\ RowOf(i).imsi = RowOf(j).imsi
  BY <1>4, <1>6, <1>7
<1>9. KeyAt(i) # KeyAt(j)
  BY <1>8 DEF Kept
<1>10. \A k \in {i, j} : raw[k] \notin Invalid /\ ~IsLate(raw[k])
  BY <1>2 DEF MInv, OnTimePassed, Callback
<1> QED
  BY <1>2, <1>8, <1>9, <1>10 DEF HoldsTwoOfOne

\* A batch stays as it is while it is not committed.
LEMMA HoldsTwoKept ==
  ASSUME HoldsTwoOfOne, UNCHANGED <<planned, committed>>, \A i \in Batch : raw'[i] = raw[i]
  PROVE  HoldsTwoOfOne'
<1>1. PICK i \in Batch, j \in Batch :
         /\ KeyAt(i) # KeyAt(j) /\ RowOf(i).imsi = RowOf(j).imsi
         /\ \A k \in {i, j} : raw[k] \notin Invalid /\ ~IsLate(raw[k])
  BY DEF HoldsTwoOfOne
<1>2. i \in Batch' /\ j \in Batch' /\ raw'[i] = raw[i] /\ raw'[j] = raw[j]
  BY DEF Batch
<1>3. KeyAt(i)' = KeyAt(i) /\ KeyAt(j)' = KeyAt(j) /\ RowOf(i)' = RowOf(i) /\ RowOf(j)' = RowOf(j)
  BY <1>2 DEF KeyAt, RowOf
<1>4. \A k \in {i, j} : raw'[k] \notin Invalid /\ ~IsLate(raw'[k])
  BY <1>1, <1>2
<1>5. \A k \in {i, j} : IsLate(raw[k])' <=> IsLate(raw'[k])
  BY DEF IsLate
<1> QED
  BY <1>1, <1>2, <1>3, <1>4, <1>5 DEF HoldsTwoOfOne

LEMMA MovesInit == Init => MInv
BY Initially DEF Init, MInv, BatchUnderway, CleanOfBatch, SinkHasRows, OnTimePassed, RaisedOnTwo,
   Callback, NoWork

LEMMA BasicMoves ==
  ASSUME MInv, [Next]_vars
  PROVE  BatchUnderway' /\ CleanOfBatch' /\ SinkHasRows'
<1>0. IInv' /\ IInv /\ TypeOK
  BY Inductive DEF MInv, IInv
<1>1. /\ raw \in Seq(Rec) /\ Len(raw) \in Nat
      /\ committed \in Nat /\ planned \in Nat /\ committed <= planned /\ planned <= Len(raw)
      /\ work \in [invalid : SUBSET Offset, onTime : SUBSET Offset, conflicts : SUBSET Offset,
                   signals : SUBSET Signal, clean : SUBSET Offset]
  BY <1>0 DEF TypeOK
<1> USE DEF BatchUnderway, CleanOfBatch, SinkHasRows
<1>2. CASE \E r \in Rec : Publish(r)
  BY <1>2 DEF Publish, spark, MInv, Batch
<1>3. CASE Plan
  <2>1. /\ pc' = "planned" /\ committed < planned' /\ planned = committed
        /\ UNCHANGED <<committed, work>>
    BY <1>0, <1>1, <1>3, BoundAssumption DEF Plan, IInv, IdleHasNoBatch
  <2>2. work.clean = {}
    BY <1>1, <2>1 DEF MInv, Batch
  <2> QED
    BY <2>1, <2>2
<1>4. CASE Validate \/ ValidationFails
  <2>1. /\ pc = "planned" /\ pc' = "collected" /\ UNCHANGED <<planned, committed>>
        /\ work'.clean = {}
    BY <1>4 DEF Validate, ValidationFails, Collect, NoWork
  <2> QED
    BY <2>1 DEF MInv
<1>5. CASE LogInvalid \/ LogInvalidFails
  <2>1. /\ pc = "collected" /\ pc' \in {"logged", "done"} /\ UNCHANGED <<planned, committed, work>>
    BY <1>5 DEF LogInvalid, LogInvalidFails, AfterInvalidLog
  <2> QED
    BY <2>1 DEF MInv, Batch
<1>6. CASE Resolve
  <2>1. /\ pc = "logged" /\ UNCHANGED <<planned, committed>>
    BY <1>6 DEF Resolve
  <2>2. PICK S \in Kept : /\ S \subseteq work.onTime /\ work'.conflicts \cup work'.clean = S
                          /\ pc' = IF S = {} THEN "done" ELSE "resolved"
    BY <1>0, <1>6, ResolveFacts
  <2>3. work'.clean \subseteq Batch
    BY <1>0, <2>1, <2>2 DEF IInv, WorkIsBatch, Callback
  <2>4. Batch' = Batch
    BY <2>1 DEF Batch
  <2> QED
    BY <2>1, <2>2, <2>3, <2>4 DEF MInv
<1>7. CASE LogConflicts \/ LogConflictsFails
  <2>1. /\ pc = "resolved" /\ pc' = "conflictsLogged" /\ UNCHANGED <<planned, committed, work>>
    BY <1>7 DEF LogConflicts, LogConflictsFails
  <2> QED
    BY <2>1 DEF MInv, Batch
<1>8. CASE RecordSwaps \/ RecordSwapsFails
  <2>1. /\ pc = "conflictsLogged" /\ pc' = AfterSwaps /\ UNCHANGED <<planned, committed, work>>
    BY <1>8 DEF RecordSwaps, RecordSwapsFails, Record
  <2> QED
    BY <2>1 DEF MInv, Batch, AfterSwaps
<1>9. CASE \E i \in Offset : PublishClean(i)
  <2>1. PICK i : PublishClean(i)
    BY <1>9
  <2>2. /\ pc = "publishing" /\ i \in work.clean
        /\ pc' = IF work.clean = {i} THEN "done" ELSE "publishing"
        /\ work'.clean = work.clean \ {i} /\ UNCHANGED <<planned, committed>>
    BY <1>1, <2>1 DEF PublishClean
  <2> QED
    BY <2>2 DEF MInv, Batch
<1>10. CASE CommitBatch \/ Crash \/ ResolveRaises
  BY <1>10 DEF CommitBatch, Crash, ResolveRaises, NoWork
<1>11. CASE Restart
  <2>1. /\ pc' = IF planned = committed THEN "idle" ELSE "planned"
        /\ UNCHANGED <<planned, committed, work>>
    BY <1>11 DEF Restart
  <2> QED
    BY <1>1, <2>1 DEF MInv, Batch
<1>12. CASE (\E k \in AllKeys : Expire(k)) \/ UNCHANGED vars
  <2>1. UNCHANGED <<planned, committed, pc, work>>
    BY <1>12 DEF Expire, spark, vars
  <2> QED
    BY <2>1 DEF MInv, Batch
<1> QED
  BY <1>2, <1>3, <1>4, <1>5, <1>6, <1>7, <1>8, <1>9, <1>10, <1>11, <1>12 DEF Next, S2Step, Advance

\* Records keep their place, so that those of the callback keep what they are.
LEMMA PassedMoves ==
  ASSUME MInv, [Next]_vars
  PROVE  OnTimePassed' /\ RaisedOnTwo'
<1>0. IInv' /\ IInv /\ TypeOK
  BY Inductive DEF MInv, IInv
<1>1. /\ Batch \subseteq 1..Len(raw)
      /\ pc \in Callback => work.onTime \subseteq 1..Len(raw)
  BY <1>0, BatchFacts, WorkFacts
<1>2. \A i : IsLate(raw[i])' <=> IsLate(raw'[i])
  BY DEF IsLate
<1>3. ASSUME pc' \in Callback => pc \in Callback /\ work'.onTime = work.onTime,
             pc' # "raised",
             raw' = raw
      PROVE  OnTimePassed' /\ RaisedOnTwo'
  BY <1>2, <1>3 DEF MInv, OnTimePassed, RaisedOnTwo
<1>4. ASSUME \A i \in 1..Len(raw) : raw'[i] = raw[i], UNCHANGED <<planned, committed, pc, work>>
      PROVE  OnTimePassed' /\ RaisedOnTwo'
  <2>1. OnTimePassed'
    BY <1>1, <1>2, <1>4 DEF MInv, OnTimePassed
  <2>2. RaisedOnTwo'
    <3> SUFFICES ASSUME pc = "raised" PROVE HoldsTwoOfOne'
      BY <1>4 DEF RaisedOnTwo
    <3>1. HoldsTwoOfOne
      BY DEF MInv, RaisedOnTwo
    <3> QED
      BY <1>1, <1>4, <3>1, HoldsTwoKept
  <2> QED
    BY <2>1, <2>2
<1>5. CASE \E r \in Rec : Publish(r)
  <2>1. UNCHANGED <<planned, committed, pc, work>> /\ \A i \in 1..Len(raw) : raw'[i] = raw[i]
    BY <1>0, <1>5 DEF Publish, spark, TypeOK
  <2> QED
    BY <1>4, <2>1
<1>6. CASE Validate \/ ValidationFails
  <2>1. PICK failed \in SUBSET Batch : Collect(failed)
    BY <1>6 DEF Validate, ValidationFails
  <2> DEFINE invalid == {i \in Batch : raw[i] \in Invalid} \cup failed
             late == {i \in Batch \ invalid : IsLate(raw[i])}
  <2>2. /\ work'.onTime = Batch \ (invalid \cup late)
        /\ pc' = "collected" /\ raw' = raw
    BY <2>1 DEF Collect, NoWork
  <2> QED
    BY <1>2, <2>2 DEF OnTimePassed, RaisedOnTwo
<1>7. CASE Plan \/ LogInvalid \/ LogInvalidFails \/ LogConflicts \/ LogConflictsFails
  <2>1. /\ raw' = raw /\ pc' # "raised"
        /\ pc' \in Callback => pc \in Callback /\ work' = work
    BY <1>7 DEF Plan, LogInvalid, LogInvalidFails, AfterInvalidLog, LogConflicts,
       LogConflictsFails, Callback
  <2> QED
    BY <1>3, <2>1
<1>8. CASE Resolve
  <2>1. /\ raw' = raw /\ pc = "logged" /\ pc' # "raised"
    BY <1>8 DEF Resolve
  <2>2. work'.onTime = work.onTime
    BY <1>0, <1>8, ResolveFacts
  <2> QED
    BY <1>3, <2>1, <2>2 DEF Callback
<1>9. CASE RecordSwaps \/ RecordSwapsFails \/ \E i \in Offset : PublishClean(i)
  <2>1. /\ raw' = raw /\ pc' # "raised" /\ pc \in Callback
        /\ work'.onTime = work.onTime
    BY <1>0, <1>9 DEF RecordSwaps, RecordSwapsFails, Record, AfterSwaps, PublishClean, Callback,
       TypeOK
  <2> QED
    BY <1>3, <2>1
<1>10. CASE CommitBatch \/ Crash \/ Restart
  <2>1. raw' = raw /\ pc' \notin Callback \cup {"raised"}
    BY <1>10 DEF CommitBatch, Crash, Restart, Callback
  <2> QED
    BY <1>3, <2>1
<1>11. CASE ResolveRaises
  <2>1. /\ pc = "logged" /\ pc' = "raised" /\ UNCHANGED <<raw, planned, committed>>
    BY <1>11 DEF ResolveRaises
  <2>2. PICK S \in Kept : \E df \in Sorted(S) : OneSubscriber(RowsOf(df))
    BY <1>11 DEF ResolveRaises
  <2>3. PICK df \in Sorted(S) : OneSubscriber(RowsOf(df))
    BY <2>2
  <2>4. HoldsTwoOfOne
    BY <2>1, <2>3, RaisesOnTwo
  <2>5. HoldsTwoOfOne'
    BY <2>1, <2>4, HoldsTwoKept
  <2> QED
    BY <2>1, <2>5 DEF OnTimePassed, RaisedOnTwo, Callback
<1>12. CASE (\E k \in AllKeys : Expire(k)) \/ UNCHANGED vars
  <2>1. UNCHANGED <<raw, planned, committed, pc, work>>
    BY <1>12 DEF Expire, spark, vars
  <2> QED
    BY <1>4, <2>1
<1> QED
  BY <1>5, <1>6, <1>7, <1>8, <1>9, <1>10, <1>11, <1>12 DEF Next, S2Step, Advance

LEMMA MovesStep == MInv /\ [Next]_vars => MInv'
<1> SUFFICES ASSUME MInv, [Next]_vars PROVE MInv'
  OBVIOUS
<1>1. IInv'
  BY Inductive DEF MInv
<1> QED
  BY <1>1, BasicMoves, PassedMoves DEF MInv

LEMMA MovesInvariance == Spec => []MInv
BY MovesInit, MovesStep, PTL DEF Spec

\* Two records of one subscriber are all that can wedge stage 2: while it lives
\* and has not read its topic to the end the query has a next step that does not
\* raise, whatever failed before, unless the batch it is at, or died of, holds two
\* such records. There is always a selection and an order for _resolve_conflicts,
\* and the sink never waits for a row that is not there.
THEOREM NeverWedged == Spec => []QueryGoesOn
<1>1. MInv => QueryGoesOn
  <2> SUFFICES ASSUME MInv PROVE QueryGoesOn
    OBVIOUS
  <2>1. TypeOK
    BY DEF MInv, IInv
  <2>2. CASE pc = "idle"
    BY <2>1, <2>2 DEF TypeOK, QueryGoesOn, GoesOn
  <2>3. CASE pc = "logged"
    <3>1. PICK S \in Kept : TRUE
      BY SelectionExists
    <3>2. S \in SUBSET (1..Len(raw))
      BY <2>3, WorkFacts DEF Kept, MInv, Callback
    <3>3. PICK df \in Sorted(S) : TRUE
      BY <2>1, <3>2, OrderExists
    <3>4. CASE OneSubscriber(RowsOf(df))
      BY <2>3, <3>4, RaisesOnTwo DEF QueryGoesOn
    <3>5. CASE ~OneSubscriber(RowsOf(df))
      BY <2>3, <3>5 DEF QueryGoesOn, GoesOn
    <3> QED
      BY <3>4, <3>5
  <2>4. CASE pc = "publishing"
    BY <2>4 DEF MInv, SinkHasRows, QueryGoesOn, GoesOn
  <2>5. CASE pc = "raised"
    BY <2>5 DEF MInv, RaisedOnTwo, QueryGoesOn
  <2> QED
    BY <2>1, <2>2, <2>3, <2>4, <2>5 DEF TypeOK, QueryGoesOn, GoesOn
<1> QED
  BY <1>1, MovesInvariance, PTL

LEMMA CleanFacts ==
  ASSUME MInv
  PROVE  /\ Len(raw) \in Nat /\ committed \in Nat /\ planned \in Nat
         /\ committed <= planned /\ planned <= Len(raw)
         /\ IsFiniteSet(work.clean) /\ Cardinality(work.clean) \in Nat
         /\ Cardinality(work.clean) <= planned - committed
<1>1. /\ Len(raw) \in Nat /\ committed \in Nat /\ planned \in Nat
      /\ committed <= planned /\ planned <= Len(raw)
  BY DEF MInv, IInv, TypeOK
<1>2. work.clean \in SUBSET ((committed + 1)..planned)
  BY DEF MInv, CleanOfBatch, Batch
<1> QED
  BY <1>1, <1>2, PartOfBatch

LEMMA BoundOfSteps ==
  ASSUME MInv
  PROVE  StepsBounded
<1>1. PICK l \in Nat, c \in Nat, p \in Nat, n \in Nat :
         /\ l = Len(raw) /\ c = committed /\ p = planned /\ n = Cardinality(work.clean)
         /\ c <= p /\ p <= l /\ n <= p - c
  BY CleanFacts
<1>2. pc \in {"idle", "raised", "down"} => StepsLeft = 8 * (l - c)
  BY <1>1 DEF StepsLeft
<1>3. pc \notin {"idle", "raised", "down"} =>
         /\ c < p
         /\ StepsLeft = 8 * (l - p) + OfBatch
         /\ OfBatch \in {6 + (p - c), 5 + (p - c), 4 + (p - c), 3 + n, 2 + n, 1 + n, 1}
  <2>1. pc \in {"idle", "planned", "collected", "logged", "resolved", "conflictsLogged",
               "publishing", "done", "raised", "down"}
    BY DEF MInv, IInv, TypeOK
  <2> QED
    BY <1>1, <2>1 DEF StepsLeft, OfBatch, MInv, BatchUnderway
<1>4. ASSUME NEW o \in {6 + (p - c), 5 + (p - c), 4 + (p - c), 3 + n, 2 + n, 1 + n, 1}, c < p
      PROVE  8 * (l - p) + o \in Nat /\ 8 * (l - p) + o <= 8 * (l - c)
  BY <1>1, <1>4
<1>5. 8 * (l - c) \in Nat
  BY <1>1
<1>6. StepsLeft \in Nat /\ StepsLeft <= 8 * (l - c)
  <2>1. CASE pc \in {"idle", "raised", "down"}
    BY <1>2, <1>5, <2>1
  <2>2. CASE pc \notin {"idle", "raised", "down"}
    BY <1>3, <1>4, <2>2
  <2> QED
    BY <2>1, <2>2
<1> QED
  BY <1>1, <1>6 DEF StepsBounded

LEMMA StepsFallStep ==
  ASSUME MInv, MInv'
  PROVE  StepsFall
<1>1. PICK l \in Nat, c \in Nat, p \in Nat, n \in Nat :
         /\ l = Len(raw) /\ c = committed /\ p = planned /\ n = Cardinality(work.clean)
         /\ c <= p /\ p <= l /\ n <= p - c
  BY CleanFacts
<1>2. IInv /\ TypeOK /\ IsFiniteSet(work.clean)
      /\ work \in [invalid : SUBSET Offset, onTime : SUBSET Offset, conflicts : SUBSET Offset,
                   signals : SUBSET Signal, clean : SUBSET Offset]
  BY CleanFacts DEF MInv, IInv, TypeOK
<1>3. ASSUME pc \notin {"idle", "raised", "down"} PROVE c < p
  BY <1>1, <1>3 DEF MInv, BatchUnderway
<1>4. ASSUME Advance \/ CallbackFails PROVE StepsLeft' < StepsLeft
  <2>1. CASE Plan
    <3>1. PICK q \in Nat : q = planned' /\ c < q /\ q <= l
      BY <1>1, <2>1, BoundAssumption DEF Plan
    <3>2. StepsLeft = 8 * (l - c) /\ StepsLeft' = 8 * (l - q) + (6 + (q - c))
      BY <1>1, <2>1, <3>1 DEF Plan, StepsLeft, OfBatch
    <3>3. 8 * (l - q) + (6 + (q - c)) < 8 * (l - c)
      <4>1. PICK d \in Nat : q = c + d /\ d > 0
        BY <3>1
      <4>2. 8 * (l - q) + (6 + (q - c)) = 8 * (l - c) - 7 * d + 6
        BY <4>1
      <4> QED
        BY <4>1, <4>2
    <3> QED
      BY <3>2, <3>3
  <2>2. CASE Validate \/ ValidationFails
    <3>1. /\ pc = "planned" /\ pc' = "collected" /\ UNCHANGED <<raw, planned, committed>>
      BY <2>2 DEF Validate, ValidationFails, Collect
    <3>2. /\ StepsLeft = 8 * (l - p) + (6 + (p - c))
          /\ StepsLeft' = 8 * (l - p) + (5 + (p - c))
      BY <1>1, <3>1 DEF StepsLeft, OfBatch
    <3> QED
      BY <3>2
  <2>3. CASE LogInvalid \/ LogInvalidFails
    <3>1. /\ pc = "collected" /\ pc' \in {"logged", "done"} /\ UNCHANGED <<raw, planned, committed>>
      BY <2>3 DEF LogInvalid, LogInvalidFails, AfterInvalidLog
    <3>2. /\ StepsLeft = 8 * (l - p) + (5 + (p - c))
          /\ StepsLeft' \in {8 * (l - p) + (4 + (p - c)), 8 * (l - p) + 1}
      BY <1>1, <3>1 DEF StepsLeft, OfBatch
    <3> QED
      BY <1>1, <3>2
  <2>4. CASE Resolve
    <3>1. /\ pc = "logged" /\ UNCHANGED <<raw, planned, committed>>
      BY <2>4 DEF Resolve
    <3>2. pc' \in {"done", "resolved"}
      BY <1>2, <2>4, ResolveFacts
    <3>3. PICK m \in Nat : m = Cardinality(work'.clean) /\ m <= p - c
      <4>1. work'.clean \in SUBSET ((c + 1)..p)
        BY <1>1, <3>1 DEF MInv, CleanOfBatch, Batch
      <4> QED
        BY <1>1, <4>1, PartOfBatch
    <3>4. /\ StepsLeft = 8 * (l - p) + (4 + (p - c))
          /\ StepsLeft' \in {8 * (l - p) + (3 + m), 8 * (l - p) + 1}
      BY <1>1, <3>1, <3>2, <3>3 DEF StepsLeft, OfBatch
    <3> QED
      BY <1>1, <3>3, <3>4
  <2>5. CASE LogConflicts \/ LogConflictsFails
    <3>1. /\ pc = "resolved" /\ pc' = "conflictsLogged" /\ UNCHANGED <<raw, planned, committed, work>>
      BY <2>5 DEF LogConflicts, LogConflictsFails
    <3>2. StepsLeft = 8 * (l - p) + (3 + n) /\ StepsLeft' = 8 * (l - p) + (2 + n)
      BY <1>1, <3>1 DEF StepsLeft, OfBatch
    <3> QED
      BY <3>2
  <2>6. CASE RecordSwaps \/ RecordSwapsFails
    <3>1. /\ pc = "conflictsLogged" /\ pc' \in {"done", "publishing"}
          /\ UNCHANGED <<raw, planned, committed, work>>
      BY <2>6 DEF RecordSwaps, RecordSwapsFails, Record, AfterSwaps
    <3>2. /\ StepsLeft = 8 * (l - p) + (2 + n)
          /\ StepsLeft' \in {8 * (l - p) + (1 + n), 8 * (l - p) + 1}
      BY <1>1, <3>1 DEF StepsLeft, OfBatch
    <3> QED
      BY <3>2
  <2>7. CASE \E i \in Offset : PublishClean(i)
    <3>1. PICK i : PublishClean(i)
      BY <2>7
    <3>2. /\ pc = "publishing" /\ i \in work.clean /\ pc' \in {"publishing", "done"}
          /\ work'.clean = work.clean \ {i} /\ UNCHANGED <<raw, planned, committed>>
          /\ pc' = IF work.clean = {i} THEN "done" ELSE "publishing"
      BY <1>2, <3>1 DEF PublishClean
    <3>3. Cardinality(work'.clean) = n - 1
      <4>1. PICK C : C = work.clean /\ IsFiniteSet(C) /\ i \in C /\ Cardinality(C) = n
        BY <1>1, <1>2, <3>2
      <4>2. Cardinality(C \ {i}) = n - 1
        BY <4>1, FS_RemoveElement
      <4> QED
        BY <3>2, <4>1, <4>2
    <3>4. /\ StepsLeft = 8 * (l - p) + (1 + n)
          /\ StepsLeft' \in {8 * (l - p) + (1 + (n - 1)), 8 * (l - p) + 1}
      BY <1>1, <3>2, <3>3 DEF StepsLeft, OfBatch
    <3>5. n # 0
      BY <1>1, <1>2, <3>2, FS_EmptySet
    <3> QED
      BY <3>4, <3>5
  <2>8. CASE CommitBatch
    <3>1. /\ pc = "done" /\ pc' = "idle" /\ committed' = planned /\ UNCHANGED <<raw, planned>>
      BY <2>8 DEF CommitBatch
    <3>2. StepsLeft = 8 * (l - p) + 1 /\ StepsLeft' = 8 * (l - p)
      BY <1>1, <3>1 DEF StepsLeft, OfBatch
    <3> QED
      BY <1>1, <3>2
  <2> QED
    BY <1>4, <2>1, <2>2, <2>3, <2>4, <2>5, <2>6, <2>7, <2>8 DEF Advance, CallbackFails
<1>5. ASSUME NEW r \in Rec, Publish(r) PROVE StepsLeft' = StepsLeft + 8
  <2>1. Len(raw') = l + 1 /\ UNCHANGED <<planned, committed, pc, work>>
    BY <1>1, <1>2, <1>5 DEF Publish, spark, TypeOK
  <2>2. OfBatch' = OfBatch
    BY <2>1 DEF OfBatch
  <2>3. CASE pc \in {"idle", "raised", "down"}
    <3>1. StepsLeft = 8 * (l - c) /\ StepsLeft' = 8 * ((l + 1) - c)
      BY <1>1, <2>1, <2>3 DEF StepsLeft
    <3> QED
      BY <3>1
  <2>4. CASE pc \notin {"idle", "raised", "down"}
    <3>1. StepsLeft = 8 * (l - p) + OfBatch /\ StepsLeft' = 8 * ((l + 1) - p) + OfBatch
      BY <1>1, <2>1, <2>2, <2>4 DEF StepsLeft
    <3>2. OfBatch \in Int
      BY <1>1, <1>2, <2>4 DEF OfBatch, TypeOK
    <3> QED
      BY <3>1, <3>2
  <2> QED
    BY <2>3, <2>4
<1>6. ASSUME Restart PROVE StepsLeft' <= StepsLeft
  <2>1. /\ pc \in {"raised", "down"} /\ UNCHANGED <<raw, planned, committed>>
        /\ pc' = IF planned = committed THEN "idle" ELSE "planned"
    BY <1>6 DEF Restart, Ended
  <2>2. StepsLeft = 8 * (l - c)
    BY <1>1, <2>1 DEF StepsLeft
  <2>3. CASE planned = committed
    BY <1>1, <2>1, <2>2, <2>3 DEF StepsLeft
  <2>4. CASE planned # committed
    <3>1. StepsLeft' = 8 * (l - p) + (6 + (p - c))
      BY <1>1, <2>1, <2>4 DEF StepsLeft, OfBatch
    <3> QED
      BY <1>1, <2>2, <2>4, <3>1
  <2> QED
    BY <2>3, <2>4
<1>7. ASSUME NEW k \in AllKeys, Expire(k) PROVE StepsLeft' <= StepsLeft
  <2>1. StepsLeft' = StepsLeft
    BY <1>7 DEF Expire, spark, StepsLeft, OfBatch
  <2>2. StepsLeft \in Nat
    BY BoundOfSteps DEF StepsBounded
  <2> QED
    BY <2>1, <2>2
<1> QED
  BY <1>4, <1>5, <1>6, <1>7 DEF StepsFall

\* For n messages that stage 2 has not committed it takes at most 8n steps, whatever
\* of its writes fail on the way: each step of the query lessens what is left, a new
\* message adds eight, a restart and an expiry add nothing. What a crash or an
\* exception costs is the steps of its batch. With NeverWedged and the fairness of
\* the query loop this is why the backlog drains.
THEOREM BacklogBounded == Spec => []StepsBounded /\ [][StepsFall]_vars
<1>1. MInv => StepsBounded
  BY BoundOfSteps
<1>2. MInv /\ MInv' /\ [Next]_vars => [StepsFall]_vars
  BY StepsFallStep
<1> QED
  BY <1>1, <1>2, MovesInvariance, PTL DEF Spec

-----------------------------------------------------------------------------
\* Two steps of Pipeline. A rerun starts stage 2 from an empty checkpoint: the
\* topics and the logs stay, and DEDUP_STATE is forgotten.
LEMMA StartOver ==
  ASSUME EInv, planned' = 0, committed' = 0, pc' = "idle", work' = NoWork, Forget(dedup),
         UNCHANGED <<raw, invalidLog, conflictLog, swapEvent, clean, lostInvalid, lostConflict>>,
         faults' \in Nat
  PROVE  EInv'
<1>1. renewals' \in [AllKeys -> Nat] /\ dedup' = {}
  BY AddRowsFacts DEF EInv, IInv, TypeOK, Forget
<1>2. work' \in [invalid : SUBSET Offset, onTime : SUBSET Offset, conflicts : SUBSET Offset,
                 signals : SUBSET Signal, clean : SUBSET Offset]
      /\ work'.conflicts = {} /\ work'.clean = {} /\ work'.signals = {}
  BY DEF NoWork
<1>3. TypeOK'
  BY <1>1, <1>2 DEF EInv, IInv, TypeOK
<1>4. IInv'
  BY <1>1, <1>3 DEF IInv, IdleHasNoBatch, WorkIsBatch, RejectedLogged, DedupJustified,
     OnTimeAccounted, NothingLost, Callback
<1>5. \A k \in AllKeys : Allowed(k) <= Allowed(k)'
  BY ForgetCounts
<1> QED
  BY <1>2, <1>4, <1>5, FewerPending DEF Pending, Signalled

\* A step of stage 3 may fail, which only counts.
LEMMA FaultsOnly ==
  ASSUME EInv, faults' \in Nat,
         UNCHANGED <<raw, planned, committed, pc, work, dedup, invalidLog, conflictLog, swapEvent,
                     clean, lostInvalid, lostConflict, renewals>>
  PROVE  EInv'
<1>1. TypeOK'
  BY DEF EInv, IInv, TypeOK
<1>2. IdleHasNoBatch' /\ WorkIsBatch'
  BY DEF EInv, IInv, IdleHasNoBatch, WorkIsBatch, Batch
<1>3. RejectedLogged' /\ NothingLost'
  BY DEF EInv, IInv, RejectedLogged, NothingLost, Invalidated, Resolved, KeyAt, RowOf
<1>4. DedupJustified' /\ OnTimeAccounted'
  BY DEF EInv, IInv, DedupJustified, OnTimeAccounted, Accounted, Pending, Resolved, KeyAt, RowOf
<1>5. IInv'
  BY <1>1, <1>2, <1>3, <1>4 DEF IInv
<1>6. planned <= planned' /\ \A k \in AllKeys : Allowed(k) <= Allowed(k)'
  BY LogFacts DEF EInv, IInv, TypeOK, Allowed
<1>7. \A j : Pending(j)' => Pending(j)
  BY DEF Pending
<1>8. \A j, t : Signalled(j, t)' => Signalled(j, t) /\ work'.clean = work.clean
  BY DEF Signalled
<1> QED
  BY <1>5, <1>6, <1>7, <1>8, FewerPending

-----------------------------------------------------------------------------
\* What stage 2 achieves while nothing fails and no key expires: what it has
\* behind it was refused by the rules, or its key is on radius.clean or in
\* conflict_log, and so are the keys that DEDUP_STATE holds.
Refused(i) == raw[i] \in Invalid \/ IsLate(raw[i])
Out(j) == clean[j] > 0 \/ conflictLog[j] > 0

CommittedOut ==
    \A i \in 1..committed : Refused(i) \/ \E j \in 1..committed : KeyAt(j) = KeyAt(i) /\ Out(j)
OnlyRefused == pc \in Callback => \A i \in work.invalid : Refused(i)
HeldOut == \A k \in dedup : \E j \in 1..planned : KeyAt(j) = k /\ (Out(j) \/ Pending(j))
OnTimeHeld == pc \in Callback \ {"collected", "logged"} => \A i \in work.onTime : KeyAt(i) \in dedup
Faultless == CommittedOut /\ OnlyRefused /\ HeldOut /\ OnTimeHeld

LEMMA OutKept ==
  ASSUME EInv, EInv', Faultless, committed' = committed, planned <= planned',
         Len(raw) <= Len(raw'), \A i \in 1..Len(raw) : raw'[i] = raw[i],
         \A i \in 1..Len(raw) : Out(i) => Out(i)',
         \A j \in 1..planned : Pending(j) => Pending(j)' \/ Out(j)'
  PROVE  CommittedOut' /\ (dedup' = dedup => HeldOut')
<1>1. /\ 1..planned \subseteq 1..Len(raw) /\ 1..committed \subseteq 1..Len(raw)
      /\ 1..planned \subseteq 1..planned'
  BY DEF EInv, IInv, TypeOK
<1>2. \A i \in 1..Len(raw) : KeyAt(i)' = KeyAt(i) /\ (Refused(i)' <=> Refused(i))
  BY DEF KeyAt, RowOf, Refused, IsLate
<1>3. CommittedOut'
  BY <1>1, <1>2 DEF Faultless, CommittedOut
<1>4. ASSUME dedup' = dedup PROVE HeldOut'
  <2> SUFFICES ASSUME NEW k \in dedup
               PROVE  \E j \in 1..planned' : KeyAt(j)' = k /\ (Out(j)' \/ Pending(j)')
    BY <1>4 DEF HeldOut
  <2>1. PICK j \in 1..planned : KeyAt(j) = k /\ (Out(j) \/ Pending(j))
    BY DEF Faultless, HeldOut
  <2> QED
    BY <1>1, <1>2, <2>1
<1> QED
  BY <1>3, <1>4

\* The steps outside of the callback, and its first ones.
LEMMA FaultlessBefore ==
  ASSUME EInv, EInv', Faultless,
         Plan \/ Restart \/ Validate \/ LogInvalid \/ \E r \in Rec : Publish(r)
  PROVE  Faultless'
<1>1. /\ UNCHANGED <<committed, dedup, clean, conflictLog>>
      /\ \A i : Out(i)' <=> Out(i)
  BY DEF Plan, Restart, Validate, Collect, LogInvalid, Publish, spark, tables, Out
<1>2. /\ Len(raw) <= Len(raw') /\ \A i \in 1..Len(raw) : raw'[i] = raw[i]
      /\ Len(raw) \in Nat /\ planned \in Nat /\ committed' \in Nat /\ planned' \in Nat
      /\ committed' <= planned'
  <2>1. CASE \E r \in Rec : Publish(r)
    BY <2>1 DEF Publish, EInv, IInv, TypeOK
  <2>2. CASE raw' = raw
    BY <2>2 DEF EInv, IInv, TypeOK
  <2> QED
    BY <2>1, <2>2 DEF Plan, Restart, Validate, Collect, LogInvalid
<1>3. CASE Plan \/ Restart
  <2>1. planned <= planned'
    <3>1. CASE Plan
      BY <1>1, <1>2, <3>1 DEF Plan, EInv, IInv, IdleHasNoBatch
    <3>2. CASE Restart
      BY <1>2, <3>2 DEF Restart
    <3> QED
      BY <1>3, <3>1, <3>2
  <2>2. pc \in {"idle", "raised", "down"} /\ pc' \in {"idle", "planned"}
    BY <1>3 DEF Plan, Restart, Ended
  <2>3. CommittedOut' /\ HeldOut'
    BY <1>1, <1>2, <2>1, <2>2, OutKept DEF Pending
  <2>4. OnlyRefused' /\ OnTimeHeld'
    BY <2>2 DEF OnlyRefused, OnTimeHeld, Callback
  <2> QED
    BY <2>3, <2>4 DEF Faultless
<1>4. CASE Validate
  <2>0. Collect({})
    BY <1>4 DEF Validate
  <2>1. /\ pc = "planned" /\ pc' = "collected" /\ planned' = planned /\ raw' = raw
    BY <2>0 DEF Collect
  <2> DEFINE invalid == {i \in Batch : raw[i] \in Invalid}
             late == {i \in Batch \ invalid : IsLate(raw[i])}
  <2>2. work'.invalid = invalid \cup late
    BY <2>0 DEF Collect, NoWork
  <2>3. OnlyRefused'
    BY <2>1, <2>2 DEF OnlyRefused, Refused, IsLate
  <2>4. CommittedOut' /\ HeldOut'
    BY <1>1, <1>2, <2>1, OutKept DEF Pending
  <2>5. OnTimeHeld'
    BY <2>1 DEF OnTimeHeld
  <2> QED
    BY <2>3, <2>4, <2>5 DEF Faultless
<1>5. CASE LogInvalid
  <2>1. /\ pc = "collected" /\ pc' \in {"done", "logged"} /\ (pc' = "done" => work.onTime = {})
        /\ planned' = planned /\ raw' = raw /\ work' = work
    BY <1>5 DEF LogInvalid, AfterInvalidLog
  <2>2. CommittedOut' /\ HeldOut'
    BY <1>1, <1>2, <2>1, OutKept DEF Pending
  <2>3. OnlyRefused' /\ OnTimeHeld'
    BY <2>1 DEF Faultless, OnlyRefused, OnTimeHeld, Refused, IsLate, Callback
  <2> QED
    BY <2>2, <2>3 DEF Faultless
<1>6. CASE \E r \in Rec : Publish(r)
  <2>1. UNCHANGED <<planned, pc, work>>
    BY <1>6 DEF Publish, spark
  <2>2. \A j : Pending(j)' <=> Pending(j)
    BY <2>1 DEF Pending
  <2>3. CommittedOut' /\ HeldOut'
    BY <1>1, <1>2, <2>1, <2>2, OutKept
  <2>4. pc \in Callback => work.invalid \subseteq 1..Len(raw) /\ work.onTime \subseteq 1..Len(raw)
    BY WorkFacts DEF EInv
  <2>5. \A i \in 1..Len(raw) : KeyAt(i)' = KeyAt(i) /\ (Refused(i)' <=> Refused(i))
    BY <1>2 DEF KeyAt, RowOf, Refused, IsLate
  <2>6. OnlyRefused' /\ OnTimeHeld'
    BY <1>1, <2>1, <2>4, <2>5 DEF Faultless, OnlyRefused, OnTimeHeld
  <2> QED
    BY <2>3, <2>6 DEF Faultless
<1> QED
  BY <1>3, <1>4, <1>5, <1>6

\* The steps that write effects.
LEMMA FaultlessWrites ==
  ASSUME EInv, EInv', Faultless,
         LogConflicts \/ RecordSwaps \/ \E i \in Offset : PublishClean(i)
  PROVE  Faultless'
<1>1. /\ UNCHANGED <<raw, planned, committed, dedup>>
      /\ work'.invalid = work.invalid /\ work'.onTime = work.onTime
  BY DEF LogConflicts, RecordSwaps, Record, PublishClean, EInv, IInv, TypeOK
<1>2. /\ pc \in Callback \ {"collected", "logged"}
      /\ pc' \in Callback \ {"collected", "logged"}
  BY DEF LogConflicts, RecordSwaps, Record, AfterSwaps, PublishClean, Callback
<1>3. clean \in [Offset -> Nat] /\ conflictLog \in [Offset -> Nat]
  BY DEF EInv, IInv, TypeOK
<1>4. 1..planned \subseteq Offset /\ 1..Len(raw) \subseteq Offset
  BY BatchFacts DEF EInv, IInv
<1>5. /\ \A i \in 1..Len(raw) : Out(i) => Out(i)'
      /\ \A j \in 1..planned : Pending(j) => Pending(j)' \/ Out(j)'
  <2>1. CASE LogConflicts
    <3>1. /\ pc = "resolved" /\ pc' = "conflictsLogged" /\ UNCHANGED <<clean, work>>
          /\ conflictLog' = AddRows(conflictLog, work.conflicts)
      BY <2>1 DEF LogConflicts
    <3>2. /\ \A i \in Offset : conflictLog'[i] \in Nat /\ conflictLog'[i] >= conflictLog[i]
          /\ \A i \in Offset : i \in work.conflicts => conflictLog'[i] > 0
      BY <1>3, <3>1, AddRowsFacts
    <3> QED
      BY <1>3, <1>4, <3>1, <3>2 DEF Out, Pending
  <2>2. CASE RecordSwaps
    <3>1. /\ pc = "conflictsLogged" /\ UNCHANGED <<clean, conflictLog, work>>
          /\ pc' = AfterSwaps
      BY <2>2 DEF RecordSwaps, Record
    <3> QED
      BY <3>1 DEF Out, Pending, AfterSwaps
  <2>3. ASSUME NEW i \in Offset, PublishClean(i)
        PROVE  /\ \A j \in 1..Len(raw) : Out(j) => Out(j)'
               /\ \A j \in 1..planned : Pending(j) => Pending(j)' \/ Out(j)'
    <3>1. /\ pc = "publishing" /\ i \in work.clean
          /\ pc' = IF work.clean = {i} THEN "done" ELSE "publishing"
          /\ work' = [work EXCEPT !.clean = @ \ {i}]
          /\ clean' = AddRows(clean, {i}) /\ conflictLog' = conflictLog
      BY <2>3 DEF PublishClean
    <3>2. /\ \A j \in Offset : clean'[j] \in Nat /\ clean'[j] >= clean[j]
          /\ clean'[i] > 0
      BY <1>3, <3>1, AddRowsFacts
    <3>3. work'.clean = work.clean \ {i}
      BY <3>1 DEF EInv, IInv, TypeOK
    <3>4. ASSUME NEW j \in 1..Len(raw), Out(j) PROVE Out(j)'
      <4>1. j \in Offset
        BY <1>4
      <4>2. clean[j] \in Nat /\ clean'[j] \in Nat /\ clean'[j] >= clean[j]
        BY <1>3, <3>2, <4>1
      <4>3. conflictLog'[j] = conflictLog[j]
        BY <3>1
      <4>4. clean[j] > 0 => clean'[j] > 0
        BY <4>2
      <4> QED
        BY <3>4, <4>3, <4>4 DEF Out
    <3>5. ASSUME NEW j \in 1..planned, Pending(j) PROVE Pending(j)' \/ Out(j)'
      <4>1. j \in work.clean
        BY <3>1, <3>5 DEF Pending
      <4>2. CASE j = i
        BY <3>2, <4>2 DEF Out
      <4>3. CASE j # i
        BY <3>1, <3>3, <4>1, <4>3 DEF Pending
      <4> QED
        BY <4>2, <4>3
    <3> QED
      BY <3>4, <3>5
  <2> QED
    BY <2>1, <2>2, <2>3
<1>6. CommittedOut' /\ HeldOut'
  <2>1. planned <= planned' /\ Len(raw) <= Len(raw')
    BY <1>1 DEF EInv, IInv, TypeOK
  <2> QED
    BY <1>1, <1>5, <2>1, OutKept
<1>7. OnlyRefused' /\ OnTimeHeld'
  BY <1>1, <1>2 DEF Faultless, OnlyRefused, OnTimeHeld, Refused, IsLate, KeyAt, RowOf
<1> QED
  BY <1>6, <1>7 DEF Faultless

LEMMA FaultlessResolve ==
  ASSUME EInv, EInv', Faultless, Resolve
  PROVE  Faultless'
<1>1. PICK S \in Kept :
          /\ S \subseteq work.onTime /\ S \subseteq 1..planned
          /\ dedup' = dedup \cup {KeyAt(i) : i \in S}
          /\ work'.invalid = work.invalid /\ work'.onTime = work.onTime
          /\ work'.conflicts \cup work'.clean = S
          /\ work'.conflicts \cap work'.clean = {}
          /\ work'.signals \subseteq work'.clean \X {"SIM_SWAP", "DEVICE_SWAP"}
          /\ pc' = IF S = {} THEN "done" ELSE "resolved"
  BY ResolveFacts DEF EInv
<1>2. pc = "logged" /\ UNCHANGED <<raw, planned, committed, conflictLog, clean>>
  BY DEF Resolve, tables
<1>3. /\ \A i : KeyAt(i)' = KeyAt(i)
      /\ \A i : (Refused(i)' <=> Refused(i)) /\ (Out(i)' <=> Out(i)) /\ ~Pending(i)
  BY <1>2 DEF KeyAt, RowOf, Refused, IsLate, Out, Pending
<1>4. \A i \in S : Pending(i)'
  BY <1>1 DEF Pending
<1>5. HeldOut'
  <2> SUFFICES ASSUME NEW k \in dedup'
               PROVE  \E j \in 1..planned : KeyAt(j) = k /\ (Out(j) \/ Pending(j)')
    BY <1>2, <1>3 DEF HeldOut
  <2>1. CASE k \in dedup
    BY <1>3, <2>1 DEF Faultless, HeldOut
  <2>2. CASE \E i \in S : k = KeyAt(i)
    BY <1>1, <1>4, <2>2
  <2> QED
    BY <1>1, <2>1, <2>2
<1>6. \A i \in work.onTime : KeyAt(i) \in dedup'
  BY <1>1 DEF Kept
<1>7. OnTimeHeld' /\ OnlyRefused'
  BY <1>1, <1>2, <1>3, <1>6 DEF OnTimeHeld, OnlyRefused, Faultless, Callback
<1>8. CommittedOut'
  BY <1>2, <1>3 DEF Faultless, CommittedOut
<1> QED
  BY <1>5, <1>7, <1>8 DEF Faultless

LEMMA FaultlessCommit ==
  ASSUME EInv, EInv', Faultless, CommitBatch
  PROVE  Faultless'
<1>1. /\ pc = "done" /\ pc' = "idle" /\ committed' = planned
      /\ UNCHANGED <<raw, planned, dedup, clean, conflictLog>>
  BY DEF CommitBatch, tables
<1>2. /\ \A i : KeyAt(i)' = KeyAt(i)
      /\ \A i : (Refused(i)' <=> Refused(i)) /\ (Out(i)' <=> Out(i)) /\ ~Pending(i)
  BY <1>1 DEF KeyAt, RowOf, Refused, IsLate, Out, Pending
<1>3. committed \in Nat /\ planned \in Nat /\ committed <= planned
  BY DEF EInv, IInv, TypeOK
<1>4. ASSUME NEW i \in 1..planned
      PROVE  Refused(i) \/ \E j \in 1..planned : KeyAt(j) = KeyAt(i) /\ Out(j)
  <2>1. CASE i <= committed
    BY <1>3, <2>1 DEF Faultless, CommittedOut
  <2>2. CASE i > committed
    <3>1. i \in work.invalid \cup work.onTime
      BY <1>1, <1>3, <2>2 DEF EInv, IInv, WorkIsBatch, Batch, Callback
    <3>2. CASE i \in work.invalid
      BY <1>1, <3>2 DEF Faultless, OnlyRefused, Callback
    <3>3. CASE i \in work.onTime
      BY <1>1, <1>2, <3>3 DEF Faultless, OnTimeHeld, HeldOut, Callback
    <3> QED
      BY <3>1, <3>2, <3>3
  <2> QED
    BY <1>3, <2>1, <2>2
<1>5. CommittedOut'
  BY <1>1, <1>2, <1>4 DEF CommittedOut
<1>6. HeldOut'
  BY <1>1, <1>2 DEF Faultless, HeldOut
<1>7. OnTimeHeld' /\ OnlyRefused'
  BY <1>1 DEF OnTimeHeld, OnlyRefused, Callback
<1> QED
  BY <1>5, <1>6, <1>7 DEF Faultless

\* An exception of the callback writes nothing, and DEDUP_STATE goes.
LEMMA FaultlessRaises ==
  ASSUME EInv, EInv', Faultless, ResolveRaises
  PROVE  Faultless'
<1>1. /\ pc' = "raised" /\ dedup' = {} /\ UNCHANGED <<raw, committed, clean, conflictLog>>
  BY DEF ResolveRaises, ForgetAll, Forget, tables
<1>2. \A i : KeyAt(i)' = KeyAt(i) /\ (Refused(i)' <=> Refused(i)) /\ (Out(i)' <=> Out(i))
  BY <1>1 DEF KeyAt, RowOf, Refused, IsLate, Out
<1>3. CommittedOut'
  BY <1>1, <1>2 DEF Faultless, CommittedOut
<1> QED
  BY <1>1, <1>3 DEF Faultless, HeldOut, OnTimeHeld, OnlyRefused, Callback

LEMMA FaultlessStep ==
  ASSUME EInv, EInv', Faultless, S2Step \/ Restart \/ \E r \in Rec : Publish(r)
  PROVE  Faultless'
BY FaultlessBefore, FaultlessWrites, FaultlessResolve, FaultlessRaises, FaultlessCommit
   DEF S2Step, Advance

LEMMA FaultlessSame ==
  ASSUME Faultless, UNCHANGED <<raw, planned, committed, pc, work, dedup, conflictLog, clean>>
  PROVE  Faultless'
<1>1. /\ \A j : KeyAt(j)' = KeyAt(j) /\ (Refused(j)' <=> Refused(j))
      /\ \A j : (Out(j)' <=> Out(j)) /\ (Pending(j)' <=> Pending(j))
  BY DEF KeyAt, RowOf, Refused, IsLate, Out, Pending
<1>2. CommittedOut' /\ OnlyRefused'
  BY <1>1 DEF Faultless, CommittedOut, OnlyRefused
<1>3. HeldOut' /\ OnTimeHeld'
  BY <1>1 DEF Faultless, HeldOut, OnTimeHeld
<1> QED
  BY <1>2, <1>3 DEF Faultless

LEMMA FaultlessAnew ==
  ASSUME committed' = 0, pc' = "idle", dedup' = {}
  PROVE  Faultless'
BY DEF Faultless, CommittedOut, OnlyRefused, HeldOut, OnTimeHeld, Callback
=============================================================================
