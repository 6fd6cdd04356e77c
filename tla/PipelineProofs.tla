--------------------------- MODULE PipelineProofs ---------------------------
(***************************************************************************)
(* Stage 3 on its own, and stages 2 and 3 together, for every topic, every *)
(* number of partitions, every set of records and every number of faults.  *)
(*                                                                         *)
(* Stage 3: radius_sessions agrees with dedup_seen_keys, and no message    *)
(* behind the committed offsets is missing without a reason; and so many   *)
(* steps are left to the end of the topic.                                 *)
(*                                                                         *)
(* Both: from radius.raw to radius_sessions a record leaves a trace, and a *)
(* rerun without failures repairs what the failures before it took away.   *)
(* The proof composes those of the stages. S2P!... is ProcessorProofs on   *)
(* the variables of stage 2, with the same operators as the S2!... of      *)
(* Pipeline; a step of one stage is a stutter of the other one, but for    *)
(* the messages on radius.clean and for the budget of faults.              *)
(***************************************************************************)
EXTENDS Pipeline, FiniteSetTheorems, TLAPS

RowsMatchSeen(t) == \A k \in Key : t.rows[k] = IF k \in t.seen THEN 1 ELSE 0

\* A query that waits for offsets has no batch behind it.
IdleHasNoBatch == pc = "idle" => planned = committed

\* The callback returns only once each message of the batch is stored or lost
\* for a reason.
CopiedAccounted == pc = "copied" => \A m \in BatchMsgs : Accounted(m)

IInv ==
    /\ TypeOK
    /\ RowsMatchSeen(db)
    /\ RowsMatchSeen(disk)
    /\ IdleHasNoBatch
    /\ CopiedAccounted
    /\ CommittedAccounted

-----------------------------------------------------------------------------
\* A published message names a partition and a place in it.
LEMMA PublishedFacts ==
  /\ \A m \in Published : /\ m \in Partition \X Nat
                          /\ m[1] \in Partition
                          /\ m[2] \in 1..Len(topic[m[1]])
  /\ \A p \in Partition : \A i \in 1..Len(topic[p]) : <<p, i>> \in Published
BY DEF Published

\* Its record has a key.
LEMMA MessageKey ==
  ASSUME TypeOK, NEW m \in Published
  PROVE  MsgAt(m) \in Msg /\ KeyOf[MsgAt(m)] \in Key
<1>1. m[1] \in Partition /\ m[2] \in 1..Len(topic[m[1]]) /\ topic[m[1]] \in Seq(Msg)
  BY PublishedFacts DEF TypeOK
<1> QED
  BY <1>1, KeyOfAssumption DEF MsgAt

\* The topic holds finitely many messages.
LEMMA PublishedFinite ==
  ASSUME TypeOK
  PROVE  IsFiniteSet(Published)
<1> DEFINE perPartition == {{p} \X (1..Len(topic[p])) : p \in Partition}
           f == [p \in Partition |-> {p} \X (1..Len(topic[p]))]
<1>1. f \in Surjection(Partition, perPartition)
  BY DEF Surjection
<1>2. IsFiniteSet(perPartition)
  BY <1>1, FS_Surjection, PartitionAssumption
<1>3. ASSUME NEW p \in Partition PROVE IsFiniteSet({p} \X (1..Len(topic[p])))
  <2>1. Len(topic[p]) \in Nat
    BY DEF TypeOK
  <2>2. IsFiniteSet({p})
    BY FS_Singleton
  <2>3. IsFiniteSet(1..Len(topic[p]))
    BY <2>1, FS_Interval
  <2> QED
    BY <2>2, <2>3, FS_Product
<1>4. \A T \in perPartition : IsFiniteSet(T)
  BY <1>3
<1> HIDE DEF perPartition
<1>5. IsFiniteSet(UNION perPartition)
  BY <1>2, <1>4, FS_UNION
<1> QED
  BY <1>5 DEF Published, perPartition

\* A key of the batch has at least one row in it.
LEMMA BatchRowsFacts ==
  ASSUME TypeOK, NEW k \in Key
  PROVE  BatchRows(k) \in Nat /\ (k \in BatchKeys => BatchRows(k) >= 1)
<1> DEFINE S == {m \in BatchMsgs : KeyOf[MsgAt(m)] = k}
<1>1. IsFiniteSet(S)
  BY PublishedFinite, FS_Subset DEF BatchMsgs
<1>2. Cardinality(S) \in Nat
  BY <1>1, FS_CardinalityType
<1>3. k \in BatchKeys => S # {}
  BY DEF BatchKeys
<1>4. Cardinality(S) = 0 <=> S = {}
  BY <1>1, FS_EmptySet
<1> HIDE DEF S
<1> QED
  BY <1>2, <1>3, <1>4 DEF S, BatchRows

\* Going through the trigger keeps the two tables in step.
LEMMA CopiedFacts ==
  ASSUME TypeOK, NEW t \in Tables, RowsMatchSeen(t)
  PROVE  /\ Copied(t) \in Tables
         /\ RowsMatchSeen(Copied(t))
         /\ Copied(t).seen = t.seen \cup BatchKeys
<1>1. BatchKeys \subseteq Key
  BY MessageKey DEF BatchKeys, BatchMsgs
<1>2. \A k \in Key : t.rows[k] \in Nat /\ t.dups[k] \in Nat
  BY DEF Tables
<1>3. Copied(t).seen = t.seen \cup BatchKeys
  BY DEF Copied
<1>4. \A k \in Key : Copied(t).rows[k] = IF k \in t.seen \cup BatchKeys THEN 1 ELSE 0
  BY <1>2 DEF Copied, RowsMatchSeen
<1>5. Copied(t).rows \in [Key -> Nat]
  BY <1>2 DEF Copied
<1>6. Copied(t).dups \in [Key -> Nat]
  BY <1>2, BatchRowsFacts DEF Copied
<1>7. Copied(t).seen \in SUBSET Key
  BY <1>1, <1>3 DEF Tables
<1>8. Copied(t) \in Tables
  BY <1>5, <1>6, <1>7 DEF Copied, Tables
<1> QED
  BY <1>3, <1>4, <1>8 DEF RowsMatchSeen

-----------------------------------------------------------------------------
\* Stuttering of everything Accounted reads keeps what is accounted for.
LEMMA SameAccounts ==
  ASSUME IInv, topic' = topic, planned' = planned, committed' = committed,
         db.seen \subseteq db'.seen \cup forgotten',
         rolledBack \subseteq rolledBack', forgotten \subseteq forgotten'
  PROVE  /\ Published' = Published
         /\ BatchMsgs' = BatchMsgs
         /\ \A m \in Published : Accounted(m) => Accounted(m)'
         /\ CommittedAccounted'
         /\ (CopiedAccounted /\ pc = "copied") => CopiedAccounted'
<1>1. Published' = Published
  BY DEF Published
<1>2. BatchMsgs' = BatchMsgs
  BY <1>1 DEF BatchMsgs, InBatch
<1>3. \A m \in Published : Accounted(m) => Accounted(m)'
  BY DEF Accounted, MsgAt
<1>4. CommittedAccounted'
  BY <1>1, <1>3 DEF IInv, CommittedAccounted
<1>5. (CopiedAccounted /\ pc = "copied") => CopiedAccounted'
  BY <1>1, <1>2, <1>3 DEF CopiedAccounted, BatchMsgs
<1> QED
  BY <1>1, <1>2, <1>3, <1>4, <1>5

LEMMA Initially == Init => IInv
<1> SUFFICES ASSUME Init PROVE IInv
  OBVIOUS
<1>1. EmptyTables \in Tables /\ RowsMatchSeen(EmptyTables)
  BY DEF EmptyTables, Tables, RowsMatchSeen
<1>2. NoOffsets \in Offsets /\ \A p \in Partition : NoOffsets[p] = 0
  BY DEF NoOffsets, Offsets
<1>3. topic \in [Partition -> Seq(Msg)] /\ \A p \in Partition : topic[p] = <<>>
  BY DEF Init
<1>4. TypeOK
  BY <1>1, <1>2, <1>3 DEF Init, TypeOK
<1>5. Published = {}
  BY <1>3 DEF Published
<1> QED
  BY <1>1, <1>4, <1>5 DEF Init, IInv, IdleHasNoBatch, CopiedAccounted, CommittedAccounted

\* A new message is behind no offset.
LEMMA PublishStep ==
  ASSUME IInv, NEW q \in Partition, NEW x \in Msg, Publish(q, x)
  PROVE  IInv'
<1>1. /\ topic' \in [Partition -> Seq(Msg)]
      /\ \A p \in Partition :
            /\ Len(topic[p]) \in Nat /\ Len(topic'[p]) \in Nat
            /\ Len(topic[p]) <= Len(topic'[p])
            /\ \A i \in 1..Len(topic[p]) : topic'[p][i] = topic[p][i]
  BY DEF IInv, TypeOK, Publish
<1>2. /\ planned \in Offsets /\ committed \in Offsets
      /\ \A p \in Partition : /\ planned[p] \in Nat /\ committed[p] \in Nat
                              /\ committed[p] <= planned[p]
                              /\ planned[p] <= Len(topic[p])
  BY DEF IInv, TypeOK, Offsets
<1>3. TypeOK'
  <2>1. \A p \in Partition : planned[p] <= Len(topic'[p])
    BY <1>1, <1>2
  <2> QED
    BY <1>1, <1>2, <2>1 DEF IInv, TypeOK, Publish
<1>4. \A m \in Published' : m[2] <= planned[m[1]] =>
         m \in Published /\ MsgAt(m)' = MsgAt(m)
  <2> SUFFICES ASSUME NEW m \in Published', m[2] <= planned[m[1]]
               PROVE  m \in Published /\ MsgAt(m)' = MsgAt(m)
    OBVIOUS
  <2>1. m[1] \in Partition /\ m[2] \in 1..Len(topic'[m[1]]) /\ m = <<m[1], m[2]>>
    BY DEF Published
  <2>2. m[2] \in 1..Len(topic[m[1]])
    BY <1>1, <1>2, <2>1
  <2> QED
    BY <2>1, <2>2, <1>1, PublishedFacts DEF MsgAt
<1>5. \A m \in Published' : m[2] <= planned[m[1]] => (Accounted(m) => Accounted(m)')
  BY <1>4 DEF Accounted, Publish
<1>6. CopiedAccounted'
  BY <1>4, <1>5 DEF IInv, CopiedAccounted, BatchMsgs, InBatch, Publish
<1>7. CommittedAccounted'
  <2>1. \A m \in Published' : m[1] \in Partition /\ m[2] \in Nat
    BY <1>1 DEF Published
  <2> QED
    BY <1>2, <1>4, <1>5, <2>1 DEF IInv, CommittedAccounted, Publish
<1> QED
  BY <1>3, <1>6, <1>7 DEF IInv, IdleHasNoBatch, RowsMatchSeen, Publish

\* The COPY puts every key of the batch among those seen.
LEMMA CopyCommitsStep ==
  ASSUME IInv, CopyCommits PROVE IInv'
<1>1. db' = Copied(db) /\ pc' = "copied"
  BY DEF CopyCommits
<1>2. db' \in Tables /\ RowsMatchSeen(db') /\ db'.seen = db.seen \cup BatchKeys
  BY <1>1, CopiedFacts DEF IInv, TypeOK
<1>3. TypeOK'
  BY <1>2 DEF IInv, TypeOK, CopyCommits
<1>4. Published' = Published /\ BatchMsgs' = BatchMsgs /\ CommittedAccounted'
  BY <1>2, SameAccounts DEF CopyCommits
<1>5. CopiedAccounted'
  BY <1>2, <1>4 DEF CopiedAccounted, Accounted, BatchKeys, MsgAt, CopyCommits
<1> QED
  BY <1>2, <1>3, <1>4, <1>5 DEF IInv, IdleHasNoBatch, RowsMatchSeen, CopyCommits

\* A batch that rolls back is remembered as such.
LEMMA SwallowStep ==
  ASSUME IInv, CopyRejected \/ CopyFails PROVE IInv'
<1>1. /\ rolledBack' = rolledBack \cup BatchMsgs
      /\ pc' = "copied"
      /\ UNCHANGED <<topic, planned, committed, db, disk, forgotten>>
      /\ faults' \in Nat
  BY DEF CopyRejected, CopyFails, Swallow, CountFault, IInv, TypeOK
<1>2. TypeOK'
  BY <1>1, PublishedFacts DEF IInv, TypeOK, BatchMsgs
<1>3. BatchMsgs' = BatchMsgs /\ CommittedAccounted'
  BY <1>1, SameAccounts
<1>4. CopiedAccounted'
  BY <1>1, <1>3 DEF CopiedAccounted, Accounted
<1> QED
  BY <1>1, <1>2, <1>3, <1>4 DEF IInv, IdleHasNoBatch, RowsMatchSeen

\* Offsets are committed only once the batch is accounted for.
LEMMA CommitBatchStep ==
  ASSUME IInv, CommitBatch PROVE IInv'
<1>1. /\ pc = "copied" /\ pc' = "idle" /\ committed' = planned
      /\ UNCHANGED <<topic, planned, db, disk, rolledBack, forgotten, faults>>
  BY DEF CommitBatch
<1>2. TypeOK'
  BY <1>1 DEF IInv, TypeOK, Offsets
<1>3. Published' = Published /\ \A m \in Published : Accounted(m)' <=> Accounted(m)
  BY <1>1 DEF Published, Accounted, MsgAt
<1>4. CommittedAccounted'
  <2> SUFFICES ASSUME NEW m \in Published, m[2] <= planned[m[1]]
               PROVE  Accounted(m)
    BY <1>1, <1>3 DEF CommittedAccounted
  <2>1. m[2] \in Nat /\ committed[m[1]] \in Nat
    BY PublishedFacts DEF IInv, TypeOK, Offsets
  <2>2. CASE m[2] <= committed[m[1]]
    BY <2>2 DEF IInv, CommittedAccounted
  <2>3. CASE committed[m[1]] < m[2]
    BY <1>1, <2>3 DEF IInv, CopiedAccounted, BatchMsgs, InBatch
  <2> QED
    BY <2>1, <2>2, <2>3
<1> QED
  BY <1>1, <1>2, <1>4 DEF IInv, IdleHasNoBatch, CopiedAccounted, RowsMatchSeen

\* Steps that leave the database alone and end elsewhere than in "copied".
LEMMA OffsetsStep ==
  ASSUME IInv, Plan \/ Connect \/ ConnectFails \/ Crash \/ Restart
  PROVE  IInv'
<1>1. /\ UNCHANGED <<topic, committed, db, disk, rolledBack, forgotten>>
      /\ faults' \in Nat
      /\ pc' \in {"idle", "planned", "open", "down"}
      /\ planned' = planned \/ (planned' = Ends /\ pc' = "planned")
      /\ pc' = "idle" => planned' = committed'
  BY DEF Plan, Connect, ConnectFails, Crash, Restart, CountFault, IInv, TypeOK
<1>2. Ends \in Offsets /\ \A p \in Partition : Ends[p] = Len(topic[p])
  BY DEF Ends, Offsets, IInv, TypeOK
<1>3. /\ planned' \in Offsets
      /\ \A p \in Partition : committed[p] <= planned'[p] /\ planned'[p] <= Len(topic[p])
  <2>1. CASE planned' = planned
    BY <2>1 DEF IInv, TypeOK
  <2>2. CASE planned' = Ends
    BY <1>2, <2>2 DEF IInv, TypeOK, Offsets
  <2> QED
    BY <1>1, <2>1, <2>2
<1>4. TypeOK'
  BY <1>1, <1>3 DEF IInv, TypeOK
<1>5. CommittedAccounted'
  BY <1>1 DEF IInv, CommittedAccounted, Published, Accounted, MsgAt
<1> QED
  BY <1>1, <1>4, <1>5 DEF IInv, IdleHasNoBatch, CopiedAccounted, RowsMatchSeen

\* A rerun starts from a topic of which nothing is committed.
LEMMA RerunStep ==
  ASSUME IInv, Rerun PROVE IInv'
<1>1. NoOffsets \in Offsets /\ \A p \in Partition : NoOffsets[p] = 0
  BY DEF NoOffsets, Offsets
<1>2. TypeOK'
  BY <1>1 DEF IInv, TypeOK, Rerun, CountFault
<1>3. CommittedAccounted'
  <2>1. \A m \in Published' : m[1] \in Partition /\ m[2] \in Nat /\ m[2] >= 1
    BY DEF Published, Rerun, IInv, TypeOK
  <2> QED
    BY <1>1, <2>1 DEF CommittedAccounted, Rerun
<1> QED
  BY <1>2, <1>3 DEF IInv, IdleHasNoBatch, CopiedAccounted, RowsMatchSeen, Rerun

LEMMA FlushStep ==
  ASSUME IInv, Flush PROVE IInv'
<1>1. TypeOK' /\ RowsMatchSeen(disk)'
  BY DEF IInv, TypeOK, RowsMatchSeen, Flush
<1>2. CommittedAccounted' /\ BatchMsgs' = BatchMsgs
  BY SameAccounts DEF Flush
<1>3. CopiedAccounted'
  BY SameAccounts DEF Flush, IInv, CopiedAccounted
<1> QED
  BY <1>1, <1>2, <1>3 DEF IInv, IdleHasNoBatch, RowsMatchSeen, Flush

\* Recovery forgets whole transactions, and their keys are remembered.
LEMMA DbCrashStep ==
  ASSUME IInv, DbCrash PROVE IInv'
<1>1. /\ db' = disk /\ disk' = disk
      /\ forgotten' = forgotten \cup (db.seen \ disk.seen)
      /\ UNCHANGED <<topic, planned, committed>>
      /\ faults' \in Nat
      /\ \/ pc = "open" /\ pc' = "copied" /\ rolledBack' = rolledBack \cup BatchMsgs
         \/ pc # "open" /\ pc' = pc /\ rolledBack' = rolledBack
  BY DEF DbCrash, Recovered, Swallow, CountFault, IInv, TypeOK
<1>2. db.seen \subseteq Key /\ disk.seen \subseteq Key
  BY DEF IInv, TypeOK, Tables
<1>3. BatchMsgs \subseteq Partition \X Nat
  BY PublishedFacts DEF BatchMsgs
<1>4. TypeOK'
  BY <1>1, <1>2, <1>3 DEF IInv, TypeOK
<1>5. db.seen \subseteq db'.seen \cup forgotten'
  BY <1>1
<1>6. BatchMsgs' = BatchMsgs /\ CommittedAccounted'
      /\ (pc = "copied" => CopiedAccounted')
  BY <1>1, <1>5, SameAccounts DEF IInv
<1>7. CopiedAccounted'
  <2>1. CASE pc = "open"
    BY <1>1, <1>6, <2>1 DEF CopiedAccounted, Accounted
  <2>2. CASE pc # "open"
    BY <1>1, <1>6, <2>2 DEF CopiedAccounted
  <2> QED
    BY <2>1, <2>2
<1> QED
  BY <1>1, <1>4, <1>6, <1>7 DEF IInv, IdleHasNoBatch, RowsMatchSeen

LEMMA Inductive == IInv /\ [Next]_vars => IInv'
<1> SUFFICES ASSUME IInv, [Next]_vars PROVE IInv'
  OBVIOUS
<1>1. CASE UNCHANGED vars
  <2>1. TypeOK'
    BY <1>1 DEF vars, IInv, TypeOK
  <2>2. CommittedAccounted' /\ CopiedAccounted'
    BY <1>1 DEF vars, IInv, CommittedAccounted, CopiedAccounted, BatchMsgs,
                InBatch, Published, Accounted, MsgAt
  <2> QED
    BY <1>1, <2>1, <2>2 DEF vars, IInv, IdleHasNoBatch, RowsMatchSeen
<1> QED
  BY <1>1, PublishStep, CopyCommitsStep, SwallowStep, CommitBatchStep,
     OffsetsStep, RerunStep, FlushStep, DbCrashStep DEF Next, S3Step

LEMMA Invariance == Spec => []IInv
BY Initially, Inductive, PTL DEF Spec

-----------------------------------------------------------------------------
\* The offsets stay in order and the tables well typed.
THEOREM TypeCorrect == Spec => []TypeOK
<1>1. IInv => TypeOK
  BY DEF IInv
<1> QED
  BY <1>1, Invariance, PTL

-----------------------------------------------------------------------------
\* The safety half of StreamNeverWedges. The query takes four steps for a batch,
\* and a batch has a message: StepsLeft bounds what it has still to do.
Beyond(offsets) == {m \in Published : m[2] > offsets[m[1]]}
StepsLeft ==
    CASE pc \in {"idle", "down"} -> 4 * Cardinality(Beyond(committed))
      [] pc = "planned" -> 4 * Cardinality(Beyond(planned)) + 3
      [] pc = "open" -> 4 * Cardinality(Beyond(planned)) + 2
      [] pc = "copied" -> 4 * Cardinality(Beyond(planned)) + 1

StepsBounded == StepsLeft \in Nat /\ StepsLeft <= 4 * Cardinality(Beyond(committed))
StepsFall ==
    /\ S3Step \/ CopyFails => StepsLeft' < StepsLeft
    /\ (\E p \in Partition, m \in Msg : Publish(p, m)) => StepsLeft' = StepsLeft + 4
    /\ Restart \/ Flush \/ DbCrash => StepsLeft' <= StepsLeft

\* A batch that has begun has a message.
BatchUnderway == pc \notin {"idle", "down"} => planned # committed
WInv == IInv /\ BatchUnderway

LEMMA BeyondFacts ==
  ASSUME IInv
  PROVE  /\ IsFiniteSet(Beyond(planned)) /\ Cardinality(Beyond(planned)) \in Nat
         /\ IsFiniteSet(Beyond(committed)) /\ Cardinality(Beyond(committed)) \in Nat
         /\ Cardinality(Beyond(planned)) <= Cardinality(Beyond(committed))
         /\ planned # committed => Cardinality(Beyond(planned)) < Cardinality(Beyond(committed))
<1>1. IsFiniteSet(Published)
  BY PublishedFinite DEF IInv
<1>2. /\ planned \in Offsets /\ committed \in Offsets
      /\ \A p \in Partition : /\ planned[p] \in Nat /\ committed[p] \in Nat
                              /\ Len(topic[p]) \in Nat
                              /\ committed[p] <= planned[p] /\ planned[p] <= Len(topic[p])
  BY DEF IInv, TypeOK, Offsets
<1>3. \A m \in Published : m[1] \in Partition /\ m[2] \in Nat
  BY PublishedFacts
<1>4. Beyond(planned) \in SUBSET Beyond(committed)
  BY <1>2, <1>3 DEF Beyond
<1>5. IsFiniteSet(Beyond(committed)) /\ Cardinality(Beyond(committed)) \in Nat
  <2>1. Beyond(committed) \in SUBSET Published
    BY DEF Beyond
  <2> QED
    BY <1>1, <2>1, FS_Subset, FS_CardinalityType
<1>6. /\ IsFiniteSet(Beyond(planned)) /\ Cardinality(Beyond(planned)) \in Nat
      /\ Cardinality(Beyond(planned)) <= Cardinality(Beyond(committed))
  BY <1>4, <1>5, FS_Subset, FS_CardinalityType
<1>7. ASSUME planned # committed
      PROVE  Cardinality(Beyond(planned)) < Cardinality(Beyond(committed))
  <2>1. PICK p \in Partition : planned[p] # committed[p]
    BY <1>2, <1>7 DEF Offsets
  <2>2. planned[p] \in 1..Len(topic[p]) /\ planned[p] > committed[p]
    BY <1>2, <2>1
  <2>3. <<p, planned[p]>> \in Beyond(committed)
    BY <2>2, PublishedFacts DEF Beyond
  <2>4. <<p, planned[p]>> \notin Beyond(planned)
    BY <1>2, <2>1 DEF Beyond
  <2>5. Beyond(planned) # Beyond(committed)
    BY <2>3, <2>4
  <2>6. Cardinality(Beyond(planned)) # Cardinality(Beyond(committed))
    BY <1>4, <1>5, <2>5, FS_Subset
  <2> QED
    BY <1>5, <1>6, <2>6
<1> QED
  BY <1>5, <1>6, <1>7

\* One message more is beyond any offsets on the topic.
LEMMA OneMore ==
  ASSUME IInv, NEW p \in Partition, NEW x \in Msg, Publish(p, x), NEW o \in Offsets,
         \A q \in Partition : o[q] <= Len(topic[q]),
         NEW B, B = Beyond(o), NEW C, C = {m \in Published' : m[2] > o[m[1]]}, IsFiniteSet(B)
  PROVE  Cardinality(C) = Cardinality(B) + 1
<1>1. topic' = [topic EXCEPT ![p] = Append(@, x)] /\ topic \in [Partition -> Seq(Msg)]
  BY DEF Publish, IInv, TypeOK
<1>2. PICK l \in Nat : l = Len(topic[p]) /\ Len(topic'[p]) = l + 1
  BY <1>1
<1>3. \A q \in Partition : q # p => topic'[q] = topic[q]
  BY <1>1
<1>4. \A m : m \in Published <=> \E q \in Partition : \E i \in 1..Len(topic[q]) : m = <<q, i>>
  BY DEF Published
<1>5. \A m : m \in Published' <=> \E q \in Partition : \E i \in 1..Len(topic'[q]) : m = <<q, i>>
  BY DEF Published
<1>6. 1..(l + 1) = (1..l) \cup {l + 1}
  BY <1>2
<1>7. Published' = Published \cup {<<p, l + 1>>}
  BY <1>2, <1>3, <1>4, <1>5, <1>6
<1>8. o[p] \in Nat /\ o[p] < l + 1
  BY <1>2 DEF Offsets
<1>9. C = B \cup {<<p, l + 1>>}
  BY <1>7, <1>8 DEF Beyond
<1>10. <<p, l + 1>> \notin B
  <2>1. <<p, l + 1>> \notin Published
    BY <1>2, <1>4
  <2> QED
    BY <2>1 DEF Beyond
<1> QED
  BY <1>9, <1>10, FS_AddElement

LEMMA WriterInit == Init => WInv
BY Initially DEF Init, WInv, BatchUnderway

LEMMA WriterStep == WInv /\ [Next]_vars => WInv'
<1> SUFFICES ASSUME WInv, [Next]_vars PROVE WInv'
  OBVIOUS
<1>1. IInv'
  BY Inductive DEF WInv
<1>2. BatchUnderway'
  <2>1. CASE UNCHANGED vars
    BY <2>1 DEF vars, WInv, BatchUnderway
  <2>2. CASE \E p \in Partition, m \in Msg : Publish(p, m)
    BY <2>2 DEF Publish, WInv, BatchUnderway
  <2>3. CASE Plan
    BY <2>3 DEF Plan, BatchUnderway
  <2>4. CASE Connect \/ CopyCommits \/ CopyRejected \/ CopyFails \/ Flush
    BY <2>4 DEF Connect, CopyCommits, CopyRejected, CopyFails, Flush, Swallow, WInv, BatchUnderway
  <2>5. CASE CommitBatch \/ ConnectFails \/ Crash \/ Rerun
    BY <2>5 DEF CommitBatch, ConnectFails, Crash, Rerun, BatchUnderway
  <2>6. CASE Restart
    BY <2>6 DEF Restart, BatchUnderway
  <2>7. CASE DbCrash
    BY <2>7 DEF DbCrash, Swallow, WInv, BatchUnderway
  <2> QED
    BY <2>1, <2>2, <2>3, <2>4, <2>5, <2>6, <2>7 DEF Next, S3Step
<1> QED
  BY <1>1, <1>2 DEF WInv

LEMMA WriterInvariance == Spec => []WInv
BY WriterInit, WriterStep, PTL DEF Spec

LEMMA WriterBound ==
  ASSUME WInv
  PROVE  StepsBounded
<1>1. PICK a \in Nat, b \in Nat :
         /\ a = Cardinality(Beyond(planned)) /\ b = Cardinality(Beyond(committed))
         /\ a <= b /\ (planned # committed => a < b)
  BY BeyondFacts DEF WInv
<1>2. pc \in {"idle", "planned", "open", "copied", "down"}
  BY DEF WInv, IInv, TypeOK
<1>3. CASE pc \in {"idle", "down"}
  BY <1>1, <1>3 DEF StepsLeft, StepsBounded
<1>4. CASE pc \in {"planned", "open", "copied"}
  <2>1. StepsLeft \in {4 * a + 3, 4 * a + 2, 4 * a + 1}
    BY <1>1, <1>4 DEF StepsLeft
  <2>2. a < b
    BY <1>1, <1>4 DEF WInv, BatchUnderway
  <2>3. StepsLeft \in Nat /\ StepsLeft <= 4 * b
    BY <2>1, <2>2
  <2> QED
    BY <1>1, <2>3 DEF StepsBounded
<1> QED
  BY <1>2, <1>3, <1>4

LEMMA WriterFalls ==
  ASSUME WInv, WInv'
  PROVE  StepsFall
<1>1. PICK a \in Nat, b \in Nat :
         /\ a = Cardinality(Beyond(planned)) /\ b = Cardinality(Beyond(committed))
         /\ a <= b /\ (planned # committed => a < b)
  BY BeyondFacts DEF WInv
<1>2. IInv /\ TypeOK
  BY DEF WInv, IInv
<1>3. ASSUME S3Step \/ CopyFails PROVE StepsLeft' < StepsLeft
  <2>1. CASE Plan
    <3>1. /\ pc = "idle" /\ pc' = "planned" /\ planned' = Ends /\ UNCHANGED <<topic, committed>>
          /\ planned' # committed'
      BY <2>1 DEF Plan
    <3>2. Beyond(planned)' = {} /\ Beyond(committed)' = Beyond(committed)
      BY <3>1, PublishedFacts DEF Beyond, Published, Ends
    <3>3. StepsLeft = 4 * b /\ StepsLeft' = 4 * 0 + 3
      BY <1>1, <3>1, <3>2, FS_EmptySet DEF StepsLeft
    <3>4. b # 0
      <4>1. planned = committed
        BY <3>1 DEF WInv, IInv, IdleHasNoBatch
      <4>2. PICK p \in Partition : Len(topic[p]) # committed[p]
        BY <1>2, <3>1 DEF Ends, TypeOK, Offsets
      <4>3. Len(topic[p]) \in 1..Len(topic[p]) /\ Len(topic[p]) > committed[p]
        BY <1>2, <4>1, <4>2 DEF TypeOK, Offsets
      <4>4. <<p, Len(topic[p])>> \in Beyond(committed)
        BY <4>3, PublishedFacts DEF Beyond
      <4>5. Beyond(committed) # {} /\ IsFiniteSet(Beyond(committed))
        BY <1>2, <4>4, BeyondFacts
      <4> QED
        BY <1>1, <4>5, FS_EmptySet
    <3> QED
      BY <1>1, <3>3, <3>4
  <2>2. CASE Connect \/ CopyCommits \/ CopyRejected \/ CopyFails
    <3>1. /\ UNCHANGED <<topic, planned>>
          /\ \/ pc = "planned" /\ pc' = "open"
             \/ pc = "open" /\ pc' = "copied"
      BY <2>2 DEF Connect, CopyCommits, CopyRejected, CopyFails, Swallow
    <3>2. Beyond(planned)' = Beyond(planned)
      BY <3>1 DEF Beyond, Published
    <3>3. \/ StepsLeft = 4 * a + 3 /\ StepsLeft' = 4 * a + 2
          \/ StepsLeft = 4 * a + 2 /\ StepsLeft' = 4 * a + 1
      BY <1>1, <3>1, <3>2 DEF StepsLeft
    <3> QED
      BY <3>3
  <2>3. CASE CommitBatch
    <3>1. pc = "copied" /\ pc' = "idle" /\ UNCHANGED <<topic, planned>> /\ committed' = planned
      BY <2>3 DEF CommitBatch
    <3>2. Beyond(committed)' = Beyond(planned)
      BY <3>1 DEF Beyond, Published
    <3>3. StepsLeft = 4 * a + 1 /\ StepsLeft' = 4 * a
      BY <1>1, <3>1, <3>2 DEF StepsLeft
    <3> QED
      BY <3>3
  <2> QED
    BY <1>3, <2>1, <2>2, <2>3 DEF S3Step
<1>4. ASSUME NEW p \in Partition, NEW x \in Msg, Publish(p, x)
      PROVE  StepsLeft' = StepsLeft + 4
  <2>1. UNCHANGED <<pc, planned, committed>> /\ pc \in {"idle", "planned", "open", "copied", "down"}
    BY <1>2, <1>4 DEF Publish, TypeOK
  <2>2. /\ planned \in Offsets /\ committed \in Offsets
        /\ \A q \in Partition : planned[q] <= Len(topic[q]) /\ committed[q] <= Len(topic[q])
    BY <1>2 DEF TypeOK, Offsets
  <2>3. IsFiniteSet(Beyond(planned)) /\ IsFiniteSet(Beyond(committed))
    BY <1>2, BeyondFacts
  <2>4. /\ Beyond(planned)' = {m \in Published' : m[2] > planned[m[1]]}
        /\ Beyond(committed)' = {m \in Published' : m[2] > committed[m[1]]}
    BY <2>1 DEF Beyond
  <2>5. Cardinality(Beyond(planned)') = a + 1 /\ Cardinality(Beyond(committed)') = b + 1
    BY <1>1, <1>2, <1>4, <2>2, <2>3, <2>4, OneMore
  <2>6. \/ StepsLeft = 4 * b /\ StepsLeft' = 4 * (b + 1)
        \/ StepsLeft = 4 * a + 3 /\ StepsLeft' = 4 * (a + 1) + 3
        \/ StepsLeft = 4 * a + 2 /\ StepsLeft' = 4 * (a + 1) + 2
        \/ StepsLeft = 4 * a + 1 /\ StepsLeft' = 4 * (a + 1) + 1
    BY <1>1, <2>1, <2>5 DEF StepsLeft
  <2> QED
    BY <2>6
<1>5. ASSUME Restart PROVE StepsLeft' <= StepsLeft
  <2>1. /\ pc = "down" /\ UNCHANGED <<topic, planned, committed>>
        /\ pc' = IF planned = committed THEN "idle" ELSE "planned"
    BY <1>5 DEF Restart
  <2>2. Beyond(planned)' = Beyond(planned) /\ Beyond(committed)' = Beyond(committed)
    BY <2>1 DEF Beyond, Published
  <2>3. /\ StepsLeft = 4 * b
        /\ \/ StepsLeft' = 4 * b
           \/ planned # committed /\ StepsLeft' = 4 * a + 3
    BY <1>1, <2>1, <2>2 DEF StepsLeft
  <2> QED
    BY <1>1, <2>3
<1>6. ASSUME Flush \/ DbCrash PROVE StepsLeft' <= StepsLeft
  <2>1. /\ UNCHANGED <<topic, planned, committed>>
        /\ \/ pc' = pc
           \/ pc = "open" /\ pc' = "copied"
    BY <1>6 DEF Flush, DbCrash, Swallow
  <2>2. Beyond(planned)' = Beyond(planned) /\ Beyond(committed)' = Beyond(committed)
    BY <2>1 DEF Beyond, Published
  <2>3. CASE pc' = pc
    <3>1. StepsLeft' = StepsLeft
      BY <2>1, <2>2, <2>3 DEF StepsLeft
    <3>2. StepsLeft \in Nat
      BY WriterBound DEF StepsBounded
    <3> QED
      BY <3>1, <3>2
  <2>4. CASE pc = "open" /\ pc' = "copied"
    <3>1. StepsLeft = 4 * a + 2 /\ StepsLeft' = 4 * a + 1
      BY <1>1, <2>2, <2>4 DEF StepsLeft
    <3> QED
      BY <3>1
  <2> QED
    BY <2>1, <2>3, <2>4
<1> QED
  BY <1>3, <1>4, <1>5, <1>6 DEF StepsFall

\* For n messages that stage 3 has not committed it takes at most 4n steps. A COPY
\* that is rejected or fails, and a crash of PostgreSQL, bring the end nearer as one
\* that succeeds does: no record is tried for ever. A new message adds four, a
\* restart nothing; only a crash of stage 3 and a rerun take it back.
THEOREM StreamBounded == Spec => []StepsBounded /\ [][StepsFall]_vars
<1>1. WInv => StepsBounded
  BY WriterBound
<1>2. WInv /\ WInv' /\ [Next]_vars => [StepsFall]_vars
  BY WriterFalls
<1> QED
  BY <1>1, <1>2, WriterInvariance, PTL DEF Spec

-----------------------------------------------------------------------------
\* The lemmas of stage 2, on its variables.
S2P == INSTANCE ProcessorProofs WITH planned <- planned2, committed <- committed2, pc <- pc2

\* What stage 2 has published is on radius.clean.
CleanPublished ==
    \A j \in 1..Len(raw) : clean[j] > 0 => \E m \in Published : KeyOf[MsgAt(m)] = S2P!KeyAt(j)

\* While nothing fails, the messages that stage 3 has behind it are in the
\* database or in a batch that rolled back.
Taken(m) == KeyOf[MsgAt(m)] \in db.seen \/ m \in rolledBack
CommittedTaken == \A m \in Published : m[2] <= committed[m[1]] => Taken(m)
CopiedTaken == pc = "copied" => \A m \in BatchMsgs : Taken(m)

PInv ==
    /\ S2P!EInv
    /\ IInv
    /\ CleanPublished
    /\ spotless => S2P!Faultless /\ CommittedTaken /\ CopiedTaken

-----------------------------------------------------------------------------
\* S2! and S2P! are two instances of the same definitions.
LEMMA Assumed == S2P!RecAssumption /\ S2P!BoundAssumption
BY StageAssumption DEF S2!RecAssumption, S2!BoundAssumption,
   S2P!RecAssumption, S2P!BoundAssumption

LEMMA SameReads ==
  /\ S2!Offset = S2P!Offset
  /\ \A i : S2!KeyAt(i) = S2P!KeyAt(i)
  /\ \A i : S2!Invalidated(i) <=> S2P!Invalidated(i)
  /\ \A r : S2!IsLate(r) <=> S2P!IsLate(r)
BY DEF S2!Offset, S2P!Offset, S2!KeyAt, S2P!KeyAt, S2!RowOf, S2P!RowOf,
   S2!Invalidated, S2P!Invalidated, S2!IsLate, S2P!IsLate

LEMMA SameInit == S2!Init => S2P!Init
BY DEF S2!Init, S2P!Init, S2!None, S2P!None, S2!Offset, S2P!Offset,
   S2!Signal, S2P!Signal, S2!AllKeys, S2P!AllKeys, S2!NoWork, S2P!NoWork

LEMMA SameResolve == S2!Resolve => S2P!Resolve
BY Zenon DEF S2!Resolve, S2P!Resolve, S2!Kept, S2P!Kept, S2!Sorted, S2P!Sorted,
   S2!Cardinality, S2P!Cardinality, S2!KeyAt, S2P!KeyAt, S2!RowOf, S2P!RowOf,
   S2!tables, S2P!tables, S2!history, S2P!history,
   S2!FlaggedB, S2P!FlaggedB, S2!Clean, S2P!Clean, S2!Rows, S2P!Rows,
   S2!ConflictA, S2P!ConflictA, S2!ConflictB, S2P!ConflictB,
   S2!ConflictC, S2P!ConflictC, S2!ConflictD, S2P!ConflictD,
   S2!SameSession, S2P!SameSession, S2!SameIdentity, S2P!SameIdentity,
   S2!IsFirstOfSession, S2P!IsFirstOfSession, S2!Scanned, S2P!Scanned,
   S2!Closes, S2P!Closes, S2!OpenAt, S2P!OpenAt, S2!PreviousOf, S2P!PreviousOf,
   S2!RowsOf, S2P!RowsOf, S2!OneSubscriber, S2P!OneSubscriber

LEMMA SameRaises == S2!ResolveRaises => S2P!ResolveRaises
BY Zenon DEF S2!ResolveRaises, S2P!ResolveRaises, S2!Kept, S2P!Kept, S2!Sorted, S2P!Sorted,
   S2!Cardinality, S2P!Cardinality, S2!KeyAt, S2P!KeyAt, S2!RowOf, S2P!RowOf,
   S2!RowsOf, S2P!RowsOf, S2!OneSubscriber, S2P!OneSubscriber, S2!Rows, S2P!Rows,
   S2!NoWork, S2P!NoWork, S2!ForgetAll, S2P!ForgetAll, S2!Forget, S2P!Forget,
   S2!AddRows, S2P!AddRows, S2!tables, S2P!tables

\* The steps of the callback.
LEMMA SameStep ==
  /\ S2!Plan => S2P!Plan
  /\ S2!Validate => S2P!Validate
  /\ S2!LogInvalid => S2P!LogInvalid
  /\ S2!Resolve => S2P!Resolve
  /\ S2!LogConflicts => S2P!LogConflicts
  /\ S2!RecordSwaps => S2P!RecordSwaps
  /\ \A i : S2!PublishClean(i) => S2P!PublishClean(i)
  /\ S2!CommitBatch => S2P!CommitBatch
  /\ S2!ResolveRaises => S2P!ResolveRaises
<1>1. S2!Plan => S2P!Plan
  BY DEF S2!Plan, S2P!Plan, S2!tables, S2P!tables, S2!history, S2P!history
<1>2. S2!Validate => S2P!Validate
  BY DEF S2!Validate, S2P!Validate, S2!Collect, S2P!Collect, S2!Batch, S2P!Batch,
     S2!IsLate, S2P!IsLate, S2!NoWork, S2P!NoWork,
     S2!tables, S2P!tables, S2!history, S2P!history
<1>3. S2!LogInvalid => S2P!LogInvalid
  BY DEF S2!LogInvalid, S2P!LogInvalid, S2!AddRows, S2P!AddRows,
     S2!AfterInvalidLog, S2P!AfterInvalidLog, S2!history, S2P!history
<1>4. S2!LogConflicts => S2P!LogConflicts
  BY DEF S2!LogConflicts, S2P!LogConflicts, S2!AddRows, S2P!AddRows,
     S2!history, S2P!history
<1>5. S2!RecordSwaps => S2P!RecordSwaps
  BY DEF S2!RecordSwaps, S2P!RecordSwaps, S2!Record, S2P!Record, S2!AddRows, S2P!AddRows,
     S2!AfterSwaps, S2P!AfterSwaps, S2!history, S2P!history
<1>6. \A i : S2!PublishClean(i) => S2P!PublishClean(i)
  BY DEF S2!PublishClean, S2P!PublishClean, S2!AddRows, S2P!AddRows, S2!history, S2P!history
<1>7. S2!CommitBatch => S2P!CommitBatch
  BY DEF S2!CommitBatch, S2P!CommitBatch, S2!NoWork, S2P!NoWork,
     S2!tables, S2P!tables, S2!history, S2P!history
<1> QED
  BY <1>1, <1>2, <1>3, <1>4, <1>5, <1>6, <1>7, SameResolve, SameRaises

\* The other steps of stage 2.
LEMMA SameOther ==
  /\ S2!Restart => S2P!Restart
  /\ \A r : S2!Publish(r) => S2P!Publish(r)
  /\ S2!ValidationFails => S2P!ValidationFails
  /\ S2!LogInvalidFails => S2P!LogInvalidFails
  /\ S2!LogConflictsFails => S2P!LogConflictsFails
  /\ S2!RecordSwapsFails => S2P!RecordSwapsFails
  /\ S2!Crash => S2P!Crash
<1>1. S2!Restart => S2P!Restart
  BY DEF S2!Restart, S2P!Restart, S2!Ended, S2P!Ended, S2!tables, S2P!tables,
     S2!history, S2P!history
<1>2. \A r : S2!Publish(r) => S2P!Publish(r)
  BY DEF S2!Publish, S2P!Publish, S2!spark, S2P!spark,
     S2!tables, S2P!tables, S2!history, S2P!history
<1>3. S2!ValidationFails => S2P!ValidationFails
  BY Zenon DEF S2!ValidationFails, S2P!ValidationFails, S2!CountFault, S2P!CountFault,
     S2!Collect, S2P!Collect, S2!Batch, S2P!Batch, S2!IsLate, S2P!IsLate,
     S2!NoWork, S2P!NoWork, S2!tables, S2P!tables, S2!history, S2P!history
<1>4. S2!LogInvalidFails => S2P!LogInvalidFails
  BY DEF S2!LogInvalidFails, S2P!LogInvalidFails, S2!CountFault, S2P!CountFault,
     S2!AfterInvalidLog, S2P!AfterInvalidLog, S2!tables, S2P!tables
<1>5. S2!LogConflictsFails => S2P!LogConflictsFails
  BY DEF S2!LogConflictsFails, S2P!LogConflictsFails, S2!CountFault, S2P!CountFault,
     S2!tables, S2P!tables
<1>6. S2!RecordSwapsFails => S2P!RecordSwapsFails
  BY Zenon DEF S2!RecordSwapsFails, S2P!RecordSwapsFails, S2!CountFault, S2P!CountFault,
     S2!Record, S2P!Record, S2!AddRows, S2P!AddRows, S2!AfterSwaps, S2P!AfterSwaps,
     S2!history, S2P!history
<1>7. S2!Crash => S2P!Crash
  BY DEF S2!Crash, S2P!Crash, S2!Ended, S2P!Ended, S2!CountFault, S2P!CountFault,
     S2!NoWork, S2P!NoWork,
     S2!ForgetAll, S2P!ForgetAll, S2!Forget, S2P!Forget, S2!AddRows, S2P!AddRows,
     S2!tables, S2P!tables
<1> QED
  BY <1>1, <1>2, <1>3, <1>4, <1>5, <1>6, <1>7

-----------------------------------------------------------------------------
\* Every message of stage 2 keeps its place, and so does what is published of it.
LEMMA CleanKept ==
  ASSUME PInv, TypeOK',
         \A p \in Partition : /\ Len(topic[p]) <= Len(topic'[p])
                              /\ \A i \in 1..Len(topic[p]) : topic'[p][i] = topic[p][i],
         Len(raw) <= Len(raw'), \A i \in 1..Len(raw) : raw'[i] = raw[i],
         \A j \in 1..Len(raw') : clean'[j] > 0 =>
            \/ j \in 1..Len(raw) /\ clean[j] > 0
            \/ \E m \in Published' : KeyOf[MsgAt(m)'] = S2P!KeyAt(j)'
  PROVE  CleanPublished'
<1>1. \A m \in Published : m \in Published' /\ MsgAt(m)' = MsgAt(m)
  <2> SUFFICES ASSUME NEW m \in Published PROVE m \in Published' /\ MsgAt(m)' = MsgAt(m)
    OBVIOUS
  <2>1. m[1] \in Partition /\ m[2] \in 1..Len(topic[m[1]]) /\ m = <<m[1], m[2]>>
    BY DEF Published
  <2>2. Len(topic[m[1]]) \in Nat /\ Len(topic'[m[1]]) \in Nat
    BY <2>1 DEF PInv, IInv, TypeOK
  <2>3. m[2] \in 1..Len(topic'[m[1]])
    BY <2>1, <2>2
  <2> QED
    BY <2>1, <2>3 DEF Published, MsgAt
<1>2. \A j \in 1..Len(raw) : S2P!KeyAt(j)' = S2P!KeyAt(j)
  BY DEF S2P!KeyAt, S2P!RowOf
<1> SUFFICES ASSUME NEW j \in 1..Len(raw'), clean'[j] > 0
             PROVE  \E m \in Published' : KeyOf[MsgAt(m)'] = S2P!KeyAt(j)'
  BY DEF CleanPublished
<1>3. CASE j \in 1..Len(raw) /\ clean[j] > 0
  <2>1. PICK m \in Published : KeyOf[MsgAt(m)] = S2P!KeyAt(j)
    BY <1>3 DEF PInv, CleanPublished
  <2> QED
    BY <1>1, <1>2, <1>3, <2>1
<1> QED
  BY <1>3

\* A step of stage 2 that publishes nothing.
LEMMA Stage2Step ==
  ASSUME PInv, S2P!Next, clean' = clean, UNCHANGED <<own3, topic>>,
         \/ spotless' = FALSE
         \/ /\ spotless' = spotless
            /\ S2P!S2Step \/ S2P!Restart \/ \E r \in Rec : S2P!Publish(r)
  PROVE  PInv'
<1> USE Assumed
<1>1. S2P!EInv'
  BY S2P!EffectsInductive DEF PInv
<1>2. faults' \in Nat
  BY <1>1 DEF S2P!EInv, S2P!IInv, S2P!TypeOK
<1>3. /\ Published' = Published /\ BatchMsgs' = BatchMsgs
      /\ \A m : MsgAt(m)' = MsgAt(m)
      /\ \A m : (Accounted(m)' <=> Accounted(m)) /\ (Taken(m)' <=> Taken(m))
  BY DEF own3, Published, BatchMsgs, InBatch, MsgAt, Accounted, Taken
<1>4. TypeOK'
  BY <1>2 DEF PInv, IInv, TypeOK, own3
<1>5. IInv'
  BY <1>3, <1>4 DEF PInv, IInv, RowsMatchSeen, IdleHasNoBatch, CopiedAccounted,
     CommittedAccounted, own3
<1>6. Len(raw) <= Len(raw') /\ \A i \in 1..Len(raw) : raw'[i] = raw[i]
  <2>1. raw \in Seq(Rec)
    BY DEF PInv, S2P!EInv, S2P!IInv, S2P!TypeOK
  <2>2. CASE raw' = raw
    BY <2>1, <2>2
  <2>3. CASE \E r \in Rec : raw' = Append(raw, r)
    BY <2>1, <2>3
  <2>4. raw' = raw \/ \E r \in Rec : raw' = Append(raw, r)
    BY DEF S2P!Next, S2P!S2Step, S2P!Advance, S2P!ResolveRaises, S2P!Publish, S2P!Plan, S2P!Validate, S2P!Collect,
       S2P!LogInvalid, S2P!Resolve, S2P!LogConflicts, S2P!RecordSwaps, S2P!Record,
       S2P!PublishClean, S2P!CommitBatch, S2P!ValidationFails, S2P!LogInvalidFails,
       S2P!LogConflictsFails, S2P!RecordSwapsFails, S2P!Crash, S2P!Restart, S2P!Expire
  <2> QED
    BY <2>2, <2>3, <2>4
<1>7. CleanPublished'
  <2>1. \A j \in 1..Len(raw') : clean'[j] > 0 => j \in 1..Len(raw) /\ clean[j] > 0
    <3> SUFFICES ASSUME NEW j \in 1..Len(raw'), clean[j] > 0 PROVE j \in 1..Len(raw)
      OBVIOUS
    <3>1. /\ raw' \in Seq(Rec) /\ Len(raw') <= MaxRaw /\ raw \in Seq(Rec) /\ MaxRaw \in Nat
      BY <1>1 DEF PInv, S2P!EInv, S2P!IInv, S2P!TypeOK, S2P!BoundAssumption
    <3>2. j \in S2P!Offset
      BY <3>1 DEF S2P!Offset
    <3>3. j > Len(raw) => clean[j] = 0
      BY <3>2 DEF PInv, S2P!EInv, S2P!NoneBeyond
    <3> QED
      BY <3>1, <3>3
  <2>2. \A p \in Partition : /\ Len(topic[p]) <= Len(topic'[p])
                             /\ \A i \in 1..Len(topic[p]) : topic'[p][i] = topic[p][i]
    <3>1. \A p \in Partition : topic[p] \in Seq(Msg)
      BY DEF PInv, IInv, TypeOK
    <3>2. topic' = topic
      OBVIOUS
    <3> QED
      BY <3>1, <3>2
  <2> QED
    BY <1>4, <1>6, <2>1, <2>2, CleanKept
<1>8. ASSUME spotless' PROVE S2P!Faultless' /\ CommittedTaken' /\ CopiedTaken'
  <2>1. /\ spotless
        /\ S2P!S2Step \/ S2P!Restart \/ \E r \in Rec : S2P!Publish(r)
    BY <1>8
  <2>2. S2P!Faultless'
    BY <1>1, <2>1, S2P!FaultlessStep DEF PInv
  <2>3. CommittedTaken' /\ CopiedTaken'
    BY <1>3, <2>1 DEF PInv, CommittedTaken, CopiedTaken, own3
  <2> QED
    BY <2>2, <2>3
<1> QED
  BY <1>1, <1>5, <1>7, <1>8 DEF PInv

-----------------------------------------------------------------------------
\* What stage 3 takes while nothing fails.
LEMMA TakenStep ==
  ASSUME IInv, CommittedTaken, CopiedTaken, S3Step \/ Restart \/ Flush
  PROVE  CommittedTaken' /\ CopiedTaken'
<1>1. topic' = topic /\ Published' = Published /\ \A m : MsgAt(m)' = MsgAt(m)
  BY DEF S3Step, Plan, Connect, CopyCommits, CopyRejected, CommitBatch, Restart, Flush,
     Published, MsgAt
<1>2. db.seen \subseteq db'.seen /\ rolledBack \subseteq rolledBack'
  BY DEF S3Step, Plan, Connect, CopyCommits, Copied, CopyRejected, Swallow, CommitBatch,
     Restart, Flush
<1>3. \A m : Taken(m) => Taken(m)'
  BY <1>1, <1>2 DEF Taken
<1>4. CASE CommitBatch
  <2>1. pc = "copied" /\ pc' = "idle" /\ committed' = planned
    BY <1>4 DEF CommitBatch
  <2>2. ASSUME NEW m \in Published, m[2] <= planned[m[1]] PROVE Taken(m)
    <3>1. m[2] \in Nat /\ committed[m[1]] \in Nat
      BY PublishedFacts DEF IInv, TypeOK, Offsets
    <3>2. CASE m[2] <= committed[m[1]]
      BY <3>2 DEF CommittedTaken
    <3>3. CASE committed[m[1]] < m[2]
      BY <2>1, <2>2, <3>3 DEF CopiedTaken, BatchMsgs, InBatch
    <3> QED
      BY <3>1, <3>2, <3>3
  <2> QED
    BY <1>1, <1>3, <2>1, <2>2 DEF CommittedTaken, CopiedTaken
<1>5. CASE CopyCommits \/ CopyRejected
  <2>1. UNCHANGED <<planned, committed>>
    BY <1>5 DEF CopyCommits, CopyRejected
  <2>2. BatchMsgs' = BatchMsgs
    BY <1>1, <2>1 DEF BatchMsgs, InBatch
  <2>3. \A m \in BatchMsgs : Taken(m)'
    <3>1. CASE CopyCommits
      BY <1>1, <3>1 DEF CopyCommits, Copied, BatchKeys, Taken
    <3>2. CASE CopyRejected
      BY <3>2 DEF CopyRejected, Swallow, Taken
    <3> QED
      BY <1>5, <3>1, <3>2
  <2> QED
    BY <1>1, <1>3, <2>1, <2>2, <2>3 DEF CommittedTaken, CopiedTaken
<1>6. CASE Plan \/ Connect \/ Restart
  <2>1. committed' = committed /\ pc' # "copied"
    BY <1>6 DEF Plan, Connect, Restart
  <2> QED
    BY <1>1, <1>3, <2>1 DEF CommittedTaken, CopiedTaken
<1>7. CASE Flush
  <2>1. UNCHANGED <<planned, committed, pc>>
    BY <1>7 DEF Flush
  <2>2. BatchMsgs' = BatchMsgs
    BY <1>1, <2>1 DEF BatchMsgs, InBatch
  <2> QED
    BY <1>1, <1>3, <2>1, <2>2 DEF CommittedTaken, CopiedTaken, BatchMsgs
<1> QED
  BY <1>4, <1>5, <1>6, <1>7 DEF S3Step

LEMMA Stage3Step ==
  ASSUME PInv, UNCHANGED own2,
         \/ (S3Step \/ Restart \/ Flush) /\ spotless' = spotless
         \/ (ConnectFails \/ CopyFails \/ Crash \/ DbCrash) /\ spotless' = FALSE
  PROVE  PInv'
<1>1. IInv'
  BY CopyCommitsStep, SwallowStep, CommitBatchStep, OffsetsStep, FlushStep, DbCrashStep
     DEF PInv, S3Step
<1>2. faults' \in Nat
  BY <1>1 DEF IInv, TypeOK
<1>3. S2P!EInv'
  BY <1>2, S2P!FaultsOnly, Assumed DEF PInv, own2
<1>4. topic' = topic
  BY DEF S3Step, Plan, Connect, CopyCommits, CopyRejected, CommitBatch, Restart, Flush,
     ConnectFails, CopyFails, Crash, DbCrash
<1>5. CleanPublished'
  BY <1>4 DEF PInv, own2, CleanPublished, Published, MsgAt, S2P!KeyAt, S2P!RowOf
<1>6. ASSUME spotless' PROVE S2P!Faultless' /\ CommittedTaken' /\ CopiedTaken'
  <2>1. spotless /\ (S3Step \/ Restart \/ Flush)
    BY <1>6
  <2>2. S2P!Faultless'
    BY <2>1, S2P!FaultlessSame, Assumed DEF PInv, own2
  <2>3. CommittedTaken' /\ CopiedTaken'
    BY <2>1, TakenStep DEF PInv
  <2> QED
    BY <2>2, <2>3
<1> QED
  BY <1>1, <1>3, <1>5, <1>6 DEF PInv

\* What stage 2 publishes is a message for stage 3 which no offset has reached.
LEMMA PublishBothStep ==
  ASSUME PInv, NEW i \in S2P!Offset, S2P!PublishClean(i),
         NEW p \in Partition, Publish(p, raw[i]), spotless' = spotless
  PROVE  PInv'
<1>1. S2P!EInv'
  BY S2P!EffectsInductive, Assumed DEF PInv, S2P!Next, S2P!S2Step, S2P!Advance
<1>2. /\ raw \in Seq(Rec) /\ i \in 1..Len(raw) /\ raw' = raw
      /\ clean' = S2P!AddRows(clean, {i}) /\ clean \in [S2P!Offset -> Nat]
  <2>1. i \in work.clean /\ raw' = raw /\ clean' = S2P!AddRows(clean, {i})
    BY DEF S2P!PublishClean
  <2>2. /\ raw \in Seq(Rec) /\ planned2 \in Nat /\ planned2 <= Len(raw)
        /\ clean \in [S2P!Offset -> Nat]
    BY DEF PInv, S2P!EInv, S2P!IInv, S2P!TypeOK
  <2>3. i \in 1..planned2
    BY <2>1 DEF PInv, S2P!EInv, S2P!Lists, S2P!ListsWithin
  <2> QED
    BY <2>1, <2>2, <2>3
<1>3. raw[i] \in Msg /\ KeyOf[raw[i]] = S2P!KeyAt(i)
  BY <1>2, KeyAssumption DEF S2P!KeyAt, S2P!RowOf
<1>4. IInv'
  BY <1>3, PublishStep DEF PInv
<1>5. /\ \A q \in Partition :
            /\ Len(topic[q]) \in Nat /\ Len(topic'[q]) \in Nat
            /\ Len(topic[q]) <= Len(topic'[q])
            /\ \A n \in 1..Len(topic[q]) : topic'[q][n] = topic[q][n]
      /\ Len(topic'[p]) >= 1 /\ topic'[p][Len(topic'[p])] = raw[i]
  BY <1>3 DEF PInv, IInv, TypeOK, Publish
<1>6. CleanPublished'
  <2>1. \A j \in 1..Len(raw') : clean'[j] > 0 => clean[j] > 0 \/ j = i
    <3>1. 1..Len(raw) \subseteq S2P!Offset
      BY <1>2, Assumed DEF PInv, S2P!EInv, S2P!IInv, S2P!TypeOK, S2P!BoundAssumption, S2P!Offset
    <3>2. \A j \in S2P!Offset : j # i => clean'[j] = clean[j] + 0
      BY <1>2 DEF S2P!AddRows
    <3>3. \A j \in S2P!Offset : clean[j] \in Nat
      BY <1>2
    <3>4. \A j \in S2P!Offset : j # i => clean'[j] = clean[j]
      BY <3>2, <3>3
    <3> QED
      BY <1>2, <3>1, <3>4
  <2>2. \E m \in Published' : KeyOf[MsgAt(m)'] = S2P!KeyAt(i)'
    <3>0. PICK n \in Nat : n = Len(topic'[p])
      BY <1>5
    <3>1. <<p, n>> \in Published'
      <4>1. n \in 1..Len(topic'[p])
        BY <1>5, <3>0
      <4>2. <<p, n>> \in {p} \X (1..Len(topic'[p]))
        BY <4>1
      <4> QED
        BY <4>2 DEF Published
    <3>2. MsgAt(<<p, n>>)' = raw[i]
      BY <1>5, <3>0 DEF MsgAt
    <3>3. S2P!KeyAt(i)' = S2P!KeyAt(i)
      BY <1>2 DEF S2P!KeyAt, S2P!RowOf
    <3> QED
      BY <1>3, <3>1, <3>2, <3>3
  <2>3. Len(raw) <= Len(raw') /\ \A j \in 1..Len(raw) : raw'[j] = raw[j]
    BY <1>2
  <2>4. TypeOK'
    BY <1>4 DEF IInv
  <2> QED
    BY <1>2, <1>5, <2>1, <2>2, <2>3, <2>4, CleanKept
<1>7. ASSUME spotless' PROVE S2P!Faultless' /\ CommittedTaken' /\ CopiedTaken'
  <2>1. S2P!Faultless'
    BY <1>1, <1>7, S2P!FaultlessStep, Assumed DEF PInv, S2P!S2Step, S2P!Advance
  <2>2. /\ planned \in Offsets /\ committed \in Offsets
        /\ \A q \in Partition : /\ planned[q] \in Nat /\ committed[q] \in Nat
                                /\ committed[q] <= planned[q]
                                /\ planned[q] <= Len(topic[q])
    BY DEF PInv, IInv, TypeOK, Offsets
  <2>3. UNCHANGED <<planned, committed, pc, db, rolledBack>>
    BY DEF Publish
  <2>4. ASSUME NEW m \in Published', m[2] <= planned[m[1]]
        PROVE  m \in Published /\ MsgAt(m)' = MsgAt(m)
    <3>1. m[1] \in Partition /\ m[2] \in 1..Len(topic'[m[1]]) /\ m = <<m[1], m[2]>>
      BY DEF Published
    <3>2. m[2] \in 1..Len(topic[m[1]])
      BY <1>5, <2>2, <2>4, <3>1
    <3> QED
      BY <1>5, <3>1, <3>2 DEF Published, MsgAt
  <2>5. \A m \in Published' : m[2] <= planned[m[1]] => m \in Published /\ (Taken(m) => Taken(m)')
    BY <2>3, <2>4 DEF Taken
  <2>6. CopiedTaken'
    BY <1>7, <2>3, <2>5 DEF PInv, CopiedTaken, BatchMsgs, InBatch
  <2>7. CommittedTaken'
    <3>1. \A m \in Published' : m[1] \in Partition /\ m[2] \in Nat
      BY <1>5 DEF Published
    <3> QED
      BY <1>7, <2>2, <2>3, <2>5, <3>1 DEF PInv, CommittedTaken
  <2> QED
    BY <2>1, <2>6, <2>7
<1> QED
  BY <1>1, <1>4, <1>6, <1>7 DEF PInv

\* A rerun starts both stages from empty checkpoints: nothing is committed yet.
LEMMA RerunBothStep ==
  ASSUME PInv, RerunBoth PROVE PInv'
<1>1. /\ committed' = NoOffsets /\ planned' = NoOffsets /\ rolledBack' = {} /\ pc' = "idle"
      /\ UNCHANGED <<topic, db, disk, forgotten, raw, clean>>
      /\ faults' \in Nat
  BY DEF RerunBoth, Rerun, CountFault, PInv, IInv, TypeOK
<1>2. /\ committed2' = 0 /\ planned2' = 0 /\ pc2' = "idle" /\ work' = S2P!NoWork
      /\ S2P!Forget(dedup) /\ dedup' = {}
      /\ UNCHANGED <<raw, invalidLog, conflictLog, swapEvent, clean, lostInvalid, lostConflict>>
  BY DEF RerunBoth, Checkpoint2Removed, S2!NoWork, S2P!NoWork, S2!ForgetAll, S2!Forget,
     S2P!Forget, S2!AddRows, S2P!AddRows
<1>3. S2P!EInv'
  BY <1>1, <1>2, S2P!StartOver, Assumed DEF PInv
<1>4. NoOffsets \in Offsets /\ \A p \in Partition : NoOffsets[p] = 0
  BY DEF NoOffsets, Offsets
<1>5. TypeOK'
  BY <1>1, <1>4 DEF PInv, IInv, TypeOK
<1>6. \A m \in Published' : m[1] \in Partition /\ m[2] \in Nat /\ m[2] >= 1
  BY <1>1 DEF Published, PInv, IInv, TypeOK
<1>7. CommittedAccounted' /\ CommittedTaken' /\ CopiedTaken'
  BY <1>1, <1>4, <1>6 DEF CommittedAccounted, CommittedTaken, CopiedTaken
<1>8. IInv'
  BY <1>1, <1>5, <1>7 DEF PInv, IInv, IdleHasNoBatch, CopiedAccounted, RowsMatchSeen
<1>9. CleanPublished'
  BY <1>1 DEF PInv, CleanPublished, Published, MsgAt, S2P!KeyAt, S2P!RowOf
<1>10. S2P!Faultless'
  BY <1>2, S2P!FaultlessAnew, Assumed
<1> QED
  BY <1>3, <1>7, <1>8, <1>9, <1>10 DEF PInv

LEMMA PipelineInitially == PipelineInit => PInv
<1> SUFFICES ASSUME PipelineInit PROVE PInv
  OBVIOUS
<1>1. S2P!EInv
  BY SameInit, S2P!EffectsInitially, Assumed DEF PipelineInit
<1>2. IInv
  BY Initially DEF PipelineInit
<1>3. CleanPublished
  <2>1. Len(raw) = 0
    BY DEF PipelineInit, S2!Init
  <2> QED
    BY <2>1 DEF CleanPublished
<1> QED
  BY <1>1, <1>2, <1>3 DEF PInv, PipelineInit

\* Neither stage sees a step that changes nothing.
LEMMA PipelineStutter ==
  ASSUME PInv, UNCHANGED all PROVE PInv'
<1>1. S2P!EInv'
  BY S2P!FaultsOnly, Assumed DEF PInv, all, own2, S2P!EInv, S2P!IInv, S2P!TypeOK
<1>2. IInv'
  BY Inductive DEF PInv, all, own3, vars
<1>3. CleanPublished'
  BY DEF PInv, all, own2, CleanPublished, Published, MsgAt, S2P!KeyAt, S2P!RowOf
<1>4. spotless => S2P!Faultless'
  BY S2P!FaultlessSame, Assumed DEF PInv, all, own2
<1>5. spotless => CommittedTaken' /\ CopiedTaken'
  BY DEF PInv, all, own3, CommittedTaken, CopiedTaken, Taken, Published, BatchMsgs, InBatch,
     MsgAt
<1> QED
  BY <1>1, <1>2, <1>3, <1>4, <1>5 DEF PInv, all

LEMMA PipelineInductive == PInv /\ [PipelineNext]_all => PInv'
<1> SUFFICES ASSUME PInv, [PipelineNext]_all PROVE PInv'
  OBVIOUS
<1>1. CASE Quiet2
  <2>1. S2P!S2Step
    BY <1>1, SameStep DEF Quiet2, S2P!S2Step, S2P!Advance
  <2>2. clean' = clean
    BY <1>1 DEF Quiet2, S2!Plan, S2!Validate, S2!Collect, S2!LogInvalid,
       S2!Resolve, S2!LogConflicts, S2!RecordSwaps, S2!Record, S2!CommitBatch,
       S2!ResolveRaises, S2!tables
  <2> QED
    BY <1>1, <2>1, <2>2, Stage2Step DEF Quiet2, S2P!Next
<1>2. CASE \E i \in S2!Offset : PublishBoth(i)
  BY <1>2, SameReads, SameStep, PublishBothStep DEF PublishBoth
<1>3. CASE Stage3
  BY <1>3, Stage3Step DEF Stage3
<1>4. CASE Around
  <2>1. CASE /\ S2!Restart \/ \E r \in Rec : S2!Publish(r)
             /\ UNCHANGED <<own3, topic, spotless>>
    <3>1. (S2P!Restart \/ \E r \in Rec : S2P!Publish(r)) /\ clean' = clean
      BY <2>1, SameOther DEF S2!Restart, S2!Publish, S2!tables
    <3> QED
      BY <2>1, <3>1, Stage2Step DEF S2P!Next
  <2>2. CASE (Restart \/ Flush) /\ UNCHANGED own2 /\ spotless' = spotless
    BY <2>2, Stage3Step
  <2> QED
    BY <1>4, <2>1, <2>2 DEF Around
<1>5. CASE Fails
  <2>1. CASE /\ \/ S2!ValidationFails \/ S2!LogInvalidFails \/ S2!LogConflictsFails
                \/ S2!RecordSwapsFails \/ S2!Crash
             /\ UNCHANGED <<own3, topic>>
    <3>1. S2P!Next /\ clean' = clean
      BY <2>1, SameOther DEF S2P!Next, S2!ValidationFails, S2!Collect, S2!LogInvalidFails,
         S2!LogConflictsFails, S2!RecordSwapsFails, S2!Record, S2!Crash, S2!tables
    <3> QED
      BY <1>5, <2>1, <3>1, Stage2Step DEF Fails
  <2>2. CASE (ConnectFails \/ CopyFails \/ Crash \/ DbCrash) /\ UNCHANGED own2
    BY <1>5, <2>2, Stage3Step DEF Fails
  <2> QED
    BY <1>5, <2>1, <2>2 DEF Fails
<1>6. CASE RerunBoth
  BY <1>6, RerunBothStep
<1>7. CASE UNCHANGED all
  BY <1>7, PipelineStutter
<1> QED
  BY <1>1, <1>2, <1>3, <1>4, <1>5, <1>6, <1>7 DEF PipelineNext, Stage2

LEMMA PipelineInvariance == PipelineSpec => []PInv
BY PipelineInitially, PipelineInductive, PTL DEF PipelineSpec

-----------------------------------------------------------------------------
\* radius_sessions and dedup_seen_keys agree whatever is replayed, forgotten or run
\* again: of whatever comes to radius.clean, and of what stage 2 publishes.
THEOREM TablesAgree == (Spec => []SeenMatchesSessions) /\ (PipelineSpec => []SeenMatchesSessions)
<1>1. IInv => SeenMatchesSessions
  BY DEF IInv, RowsMatchSeen, SeenMatchesSessions
<1>2. PInv => SeenMatchesSessions
  BY <1>1 DEF PInv
<1> QED
  BY <1>1, <1>2, Invariance, PipelineInvariance, PTL

\* S3 never commits offsets past a message that is missing without a reason.
THEOREM NothingSkipped == (Spec => []CommittedAccounted) /\ (PipelineSpec => []CommittedAccounted)
<1>1. IInv => CommittedAccounted
  BY DEF IInv
<1>2. PInv => CommittedAccounted
  BY <1>1 DEF PInv
<1> QED
  BY <1>1, <1>2, Invariance, PipelineInvariance, PTL

\* From end to end no record gets lost without a trace, whatever crashes of
\* either stage or of PostgreSQL, failed writes and reruns come between.
THEOREM EveryRecordTraced == PipelineSpec => []EndToEnd
<1>1. ASSUME PInv PROVE EndToEnd
  <2> SUFFICES ASSUME NEW i \in 1..committed2, ~S2!Invalidated(i)
               PROVE  \/ \E j \in OfKey(i) : conflictLog[j] > 0 \/ j \in lostConflict
                      \/ Stored(i) \/ OnItsWay(i) \/ S2!KeyAt(i) \in forgotten
    BY DEF EndToEnd
  <2>1. PICK j \in 1..committed2 : S2P!KeyAt(j) = S2P!KeyAt(i) /\ S2P!Resolved(j)
    BY <1>1, SameReads DEF PInv, S2P!EInv, S2P!IInv, S2P!NothingLost
  <2>2. j \in OfKey(i) /\ j \in 1..Len(raw)
    BY <1>1, <2>1, SameReads DEF PInv, S2P!EInv, S2P!IInv, S2P!TypeOK, OfKey
  <2>3. CASE conflictLog[j] > 0 \/ j \in lostConflict
    BY <2>2, <2>3
  <2>4. CASE clean[j] > 0
    <3>1. PICK m \in Published : KeyOf[MsgAt(m)] = S2!KeyAt(i)
      BY <1>1, <2>1, <2>2, <2>4, SameReads DEF PInv, CleanPublished
    <3>2. m[2] \in Nat /\ committed[m[1]] \in Nat
      BY <1>1, PublishedFacts DEF PInv, IInv, TypeOK, Offsets
    <3>3. CASE m[2] > committed[m[1]]
      BY <3>1, <3>3 DEF OnItsWay
    <3>4. CASE m[2] <= committed[m[1]]
      <4>1. Accounted(m)
        BY <1>1, <3>4 DEF PInv, IInv, CommittedAccounted
      <4> QED
        BY <3>1, <4>1 DEF Accounted, Stored, OnItsWay
    <3> QED
      BY <3>2, <3>3, <3>4
  <2> QED
    BY <2>1, <2>3, <2>4 DEF S2P!Resolved
<1> QED
  BY <1>1, PipelineInvariance, PTL

\* Once a rerun has drained both topics without a failure, every valid record
\* is in the database, except for conflicts and for batches in which PostgreSQL
\* rejects a record.
THEOREM RerunsRepair == PipelineSpec => []RerunRepairs
<1>1. ASSUME PInv PROVE RerunRepairs
  <2> SUFFICES ASSUME spotless, Drained, NEW i \in 1..Len(raw),
                      ~(raw[i] \in Invalid \/ S2!IsLate(raw[i]))
               PROVE  \/ Stored(i)
                      \/ \E j \in OfKey(i) : conflictLog[j] > 0
                      \/ \E m \in rolledBack : KeyOf[MsgAt(m)] = S2!KeyAt(i)
    BY DEF RerunRepairs
  <2>1. i \in 1..committed2 /\ ~S2P!Refused(i)
    BY SameReads DEF Drained, S2P!Refused
  <2>2. PICK j \in 1..Len(raw) : S2P!KeyAt(j) = S2P!KeyAt(i) /\ S2P!Out(j)
    BY <1>1, <2>1 DEF PInv, S2P!Faultless, S2P!CommittedOut, Drained
  <2>3. CASE conflictLog[j] > 0
    BY <2>2, <2>3, SameReads DEF OfKey
  <2>4. CASE clean[j] > 0
    <3>1. PICK m \in Published : KeyOf[MsgAt(m)] = S2!KeyAt(i)
      BY <1>1, <2>2, <2>4, SameReads DEF PInv, CleanPublished
    <3>2. m[1] \in Partition /\ m[2] \in 1..Len(topic[m[1]])
      BY PublishedFacts
    <3>3. Len(topic[m[1]]) \in Nat /\ committed[m[1]] = Len(topic[m[1]])
      BY <1>1, <3>2 DEF PInv, IInv, TypeOK, Drained, Ends
    <3>4. Taken(m)
      BY <1>1, <3>2, <3>3 DEF PInv, CommittedTaken
    <3> QED
      BY <3>1, <3>4 DEF Taken, Stored
  <2> QED
    BY <2>2, <2>3, <2>4 DEF S2P!Out
<1> QED
  BY <1>1, PipelineInvariance, PTL
=============================================================================
