----------------------------- MODULE DedupProofs -----------------------------
(***************************************************************************)
(* The in-memory deduplication of stage 2 for every TTL, every cleanup     *)
(* interval, every set of keys and every arrival of records.               *)
(***************************************************************************)
EXTENDS Dedup, TLAPS

\* What is left of each record let through: its key is still in DEDUP_STATE
\* with an event at least as recent, or TTL has passed since.
AcceptedRemembered ==
    \A i \in 1..Len(accepted) :
        \/ /\ state[accepted[i].key] # NoEntry
           /\ accepted[i].ts <= state[accepted[i].key]
        \/ nowMs > accepted[i].ts + TTL

\* An entry comes from a record that was let through.
EntryHasRecord ==
    \A k \in Key : state[k] # NoEntry =>
        \E i \in 1..Len(accepted) : accepted[i].key = k /\ accepted[i].ts = state[k]

\* Cleanup ran at most an interval before the batch, and what it left of the
\* ISO entries was no older than TTL.
CleanupRecent ==
    /\ running => lastCleanup <= nowMs /\ nowMs <= lastCleanup + CleanupEvery
    /\ \A k \in Key \ EpochKey : state[k] # NoEntry => lastCleanup <= state[k] + TTL

IInv ==
    /\ TypeOK
    /\ AcceptedRemembered
    /\ EntryHasRecord
    /\ CleanupRecent
    /\ DuplicatesAreTTLApart
    /\ DroppedHasOriginal

-----------------------------------------------------------------------------
LEMMA Initially == Init => IInv
<1> SUFFICES ASSUME Init PROVE IInv
  OBVIOUS
<1>1. state = EmptyState /\ \A k \in Key : EmptyState[k] = NoEntry
  BY DEF Init, EmptyState
<1>2. TypeOK
  <2>1. EmptyState \in [Key -> Nat \cup {NoEntry}]
    BY DEF EmptyState
  <2>2. running \in BOOLEAN
    BY DEF Init
  <2> QED
    BY <1>1, <2>1, <2>2 DEF Init, TypeOK
<1>3. 1..Len(accepted) = {} /\ dropped = {} /\ running = FALSE
  BY DEF Init
<1> QED
  BY <1>1, <1>2, <1>3 DEF IInv, AcceptedRemembered, EntryHasRecord, CleanupRecent,
                    DuplicatesAreTTLApart, DroppedHasOriginal

\* An entry is a number or absent.
LEMMA EntryType ==
  ASSUME TypeOK, NEW k \in Key, state[k] # NoEntry
  PROVE  state[k] \in Nat
BY DEF TypeOK

LEMMA RecordType ==
  ASSUME TypeOK, NEW i \in 1..Len(accepted)
  PROVE  accepted[i].key \in Key /\ accepted[i].ts \in Nat /\ accepted[i].at \in Nat
<1>1. accepted \in Seq(Record)
  BY DEF TypeOK
<1>2. accepted[i] \in Record
  BY <1>1
<1> QED
  BY <1>2 DEF Record

\* Between batches, and while time passes, nothing that matters changes.
LEMMA QuietStep ==
  ASSUME IInv, Tick \/ EndBatch \/ UNCHANGED vars
  PROVE  IInv'
<1>1. UNCHANGED <<state, lastCleanup, nowMs, received, accepted, dropped>>
  BY DEF Tick, EndBatch, vars
<1>2. clock' \in Nat /\ clock <= clock'
  <2>1. clock \in Nat /\ (clock' = clock \/ clock' = clock + 1)
    BY Zenon DEF IInv, TypeOK, Tick, EndBatch, vars
  <2> QED
    BY <2>1
<1>3. running' \in BOOLEAN /\ (running' => running)
  <2>1. running \in BOOLEAN
    BY DEF IInv, TypeOK
  <2>2. running' = running \/ running' = FALSE
    BY Zenon DEF Tick, EndBatch, vars
  <2>3. CASE running' = running
    BY Zenon, <2>1, <2>3
  <2>4. CASE running' = FALSE
    BY Zenon, <2>4
  <2> QED
    BY <2>2, <2>3, <2>4
<1>4. TypeOK'
  BY <1>1, <1>2, <1>3 DEF IInv, TypeOK
<1>5. AcceptedRemembered' /\ EntryHasRecord'
  BY <1>1 DEF IInv, AcceptedRemembered, EntryHasRecord
<1>6. CleanupRecent'
  BY <1>1, <1>3 DEF IInv, CleanupRecent
<1>7. DuplicatesAreTTLApart' /\ DroppedHasOriginal'
  BY <1>1 DEF IInv, DuplicatesAreTTLApart, DroppedHasOriginal
<1> QED
  BY <1>4, <1>5, <1>6, <1>7 DEF IInv

LEMMA RestartStep == ASSUME IInv, Restart PROVE IInv'
<1>1. state' = EmptyState /\ \A k \in Key : EmptyState[k] = NoEntry
  BY DEF Restart, EmptyState
<1>2. TypeOK'
  <2>1. EmptyState \in [Key -> Nat \cup {NoEntry}]
    BY DEF EmptyState
  <2>2. running' \in BOOLEAN
    BY DEF Restart
  <2> QED
    BY <1>1, <2>1, <2>2 DEF IInv, TypeOK, Restart
<1>3. 1..Len(accepted') = {} /\ dropped' = {} /\ running' = FALSE
  BY DEF Restart
<1> QED
  BY <1>1, <1>2, <1>3 DEF IInv, AcceptedRemembered, EntryHasRecord, CleanupRecent,
                          DuplicatesAreTTLApart, DroppedHasOriginal

\* The clock of the batch overtakes the events that cleanup forgets.
LEMMA StartBatchStep == ASSUME IInv, StartBatch PROVE IInv'
<1>1. /\ clock' = clock /\ accepted' = accepted /\ dropped' = dropped
      /\ received' = received /\ nowMs' = clock /\ running' = TRUE
  BY DEF StartBatch
<1>2. /\ clock \in Nat /\ nowMs \in Nat /\ nowMs <= clock
      /\ lastCleanup \in Nat /\ lastCleanup <= clock
  BY DEF IInv, TypeOK
<1>3. \A k \in Key : \/ state'[k] = state[k]
                     \/ /\ state'[k] = NoEntry /\ state[k] # NoEntry
                        /\ clock > state[k] + TTL
  <2> SUFFICES ASSUME NEW k \in Key, state'[k] # state[k]
               PROVE  /\ state'[k] = NoEntry /\ state[k] # NoEntry
                      /\ clock > state[k] + TTL
    OBVIOUS
  <2>1. state' = [j \in Key |-> IF Expired(j) THEN NoEntry ELSE state[j]]
    BY DEF StartBatch, Cleanup
  <2>2. Expired(k) /\ state'[k] = NoEntry
    BY <2>1
  <2>3. state[k] # NoEntry /\ clock - state[k] > TTL
    BY <2>2 DEF Expired
  <2>4. state[k] \in Nat
    BY <2>3, EntryType DEF IInv
  <2> QED
    BY <2>2, <2>3, <2>4, <1>2, TimeAssumption
<1>4. TypeOK'
  <2>1. state' \in [Key -> Nat \cup {NoEntry}]
    BY DEF IInv, TypeOK, StartBatch, Cleanup
  <2>2. lastCleanup' \in Nat /\ lastCleanup' <= clock
    BY <1>2 DEF StartBatch, Cleanup
  <2> QED
    BY <1>1, <1>2, <2>1, <2>2 DEF IInv, TypeOK
<1>5. AcceptedRemembered'
  <2> SUFFICES ASSUME NEW i \in 1..Len(accepted)
               PROVE  \/ /\ state'[accepted[i].key] # NoEntry
                         /\ accepted[i].ts <= state'[accepted[i].key]
                      \/ clock > accepted[i].ts + TTL
    BY <1>1 DEF AcceptedRemembered
  <2>1. accepted[i].key \in Key /\ accepted[i].ts \in Nat
    BY RecordType DEF IInv
  <2>2. CASE nowMs > accepted[i].ts + TTL
    BY <2>1, <2>2, <1>2, TimeAssumption
  <2>3. CASE state[accepted[i].key] # NoEntry /\ accepted[i].ts <= state[accepted[i].key]
    <3>1. state[accepted[i].key] \in Nat
      BY <2>1, <2>3, EntryType DEF IInv
    <3> QED
      BY <2>1, <2>3, <3>1, <1>2, <1>3, TimeAssumption
  <2> QED
    BY <2>2, <2>3 DEF IInv, AcceptedRemembered
<1>6. EntryHasRecord'
  BY <1>1, <1>3 DEF IInv, EntryHasRecord
<1>7. CleanupRecent'
  <2>1. CASE clock - lastCleanup > CleanupEvery
    <3>1. lastCleanup' = clock
      BY <2>1 DEF StartBatch, Cleanup
    <3>2. state' = [j \in Key |-> IF Expired(j) THEN NoEntry ELSE state[j]]
      BY <2>1 DEF StartBatch, Cleanup
    <3>3. ASSUME NEW k \in Key, state'[k] # NoEntry PROVE clock <= state'[k] + TTL
      <4>1. ~Expired(k) /\ state'[k] = state[k]
        BY <3>2, <3>3
      <4>2. state[k] \in Nat
        BY <3>3, <4>1, EntryType DEF IInv
      <4>3. ~(clock - state[k] > TTL)
        BY <4>1, <3>3 DEF Expired
      <4> QED
        BY <4>1, <4>2, <4>3, <1>2, TimeAssumption
    <3> QED
      BY <1>1, <1>2, <3>1, <3>3, TimeAssumption DEF CleanupRecent
  <2>2. CASE ~(clock - lastCleanup > CleanupEvery)
    BY <1>1, <1>2, <2>2, TimeAssumption DEF StartBatch, IInv, CleanupRecent
  <2> QED
    BY <2>1, <2>2
<1> QED
  BY <1>1, <1>4, <1>5, <1>6, <1>7 DEF IInv, DuplicatesAreTTLApart, DroppedHasOriginal

\* A record that is let through follows all earlier ones of its key by TTL.
LEMMA AcceptStep ==
  ASSUME IInv, running, NEW k \in Key, NEW ts \in EventTime,
         NEW r \in Record, r = Seen(k, ts), Accept(r), received' = received + 1,
         UNCHANGED <<clock, lastCleanup, running, nowMs>>
  PROVE  IInv'
<1>1. /\ r.key \in Key /\ r.ts \in Nat /\ r.at = nowMs /\ nowMs \in Nat
      /\ r.key \notin EpochKey => r.ts = nowMs
  BY DEF Record, Seen
<1>2. /\ state' = [state EXCEPT ![r.key] = r.ts]
      /\ accepted' = Append(accepted, r) /\ dropped' = dropped
      /\ state[r.key] # NoEntry => r.ts - state[r.key] > TTL
  BY DEF Accept, IsNew
<1>3. TypeOK'
  BY <1>1, <1>2 DEF IInv, TypeOK
<1>4. /\ Len(accepted') = Len(accepted) + 1 /\ Len(accepted) \in Nat
      /\ accepted'[Len(accepted) + 1] = r
      /\ \A i \in 1..Len(accepted) : accepted'[i] = accepted[i]
  BY <1>2 DEF IInv, TypeOK
<1>5. \A j \in Key : state'[j] = IF j = r.key THEN r.ts ELSE state[j]
  BY <1>1, <1>2 DEF IInv, TypeOK
<1>6. r.ts # NoEntry
  BY <1>1, NoEntryAssumption
<1>7. ASSUME NEW i \in 1..Len(accepted), accepted[i].key = r.key
      PROVE  \/ r.ts > accepted[i].ts + TTL
             \/ r.at > accepted[i].ts + TTL
  <2>1. accepted[i].ts \in Nat
    BY RecordType DEF IInv
  <2>2. CASE nowMs > accepted[i].ts + TTL
    BY <2>2, <1>1
  <2>3. CASE state[r.key] # NoEntry /\ accepted[i].ts <= state[r.key]
    <3>1. state[r.key] \in Nat
      BY <1>1, <2>3, EntryType DEF IInv
    <3> QED
      BY <2>1, <2>3, <3>1, <1>1, <1>2, TimeAssumption
  <2> QED
    BY <1>7, <2>2, <2>3 DEF IInv, AcceptedRemembered
<1>8. AcceptedRemembered'
  <2> SUFFICES ASSUME NEW i \in 1..Len(accepted')
               PROVE  \/ /\ state'[accepted'[i].key] # NoEntry
                         /\ accepted'[i].ts <= state'[accepted'[i].key]
                      \/ nowMs > accepted'[i].ts + TTL
    BY DEF AcceptedRemembered
  <2>1. CASE i = Len(accepted) + 1
    BY <2>1, <1>1, <1>4, <1>5, <1>6
  <2>2. CASE i \in 1..Len(accepted)
    <3>1. accepted'[i] = accepted[i] /\ accepted[i].key \in Key /\ accepted[i].ts \in Nat
      BY <2>2, <1>4, RecordType DEF IInv
    <3>2. CASE accepted[i].key # r.key
      BY <2>2, <3>1, <3>2, <1>5 DEF IInv, AcceptedRemembered
    <3>3. CASE accepted[i].key = r.key
      BY <2>2, <3>1, <3>3, <1>1, <1>5, <1>6, <1>7, TimeAssumption
    <3> QED
      BY <3>2, <3>3
  <2> QED
    BY <1>4, <2>1, <2>2
<1>9. EntryHasRecord'
  <2> SUFFICES ASSUME NEW j \in Key, state'[j] # NoEntry
               PROVE  \E i \in 1..Len(accepted') :
                         accepted'[i].key = j /\ accepted'[i].ts = state'[j]
    BY DEF EntryHasRecord
  <2>1. CASE j = r.key
    <3>1. Len(accepted) + 1 \in 1..Len(accepted')
      BY <1>4
    <3> QED
      BY <2>1, <3>1, <1>4, <1>5
  <2>2. CASE j # r.key
    <3>1. PICK i \in 1..Len(accepted) : accepted[i].key = j /\ accepted[i].ts = state[j]
      BY <2>2, <1>5 DEF IInv, EntryHasRecord
    <3>2. i \in 1..Len(accepted')
      BY <1>4
    <3> QED
      BY <2>2, <3>1, <3>2, <1>4, <1>5
  <2> QED
    BY <2>1, <2>2
<1>10. CleanupRecent'
  BY <1>1, <1>5, TimeAssumption DEF IInv, TypeOK, CleanupRecent
<1>11. DuplicatesAreTTLApart'
  <2> SUFFICES ASSUME NEW i \in 1..Len(accepted'), NEW j \in 1..Len(accepted'),
                      i < j, accepted'[i].key = accepted'[j].key
               PROVE  \/ accepted'[j].ts > accepted'[i].ts + TTL
                      \/ accepted'[j].at > accepted'[i].ts + TTL
    BY DEF DuplicatesAreTTLApart
  <2>1. i \in 1..Len(accepted)
    BY <1>4
  <2>2. CASE j \in 1..Len(accepted)
    BY <2>1, <2>2, <1>4 DEF IInv, DuplicatesAreTTLApart
  <2>3. CASE j = Len(accepted) + 1
    BY <2>1, <2>3, <1>4, <1>7
  <2> QED
    BY <1>4, <2>2, <2>3
<1>12. DroppedHasOriginal'
  <2> SUFFICES ASSUME NEW d \in dropped
               PROVE  \E i \in 1..Len(accepted') :
                         accepted'[i].key = d.key /\ d.ts <= accepted'[i].ts + TTL
    BY <1>2 DEF DroppedHasOriginal
  <2>1. PICK i \in 1..Len(accepted) : accepted[i].key = d.key /\ d.ts <= accepted[i].ts + TTL
    BY DEF IInv, DroppedHasOriginal
  <2> QED
    BY <2>1, <1>4
<1> QED
  BY <1>3, <1>8, <1>9, <1>10, <1>11, <1>12 DEF IInv

\* A record that is dropped has the entry of an earlier one in its way.
LEMMA DropStep ==
  ASSUME IInv, NEW r \in Record, Drop(r), received' = received + 1,
         UNCHANGED <<clock, lastCleanup, running, nowMs>>
  PROVE  IInv'
<1>1. /\ state' = state /\ accepted' = accepted /\ dropped' = dropped \cup {r}
      /\ state[r.key] # NoEntry /\ ~(r.ts - state[r.key] > TTL)
  BY DEF Drop, IsNew
<1>2. TypeOK'
  BY <1>1 DEF IInv, TypeOK
<1>3. AcceptedRemembered' /\ EntryHasRecord' /\ CleanupRecent' /\ DuplicatesAreTTLApart'
  BY <1>1 DEF IInv, AcceptedRemembered, EntryHasRecord, CleanupRecent, DuplicatesAreTTLApart
<1>4. \E i \in 1..Len(accepted) : accepted[i].key = r.key /\ r.ts <= accepted[i].ts + TTL
  <2>1. r.key \in Key /\ r.ts \in Nat
    BY DEF Record
  <2>2. state[r.key] \in Nat
    BY <1>1, <2>1, EntryType DEF IInv
  <2>3. PICK i \in 1..Len(accepted) : accepted[i].key = r.key /\ accepted[i].ts = state[r.key]
    BY <1>1, <2>1 DEF IInv, EntryHasRecord
  <2>4. r.ts <= accepted[i].ts + TTL
    BY <1>1, <2>1, <2>2, <2>3, TimeAssumption
  <2> QED
    BY <2>3, <2>4
<1>5. DroppedHasOriginal'
  BY <1>1, <1>4 DEF IInv, DroppedHasOriginal
<1> QED
  BY <1>2, <1>3, <1>5 DEF IInv

LEMMA TakeStep ==
  ASSUME IInv, NEW k \in Key, NEW ts \in EventTime, Take(k, ts)
  PROVE  IInv'
<1>1. Seen(k, ts) \in Record
  BY TimeAssumption DEF Seen, Record, IInv, TypeOK
<1>2. /\ running /\ received' = received + 1
      /\ UNCHANGED <<clock, lastCleanup, running, nowMs>>
      /\ Accept(Seen(k, ts)) \/ Drop(Seen(k, ts))
  BY DEF Take
<1> QED
  BY <1>1, <1>2, AcceptStep, DropStep

LEMMA Inductive == IInv /\ [Next]_vars => IInv'
BY QuietStep, StartBatchStep, RestartStep, TakeStep DEF Next

LEMMA Invariance == Spec => []IInv
BY Initially, Inductive, PTL DEF Spec

-----------------------------------------------------------------------------
\* The variables are well typed, and no timestamp is ahead of the clock.
THEOREM TypeCorrect == Spec => []TypeOK
<1>1. IInv => TypeOK
  BY DEF IInv
<1> QED
  BY <1>1, Invariance, PTL

\* Two records of a key that one process lets through are TTL apart.
THEOREM WindowHolds == Spec => []DuplicatesAreTTLApart
<1>1. IInv => DuplicatesAreTTLApart
  BY DEF IInv
<1> QED
  BY <1>1, Invariance, PTL

\* A record is dropped only for one of its key that was let through.
THEOREM DropsJustified == Spec => []DroppedHasOriginal
<1>1. IInv => DroppedHasOriginal
  BY DEF IInv
<1> QED
  BY <1>1, Invariance, PTL

\* No ISO entry outlives TTL and one cleanup interval by the time of a batch.
THEOREM StateBounded == Spec => []EntriesExpire
<1>1. IInv => EntriesExpire
  <2> SUFFICES ASSUME IInv, running, NEW k \in Key \ EpochKey, state[k] # NoEntry
               PROVE  nowMs <= state[k] + TTL + CleanupEvery
    BY DEF EntriesExpire
  <2>1. state[k] \in Nat
    BY EntryType DEF IInv
  <2> QED
    BY <2>1, TimeAssumption DEF IInv, TypeOK, CleanupRecent
<1> QED
  BY <1>1, Invariance, PTL
=============================================================================
