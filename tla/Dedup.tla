-------------------------------- MODULE Dedup --------------------------------
(***************************************************************************)
(* The in-memory deduplication of stage 2: DEDUP_STATE and _dedup_filter   *)
(* of pipeline/processing/processor.py.                                    *)
(*                                                                         *)
(* A record whose event_timestamp is a Unix timestamp is remembered at the *)
(* time of its event. int() rejects an ISO-8601 one, which R6 accepts as   *)
(* well, and such a record is remembered at the time of the batch. A       *)
(* network access server sends one of the two formats, hence a key has one.*)
(*                                                                         *)
(* Time is counted in units of which TTL and CleanupEvery are multiples.   *)
(***************************************************************************)
EXTENDS Integers, Sequences

CONSTANTS Key,          \* (acct_session_id, acct_status_type) pairs
          EpochKey,     \* those whose records carry Unix timestamps
          EventTime,    \* Unix timestamps that records carry
          TTL,          \* TTL_SECONDS
          CleanupEvery, \* _DEDUP_CLEANUP_INTERVAL
          NoEntry,      \* DEDUP_STATE.get() returns None
          MaxClock, MaxRecords \* bounds: time, records

ASSUME TimeAssumption == TTL \in Nat /\ CleanupEvery \in Nat /\ EventTime \subseteq Nat
ASSUME NoEntryAssumption == NoEntry \notin Nat

VARIABLES clock,       \* time.time()
          state,       \* DEDUP_STATE
          lastCleanup, \* _DEDUP_LAST_CLEANUP
          running,     \* a call of _dedup_filter is under way
          nowMs,       \* its now_ms
          received,    \* history: how many records went through the filter
          accepted,    \* history: those this process let through, in order
          dropped      \* history: those it took for duplicates
vars == <<clock, state, lastCleanup, running, nowMs, received, accepted, dropped>>

Record == [key : Key, ts : Nat, at : Nat]

TypeOK ==
    /\ clock \in Nat
    /\ state \in [Key -> Nat \cup {NoEntry}]
    /\ lastCleanup \in Nat /\ lastCleanup <= clock
    /\ running \in BOOLEAN
    /\ nowMs \in Nat /\ nowMs <= clock
    /\ received \in Nat
    /\ accepted \in Seq(Record)
    /\ dropped \subseteq Record

EmptyState == [k \in Key |-> NoEntry]

Init ==
    /\ clock = 0
    /\ state = EmptyState
    /\ lastCleanup = 0
    /\ running = FALSE
    /\ nowMs = 0
    /\ received = 0
    /\ accepted = <<>>
    /\ dropped = {}

-----------------------------------------------------------------------------
Tick ==
    /\ clock < MaxClock
    /\ clock' = clock + 1
    /\ UNCHANGED <<state, lastCleanup, running, nowMs, received, accepted, dropped>>

Expired(k) == state[k] # NoEntry /\ clock - state[k] > TTL

\* _dedup_cleanup_expired.
Cleanup ==
    /\ state' = [k \in Key |-> IF Expired(k) THEN NoEntry ELSE state[k]]
    /\ lastCleanup' = clock

\* Fault: every call restarts the interval, the timer never fires under load.
StartBatchRestartsTimer ==
    /\ ~running
    /\ running' = TRUE
    /\ nowMs' = clock
    /\ IF clock - lastCleanup > CleanupEvery
       THEN Cleanup
       ELSE lastCleanup' = clock /\ state' = state
    /\ UNCHANGED <<clock, received, accepted, dropped>>

\* _dedup_filter is called on the on-time records of a batch.
StartBatch ==
    /\ ~running
    /\ running' = TRUE
    /\ nowMs' = clock
    /\ IF clock - lastCleanup > CleanupEvery
       THEN Cleanup
       ELSE UNCHANGED <<state, lastCleanup>>
    /\ UNCHANGED <<clock, received, accepted, dropped>>

\* The record of key k that says it happened at ts, as the filter sees it.
Seen(k, ts) == [key |-> k, ts |-> IF k \in EpochKey THEN ts ELSE nowMs, at |-> nowMs]

\* Fault: any time between two events makes the second one new.
IsNewIfApart(r) ==
    state[r.key] # NoEntry => r.ts - state[r.key] > TTL \/ state[r.key] - r.ts > TTL
IsNew(r) == state[r.key] # NoEntry => r.ts - state[r.key] > TTL

\* Fault: the entry of a past event holds the time it was last seen.
AcceptAtArrival(r) ==
    /\ IsNew(r)
    /\ state' = [state EXCEPT ![r.key] = IF r.ts < nowMs THEN nowMs ELSE r.ts]
    /\ accepted' = Append(accepted, r)
    /\ UNCHANGED dropped

Accept(r) ==
    /\ IsNew(r)
    /\ state' = [state EXCEPT ![r.key] = r.ts]
    /\ accepted' = Append(accepted, r)
    /\ UNCHANGED dropped

Drop(r) ==
    /\ ~IsNew(r)
    /\ dropped' = dropped \cup {r}
    /\ UNCHANGED <<state, accepted>>

Take(k, ts) ==
    /\ running
    /\ received < MaxRecords
    /\ received' = received + 1
    /\ LET r == Seen(k, ts) IN Accept(r) \/ Drop(r)
    /\ UNCHANGED <<clock, lastCleanup, running, nowMs>>

EndBatch ==
    /\ running
    /\ running' = FALSE
    /\ UNCHANGED <<clock, state, lastCleanup, nowMs, received, accepted, dropped>>

\* A new process imports the module: nothing of DEDUP_STATE is persisted.
Restart ==
    /\ state' = EmptyState
    /\ lastCleanup' = clock
    /\ running' = FALSE
    /\ accepted' = <<>>
    /\ dropped' = {}
    /\ UNCHANGED <<clock, nowMs, received>>

Next ==
    \/ Tick \/ StartBatch \/ EndBatch \/ Restart
    \/ \E k \in Key, ts \in EventTime : Take(k, ts)

Spec == Init /\ [][Next]_vars
-----------------------------------------------------------------------------
\* Within the life of a process, a second record of a key is let through only
\* if TTL has passed since the event of every earlier one, by the time of its
\* own event or by the clock of the batch. Expiry by cleanup, overwritten
\* entries and events out of order never open a shorter window.
DuplicatesAreTTLApart ==
    \A i, j \in 1..Len(accepted) :
        i < j /\ accepted[i].key = accepted[j].key =>
            \/ accepted[j].ts > accepted[i].ts + TTL
            \/ accepted[j].at > accepted[i].ts + TTL

\* A record is dropped only after one of its key was let through, whose event
\* it does not follow by more than TTL.
DroppedHasOriginal ==
    \A d \in dropped : \E i \in 1..Len(accepted) :
        accepted[i].key = d.key /\ d.ts <= accepted[i].ts + TTL

\* DEDUP_STATE does not leak: while a batch is filtered, no entry of a record
\* with an ISO timestamp is older than TTL plus one cleanup interval, although
\* cleanup runs only when batches come.
EntriesExpire ==
    running => \A k \in Key \ EpochKey :
        state[k] # NoEntry => nowMs <= state[k] + TTL + CleanupEvery
=============================================================================
