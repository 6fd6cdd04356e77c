# CAMARA pipeline: TLA+ models, checks and proofs

This directory holds TLA+ models of the RADIUS pipeline of the repository: the
producer, the two Spark stages with their validation workers, the deduplication
trigger of PostgreSQL, the orchestrator that starts and stops them, the REST API
that reads what they store, and the simulator that makes the input. TLC checks the models on small
instances, TLAPS proves their safety properties for all instances.

    tlc -config MCPipeline.cfg MCPipeline     # a run
    tlapm PipelineProofs.tla                  # a proof

`PROJECT.json` lists the runs, the properties of each, the source lines of each
definition (`map`), the hazards the properties are about, the disagreements
between code and documentation that the runs exhibit, and the theorems.

## 1. The system

The README of the repository describes five stages; the code has three, each a
process of its own, plus the orchestrator, the database and the API.

    CSV --S1--> radius.raw --S2--> radius.clean --S3--> radius_sessions
       producer.py      processor.py            writer.py   + trigger
                        |  |  |
                        |  |  +-> swap_event (after asking the HLR/HSS)
                        |  +----> conflict_log
                        +-------> invalid_log

| component | state it keeps | operations | talks to | what is hard | what makes it correct |
|---|---|---|---|---|---|
| Stage 1 `ingestion/producer.py`, `csv_reader.py` | futures collected, aiokafka's accumulator | `publish_csv` | Kafka | lost acknowledgements, retries, failures hidden by `gather`, memory | order per subscriber, back-pressure, what the reported count means |
| Stage 2 callback `processing/processor.py` | Spark checkpoint, the lists of a batch | `make_callback._callback` | Kafka, 3 tables, HLR, validation services | four writes that are not one transaction, replays | nothing is lost silently, effects are not repeated at will |
| Deduplication in stage 2 | `DEDUP_STATE`, `_DEDUP_LAST_CLEANUP` (memory only) | `_dedup_filter`, `_dedup_cleanup_expired` | the clock | events out of order, two timestamp formats, cleanup by another clock, restarts | the window between accepted duplicates, no drop without an original, bounded memory |
| Conflict resolution in stage 2 | `open_sessions` of each imsi, per batch | `_resolve_conflicts` | - | any order of rows, interplay of rules A and B, groups | at most one open session per subscriber in the clean stream, swaps noticed |
| Swap detection `conflict_resolution/swap_detector.py` | the list of confirmed events, per batch | `verify_batch`, `write_swap_events` | HLR/HSS, `swap_event` | chunks that fail, are refused or answer nonsense; the order of the history | events are real reassignments, none is missed |
| Validation `validation/rules.py` | `failed_counters`, `TAC_CACHE` per worker | rules R1 to R6, batched lookups | three HTTP services | concurrent chunks, circuit breakers that open, a cache of answers | fail-fast order, what a bypass may let through |
| Stage 3 `storage/writer.py` | Spark checkpoint | `write_micro_batch._callback` | PostgreSQL | swallowed errors, replays, `synchronous_commit = OFF` | sessions stored once, nothing skipped without a reason |
| Dedup backstop `004_dedup_trigger.sql` | `dedup_seen_keys`, `duplicate_log` | `fn_dedup_long_term_check` | `radius_sessions` | concurrent COPYs of the same keys, rollbacks, deadlocks | one row per key, no key without a row |
| Orchestrator `run_pipeline.py` | child processes, local counters of its loops | `main`, `wait_for_*`, `stop_all` | the stages, Kafka, checkpoints, PostgreSQL | everything is observed from outside, stages die or stall, signals | it ends, leaves no process, "complete" means something |
| REST API `api/` | an asyncpg pool | three CAMARA services | PostgreSQL | the pool at its limit, tables that change while requests wait | no connection is lost, every request ends, answers are current |
| Simulator `simulator/`, pools `shared/` | the random draws, two cursors | `execute_simulation`, `inject_*` | the input of stage 1, the HLR's seed | the injections interact with each other and with validation | stage 2 finds what was injected |
| HLR/HSS mock `mock_services/hlr_hss/` | assignments of cards and devices, loaded once | `batch_lookup`, `batch_history` | validation, swap detection | rows of several dates in file order | a history in order of time |
| Other mocks, reporting, infra, scripts | tables that are loaded once | HTTP lookups, a report | - | - | - |

Keys: a record is identified by `(acct_session_id, acct_status_type)` in stage 2
and in the trigger. Nothing in the repository restarts a stage that died: no
`restart:` policy covers them, and the orchestrator only notices the producer.

## 2. Plan

Written in this order, the most valuable behaviour first:

1. `SessionStore`, `DedupTrigger`: the last line of defence, and its refinement. *Done.*
2. `StorageWriter`: stage 3 around the trigger. *Done.*
3. `Dedup`, `ConflictRules`, `ConflictResolution`: the two sequential algorithms of stage 2. *Done.*
4. `Processor`: the callback of stage 2, which uses `ConflictRules`. *Done.*
5. `Orchestrator`: the three stages seen from `run_pipeline.py`. *Done.*
6. `Producer`: stage 1. *Done, with proofs.*
7. `Validation`: circuit breakers, TAC cache, batched lookups of `rules.py`, the
   concurrency of their chunks. *Done.*
8. `Api`: the connection pool at its limit and the queries of the three services. *Done, with
   proofs.*
9. `Hlr`, `SwapDetection`: the requests of the swap detection and the history that a
   signal is matched with. *Done, with proofs.*
10. `Simulator`, `Simulation`: the simulated input, from the draws to what stage 2
    makes of it. *Done, with proofs.*
11. `Pipeline`: stages 2 and 3 composed, from `radius.raw` to `radius_sessions`. *Done;
    `EndToEnd` and `RerunRepairs` are proved from the invariants of the two stages.*
12. Proofs for `Orchestrator` (`NoStageLeft`, `CompleteMeansIngested`,
    `CompleteMeansRead`) and of `EffectsBounded`. *Done.*
13. A proof of `InjectedFound` for pools of every size. *Done.*
14. The safety halves of the liveness properties: who can always go on, and how many
    steps are left. *Done.* What TLC alone checks is liveness itself.

## 3. Modules

`MC*` modules only give the constants their values and say what the instance
contains. `*Proofs` modules hold the theorems; some hold those of two modules whose
behaviour belongs together: `PipelineProofs` has `StorageWriter`, `SwapDetectionProofs`
has `ConflictResolution` and `Simulation`, and `ProducerProofs` has `Orchestrator`. Definitions whose comment begins with "Fault:" are not part of a
model: each is a plausible bug, put beside the definition it would replace, and
shows that the property named in `PROJECT.json` notices it.

### SessionStore, DedupTrigger, DedupTriggerProofs

`SessionStore` is what the trigger promises: a COPY is one atomic step that
stores the first row of every key never seen and logs the others.

`DedupTrigger` is `004_dedup_trigger.sql` as it runs inside concurrent COPY
transactions. `status` and `pos` are the transactions and how far they got,
`holder` is `dedup_seen_keys` (who inserted each key), `sessions` and `dupLog` are
`radius_sessions` and `duplicate_log` with uncommitted rows. `InsertNew` and
`Suppress` are the two branches of the function; blocking on an uncommitted key is
the absence of both (`KeyFree`, `KeyTaken`). Rollback, READ COMMITTED visibility and
deadlock detection are PostgreSQL's and marked external. Two writers exist when
a run starts while the S3 of an earlier run still lives (see `Killed` in
`Orchestrator`).

### StorageWriter

`write_micro_batch` and `start_storage_stream`. `topic` is `radius.clean`, `planned`
and `committed` are the latest entries of `offsets/` and `commits/` of Spark's
checkpoint, `pc` is the progress of the callback. `Copied` is the effect of the
COPY through the trigger, in one step: what `SessionStore` says, shown to be
justified by `DedupTrigger`. `Swallow` is the `except` that logs and returns, so
that Spark commits a batch that was rolled back. `db` and `disk` differ because of
`SET LOCAL synchronous_commit = OFF`; `DbCrash` falls back to `disk`. `Rerun` is the
`rmtree` of the checkpoint at the start of `run_pipeline.py`. `Rejected` are records
that violate a column's type or a NOT NULL, or have no partition.

### Dedup, DedupProofs

`_dedup_filter` record by record with a clock. `Take` is an iteration of the loop,
`StartBatch` the cleanup check and `now_ms`, `Restart` a new process, which begins
with an empty `DEDUP_STATE`. Keys in `EpochKey` carry Unix timestamps; for the
others `int()` raises and the record is remembered at the time of the batch.

### ConflictRules, ConflictResolution

`ConflictRules` states rules A to D over a sequence of rows, rule B as a fixpoint:
a Start is refused when another session of its subscriber is open and its own is
not. `ConflictResolution` is the loop `_flag_conflict_b` that computes it, one
action per branch, with the groups of `groupby("imsi")` interleaved: the theorems
hold for any interleaving, and `SwapDetection` takes the groups one after another. `Closes` shows
that the `"Interim"` of the code never occurs: R5 lets only `"Interim-Update"`
through. A refused Start and a row of conflict A do not open or close anything.

### Hlr, SwapDetection, SwapDetectionProofs

`SwapDetection` extends `ConflictResolution` by what the callback does with the
result. `step` is where it is: `Loop` runs the groups, `Detect` decides whether there is
anything to verify, then for each type the msisdns of its signals are asked for in
chunks. `pending` are those still to be asked for, `histories` what came back.
`Answered`, `Unanswered` and `VerifyRaises` are the three ends of a request: an
answer, an exception that `verify_batch` catches (it skips the chunk) and one that
only `_process_swap_signals` catches (all events of the type are gone). `Verified`
compares the signals with the last two entries of the history, `Write` and
`WriteFails` are the transaction of `write_swap_events`. `dropped` is a history
variable: the numbers of a type that a failure cost their events.

`Hlr` is what `batch_history` answers: `History` sorts the rows of a number by date,
rows of one date in the order of the file, as Python's stable `sorted` does.

### Simulator, Simulation

`Simulator` gives the records of a run as a function of the random draws: a roll per
session (`Injected` has the five branches of `inject_conflicts`), the records that
other injections spoil, and whether the breaker of GSMA is open. Subscribers and cards are
numbers, as in the pools; `Eligible` is the cursor over the subscribers that have
a swap on file, which is not the subscriber of the session. `Seeded` is what
`seed.py` writes for the HLR from the same pools. `Duration` is drawn for each session.
`IsDataFrame` says which batches stage 2 may make of a draw: the records in the order
of their times, those of equal times in any order, as `sort_values` leaves them.
`Accepted` is what validation makes of the records: it lets the devices of injection D
pass only under an open breaker, since GSMA does not know their TAC. Delayed records
need no operator of their own: the simulator writes ISO-8601 timestamps, which
`_split_late_arrival` never takes for late (`LateIsLogged`, a finding).

`Simulation` puts such batches into `SwapDetection` and states what should come out,
in terms of the draws only. Besides the sizes (`PoolAssumption`) it assumes, in
`SimulationAssumption`, that a batch has at most one session of each subscriber:
`sub_idx` goes through all 100000 before it comes back, and `maxOffsetsPerTrigger` lets
in about 10000 sessions at a time. No draw is excluded. Where a draw leaves the
outcome open, the property gives two bounds: a new card that the cursor of injection C
hands out twice may conflict with itself (`PossibleConflicts`; with the defaults a batch
has about 200 injections C and the cursor 2000 subscribers), and of two records
of a number with the same time either may be the later one (`After`, `NotBefore`). A
batch on which `_resolve_conflicts` raises ends in `"raised"`, without an outcome.

### Processor, ProcessorProofs

`_callback` of stage 2 from `mapPartitions` to the Kafka write: one action per
step, and a second one for the failure of each step the code survives
(`ValidationFails`, `LogInvalidFails`, `LogConflictsFails`, `RecordSwapsFails`). `Crash`
may come between any two steps, in particular between the messages of the Kafka
write, which is not atomic. `Resolve` is deduplication and `_resolve_conflicts` in
one step, for both are sequential code of the driver without I/O; it takes the
rules from `ConflictRules`. `ResolveRaises` is its other end: if the rows that deduplication
has kept are two or more and share one imsi (`OneSubscriber`), `groupby.apply` returns a
frame with a column per row, and its assignment to `is_conflict_b` raises outside any
`try`. The process ends (`raised`), and started again on its checkpoint it meets the
same batch; it may raise again or not, if the batch holds duplicates of other
subscribers' records that `DEDUP_STATE` no longer drops. Rows of a batch come in any
order because of `repartition`, and equal timestamps are sorted in any order. A record that breaks
R1 to R6 is a member of the constant `Invalid`; whether the HLR confirms a swap is
`Confirmed`. `renewals` counts how often `DEDUP_STATE` forgot a key. The early
return `if not clean_rows` is modelled (`AfterSwaps`) although the first row of a
batch is always clean.

### Pipeline, PipelineProofs

`Pipeline` extends `StorageWriter` and instantiates `Processor` on variables of its own
(`planned2`, `committed2`, `pc2` for the query; the tables keep their names): every
step of either stage is a step of the composition. They meet in `PublishBoth`, which
publishes a clean row in `Processor` and puts its record onto `radius.clean` of
`StorageWriter`, onto any partition. `Fails` are the failures of both, out of one
budget; `Around` are S1, restarts by hand and the WAL writer. `RerunBoth` is a new run
of `run_pipeline.py`: the checkpoints of both stages are removed, `DEDUP_STATE` is
empty, topics and tables stay. It assumes that no process of the run before goes
on; `DedupTrigger` shows that the tables stay consistent when one does.
`StageAssumption` repeats what `Processor` assumes of its constants, for an `INSTANCE`
does not check the assumptions of the module it instantiates.

### Validation, ValidationProofs

`rules.py` in one Spark Python worker, with `_validate_partition` around it. The
globals `failed_counters` and `TAC_CACHE` are `failed` and `cache`; they outlive a
partition and die with the worker (`WorkerDies`). `StartPartition` computes what to
ask and cuts it into chunks, in any order since `list(set(...))` has none. A chunk is
in `queued` until the semaphore admits it and in `flying` while its HTTP call is
awaited: `Call` and `Bypass` are the two sides of the breaker, `Answered` and `Fault`
the two ends of a call, `PartitionFails` the exception that none of the fetchers
catches (a body that is no JSON), upon which the driver marks all records of the
partition. `Finish` fills `TAC_CACHE` and runs R1 to R6 on each record with
`RuleOrder`, the first failure decides; nothing in it awaits I/O. What R1, R4a, R5
and R6 find in a record is the constant `Broken`, what the local patterns reject is
`Malformed`, what the services have on file `Known`. The answer of a service to a
chunk (`Answer`) is that of the three mock routers: they accept up to 500 entries
and answer each. The single-record paths of R2, R3 and R4b are not modelled:
`EveryIdFetched` shows that the batch never takes them. The connection limit of
httpx (20) is not reached: with the defaults, 20000 messages per trigger in 8
partitions give 2500 records and five chunks per service.

### Api, ApiProofs

The requests of the three services (`Kind` says which endpoint, number and
`maxAge`), from the header check (`Refuse`) over `get_db` (`Arrive`, `Acquire`) and the
query (`Handle`, `HandleFails`) to the end of `async with` (`Release`). The pool is
asyncpg's queue, external: `free` connections, `waiters` in order, `woken` ones whose
turn has come but which a newcomer may still overtake (`Resume` then queues again).
`CommitSessions` and `CommitSwap` are what stages 3 and 2 commit meanwhile, in any
order: `radius_sessions` and `swap_event` are only read here. `HasActiveSession` and
`SwapDates` are the SQL. `Signal` and `Shutdown` are uvicorn's end and `close_pool`. `Null` is a `maxAge` of null, which
the schema accepts: the comparison with NULL holds of no row (`Young`).
`atArrival` and `atAnswer` are history variables for the two data properties.
`SessionAssumption` says of the tables' content that no session stops before it
starts: the simulator makes them so, no rule of stage 2 demands it.

### Orchestrator, Producer, ProducerProofs

`main()` as a sequence of phases, one action per poll of each loop. `proc` are the
child processes; `planned`, `done` and `metadata` are what their checkpoints show
and what they really did. A launch is two steps, the Popen (`Launch`) and the append
(`AppendProcess`): `processes` are the stages that `main()` knows of. A batch of S2 takes
at most `BatchLimit` messages. `Drain` is `wait_for_topic_drain` with its exits: caught up,
idle (remembered in `gaveUp`), past the deadline. `TopicUnseen` is the fourth one, `if not
end_offsets: return True`, when the metadata of the broker lacks the topic (remembered in
`unseen`). `CountRows` is a poll of the table; `DbSilent` is a PostgreSQL that accepts the
connection and does not answer: `psycopg2.connect` and the query have no timeout,
so `main()` stays in `hung` until it answers (`DbAnswers`), and a Python signal handler
does not run before that either. The polls of Kafka do return, if need be with an
exception (`PollRaises`), for aiokafka has timeouts of its own.

The stopping is a step per process: `Terminate` goes through `processes` and asks those
that are alive, `Reap` goes through them again and waits, and kills after five
seconds; a stage may take the SIGTERM or be stuck (`StageExits`). Signals may come
at any step, in the stopping too. With its handler (`Install`: that of SIGINT comes
first) a signal starts `stop_all` from the beginning (`Shutdown`). Without, a SIGINT is
`KeyboardInterrupt`, which leads to `stop_all` once (`Interrupt`) and in there skips the
kills (`CutShort`: `except Exception` does not catch it); SIGTERM ends the process at once
(`Killed`). SIGKILL of the orchestrator, against which no program can do anything, is
left out. The specification is `RunSpec`; S1 is only what can be seen of it,
`SendLine` and `ProducerEnds`.

`Producer` is `publish_csv`: `Send` with the periodic `Gather`, the last gather, `flush`, `stop`.
The accumulator (`queue`), the batch on its way (`flight`) and the futures are
aiokafka's, external: one batch in flight per partition, retried when the
acknowledgement is lost, failed when it expires. `start()` failing before the first
record is left out: nothing has happened then. `acks` is 1 or `all`; `INGESTION_ACKS=0`, which
the code would accept as well, is not modelled: nothing would then tell a delivery from a loss. A line
without an msisdn has no key in the code and goes to any partition; the model has no
such line, for it belongs to no subscriber whose order could be kept.

## 4. Runs

| run | question | result |
|---|---|---|
| Producer | order, back-pressure, meaning of the count, termination of stage 1 | holds |
| DedupTrigger | is the trigger atomic under concurrency? (refinement of `SessionStore`) | holds |
| Dedup | which window does the in-memory deduplication really guarantee? | holds |
| SwapDetection | is the loop the rule, is the clean stream consistent, are the swaps real and complete, does stage 2 find what the simulator injects? | holds |
| Processor | is a record ever lost, an effect repeated without cause, stage 2 stuck? | holds |
| ProcessorLate | does a record that arrives too late go to `invalid_log`? | **violated** |
| ProcessorStarts | do two active Starts of an IMSI always conflict? | **violated** |
| Validation | what do outages, breakers and the cache do to verdicts? | holds |
| Api | are answers current, and does every request end? | holds |
| Orchestrator | does `main()` end, clean up, and when does it say "complete"? | holds |
| OrchestratorComplete | does "complete" mean that everything was processed? | **violated** |
| Pipeline | what do crashes, replays and swallowed errors do to the tables, what arrives from `radius.raw` in the database, and what does a rerun repair? | holds |

The violated ones state what a comment or a test says, and TLC shows how the code
departs from it; `findings` in `PROJECT.json` quotes the line and tells the story.

### What the properties say

- `OneVisibleRowPerKey`, `SeenKeyHasSession`, `DuplicateHasOriginal`,
  `EveryRowAccounted`: the three tables of the backstop agree for every reader at
  every moment, whatever commits, waits or rolls back. `EveryCopyEnds`: the lock
  cycles that two COPYs of the same keys in opposite orders produce are broken.
- `SeenMatchesSessions`: each key has one row of `radius_sessions`, through replays
  and crashes. `CommittedAccounted`: a message behind the committed offset is
  stored, or was in a batch that rolled back, or was forgotten by PostgreSQL; these
  two exceptions are real losses of the code, and there is no third.
- `DuplicatesAreTTLApart`: the guarantee that the filter gives, by the event's own
  time or by the clock. It is weaker than the docstring (`Record trong TTL -> bỏ`):
  cleanup compares event times with the wall clock, so a delayed original expires
  early. In the other direction, an event that lies more than TTL before the
  accepted one is dropped although the docstring lets it pass
  (`DroppedHasOriginal` is what holds).
- `OneOpenSessionPerImsi`, `SessionKeepsIdentity`: consistency of the clean rows of a
  batch, proved or checked against rules that the code computes in another way.
- `EventsAreReassignments`, `SwapsRecorded`: soundness and completeness of
  `swap_event`, in terms of the dates that the HLR has on file and of pairs of clean
  rows, however far apart. The only swaps that are missed are those of a chunk whose
  request failed, of a type whose verification raised, or of a write that rolled
  back: three losses without a retry.
- `InjectedFound`: the conflicts and swaps of a simulated batch are those that the
  draws call for, whatever else was injected. `ExpectedConflicts` and `SwapsSeen`
  say which: among others, an injected device swap is only found when the device
  gets past rule R4b and when the cursor happens to be at the session's subscriber.
- `EndToEnd`: a record that stage 2 has behind it is in the database, on its way to
  stage 3, or in a log; the exceptions are the losses named above and no others,
  also for crashes between any two steps of either stage. `RerunRepairs`: a rerun
  without a failure finds all of these losses again, except the batches that
  PostgreSQL rejects each time. `PipelineDrains`, `BacklogDrains`: no stage gets stuck, with
  one exception that the properties name. A batch whose kept records are several of one
  subscriber makes stage 2 raise, and a restart on the same checkpoint meets it again;
  with one record per batch, or with two subscribers in it, it goes on. Under the
  load of the simulator such a batch is unlikely; when few records come, say two of one
  session in one trigger interval, it is not.
- `NothingLost`: each committed message is in `invalid_log`, or some message of
  its key is on `radius.clean` or in `conflict_log`, unless the write of a log failed.
  That `DEDUP_STATE` is not persisted is what makes this true: a mutant that keeps
  it across a crash loses records, because the replayed batch takes its own
  records for duplicates. `EffectsBounded` is the price: one repetition per crash.
- `AcceptedIsGenuine`, `BypassEarned`, `RejectedIsUnknown`: through any outage, a record
  without a mark is good, a mark means that a breaker had opened in this worker, and
  "unknown" is what a service said. What the code does not promise is that an
  outage ends: there is no half-open state (`BreakerStaysOpen`, proved), and the error and bypass
  verdicts that `TAC_CACHE` keeps, last until Spark ends the worker.
  `FailuresBounded` makes the remark in `_gather_chunks` exact: the breaker may be late,
  by fewer failures than the semaphore admits calls.
- `NoLostWakeup`, `RequestsEnd`: the pool at its limit. No connection is left idle
  while requests sleep, and every request ends, in whatever order they overtake
  each other and fail; therefore a server that is told to stop does stop.
- `VerifyIsCurrent`: the answer lies between what was known when the request arrived
  and what is known when it is given, although it waited for a connection in
  between and Start and Stop rows are committed in any order. It is stated over
  sessions only, so it also checks the remark in `number_verification.py` that the
  two conditions added for the index do not change the result; that remark
  rests on a session keeping its number (the property looks at the rows of one number
  only) and, as the theorem does, on `SessionAssumption`, which holds of simulated
  input and which no rule of stage 2 enforces. `SwapIsLatest`: the same for the swap
  dates, by the time of confirmation and not of detection, for any `maxAge`, null included.
- `MainEnds`: `main()` ends whatever S2 and S3 do, except that a PostgreSQL that accepts
  the connection and is silent may keep it for ever. `NoStageLeft`: no stage outlives it
  but for three signals in the time before the handlers are installed: SIGTERM at any
  moment, a second SIGINT during the stopping, and a first one between a Popen and its
  append. Inside `stop_all` a signal with a handler only starts it again.
- `CompleteMeansRead`: what "complete" does guarantee, namely that S2 has planned
  all of `radius.raw`, unless it was given up as idle or the broker showed no partitions (`CompleteMeansIngested`,
  the same about stage 1, is proved but not run: it is a step of the proof).
- `ReportAccounted`: the count that stage 1 prints includes records whose delivery
  failed, and no others that are missing from the topic.

More disagreements between code and comments are visible in the models and have no
run of their own.

- `api/README.md:52-61` documents the swap queries by `detected_at`; the code asks
  for `confirmed_at`, and so does `SwapDates`. A reader of that file would expect the
  date at which the pipeline noticed the swap, and swaps that are recent by detection.
  Its query for number verification lacks the two conditions that the code's subquery got
  for the index; under `SessionAssumption` they change nothing (`VerifyIsCurrent`).
- `schemas/sim_swap.py:35-38` says of `maxAge` 0 "only the current day"; the query compares
  with `NOW() - 0 days`, so that only a swap confirmed in the future would be found. It accepts
  null, upon which the query finds nothing (`Young`), where one might expect no limit.
- The READMEs of the mock services and the comments at `rules.py:178` and `rules.py:347`
  say that a request may have 100 entries; the code on both sides has 500.
- `stop_all` says "Stop all child processes" (`run_pipeline.py:150`); `NoStageLeft` lists when it
  does not.
- After a crash a row on `radius.clean` may get into `conflict_log` as well, since the
  replay sees another state of `DEDUP_STATE`; `processor.py:15` says that A and B are
  removed from the clean stream.
- Injections C and D take the subscriber of a cursor; the comment at
  `error_injectors.py:143` says that the number of the session is kept. Injection D
  takes the new device from one subscriber and the number from another, so that the
  HLR mostly does not confirm it; and its TAC is not known to the GSMA mock.
- `quality_report.py` counts conflicts of type C in `conflict_log`, and
  `models.py:165` allows for them, but only A and B are written there.
- `get_db` promises 503 when all connections are busy, but `acquire()` has no timeout
  and the request waits (`Acquire` of `Api`).
- `verify_api_key` promises 401 for a missing header, but FastAPI answers 422, after
  the request has taken a connection.

`duplicate_log` is only approximately a log of duplicates: after a replay of a
batch whose COPY had committed it contains the original records themselves.

### Bounds

Bounds are constants named in the modules (`MaxMsgs`, `MaxFaults`, `MaxClock`, ...).

- DedupTrigger: three transactions over three keys; two take the same keys in
  opposite orders (deadlock), one has a duplicate in its own batch, one replays
  another. A cycle needs two transactions; the third sees rollbacks.
- Dedup: time runs to 7 with TTL 3 and cleanup interval 1, events before, around
  and after the window, three records: original, one that moves the entry, and one
  that tests it.
- SwapDetection: all batches of up to five Starts and Stops of three sessions of one
  subscriber, all of up to three mixed records of two subscribers and two sessions,
  all of up to three Starts with moving SIM cards and devices, whose histories have
  two or three entries, out of order and with a number that returns to its old
  card. A chunk is one number, so that two signals take two requests. The simulated
  batches: four subscribers, of whom every second one has swaps on file, three
  sessions of three of them, each longer than the one before, with every combination of
  rolls, where the added session of a swap starts after the next session began; the loss of any records of the first
  or the last session around a plain one or a device swap; with and without the breaker.
- Pipeline: one session: its Start, another Start of it with a second card, which has the
  same key and which PostgreSQL rejects, and a Stop with that card. Two messages in
  batches of up to two, each of any record: a batch with a conflict, one with a
  duplicate, one of one subscriber on which stage 2 raises, and batches of one. Two
  partitions of `radius.clean`, so that the offsets of stage 3 may cut between them; up
  to six messages there, for replays and reruns publish again; two failures, of
  which one may be a rerun: a loss and its repair, or a crash on either side.
- Processor: three messages in batches of two, of six kinds of records, two
  failures: a duplicate across the boundary of a batch and a crash on either side, batches
  of one subscriber (on which it raises) and of two. ProcessorLate has no failures at all.
- Validation: two partitions that share a TAC, with identifiers of every kind; chunks
  of two, two calls at a time, a breaker that opens at two failures: it opens in
  the first partition, with a call on its way, and the second one finds it open and
  the cache filled.
- Api: one connection and three requests that want it (a holder, a waiter and a
  newcomer that overtakes), one of them with a `maxAge` of null, a fourth with a wrong key. The
  code's pool has at least two connections (`min_size=2`); what matters is that it is at its
  limit, which one connection reaches with fewer requests, and the theorems are for
  every size. A session that starts and stops in the same second and one that stays
  open; two swaps that are confirmed one after the other and committed in either order; the
  clock passes the 24 hours of the older session. A bad body is not in the
  instance, only in the theorems: such a request differs in its reply.
- Orchestrator: one line in batches of one, topics and tables with or without remains
  of an earlier run, loops of three polls with an idle limit of two, two
  failures: two signals, a signal and a stage that is stuck, a death and a silent
  service. `wait_for_s1` has no deadline, in the model as in the code. The violating
  run has the real limits and no failure at all.
- Producer: five lines in chunks of three (the file may end after any line), two
  numbers on two partitions, three failures.

### Fairness

- `DedupTrigger`: weak fairness of each transaction's next statement and of the
  deadlock detector; nothing forces an error. PostgreSQL executes statements and
  runs the detector after `deadlock_timeout`.
- `Processor`: weak fairness of the steps of the query, which Spark's
  trigger loop repeats while the process lives. Restarts are not fair, since
  nobody restarts a stage; the liveness properties say "or it is down for good".
- `Pipeline`: weak fairness of stage 2 and of stage 3, for the same reason; not of S1, restarts,
  the WAL writer or a rerun.
- `Orchestrator`: weak fairness of `main()` and of the producer's steps only.
  `MainEnds` holds with no assumption about S2, S3 and PostgreSQL; that S1 comes to the
  end of its file or dies is needed, for nothing bounds the wait for it.
- `Api`: weak fairness of each request. Queries end because of
  `command_timeout`; a request can be overtaken only by the finitely many others. That a
  release wakes a waiter is a property of asyncio's queue, on which the code relies.
- `Producer`: weak fairness of `publish_csv` and of the sender.

`CHECK_DEADLOCK FALSE` is set where the modelled process ends or its input is bounded.

## 5. Proofs

Every theorem is about the unbounded model: any sets of transactions, keys,
records, any batches, any number of failures. They assume only the
named assumptions on the constants. `TypeCorrect` is the type invariant of a module,
`IInv` (or `EInv`, `PInv`, `RInv`) the inductive one.

Why something ends has two halves. That a fair step is taken in the end is
liveness, which TLC checks; that there is a step to take, and that the steps taken
lead to the end, are safety, and are proved for any sizes and any failures:

| liveness (TLC) | somebody can go on (proved) | the steps are counted (proved) |
|---|---|---|
| `EveryCopyEnds` | `NeverStuck` | `CopiesAdvance` |
| `RequestsEnd` | `NeverAsleep` | `QueueUsedUp` |
| `PublishEnds` | `NobodyWaitsInVain` | `PublishIsBounded` |
| `MainEnds` | - (each loop has a deadline but that for S1; only `hung` waits for others) | `MainIsBounded` |
| `BacklogDrains` | `NeverWedged` (but for one subscriber's batch) | `BacklogBounded` |
| `StreamNeverWedges` | `NeverStuck` for its COPY; no other step waits | `StreamBounded` |
| `PipelineDrains` | those of the two stages | those of the two stages |

- `DedupTriggerProofs`. The inductive invariant relates the three tables through
  the holder of each key: a key is held by the transaction whose row in `sessions`
  is the only one of that key among live rows; positions bound which rows of a
  transaction can be in a table; a logged row's key is held by its own or a
  committed transaction. From it follow the five invariants and `Refinement`: a commit is a
  `Store` step of `SessionStore` with exactly its `Fresh` rows, all else stutters. The
  plain invariants are not inductive: they speak of committed transactions, and a
  commit needs to know what the uncommitted rows look like. `NeverStuck`: a COPY that
  cannot go on waits for the holder of its next key, which is running; where all wait,
  a smallest set that contains with each COPY the one it waits for is a cycle
  (`WaitCycle`), and the deadlock detector ends one of its members. `CopiesAdvance` counts
  what is left of a batch (`Remaining`): no step puts another COPY back.
- `PipelineProofs`, stage 3. `SeenMatchesSessions` has to hold of `disk` too, for it is
  what a crash brings back. Both theorems are stated of stage 3 alone (`Spec`) and of the two
  stages (`PipelineSpec`), which the run checks. `CommittedAccounted` needs the fact that in `copied` every
  message of the batch is accounted for, and that keys only leave `seen` into
  `forgotten`. `StreamBounded`: four steps for each message beyond the committed offsets,
  counted over all partitions; a COPY that PostgreSQL rejects, or that a crash of
  PostgreSQL ends, brings the end as near as one that succeeds does, for the callback
  swallows the error.
- `DedupProofs`. The invariant says of each accepted record that the entry of its
  key is at least as recent, or that TTL has passed by the clock (what cleanup may
  have removed), and that an entry belongs to an accepted record.
- `SwapDetectionProofs`, conflict resolution. The loop invariant: up to the cursor of a group, the
  flags are those of the rule, and `openSessions` is the set that `OpenAt` describes.
  Uniqueness of the fixpoint is proved by well-founded choice of the least row on
  which two solutions differ. `OneOpenSession` follows from the rule, `IdentityKept`
  from the existence of a first row of each session.
- `SwapDetectionProofs`, swap detection. `DetectionRunsLoop`: `DetectSpec` implements `Spec` of
  `ConflictResolution`, with the groups in one of their orders, so that its invariant
  can be used. `Ranks` is about counting predecessors in a finite total order; by it
  the history that `Hlr` builds ends with the last two assignments (`HistoryEnds`) and
  every number of a signal is asked for (`MsisdnsFacts`). `EventsSound` needs that the
  histories are those of the type that is being verified, `SwapsComplete` that a
  number is still pending, or its answer failed, or is there (`AskedOrPending`), and
  that between two clean rows with different identities lies a signal
  (`ChangeSignals`). They assume that the HLR's file has cards and devices with dates
  (`ScenarioAssumption`), that each imsi has a group (`OrderAssumption`) and that a chunk
  is not empty (`SizeAssumption`).
- `SwapDetectionProofs`, the simulated batch. `InjectionsFound` rests on the three theorems
  above: `LoopCorrect` says which rows are flagged, `EventsSound` and `SwapsComplete`
  what reaches `swap_event`. What remains is to follow the draws. Each row of a
  simulated batch has one of five forms, told by the name of its session (`Forms`): a
  Start, a Stop that injection A may have changed, a second Start, a record on a new
  card, one on a new device. The forms give what conflicts (`ConflictsFound`):
  `ConflictA` of a changed Stop whose Start is there, `ConflictB` of a second Start
  in between (`SecondFlagged`) and of a new device whose first session was never
  stopped (`DeviceFlagged`), and that nothing else is refused but, maybe, a session on a
  new card that another one has open (`CardFlagged`). So the clean rows lie between two
  sets (`SurelyClean`, `MaybeClean`), and the property is proved for both ends. The swaps are
  those pairs of clean rows of a number whose later one is of an injected session
  (`SureSwaps`, `PossibleSwaps`): the last entry that `seed.py` put on file is
  the new card or device (`SeededLast`), and only a row of an injection carries it
  (`CarriesNewCard`, `CarriesNewDevice`); records of equal times are counted
  on the possible side only.
- `ProcessorProofs`. `NothingLost` needs to know, of each control state, which
  messages of the current batch are already justified: what was rejected is logged
  when its step is over, and a key in `DEDUP_STATE` has an outcome behind the
  committed offset or in the work of the batch. `EffectsBounded` is not inductive, for
  a batch that `Resolve` has gone through owes its effects before it has them. `EInv`
  counts a row that a list has still to write as the effect it will be
  (`EffectsCounted`), and a key that is in `DEDUP_STATE` as one it was good for: `Resolve`
  turns the one into the other, and a crash or an expiry takes keys out and counts a
  renewal for each. This needs that the lists of a batch hold a key at most once
  (`Lists`). The effects are counted as the cardinality of a set of rows, which the
  lemmas of `FiniteSetTheorems` reach; a sum over the topic would need induction over
  data. `Faultless` is what holds besides while nothing has failed:
  what is committed is refused or out; `PipelineProofs` uses it. `NeverWedged` needs, of
  each control state, that what its step takes is there: a row of the clean list for
  the sink, and for `Resolve` a selection that deduplication could make and an order by
  time, unless the rows that are kept are of one subscriber, when it may raise instead.
  Both exist for every batch (`SelectionExists`, `OrderExists`): a key has one place
  that is first, and the rank of a row among the others is its place in an order.
  `BacklogBounded`: eight steps for each message beyond the committed offset, seven of
  the callback and of Spark and one of the sink; a failure that the callback survives
  counts as a step.
- `PipelineProofs`, both stages. Stage 2 comes in as `S2P == INSTANCE ProcessorProofs`,
  with its invariant and the lemmas on each of its steps, stage 3 with `IInv`; a step
  of one is a stutter of the other (`Stage2Step`, `Stage3Step`), except for `PublishBoth`,
  where `CleanPublished` ties the rows that stage 2 has published to the messages on
  `radius.clean`, and `RerunBoth`, which takes both back to their beginnings.
  `EndToEnd` follows from the three: the outcome of a record is in a log or a
  published row of its key, and of that one stage 3 gives account. `RerunRepairs` needs
  more: as long as nothing has failed since the rerun, `Faultless` holds of stage 2, and
  what stage 3 has behind it is in the database or rolled back (`CommittedTaken`).
  `KeyAssumption` and `StageAssumption` say that the stages mean the same records.
- `ValidationProofs`. The invariant follows each identifier: in a partition it is in
  a queued or flying chunk, in `found`, or in the cache; what `found` and the cache say
  "valid" or "unknown" about is so; a bypass in either implies that a breaker was
  noted as open. `FailuresBounded` is inductive with the semaphore's bound, since a
  call starts only below the limit. `BreakerStaysOpen` is an action property over the
  same invariant. The counters, chunk sizes and partitions are arbitrary.
- `ProducerProofs`, stage 1. `OrderPerNumber` follows from a description of each
  partition from end to end (`InOrder`): the batch in flight and the accumulator are
  increasing and come after all of the topic, except that the batch may be on the
  topic already, as a whole and with nothing later than it; and before each copy of a
  line stand copies of all earlier lines of the topic. The order rests on there being
  one batch in flight per partition.
  `BackPressure` needs the last multiple of `FlushEvery` at which `gather` ended
  (`OneChunk`): what is open was sent since. `ReportAccounted` needs that `flush` and the
  last `gather` leave no future open. `NobodyWaitsInVain`: an open future is that of a
  line in the accumulator or in a batch on its way (`OpenIsUnderway`), so the sender
  can move when `gather` cannot. `PublishIsBounded` gives each line four tickets, for it is
  sent, taken and answered once, and counts them as a set: a run takes at most
  `4 * MaxLines + 5` steps, and one for each lost acknowledgement. `FileIsOut`: the
  converse of `OpenIsUnderway` holds too (`UnderwayIsOpen`), so that nothing is left in the
  client when `publish_csv` has ended (`NothingLeft`) and `radius.raw` stays as it is.
  `ProducerEnds` of `Orchestrator` counts on this.
- `ProducerProofs`, the orchestrator. `Orchestrator` names its specification `RunSpec`,
  so that one module can extend both. `RInv` says, phase by phase, what
  `main()` has behind it: S1 ended by itself from the drain loop on (`Ingested`), which
  it does only at the end of the file (`FileSent`), so that `radius.raw` no longer grows,
  and S2 has planned to its end once that loop is left, unless it gave up (`ReadToEnd`).
  `NoStageLeft` needs that the only stages `main()` does not know of are the one between
  Popen and append and the one that a first SIGINT met there (`StagesKnown`), that the
  handlers come after the last launch (`HandlersFollow`), and that behind the loop of
  `Reap` all are dead (`StagesReaped`), however often it is begun again.
  `MainIsBounded` measures where `main()` is by the phases, the processes still to be visited
  and the polls that are left: fewer than `24 * (MaxPolls + 1)` steps, for no loop is entered
  twice and none forgets its count, whatever the stages do meanwhile. Only a signal
  with a handler, while it is stopping, sends it back, to the beginning of `stop_all`.
- `ApiProofs`. The pool: `free` and the holders of a connection add up to `PoolSize`
  (`NoneLost`), which takes the cardinality lemmas for each action; a waiting request is in
  the queue once or is woken (`QueuedOnce`, `NoneForgotten`), and `NoLostWakeup` is
  inductive with these. The data: what a request could have read when it arrived is
  still in the tables when it reads (`ArrivalKept`: stages 2 and 3 only add rows), and
  a finite table has a last confirmed swap (`LastSwap`). `VerificationCurrent` needs
  `SessionAssumption`: a Stop older than its Start does not end the session for the
  query, which asks for a Stop that is no older. `NeverAsleep`: when nobody holds a
  connection all are free, by `NoneLost`, and then `NoLostWakeup` lets no request sleep.
  `QueueUsedUp` bounds the overtaking: a request that was woken in vain queues
  again, which costs what the `Release` that woke it has spent; the steps that are owed
  are counted as a set (`Owed`).

Only model-checked: the seven liveness properties of the table above, since the prover
has neither ENABLED nor fairness. From the two safety halves they follow by an argument
on paper: a fair step is taken as long as there is one, and a count falls with each
until there is none. Crashes, restarts, reruns and new messages may set the counts
back up, and are not claimed to come to an end. The properties of the three violated
runs are refuted; all others are stated by theorems.

## 6. Not modelled

- `get-pip.py`, the installer of pip that the repository carries along: 27924 of its
  33771 lines, third-party code with an encoded archive.
- The mock services, except for their answers to a batch: single lookups, listings
  and pagination, which the pipeline does not use. `DataAutoLoader` is never called.
- Reporting: read-only SQL and a template. It has no state; that any error replaces
  the figures by sample figures is listed as a hazard without a property.
- The arithmetic of the Luhn check and the parsing of timestamps in R4a and R6.
- The payload of records, except the fields that the properties tell apart.
- Spark itself: its offset and commit logs are external behaviour, as is Kafka's
  storage (a published message stays on its topic) and PostgreSQL's.
- The random generators of the simulator: every draw is possible. The TAC pool and
  the check digits, which only decide whether a device is acceptable.
- Indexes, schemas of the API, scripts, load tests and infrastructure: configuration
  and formatting. They were read for what they say about the inputs and about
  restarts.
