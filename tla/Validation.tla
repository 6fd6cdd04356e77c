----------------------------- MODULE Validation -----------------------------
(***************************************************************************)
(* pipeline/validation/rules.py as one Spark Python worker runs it: the    *)
(* hybrid prefetch of a partition's identifiers from three services, the   *)
(* circuit breakers, TAC_CACHE, and the rules R1 to R6 on each record.     *)
(*                                                                         *)
(* The breakers and the cache are globals of rules.py: they live as long   *)
(* as the worker does, across partitions and batches. A worker validates   *)
(* one partition at a time, and workers share nothing.                     *)
(*                                                                         *)
(* External behaviour, of the services and httpx: a call gets an answer    *)
(* (HTTP 200, or 422 for a request longer than the service accepts), a     *)
(* fault (HTTP 5xx or the timeout of 10 s), a connection error or a body   *)
(* that is no JSON.                                                        *)
(***************************************************************************)
EXTENDS Naturals, FiniteSets, Sequences

CONSTANTS Rec, Id,
          IdOf,      \* [Service -> [Rec -> Id]]: TAC, IMSI and MSISDN of a record
          Known,     \* [Service -> SUBSET Id]: what each service has on file
          Malformed, \* [Service -> SUBSET Id]: what a local pattern rejects
          Broken,    \* [Rec -> SUBSET LocalRule]: rules the record itself breaks
          Partitions, \* sets of records that the driver may send to the worker
          BatchMax,   \* GSMA_BATCH_MAX, HLR_BATCH_MAX, ITU_BATCH_MAX
          ServiceMax, \* the max_length of the services' request models
          MaxConcurrency, \* BATCH_FETCH_MAX_CONCURRENCY
          Limit           \* CIRCUIT_BREAKER_LIMIT

Service == {"GSMA_TAC", "HLR_HSS", "ITU_E164"}
LocalRule == {"R1", "R4a", "R5", "R6"}
RuleOrder == <<"R1", "R2", "R3", "R4a", "R4b", "R5", "R6">>

ASSUME IdAssumption ==
    /\ IdOf \in [Service -> [Rec -> Id]]
    /\ Known \in [Service -> SUBSET Id]
    /\ Malformed \in [Service -> SUBSET Id] /\ Malformed["HLR_HSS"] = {}
    /\ \A s \in Service : Known[s] \cap Malformed[s] = {}
ASSUME RecAssumption ==
    /\ Broken \in [Rec -> SUBSET LocalRule]
    /\ Partitions \subseteq SUBSET Rec
    /\ \A p \in Partitions : IsFiniteSet(p)
ASSUME BoundAssumption ==
    /\ {BatchMax, ServiceMax, MaxConcurrency, Limit} \subseteq Nat \ {0}
    /\ BatchMax <= ServiceMax

VARIABLES failed,  \* failed_counters
          cache,   \* TAC_CACHE: a function on the TACs it holds
          part,    \* the partition being validated, {} between two of them
          queued,  \* per service: chunks that wait for the semaphore
          flying,  \* per service: chunks whose request is awaited
          found,   \* per service: the results collected so far, by identifier
          results, \* the outcome of each record of the partition validated last
          opened   \* history: services whose breaker has opened
calls == <<queued, flying, found>>
vars == <<failed, cache, part, calls, results, opened>>

\* What a ValidationResult says of an identifier.
Good == {"valid", "WARN_RULE_BYPASSED"}
Infra == {"ERR_EXTERNAL_TIMEOUT", "ERR_EXTERNAL_CONN_FAIL"}
\* "unknown": ERR_IMEI_TAC_UNKNOWN, ERR_IMSI_NOT_IN_HLR, ERR_INVALID_MSISDN
Verdict == Good \cup Infra \cup {"unknown", "ERR_EXTERNAL_REQUEST_REJECTED"}
\* The rule that rejects a record ("all": its partition failed) and the code.
PartitionFailed == [rule |-> "all", code |-> "ERR_PARTITION_VALIDATION_FAILED"]
Outcome == [rule : {RuleOrder[i] : i \in DOMAIN RuleOrder} \cup {"none"},
            code : Verdict \cup {"broken"}] \cup {PartitionFailed}

NoChunks == [s \in Service |-> {}]
Nothing == [x \in {} |-> "valid"]

TypeOK ==
    /\ failed \in [Service -> Nat]
    /\ DOMAIN cache \subseteq Id /\ \A t \in DOMAIN cache : cache[t] \in Verdict
    /\ part \in Partitions \cup {{}}
    /\ queued \in [Service -> SUBSET SUBSET Id]
    /\ flying \in [Service -> SUBSET SUBSET Id]
    /\ DOMAIN found = Service
    /\ \A s \in Service : DOMAIN found[s] \subseteq Id /\ \A i \in DOMAIN found[s] : found[s][i] \in Verdict
    /\ DOMAIN results \subseteq Rec /\ \A r \in DOMAIN results : results[r] \in Outcome
    /\ opened \subseteq Service

Init ==
    /\ failed = [s \in Service |-> 0]
    /\ cache = Nothing
    /\ part = {}
    /\ queued = NoChunks /\ flying = NoChunks
    /\ found = [s \in Service |-> Nothing]
    /\ results = Nothing
    /\ opened = {}

-----------------------------------------------------------------------------
\* {**old, **new}
Update(old, new) ==
    [i \in DOMAIN old \cup DOMAIN new |-> IF i \in DOMAIN new THEN new[i] ELSE old[i]]

\* The identifiers of the partition that s is asked about.
Needed(s, p) ==
    {IdOf[s][r] : r \in p} \ (IF s = "GSMA_TAC" THEN DOMAIN cache ELSE {})

\* Fault: the last chunk is lost if it is not full.
FullChunksOnly(S) ==
    {P \in SUBSET (SUBSET S \ {{}}) :
        /\ \A c, d \in P : c = d \/ c \cap d = {}
        /\ \A c \in P : Cardinality(c) = BatchMax
        /\ Cardinality(S \ UNION P) < BatchMax}
\* Fault: a chunk takes one more.
ChunkOneMore(S) ==
    {P \in SUBSET (SUBSET S \ {{}}) :
        /\ UNION P = S
        /\ \A c, d \in P : c = d \/ c \cap d = {}
        /\ \A c \in P : Cardinality(c) <= BatchMax + 1
        /\ \A c, d \in P : Cardinality(c) <= BatchMax /\ Cardinality(d) <= BatchMax => c = d}
\* Consecutive slices of list(set(...)), whose order is anything: all chunks
\* are full but at most one.
Chunked(S) ==
    {P \in SUBSET (SUBSET S \ {{}}) :
        /\ UNION P = S
        /\ \A c, d \in P : c = d \/ c \cap d = {}
        /\ \A c \in P : Cardinality(c) <= BatchMax
        /\ \A c, d \in P : Cardinality(c) < BatchMax /\ Cardinality(d) < BatchMax => c = d}

\* execute_validation_pipeline_batch up to the three concurrent fetches.
StartPartition(p) ==
    /\ part = {} /\ p # {}
    /\ part' = p
    /\ \E g \in Chunked(Needed("GSMA_TAC", p) \ Malformed["GSMA_TAC"]),
          h \in Chunked(Needed("HLR_HSS", p)),
          i \in Chunked(Needed("ITU_E164", p) \ Malformed["ITU_E164"]) :
        queued' = [s \in Service |->
            CASE s = "GSMA_TAC" -> g [] s = "HLR_HSS" -> h [] s = "ITU_E164" -> i]
    /\ found' = [s \in Service |-> [i \in Needed(s, p) \cap Malformed[s] |-> "unknown"]]
    /\ results' = Nothing
    /\ UNCHANGED <<failed, cache, flying, opened>>

\* The semaphore lets the next chunk of s in.
Admits(s, c) == c \in queued[s] /\ Cardinality(flying[s]) < MaxConcurrency

Dequeue(s, c) == queued' = [queued EXCEPT ![s] = @ \ {c}]
Land(s, c) == flying' = [flying EXCEPT ![s] = @ \ {c}]
Found(s, verdicts) == found' = [found EXCEPT ![s] = Update(@, verdicts)]

\* Fault: the breaker opens one failure early.
BreakerOpenEarly(s) == failed[s] >= Limit - 1
BreakerOpen(s) == failed[s] >= Limit

NoteOpened == opened' = opened \cup {s \in Service : failed'[s] >= Limit}

\* Fault: the breaker is never consulted.
CallAlways(s, c) ==
    /\ Admits(s, c)
    /\ Dequeue(s, c)
    /\ flying' = [flying EXCEPT ![s] = @ \cup {c}]
    /\ UNCHANGED <<failed, cache, part, found, results, opened>>
Call(s, c) ==
    /\ Admits(s, c) /\ ~BreakerOpen(s)
    /\ Dequeue(s, c)
    /\ flying' = [flying EXCEPT ![s] = @ \cup {c}]
    /\ UNCHANGED <<failed, cache, part, found, results, opened>>

Bypass(s, c) ==
    /\ Admits(s, c) /\ BreakerOpen(s)
    /\ Dequeue(s, c)
    /\ Found(s, [i \in c |-> "WARN_RULE_BYPASSED"])
    /\ UNCHANGED <<failed, cache, part, flying, results, opened>>

\* What the service says of i in its answer to the chunk c.
Answer(s, c, i) ==
    IF Cardinality(c) > ServiceMax THEN "ERR_EXTERNAL_REQUEST_REJECTED"
    ELSE IF i \in Known[s] THEN "valid" ELSE "unknown"

Answered(s, c) ==
    /\ c \in flying[s]
    /\ Land(s, c)
    /\ failed' = [failed EXCEPT ![s] = 0]
    /\ Found(s, [i \in c |-> Answer(s, c, i)])
    /\ UNCHANGED <<cache, part, queued, results, opened>>

Fault(s, c) ==
    /\ c \in flying[s]
    /\ Land(s, c)
    /\ failed' = [failed EXCEPT ![s] = @ + 1]
    /\ NoteOpened
    /\ \E err \in Infra : Found(s, [i \in c |-> err])
    /\ UNCHANGED <<cache, part, queued, results>>

\* A body that is no JSON raises: gather() gives up, the client closes, under
\* which some of the other calls fail, and asyncio.run cancels the rest;
\* _validate_partition marks all of its records.
PartitionFails(s, c) ==
    /\ c \in flying[s]
    /\ \E cut \in [Service -> SUBSET UNION {flying[t] : t \in Service}] :
        /\ \A t \in Service : cut[t] \subseteq flying[t]
        /\ c \notin cut[s]
        /\ failed' = [t \in Service |-> (IF t = s THEN 0 ELSE failed[t]) + Cardinality(cut[t])]
    /\ NoteOpened
    /\ results' = [r \in part |-> PartitionFailed]
    /\ part' = {}
    /\ queued' = NoChunks /\ flying' = NoChunks
    /\ found' = [t \in Service |-> Nothing]
    /\ UNCHANGED cache

-----------------------------------------------------------------------------
\* What rule k says of r. tacs is TAC_CACHE with the results just fetched.
RuleSays(k, r, tacs) ==
    CASE k = "R2"  -> found["ITU_E164"][IdOf["ITU_E164"][r]]
      [] k = "R3"  -> found["HLR_HSS"][IdOf["HLR_HSS"][r]]
      [] k = "R4b" -> tacs[IdOf["GSMA_TAC"][r]]
      [] OTHER     -> IF k \in Broken[r] THEN "broken" ELSE "valid"

\* Fault: only the last warning counts.
WarnOfLastRule(r, tacs) == RuleSays("R4b", r, tacs)
\* accumulated_warn
WarnOf(r, tacs) ==
    IF \E k \in {"R2", "R3", "R4b"} : RuleSays(k, r, tacs) = "WARN_RULE_BYPASSED"
    THEN "WARN_RULE_BYPASSED" ELSE "valid"

\* execute_validation_pipeline: the first rule that fails decides.
Validated(r, tacs) ==
    LET Fails(n) == RuleSays(RuleOrder[n], r, tacs) \notin Good
        failing == {n \in DOMAIN RuleOrder : Fails(n)}
    IN  IF failing = {} THEN [rule |-> "none", code |-> WarnOf(r, tacs)]
        ELSE LET first == CHOOSE n \in failing : \A m \in failing : n <= m
             IN  [rule |-> RuleOrder[first], code |-> RuleSays(RuleOrder[first], r, tacs)]

Fetched == part # {} /\ \A s \in Service : queued[s] = {} /\ flying[s] = {}

\* update_tac_cache, then the records one by one.
Finish ==
    /\ Fetched
    /\ cache' = Update(cache, found["GSMA_TAC"])
    /\ results' = [r \in part |-> Validated(r, cache')]
    /\ part' = {}
    /\ found' = [s \in Service |-> Nothing]
    /\ UNCHANGED <<failed, queued, flying, opened>>

\* The Spark worker ends, with or without a partition in hand, and another
\* one imports rules.py.
WorkerDies ==
    /\ failed' = [s \in Service |-> 0]
    /\ cache' = Nothing
    /\ part' = {}
    /\ queued' = NoChunks /\ flying' = NoChunks
    /\ found' = [s \in Service |-> Nothing]
    /\ results' = Nothing
    /\ opened' = {}

Fetch ==
    \E s \in Service : \E c \in queued[s] \cup flying[s] :
        Call(s, c) \/ Bypass(s, c) \/ Answered(s, c) \/ Fault(s, c) \/ PartitionFails(s, c)

Next == (\E p \in Partitions : StartPartition(p)) \/ Fetch \/ Finish \/ WorkerDies

Spec == Init /\ [][Next]_vars
-----------------------------------------------------------------------------
Quiet(s) == failed[s] >= Limit /\ flying[s] = {}

\* The calls of one service that are on their way when its breaker opens may
\* still fail: the counter overshoots the limit, by at most the calls that the
\* semaphore admits but one, and never grows after that.
FailuresBounded ==
    \A s \in Service : failed[s] + Cardinality(flying[s]) < Limit + MaxConcurrency

\* However the chunks of the three services end, and in whatever order, every
\* identifier of the partition has a result when the records are validated: no
\* record is rejected as "Missing in batch result" and R4b needs no call of its
\* own.
EveryIdFetched ==
    Fetched => \A r \in part :
        /\ IdOf["HLR_HSS"][r] \in DOMAIN found["HLR_HSS"]
        /\ IdOf["ITU_E164"][r] \in DOMAIN found["ITU_E164"]
        /\ IdOf["GSMA_TAC"][r] \in DOMAIN cache \cup DOMAIN found["GSMA_TAC"]

Judged == {r \in DOMAIN results : results[r] # PartitionFailed}
Accepted == {r \in Judged : results[r].rule = "none"}

\* A record that is accepted without a warning breaks no rule and all three
\* services know it: no outage of a service, and no result cached during one,
\* lets a bad record pass unmarked.
AcceptedIsGenuine ==
    \A r \in Accepted : results[r].code = "valid" =>
        Broken[r] = {} /\ \A s \in Service : IdOf[s][r] \in Known[s]

\* A record accepted with WARN_RULE_BYPASSED passes every rule that can be
\* evaluated locally, and a breaker has been open in this worker.
BypassEarned ==
    \A r \in Accepted : results[r].code = "WARN_RULE_BYPASSED" =>
        /\ Broken[r] = {} /\ \A s \in Service : IdOf[s][r] \notin Malformed[s]
        /\ opened # {}

ServiceOf(k) == CASE k = "R2" -> "ITU_E164" [] k = "R3" -> "HLR_HSS" [] k = "R4b" -> "GSMA_TAC"

\* invalid_log blames the subscriber only for what the service really said: a
\* record rejected as unknown is unknown to the service, not the victim of an
\* outage; and no request is refused for its size.
RejectedIsUnknown ==
    \A r \in Judged \ Accepted :
        /\ results[r].code = "unknown" =>
              IdOf[ServiceOf(results[r].rule)][r] \notin Known[ServiceOf(results[r].rule)]
        /\ results[r].code # "ERR_EXTERNAL_REQUEST_REJECTED"

\* There is no half-open state: once a breaker is open and no earlier call is on
\* its way, only the end of the worker closes it.
BreakerStaysOpen ==
    [][\A s \in Service : Quiet(s) => Quiet(s)' \/ opened' = {}]_vars
=============================================================================
