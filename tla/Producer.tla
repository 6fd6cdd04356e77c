------------------------------ MODULE Producer ------------------------------
(***************************************************************************)
(* Stage 1, pipeline/ingestion/producer.py: publish_csv sends the lines of *)
(* the CSV file to radius.raw and waits for the acknowledgements of each   *)
(* FLUSH_EVERY_N_RECORDS of them. A line is its number.                    *)
(*                                                                         *)
(* External behaviour, from aiokafka without idempotence: send() appends   *)
(* the record to the accumulator of its partition and returns a future;    *)
(* one batch per partition is on its way at a time, and is sent again if   *)
(* its acknowledgement is lost; the futures of a batch that gets none in   *)
(* time fail; flush() and stop() wait for all futures.                     *)
(***************************************************************************)
EXTENDS Naturals, Sequences, FiniteSets

CONSTANTS Msisdn, Partition,
          MsisdnOf,    \* the number on each line
          PartitionOf, \* of radius.raw, by the hash of the number
          FlushEvery,  \* FLUSH_EVERY_N_RECORDS
          MaxLines, MaxFaults \* bounds: length of the file, failures

Line == 1..MaxLines

ASSUME LineAssumption == MaxLines \in Nat /\ MsisdnOf \in [Line -> Msisdn]
ASSUME PartitionAssumption == PartitionOf \in [Msisdn -> Partition]
ASSUME FlushAssumption == FlushEvery \in Nat \ {0}

VARIABLES pc,      \* where publish_csv is
          count,   \* lines sent
          pending, \* lines whose futures it has collected
          future,  \* the future of each line
          queue,   \* the accumulator of the partitions
          flight,  \* the batch of each partition that is on its way
          topic,   \* radius.raw
          faults
client == <<future, queue, flight, topic>>
vars == <<pc, count, pending, client, faults>>

TypeOK ==
    /\ pc \in {"reading", "gathering", "lastGather", "flushing", "reported", "stopping",
               "ended", "failed", "killed"}
    /\ count \in 0..MaxLines
    /\ pending \subseteq 1..count
    /\ future \in [Line -> {"none", "open", "acked", "failed"}]
    /\ \A l \in Line : l > count => future[l] = "none"
    /\ queue \in [Partition -> Seq(Line)] /\ flight \in [Partition -> Seq(Line)]
    /\ topic \in [Partition -> Seq(Line)]
    /\ faults \in Nat

NoLines == [p \in Partition |-> <<>>]

Init ==
    /\ pc = "reading" /\ count = 0 /\ pending = {}
    /\ future = [l \in Line |-> "none"]
    /\ queue = NoLines /\ flight = NoLines /\ topic = NoLines
    /\ faults = 0

-----------------------------------------------------------------------------
CountFault == faults < MaxFaults /\ faults' = faults + 1

LinesOf(s) == {s[i] : i \in DOMAIN s}

\* Fault: without a key aiokafka picks any partition.
PartitionForNoKey(l) == IF l = MaxLines THEN CHOOSE p \in Partition : TRUE ELSE PartitionOf[MsisdnOf[l]]
\* key=partition_key
PartitionFor(l) == PartitionOf[MsisdnOf[l]]

AtBoundary == (count + 1) % FlushEvery = 0

\* await send(), pending.append(fut), count += 1.
Send ==
    /\ pc = "reading"
    /\ count < MaxLines
    /\ LET l == count + 1
       IN  /\ queue' = [queue EXCEPT ![PartitionFor(l)] = Append(@, l)]
           /\ future' = [future EXCEPT ![l] = "open"]
           /\ pending' = pending \cup {l}
           /\ count' = l
    /\ pc' = IF AtBoundary THEN "gathering" ELSE "reading"
    /\ UNCHANGED <<flight, topic, faults>>

\* send() raises (a full accumulator, a record that is too large): the
\* exception leaves publish_csv.
SendRaises ==
    /\ CountFault
    /\ pc = "reading"
    /\ count < MaxLines
    /\ pc' = "stopping"
    /\ UNCHANGED <<count, pending, client>>

\* Fault: a failed delivery is waited for as if it could still succeed.
SettledOnSuccess(S) == \A l \in S : future[l] \notin {"open", "failed"}
Settled(S) == \A l \in S : future[l] # "open"

\* Fault: gather() stops waiting at the first failure (return_exceptions=False)
\* and the exception is dropped.
GatherToFirstFailure ==
    /\ pc = "gathering"
    /\ Settled(pending) \/ \E l \in pending : future[l] = "failed"
    /\ pc' = "reading"
    /\ pending' = {}
    /\ UNCHANGED <<count, client, faults>>
\* await gather(*pending, return_exceptions=True), then pending.clear().
Gather ==
    /\ pc = "gathering"
    /\ Settled(pending)
    /\ pc' = "reading"
    /\ pending' = {}
    /\ UNCHANGED <<count, client, faults>>

\* The file may have any length.
EndOfFile ==
    /\ pc = "reading"
    /\ pc' = IF pending = {} THEN "flushing" ELSE "lastGather"
    /\ UNCHANGED <<count, pending, client, faults>>

LastGather ==
    /\ pc = "lastGather"
    /\ Settled(pending)
    /\ pc' = "flushing"
    /\ pending' = {}
    /\ UNCHANGED <<count, client, faults>>

\* flush(), then the count is returned and printed.
Flush ==
    /\ pc = "flushing"
    /\ Settled(Line)
    /\ pc' = "reported"
    /\ UNCHANGED <<count, pending, client, faults>>

\* finally: producer.stop()
Stop ==
    /\ pc \in {"reported", "stopping"}
    /\ Settled(Line)
    /\ pc' = IF pc = "reported" THEN "ended" ELSE "failed"
    /\ UNCHANGED <<count, pending, client, faults>>

\* stop_all of run_pipeline.py, or the process dies: what is queued is gone.
Kill ==
    /\ CountFault
    /\ pc \notin {"ended", "failed", "killed"}
    /\ pc' = "killed"
    /\ queue' = NoLines /\ flight' = NoLines
    /\ UNCHANGED <<count, pending, future, topic>>

-----------------------------------------------------------------------------
\* The sender of aiokafka.
TakeBatch(p) ==
    /\ flight[p] = <<>>
    /\ \E n \in DOMAIN queue[p] :
          /\ flight' = [flight EXCEPT ![p] = SubSeq(queue[p], 1, n)]
          /\ queue' = [queue EXCEPT ![p] = SubSeq(@, n + 1, Len(@))]
    /\ UNCHANGED <<pc, count, pending, future, topic, faults>>

Written(p) == [topic EXCEPT ![p] = @ \o flight[p]]

\* The batch in flight is over, with its futures set to outcome.
EndBatch(p, outcome) ==
    /\ flight[p] # <<>>
    /\ flight' = [flight EXCEPT ![p] = <<>>]
    /\ future' = [l \in Line |-> IF l \in LinesOf(flight[p]) THEN outcome ELSE future[l]]

Deliver(p) ==
    /\ EndBatch(p, "acked")
    /\ topic' = Written(p)
    /\ UNCHANGED <<pc, count, pending, queue, faults>>

\* The batch is on the topic and will be sent again.
AckLost(p) ==
    /\ CountFault
    /\ flight[p] # <<>>
    /\ topic' = Written(p)
    /\ UNCHANGED <<pc, count, pending, future, queue, flight>>

\* Fault: acks=0, a future says nothing of the broker.
BatchExpiresUnnoticed(p) ==
    /\ CountFault
    /\ EndBatch(p, "acked")
    /\ UNCHANGED <<pc, count, pending, queue, topic>>
\* No acknowledgement came in time.
BatchExpires(p) ==
    /\ CountFault
    /\ EndBatch(p, "failed")
    /\ UNCHANGED <<pc, count, pending, queue, topic>>

ProducerStep == Send \/ Gather \/ EndOfFile \/ LastGather \/ Flush \/ Stop
SenderStep(p) == TakeBatch(p) \/ Deliver(p)

Next ==
    \/ ProducerStep \/ SendRaises \/ Kill
    \/ \E p \in Partition : SenderStep(p) \/ AckLost(p) \/ BatchExpires(p)

Spec == Init /\ [][Next]_vars

\* The process runs and the broker answers; its failures are not forced.
FairSpec == Spec /\ WF_vars(ProducerStep) /\ \A p \in Partition : WF_vars(SenderStep(p))
-----------------------------------------------------------------------------
FirstAt(p, l, n) == n \in DOMAIN topic[p] /\ topic[p][n] = l /\ \A k \in 1..(n - 1) : topic[p][k] # l
OnTopic(l) == \E p \in Partition : l \in LinesOf(topic[p])

\* The records of one subscriber reach the topic in the order of the file, in
\* one partition: whatever is retried or expires, a reader of the partition
\* meets the first copy of an earlier line before any later line.
OrderPerNumber ==
    \A i, j \in Line :
        /\ i < j /\ MsisdnOf[i] = MsisdnOf[j]
        /\ OnTopic(i) /\ OnTopic(j)
        => \E p \in Partition : \E n, m \in DOMAIN topic[p] :
              n < m /\ FirstAt(p, i, n) /\ FirstAt(p, j, m)

\* The periodic gather() holds the producer back: never more than one chunk of
\* records waits for an acknowledgement, however slow the broker is, also after
\* failures and at the end of the file.
BackPressure ==
    pc # "killed" => Cardinality({l \in Line : future[l] = "open"}) <= FlushEvery

\* When publish_csv reports its count, each line of the file is on the topic or
\* its delivery has failed: the last, incomplete chunk is not left behind.
ReportAccounted ==
    pc \in {"reported", "ended"} =>
        \A l \in 1..count : OnTopic(l) \/ future[l] = "failed"

\* The process ends whatever deliveries fail: no gather() waits for ever.
PublishEnds == <>(pc \in {"ended", "failed", "killed"})
=============================================================================
