---------------------------- MODULE Orchestrator ----------------------------
(***************************************************************************)
(* pipeline/run_pipeline.py: it launches the three stages as processes,    *)
(* watches Kafka, the Spark checkpoints and PostgreSQL from outside until  *)
(* the stages look finished, and stops them.                               *)
(*                                                                         *)
(* A topic is its number of messages. Messages of earlier runs are still   *)
(* in it, and so are their rows in radius_sessions. Only the sums of the   *)
(* partitions' offsets are kept. Reading the ends and then the checkpoint  *)
(* is one step, as the planning of a batch in between could only make a    *)
(* poll return that another poll would have made return.                   *)
(*                                                                         *)
(* External behaviour, from Spark: as in StorageWriter; the first batch is *)
(* planned even if the topic is empty.                                     *)
(***************************************************************************)
EXTENDS Integers

CONSTANTS IdleLimit,   \* idle polls before a topic counts as drained (6)
          StableLimit, \* equal row counts before the table does (2)
          BatchLimit,  \* maxOffsetsPerTrigger of S2 (20000)
          MaxPolls,    \* polls until the deadline of a loop
          Records,     \* bound: lines of the CSV file
          Earlier,     \* bound: messages that earlier runs left in a topic
          MaxRunFaults \* bound: processes that die, signals, services that fail

ASSUME LimitAssumption ==
    {IdleLimit, StableLimit, BatchLimit} \subseteq Nat \ {0} /\ MaxPolls \in Nat
ASSUME BoundAssumption == Records \in Nat /\ Earlier \in Nat

Stage == {"S1", "S2", "S3"}
Query == {"S2", "S3"}
NoOffset == -1 \* no file in offsets/

VARIABLES phase,   \* where main() is
          outcome, \* how it ended
          processes, \* the stages that main() knows of
          handlers, \* the signals whose handler is installed
          todo,    \* of processes: those that the loop of stop_all has yet to visit
          asked,   \* those it has asked to terminate
          proc,    \* the process of each stage
          left,    \* lines of the CSV file still to send
          raw, clean, rows, \* messages of the topics, rows of radius_sessions
          planned, done, \* of S2 and S3: end of the batch in offsets/, of the last processed one
          metadata, \* the queries whose checkpoint has its metadata file
          poll,    \* the local variables of the polling loops
          gaveUp,  \* history: queries that a loop left behind as idle
          unseen,  \* history: queries whose topic had no partitions for a loop
          runFaults
data == <<left, raw, clean, rows>>
queries == <<planned, done, metadata>>
stages == <<proc, data, queries>>
known == <<processes, handlers>>
looked == <<poll, gaveUp, unseen>>
main == <<phase, outcome, known, todo, asked, looked>>
runVars == <<main, stages, runFaults>>

NewLoop == [polls |-> 0, last |-> NoOffset, same |-> 0]
Handled == {"SIGINT", "SIGTERM"}

RunTypeOK ==
    /\ phase \in {"launchS2", "appendS2", "readyS2", "launchS3", "appendS3", "readyS3", "launchS1",
                  "appendS1", "handleInt", "handleTerm", "waitS1", "drainS2", "drainS3",
                  "countRows", "hung", "grace", "terminate", "reap", "ended"}
    /\ outcome \in {"none", "complete", "failed", "interrupted", "cut", "killed"}
    /\ processes \subseteq Stage /\ todo \subseteq processes /\ asked \subseteq processes
    /\ handlers \subseteq Handled
    /\ proc \in [Stage -> {"none", "starting", "running", "finished", "failed", "stopped"}]
    /\ left \in 0..Records
    /\ raw \in Nat /\ clean \in Nat /\ rows \in Nat
    /\ planned \in [Query -> Nat \cup {NoOffset}] /\ done \in [Query -> Nat]
    /\ \A s \in Query : planned[s] >= 0 => done[s] <= planned[s]
    /\ metadata \subseteq Query /\ gaveUp \subseteq Query /\ unseen \subseteq Query
    /\ poll \in [polls : 0..MaxPolls, last : Nat \cup {NoOffset}, same : Nat]
    /\ runFaults \in Nat

\* ensure_kafka_topics has run and the checkpoints are removed.
RunInit ==
    /\ phase = "launchS2" /\ outcome = "none"
    /\ processes = {} /\ handlers = {} /\ todo = {} /\ asked = {}
    /\ proc = [s \in Stage |-> "none"]
    /\ left = Records
    /\ raw \in 0..Earlier /\ clean \in 0..Earlier /\ rows \in 0..Earlier
    /\ planned = [s \in Query |-> NoOffset] /\ done = [s \in Query |-> 0]
    /\ metadata = {} /\ gaveUp = {} /\ unseen = {}
    /\ poll = NewLoop
    /\ runFaults = 0

-----------------------------------------------------------------------------
Alive(s) == proc[s] \in {"starting", "running"}
CountRunFault == runFaults < MaxRunFaults /\ runFaults' = runFaults + 1

\* The stages. A query that starts writes the metadata of its checkpoint.
StageReady(s) ==
    /\ proc[s] = "starting"
    /\ proc' = [proc EXCEPT ![s] = "running"]
    /\ metadata' = metadata \cup {s}
    /\ UNCHANGED <<main, data, planned, done, runFaults>>

StageDies(s) ==
    /\ CountRunFault
    /\ Alive(s)
    /\ proc' = [proc EXCEPT ![s] = "failed"]
    /\ UNCHANGED <<main, data, queries>>

\* SIGTERM ends a stage, unless it is stuck.
StageExits(s) ==
    /\ s \in asked
    /\ Alive(s)
    /\ proc' = [proc EXCEPT ![s] = "stopped"]
    /\ UNCHANGED <<main, data, queries, runFaults>>

\* publish_csv sends a line of the file.
SendLine ==
    /\ proc["S1"] = "running"
    /\ left > 0
    /\ left' = left - 1
    /\ raw' = raw + 1
    /\ UNCHANGED <<main, proc, clean, rows, queries, runFaults>>

\* gather(return_exceptions=True) hides a failed delivery.
SendFails ==
    /\ CountRunFault
    /\ proc["S1"] = "running"
    /\ left > 0
    /\ left' = left - 1
    /\ UNCHANGED <<main, proc, raw, clean, rows, queries>>

ProducerEnds ==
    /\ proc["S1"] = "running"
    /\ left = 0
    /\ proc' = [proc EXCEPT !["S1"] = "finished"]
    /\ UNCHANGED <<main, data, queries, runFaults>>

Input(s) == IF s = "S2" THEN raw ELSE clean

\* S3 reads up to the end of its topic.
BatchEnd(s) ==
    IF s = "S2" /\ done[s] + BatchLimit < Input(s) THEN done[s] + BatchLimit ELSE Input(s)

PlanBatch(s) ==
    /\ proc[s] = "running"
    /\ planned[s] = NoOffset \/ (planned[s] = done[s] /\ done[s] < Input(s))
    /\ planned' = [planned EXCEPT ![s] = BatchEnd(s)]
    /\ UNCHANGED <<main, proc, data, done, metadata, runFaults>>

\* The callback of the batch returns; some of its records are filtered.
ProcessBatch(s) ==
    /\ proc[s] = "running"
    /\ done[s] < planned[s]
    /\ done' = [done EXCEPT ![s] = planned[s]]
    /\ \E n \in 0..(planned[s] - done[s]) :
          IF s = "S2" THEN clean' = clean + n /\ UNCHANGED rows
                      ELSE rows' = rows + n /\ UNCHANGED clean
    /\ UNCHANGED <<main, proc, left, raw, planned, metadata, runFaults>>

-----------------------------------------------------------------------------
\* main(). An exception or a signal leads to stop_all.
StopWith(result) == phase' = "terminate" /\ todo' = processes /\ outcome' = result
Fail == StopWith("failed")
GoTo(p) == phase' = p /\ UNCHANGED <<outcome, todo>>

\* run_stage returns the Popen object ...
Launch(s, from, to) ==
    /\ phase = from
    /\ proc' = [proc EXCEPT ![s] = IF s = "S1" THEN "running" ELSE "starting"]
    /\ GoTo(to)
    /\ UNCHANGED <<data, queries, known, asked, looked, runFaults>>

\* ... and main() appends it to processes.
AppendProcess(s, from, to) ==
    /\ phase = from
    /\ processes' = processes \cup {s}
    /\ GoTo(to)
    /\ UNCHANGED <<stages, handlers, asked, looked, runFaults>>

\* signal.signal
Install(sig, from, to) ==
    /\ phase = from
    /\ handlers' = handlers \cup {sig}
    /\ GoTo(to)
    /\ UNCHANGED <<stages, processes, asked, looked, runFaults>>

\* wait_for_spark_ready: a checkpoint is enough, the process is not looked at.
WaitReady(s, from, to) ==
    /\ phase = from
    /\ IF poll.polls = MaxPolls
       THEN Fail /\ poll' = NewLoop
       ELSE IF s \in metadata
            THEN GoTo(to) /\ poll' = NewLoop
            ELSE /\ poll' = [poll EXCEPT !.polls = @ + 1]
                 /\ UNCHANGED <<phase, outcome, todo>>
    /\ UNCHANGED <<stages, known, asked, gaveUp, unseen, runFaults>>

WaitS1 ==
    /\ phase = "waitS1"
    /\ ~Alive("S1")
    /\ IF proc["S1"] = "finished" THEN GoTo("drainS2") ELSE Fail
    /\ UNCHANGED <<stages, known, asked, looked, runFaults>>

\* Fault: an offset is taken for the last message instead of the end.
CaughtUpButOne(s) == planned[s] # NoOffset /\ planned[s] + 1 >= Input(s)
\* stream_caught_up: the batch in offsets/ reaches the end of the topic. That a
\* topic without partitions counts as read too is TopicUnseen.
CaughtUp(s) == planned[s] # NoOffset /\ planned[s] >= Input(s)
ConsumedSum(s) == IF planned[s] = NoOffset THEN 0 ELSE planned[s]
Idle(s) == planned[s] # NoOffset /\ planned[s] = poll.last /\ Input(s) > 0

\* Fault: a loop without deadline.
PastDeadlineNever == FALSE
PastDeadline == poll.polls = MaxPolls
\* A poll does not count towards a deadline that is never looked at.
CountPoll == IF poll.polls = MaxPolls THEN MaxPolls ELSE poll.polls + 1

\* wait_for_topic_drain.
Drain(s, from, to) ==
    /\ phase = from
    /\ \/ PastDeadline /\ Fail /\ poll' = NewLoop /\ UNCHANGED gaveUp
       \/ ~PastDeadline /\ CaughtUp(s) /\ GoTo(to) /\ poll' = NewLoop /\ UNCHANGED gaveUp
       \/ /\ ~PastDeadline /\ ~CaughtUp(s)
          /\ IF Idle(s) /\ poll.same + 1 >= IdleLimit
             THEN GoTo(to) /\ poll' = NewLoop /\ gaveUp' = gaveUp \cup {s}
             ELSE /\ UNCHANGED <<phase, outcome, todo, gaveUp>>
                  /\ poll' = IF Idle(s)
                             THEN [poll EXCEPT !.polls = CountPoll, !.same = @ + 1]
                             ELSE [polls |-> CountPoll, last |-> ConsumedSum(s), same |-> 0]
    /\ UNCHANGED <<stages, known, asked, unseen, runFaults>>

\* "if not end_offsets: return True": a broker whose metadata lacks the topic
\* ends the loop, and so does a sum of no offsets in the loop over the rows.
TopicUnseen(s, from, to) ==
    /\ CountRunFault
    /\ phase = from /\ ~PastDeadline
    /\ GoTo(to) /\ poll' = NewLoop
    /\ unseen' = unseen \cup {s}
    /\ UNCHANGED <<stages, known, asked, gaveUp>>

\* wait_for_s3_db_drain after the topic: read is FALSE when PostgreSQL refuses.
\* Past the deadline it gives up without an error.
CountRows(read) ==
    LET stable == read /\ rows = poll.last /\ rows > 0
    IN  /\ phase = "countRows"
        /\ IF \/ PastDeadline
              \/ clean = 0
              \/ stable /\ poll.same + 1 >= StableLimit
           THEN GoTo("grace") /\ poll' = NewLoop
           ELSE /\ UNCHANGED <<phase, outcome, todo>>
                /\ poll' = IF read
                           THEN [polls |-> CountPoll, last |-> rows,
                                 same |-> IF stable THEN poll.same + 1 ELSE 0]
                           ELSE [poll EXCEPT !.polls = CountPoll]
        /\ UNCHANGED <<stages, known, asked, gaveUp, unseen, runFaults>>

\* psycopg2.connect and the COUNT have no timeout: PostgreSQL may keep main()
\* waiting, which cannot even run its signal handlers ...
DbSilent ==
    /\ CountRunFault
    /\ phase = "countRows" /\ ~PastDeadline
    /\ GoTo("hung")
    /\ UNCHANGED <<stages, known, asked, looked>>

\* ... until it answers, maybe after the deadline.
DbAnswers ==
    /\ phase = "hung"
    /\ GoTo("countRows")
    /\ \E n \in {poll.polls, MaxPolls} : poll' = [poll EXCEPT !.polls = n]
    /\ UNCHANGED <<stages, known, asked, gaveUp, unseen, runFaults>>

\* time.sleep(s3_commit_grace)
Grace ==
    /\ phase = "grace"
    /\ StopWith("complete")
    /\ UNCHANGED <<stages, known, asked, looked, runFaults>>

\* Kafka does not answer a poll in time, or a script is not there.
PollRaises ==
    /\ CountRunFault
    /\ phase \in {"launchS2", "launchS3", "launchS1", "waitS1", "drainS2", "drainS3", "countRows"}
    /\ Fail
    /\ UNCHANGED <<stages, known, asked, looked>>

\* The loops of stop_all, over processes in the order of their launch.
Rank == [S2 |-> 1, S3 |-> 2, S1 |-> 3]
IsNext(s) == s \in todo /\ \A t \in todo : Rank[s] <= Rank[t]

\* Terminate ...
Terminate ==
    /\ phase = "terminate"
    /\ \/ \E s \in todo : /\ IsNext(s) /\ todo' = todo \ {s}
                          /\ asked' = IF Alive(s) THEN asked \cup {s} ELSE asked
                          /\ UNCHANGED phase
       \/ todo = {} /\ phase' = "reap" /\ todo' = processes /\ UNCHANGED asked
    /\ UNCHANGED <<outcome, stages, known, looked, runFaults>>

\* Fault: a stage that does not end within five seconds is left alone.
ReapSoftly ==
    /\ phase = "reap"
    /\ \/ \E s \in todo : IsNext(s) /\ todo' = todo \ {s} /\ UNCHANGED <<phase, proc>>
       \/ todo = {} /\ phase' = "ended" /\ UNCHANGED <<todo, proc>>
    /\ UNCHANGED <<outcome, data, queries, known, asked, looked, runFaults>>
\* ... then wait for each, and kill it after five seconds.
Reap ==
    /\ phase = "reap"
    /\ \/ \E s \in todo : /\ IsNext(s) /\ todo' = todo \ {s}
                          /\ proc' = IF Alive(s) THEN [proc EXCEPT ![s] = "stopped"] ELSE proc
                          /\ UNCHANGED phase
       \/ todo = {} /\ phase' = "ended" /\ UNCHANGED <<todo, proc>>
    /\ UNCHANGED <<outcome, data, queries, known, asked, looked, runFaults>>

Stopping == phase \in {"terminate", "reap"}

\* A signal that has its handler, at any moment, in stop_all too: shutdown()
\* calls stop_all from the beginning, then sys.exit, which nothing catches.
Shutdown(sig) ==
    /\ CountRunFault
    /\ phase \notin {"hung", "ended"}
    /\ sig \in handlers
    /\ StopWith("interrupted")
    /\ UNCHANGED <<stages, known, asked, looked>>

\* SIGINT without a handler raises KeyboardInterrupt, which main() catches ...
Interrupt ==
    /\ CountRunFault
    /\ phase # "ended" /\ ~Stopping
    /\ "SIGINT" \notin handlers
    /\ StopWith("interrupted")
    /\ UNCHANGED <<stages, known, asked, looked>>

\* ... but not while it already handles an exception: a second one leaves
\* stop_all ("except Exception" does not stop it) and main().
CutShort ==
    /\ CountRunFault
    /\ Stopping
    /\ "SIGINT" \notin handlers
    /\ phase' = "ended" /\ outcome' = "cut"
    /\ UNCHANGED <<stages, known, todo, asked, looked>>

\* SIGTERM without a handler.
Killed ==
    /\ CountRunFault
    /\ phase # "ended"
    /\ "SIGTERM" \notin handlers
    /\ phase' = "ended" /\ outcome' = "killed"
    /\ UNCHANGED <<stages, known, todo, asked, looked>>
-----------------------------------------------------------------------------
MainStep ==
    \/ Launch("S2", "launchS2", "appendS2") \/ AppendProcess("S2", "appendS2", "readyS2")
    \/ WaitReady("S2", "readyS2", "launchS3")
    \/ Launch("S3", "launchS3", "appendS3") \/ AppendProcess("S3", "appendS3", "readyS3")
    \/ WaitReady("S3", "readyS3", "launchS1")
    \/ Launch("S1", "launchS1", "appendS1") \/ AppendProcess("S1", "appendS1", "handleInt")
    \/ Install("SIGINT", "handleInt", "handleTerm") \/ Install("SIGTERM", "handleTerm", "waitS1")
    \/ WaitS1
    \/ Drain("S2", "drainS2", "drainS3") \/ Drain("S3", "drainS3", "countRows")
    \/ \E read \in BOOLEAN : CountRows(read)
    \/ Grace \/ Terminate \/ Reap

Signal == Interrupt \/ CutShort \/ Killed \/ \E sig \in Handled : Shutdown(sig)
ServiceFails ==
    \/ PollRaises \/ DbSilent
    \/ TopicUnseen("S2", "drainS2", "drainS3") \/ TopicUnseen("S3", "drainS3", "countRows")
    \/ TopicUnseen("S3", "countRows", "grace")

S1Step == SendLine \/ ProducerEnds

RunNext ==
    \/ MainStep \/ S1Step
    \/ \E s \in Query : StageReady(s) \/ PlanBatch(s) \/ ProcessBatch(s)
    \/ \E s \in Stage : StageDies(s) \/ StageExits(s)
    \/ SendFails \/ ServiceFails \/ DbAnswers \/ Signal

RunSpec == RunInit /\ [][RunNext]_runVars

\* main() keeps polling and S1 reaches the end of its file; nothing is assumed
\* of S2, S3 and PostgreSQL.
FairRunSpec == RunSpec /\ WF_runVars(MainStep) /\ WF_runVars(S1Step)
-----------------------------------------------------------------------------
\* main() ends, whatever S2 and S3 do (they may die at any time, never become
\* ready or stall in a batch), unless a PostgreSQL that accepts connections and
\* never answers keeps it waiting.
MainEnds == <>(phase = "ended") \/ <>[](phase = "hung")

\* When main() has ended no stage runs on, not even a stuck one, whichever
\* signals interrupt the stopping; except, before the handlers are installed,
\* after a SIGTERM, after a second SIGINT, and the one stage that a first SIGINT
\* met between its Popen and the append.
NoStageLeft ==
    phase = "ended" => \A s \in Stage : Alive(s) =>
        \/ outcome = "killed" /\ "SIGTERM" \notin handlers
        \/ outcome = "cut" /\ "SIGINT" \notin handlers
        \/ outcome = "interrupted" /\ handlers = {} /\ s \notin processes

\* main() prints that the run is complete.
Complete == phase = "ended" /\ outcome = "complete"

\* A run whose producer died is never called complete.
CompleteMeansIngested == Complete => proc["S1"] = "finished" /\ left = 0

\* A complete run has planned a batch up to the end of radius.raw, unless S2
\* was given up as idle or its topic was seen without partitions: S1 cannot slip
\* in a message after the last look.
CompleteMeansRead == Complete /\ "S2" \notin gaveUp \cup unseen => planned["S2"] >= raw

\* "Pipeline hoàn tất — tất cả stage đã xử lý xong" (run_pipeline.py): the
\* stages have processed whatever was on their topics.
CompleteMeansProcessed == Complete => done["S2"] = raw /\ done["S3"] = clean
=============================================================================
