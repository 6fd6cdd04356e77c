-------------------------------- MODULE Api --------------------------------
(***************************************************************************)
(* The REST API: requests of the three CAMARA services that share the      *)
(* connection pool of dependencies/database.py and read the tables that    *)
(* stages 2 and 3 fill at the same time, up to the shutdown of the server. *)
(*                                                                         *)
(* External behaviour:                                                     *)
(*   - FastAPI resolves the dependencies before it validates the body: a   *)
(*     request with a bad phoneNumber, or without an X-API-Key header,     *)
(*     holds a connection too, one with a wrong key does not;              *)
(*   - the pool of asyncpg is an asyncio queue of connections: a release   *)
(*     wakes the first waiter, but a newcomer that asks before the waiter  *)
(*     runs takes the connection, and the waiter queues again at the end;  *)
(*   - uvicorn takes no new request after a signal and runs the end of the *)
(*     lifespan when the open ones are answered;                           *)
(*   - a query reads one snapshot; it ends, with an error if need be       *)
(*     (command_timeout = 30).                                             *)
(***************************************************************************)
EXTENDS Naturals, Sequences, FiniteSets

CONSTANTS Req,
          Kind,     \* of each request: endpoint, number, maxAge, key and body
          Session,  \* rows that S3 will commit: sess, status, msisdn, ts
          Swap,     \* rows that S2 will commit: msisdn, type, confirmed
          Null,     \* the maxAge that a body gives as null
          PoolSize, \* DB_POOL_SIZE
          Day,      \* 24 hours, in ticks of the clock
          MaxTime   \* bound: the clock

ASSUME RequestAssumption ==
    Kind \in [Req -> [endpoint : {"verify", "check", "date"}, msisdn : {r.msisdn : r \in Session},
                      type : {"SIM_SWAP", "DEVICE_SWAP"}, maxAge : Nat \cup {Null},
                      keyOk : BOOLEAN, bodyOk : BOOLEAN]]
ASSUME TableAssumption ==
    /\ \A r \in Session : r.status \in {"Start", "Stop"} /\ r.ts \in Nat
    /\ \A w \in Swap : w.confirmed \in Nat \ {0}
\* No Stop is older than the Start of its session. The simulator ends a session
\* after its start (simulator.py:42); no rule of stage 2 asks for it.
ASSUME SessionAssumption ==
    \A r, s \in Session :
        r.msisdn = s.msisdn /\ r.sess = s.sess /\ r.status = "Start" /\ s.status = "Stop"
            => r.ts <= s.ts
ASSUME NullAssumption == Null \notin Nat
ASSUME BoundAssumption ==
    PoolSize \in Nat \ {0} /\ {Day, MaxTime} \subseteq Nat /\ Day <= MaxTime

VARIABLES server,   \* "up", "stopping" after a signal, "down"
          pc,       \* where each request is
          free,     \* idle connections in the queue of the pool
          waiters,  \* requests that wait for one, first to be woken first
          woken,    \* requests whose wait is over but which have not run yet
          reply,    \* the answer in preparation; the value 0 is false or null
          sessions, \* committed rows of radius_sessions
          swaps,    \* committed rows of swap_event
          now,
          atArrival, \* history: what its query would have read when the request arrived
          atAnswer   \* history: the time when its query ran
pool == <<free, waiters, woken>>
tables == <<sessions, swaps>>
history == <<atArrival, atAnswer>>
vars == <<server, pc, pool, reply, tables, now, history>>

NoReply == [status |-> 0, value |-> 0]

TypeOK ==
    /\ server \in {"up", "stopping", "down"}
    /\ pc \in [Req -> {"new", "waiting", "leased", "answered", "done"}]
    /\ free \in 0..PoolSize
    /\ waiters \in Seq(Req) /\ woken \subseteq Req
    /\ reply \in [Req -> [status : {0, 200, 422, 500}, value : Nat]]
    /\ sessions \subseteq Session /\ swaps \subseteq Swap
    /\ now \in Day..MaxTime
    /\ atArrival \in [Req -> SUBSET (Session \cup Swap)]
    /\ atAnswer \in [Req -> Nat]

\* create_pool runs before the server accepts requests.
Init ==
    /\ server = "up"
    /\ pc = [q \in Req |-> "new"]
    /\ free = PoolSize /\ waiters = <<>> /\ woken = {}
    /\ reply = [q \in Req |-> NoReply]
    /\ sessions = {} /\ swaps = {}
    /\ now = Day
    /\ atArrival = [q \in Req |-> {}] /\ atAnswer = [q \in Req |-> 0]

-----------------------------------------------------------------------------
\* NOW() - age, which the queries compare with
Since(age) == IF now < age THEN 0 ELSE now - age

\* Fault: r2.event_timestamp > r1.event_timestamp
StopsLater(r2, r1) ==
    r2.msisdn = r1.msisdn /\ r2.sess = r1.sess /\ r2.status = "Stop" /\ r2.ts > r1.ts
\* The subquery of _QUERY_ACTIVE_SESSION.
Stops(r2, r1) ==
    r2.msisdn = r1.msisdn /\ r2.sess = r1.sess /\ r2.status = "Stop" /\ r2.ts >= r1.ts

\* _QUERY_ACTIVE_SESSION
HasActiveSession(m) ==
    \E r1 \in sessions :
        /\ r1.msisdn = m /\ r1.status = "Start" /\ r1.ts >= Since(Day)
        /\ ~\E r2 \in sessions : Stops(r2, r1)

\* confirmed_at >= NOW() - maxAge days: with 0 this is not the current day, and
\* with NULL no row satisfies it.
Young(w, age) == age # Null /\ w.confirmed >= Since(age)

\* _QUERY_LATEST_SWAP, _QUERY_LATEST_DEVICE_SWAP without ORDER BY and LIMIT.
SwapDates(m, type, age) ==
    {w.confirmed : w \in {v \in swaps : v.msisdn = m /\ v.type = type /\ Young(v, age)}}

\* Fault: ORDER BY confirmed_at without DESC.
Oldest(dates) == IF dates = {} THEN 0 ELSE CHOOSE d \in dates : \A e \in dates : d <= e
\* ORDER BY confirmed_at DESC LIMIT 1
Latest(dates) == IF dates = {} THEN 0 ELSE CHOOSE d \in dates : \A e \in dates : e <= d

ValueOf(q) ==
    LET k == Kind[q]
        dates == SwapDates(k.msisdn, k.type, k.maxAge)
    IN  CASE k.endpoint = "verify" -> IF HasActiveSession(k.msisdn) THEN 1 ELSE 0
          [] k.endpoint = "check"  -> IF dates # {} THEN 1 ELSE 0
          [] k.endpoint = "date"   -> Latest(dates)

Reply(q, status, value) ==
    reply' = [reply EXCEPT ![q] = [status |-> status, value |-> value]]

\* The rows that the query of a request reads.
Readable(q) ==
    CASE ~Kind[q].bodyOk -> {}
      [] Kind[q].endpoint = "verify" -> {r \in sessions : r.msisdn = Kind[q].msisdn}
      [] OTHER -> {w \in swaps : w.msisdn = Kind[q].msisdn /\ w.type = Kind[q].type}

\* verify_api_key raises before a connection is asked for: 401.
Refuse(q) ==
    /\ server = "up" /\ pc[q] = "new" /\ ~Kind[q].keyOk
    /\ pc' = [pc EXCEPT ![q] = "done"]
    /\ UNCHANGED <<server, pool, reply, tables, now, history>>

\* get_db: _pool.acquire() without a timeout.
Acquire(q) ==
    IF free > 0
    THEN /\ free' = free - 1
         /\ pc' = [pc EXCEPT ![q] = "leased"]
         /\ UNCHANGED waiters
    ELSE /\ waiters' = Append(waiters, q)
         /\ pc' = [pc EXCEPT ![q] = "waiting"]
         /\ UNCHANGED free

Arrive(q) ==
    /\ server = "up" /\ pc[q] = "new" /\ Kind[q].keyOk
    /\ Acquire(q)
    /\ atArrival' = [atArrival EXCEPT ![q] = Readable(q)]
    /\ UNCHANGED <<server, woken, reply, tables, now, atAnswer>>

\* A waiter that was woken runs: the connection may be gone again.
Resume(q) ==
    /\ q \in woken
    /\ woken' = woken \ {q}
    /\ Acquire(q)
    /\ UNCHANGED <<server, reply, tables, now, history>>

\* The endpoint runs its query, or the body was invalid and there is none.
Handle(q) ==
    /\ pc[q] = "leased"
    /\ pc' = [pc EXCEPT ![q] = "answered"]
    /\ IF Kind[q].bodyOk THEN Reply(q, 200, ValueOf(q)) ELSE Reply(q, 422, 0)
    /\ atAnswer' = [atAnswer EXCEPT ![q] = now]
    /\ UNCHANGED <<server, pool, tables, now, atArrival>>

\* Fault: the connection is not given back after an error.
HandleFailsLeaking(q) ==
    /\ pc[q] = "leased"
    /\ pc' = [pc EXCEPT ![q] = "done"]
    /\ Reply(q, 500, 0)
    /\ UNCHANGED <<server, pool, tables, now, history>>
\* The connection or the query fails: the exception handlers of main.py answer
\* with 503, or with 500 after a timeout, which is no error of asyncpg's own;
\* both are 500 here.
HandleFails(q) ==
    /\ pc[q] = "leased"
    /\ pc' = [pc EXCEPT ![q] = "answered"]
    /\ Reply(q, 500, 0)
    /\ UNCHANGED <<server, pool, tables, now, history>>

\* The request ends.
Answer(q) ==
    /\ pc[q] = "answered"
    /\ pc' = [pc EXCEPT ![q] = "done"]
    /\ Reply(q, 0, 0)
    /\ atArrival' = [atArrival EXCEPT ![q] = {}]
    /\ atAnswer' = [atAnswer EXCEPT ![q] = 0]
    /\ UNCHANGED <<server, tables, now>>

\* Fault: nobody is woken.
ReleaseSilently(q) ==
    /\ Answer(q)
    /\ free' = free + 1
    /\ UNCHANGED <<waiters, woken>>
\* The end of "async with _pool.acquire()": the first waiter is woken.
Release(q) ==
    /\ Answer(q)
    /\ free' = free + 1
    /\ IF waiters = <<>> THEN UNCHANGED <<waiters, woken>>
       ELSE waiters' = Tail(waiters) /\ woken' = woken \cup {Head(waiters)}

-----------------------------------------------------------------------------
\* Stage 3 commits a micro-batch, stage 2 confirmed swaps; time passes.
CommitSessions(rows) ==
    /\ rows # {}
    /\ sessions' = sessions \cup rows
    /\ UNCHANGED <<server, pc, pool, reply, swaps, now, history>>

CommitSwap(w) ==
    /\ swaps' = swaps \cup {w}
    /\ UNCHANGED <<server, pc, pool, reply, sessions, now, history>>

Tick ==
    /\ now < MaxTime
    /\ now' = now + 1
    /\ UNCHANGED <<server, pc, pool, reply, tables, history>>

Open == {q \in Req : pc[q] \in {"waiting", "leased", "answered"}}

Signal ==
    /\ server = "up"
    /\ server' = "stopping"
    /\ UNCHANGED <<pc, pool, reply, tables, now, history>>

\* close_pool
Shutdown ==
    /\ server = "stopping" /\ Open = {}
    /\ server' = "down"
    /\ UNCHANGED <<pc, pool, reply, tables, now, history>>

Serve(q) == Resume(q) \/ Handle(q) \/ HandleFails(q) \/ Release(q)

Next ==
    \/ \E q \in Req : Refuse(q) \/ Arrive(q) \/ Serve(q)
    \/ \E rows \in SUBSET (Session \ sessions) : CommitSessions(rows)
    \/ \E w \in Swap \ swaps : CommitSwap(w)
    \/ Tick \/ Signal \/ Shutdown

Spec == Init /\ [][Next]_vars

\* The event loop runs every coroutine that can run, and queries end.
FairSpec == Spec /\ \A q \in Req : WF_vars(Serve(q))
-----------------------------------------------------------------------------
Answered == {q \in Req : pc[q] = "answered" /\ reply[q].status = 200}

\* While a connection is idle, no request sleeps without another one being
\* woken for it, although newcomers take connections from under the waiters.
NoLostWakeup == waiters # <<>> => free <= Cardinality(woken)

\* The session of the Start r1 is open in a table: its Stop is not there. The
\* reference, which looks at the session only.
OpenIn(table, r1, since) ==
    /\ r1 \in table /\ r1.status = "Start" /\ r1.ts >= since
    /\ ~\E r2 \in table : r2.sess = r1.sess /\ r2.status = "Stop"

SinceAnswer(q, age) == IF atAnswer[q] < age THEN 0 ELSE atAnswer[q] - age

\* Number verification is as current as its request: it does not verify a number
\* all of whose sessions were stopped before the request arrived, and does not
\* deny one with a session that was open from the arrival on; the conditions
\* on the number and the time that were added for the index change nothing.
VerifyIsCurrent ==
    \A q \in Answered : Kind[q].endpoint = "verify" =>
        LET since == SinceAnswer(q, Day)
            mine == {r \in Session : r.msisdn = Kind[q].msisdn}
        IN  /\ reply[q].value = 1 =>
                  \E r \in mine \cap sessions :
                      r.status = "Start" /\ r.ts >= since
                      /\ ~\E s \in atArrival[q] : s.sess = r.sess /\ s.status = "Stop"
            /\ reply[q].value = 0 =>
                  \A r \in mine : ~(/\ OpenIn(atArrival[q], r, since)
                                    /\ OpenIn(sessions, r, since))

\* retrieve-date returns the date of a swap that the HLR confirmed, and none
\* that was known when the request arrived and is young enough is later; check
\* says no only if there is none. No swap is young enough for a maxAge of null.
SwapIsLatest ==
    \A q \in Answered : Kind[q].endpoint # "verify" =>
        LET k == Kind[q]
            young(table) == {w \in table : /\ w.msisdn = k.msisdn /\ w.type = k.type
                                           /\ k.maxAge # Null /\ w.confirmed >= SinceAnswer(q, k.maxAge)}
        IN  /\ reply[q].value > 0 => \E w \in young(swaps) :
                  k.endpoint = "date" => w.confirmed = reply[q].value
            /\ \A w \in young(atArrival[q]) :
                  reply[q].value >= (IF k.endpoint = "date" THEN w.confirmed ELSE 1)

\* Requests queue for a connection without a limit or a timeout; every request
\* that arrives is answered all the same, as those before it end.
RequestsEnd == \A q \in Req : q \in Open ~> pc[q] = "done"
=============================================================================
