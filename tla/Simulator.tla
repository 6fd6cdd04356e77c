------------------------------ MODULE Simulator ------------------------------
(***************************************************************************)
(* simulator/simulator.py and simulator/error_injectors.py: the records of *)
(* a simulated run, as a function of the random draws, with the shared     *)
(* subscriber pool and what hlr_hss/seed.py puts on file for it.           *)
(*                                                                         *)
(* Subscriber i has number i and SIM card i; Pool + i is the card that it  *)
(* gets in a SIM swap. Time is in units that keep the order of the code's  *)
(* offsets. A record that inject_duplicates repeats is here once, as       *)
(* deduplication leaves it; a draw of bad keys stands for the records that *)
(* inject_invalid_imei or, in all their copies, inject_missing_fields      *)
(* make unacceptable.                                                      *)
(***************************************************************************)
EXTENDS Naturals, Sequences, FiniteSets

CONSTANTS Pool,        \* SUBSCRIBER_POOL_SIZE
          SimEvery,    \* SWAP_MODULO
          DeviceEvery, \* DEVICE_SWAP_MODULO
          Subscribers, Sessions, \* config.subscribers, num_sessions
          Spacing,     \* between the Starts of two sessions
          Duration,    \* of each session
          Pause,       \* before the session of a swap (10 minutes)
          SwapTime     \* duration of that session (60 s)

ASSUME PoolAssumption ==
    /\ {Pool, SimEvery, DeviceEvery, Subscribers, Pause, SwapTime} \subseteq Nat \ {0}
    /\ {Sessions, Spacing} \subseteq Nat
    /\ Subscribers <= Pool /\ Pool > 1
    /\ DOMAIN Duration = 0..(Sessions - 1)
    /\ \A s \in DOMAIN Duration : Duration[s] \in Nat \ {0} /\ Duration[s] % 2 = 0

Subscriber == 0..(Pool - 1)
Roll == {"none", "A imsi", "A msisdn", "B", "C", "D"}

\* has_sim_swap and has_device_swap.
HasSwap(i, every) == i % every = 0
NewCard(i) == Pool + i
\* base_device_imei: these devices share a TAC that is no one else's.
SwapTac == "999999"
Device(i) == <<SwapTac, i>>
NewDevice(i) == Device(Pool + i)

\* SWAP_ELIGIBLE_INDICES[cursor % len]: the subscriber of the swap after n others.
Eligible(every, n) == every * (n % ((Pool + every - 1) \div every))

\* _swap_cursor or _device_swap_cursor at session s.
SwapsBefore(rolls, s, roll) == Cardinality({t \in 0..(s - 1) : rolls[t] = roll})
SimTarget(rolls, s) == Eligible(SimEvery, SwapsBefore(rolls, s, "C"))
DeviceTarget(rolls, s) == Eligible(DeviceEvery, SwapsBefore(rolls, s, "D"))

SubscriberOf(s) == s % Subscribers

\* The two records that execute_simulation makes of a session; generate_valid_imei
\* draws a new device from the TAC pool each time.
Generated(s, status) ==
    [sess |-> <<"SESS", s>>, imsi |-> SubscriberOf(s), msisdn |-> SubscriberOf(s),
     imei |-> <<"TAC", s>>, status |-> status,
     at |-> Spacing * s + (IF status = "Start" THEN 0 ELSE Duration[s])]

\* The session that injection C or D adds after the one it is drawn for.
SwapSession(name, s, number, card, device) ==
    {[sess |-> <<name, s>>, imsi |-> card, msisdn |-> number, imei |-> device, status |-> status,
      at |-> Spacing * s + Duration[s] + Pause + (IF status = "Start" THEN 0 ELSE SwapTime)]
        : status \in {"Start", "Stop"}}

\* inject_conflicts, on the records of session s.
Injected(rolls, s) ==
    LET start == Generated(s, "Start")
        stop == Generated(s, "Stop")
        other == (SubscriberOf(s) + 1) % Pool
        target == SimTarget(rolls, s)
    IN  CASE rolls[s] = "none" -> {start, stop}
          [] rolls[s] = "A imsi" -> {start, [stop EXCEPT !.imsi = other]}
          [] rolls[s] = "A msisdn" -> {start, [stop EXCEPT !.msisdn = other]}
          [] rolls[s] = "B" ->
                {start, stop, [start EXCEPT !.sess = <<"SESS_B", s>>, !.at = @ + Duration[s] \div 2]}
          [] rolls[s] = "C" ->
                {start, stop} \cup
                SwapSession("SESS_C", s, target, NewCard(target), start.imei)
          [] rolls[s] = "D" ->
                {start, stop} \cup
                SwapSession("SESS_D", s, start.msisdn, start.imsi, NewDevice(DeviceTarget(rolls, s)))

Sent(rolls) == UNION {Injected(rolls, s) : s \in 0..(Sessions - 1)}

KeyOf(r) == <<r.sess, r.status>>

-----------------------------------------------------------------------------
\* What stage 2 makes of a draw: its rolls, the bad keys, whether the breaker of
\* GSMA is open. inject_late_arrivals changes nothing: the timestamps are
\* isoformat() + "Z", and _split_late_arrival takes int() of them.

\* The rules let a device of the swap pool pass only if they cannot ask GSMA,
\* which has its own TACs on file.
Accepted(draw) ==
    {r \in Sent(draw.rolls) : KeyOf(r) \notin draw.bad /\ (r.imei[1] = SwapTac => draw.bypass)}

Columns == {"sess", "imsi", "msisdn", "imei", "status"}
Row(r) == [c \in Columns |-> r[c]]

\* sort_values("event_timestamp_ts"): the records in the order of their times,
\* those with equal times in any order.
IsDataFrame(frame, draw) ==
    /\ \A i \in DOMAIN frame : \E r \in Accepted(draw) : frame[i] = Row(r)
    /\ \A r \in Accepted(draw) : \E i \in DOMAIN frame : frame[i] = Row(r)
    /\ \A i, j \in DOMAIN frame : i < j =>
          \E r, q \in Accepted(draw) : /\ frame[i] = Row(r) /\ frame[j] = Row(q)
                                       /\ KeyOf(r) # KeyOf(q) /\ r.at <= q.at

\* generate_mock_subscribers_csv and generate_device_history_csv, loaded.
Seeded ==
    LET table(old(_), new(_), every) ==
            [i \in Subscriber |->
                <<[value |-> old(i), at |-> 1]>>
                \o (IF HasSwap(i, every) THEN <<[value |-> new(i), at |-> 2]>> ELSE <<>>)]
        Card(i) == i
    IN  [SIM_SWAP |-> table(Card, NewCard, SimEvery),
         DEVICE_SWAP |-> table(Device, NewDevice, DeviceEvery)]
=============================================================================
