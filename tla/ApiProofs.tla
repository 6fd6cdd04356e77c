------------------------------ MODULE ApiProofs ------------------------------
(***************************************************************************)
(* The REST API for every set of requests, every size of the pool and every*)
(* content of the tables: no connection is lost and no wake-up either,     *)
(* what a request is told is as current as the request, and some request   *)
(* can always go on.                                                       *)
(***************************************************************************)
EXTENDS Api, FiniteSetTheorems, SequenceTheorems, WellFoundedInduction, TLAPS

\* Every connection is in the queue of the pool or with one request.
Holding == {q \in Req : pc[q] \in {"leased", "answered"}}
NoneLost == IsFiniteSet(Holding) /\ free + Cardinality(Holding) = PoolSize

\* A request that waits is in the queue, once, or has been woken.
QueueWaits ==
    \A i \in DOMAIN waiters : pc[waiters[i]] = "waiting" /\ waiters[i] \notin woken
QueuedOnce == \A i, j \in DOMAIN waiters : i # j => waiters[i] # waiters[j]
WokenWait == IsFiniteSet(woken) /\ \A q \in woken : pc[q] = "waiting"
NoneForgotten ==
    \A q \in Req : pc[q] = "waiting" =>
        q \in woken \/ \E i \in DOMAIN waiters : waiters[i] = q

PoolInv == NoneLost /\ QueueWaits /\ QueuedOnce /\ WokenWait /\ NoneForgotten /\ NoLostWakeup

\* What a request could have read when it arrived is still in the tables.
ArrivalKept ==
    \A q \in Req :
        /\ Kind[q].endpoint = "verify" =>
              atArrival[q] \subseteq {r \in sessions : r.msisdn = Kind[q].msisdn}
        /\ Kind[q].endpoint # "verify" => atArrival[q] \subseteq swaps

\* ORDER BY confirmed_at DESC LIMIT 1 has a first row: the table is finite.
LastSwap == swaps # {} => \E w \in swaps : \A v \in swaps : v.confirmed <= w.confirmed

QueryInv == ArrivalKept /\ LastSwap /\ VerifyIsCurrent /\ SwapIsLatest

IInv == TypeOK /\ PoolInv /\ QueryInv

-----------------------------------------------------------------------------
LEMMA QueueType ==
  ASSUME TypeOK
  PROVE  /\ waiters \in Seq(Req) /\ Len(waiters) \in Nat
         /\ DOMAIN waiters = 1..Len(waiters)
         /\ \A i \in DOMAIN waiters : waiters[i] \in Req
<1>1. waiters \in Seq(Req)
  BY DEF TypeOK
<1> QED
  BY <1>1, LenProperties, ElementOfSeq

LEMMA AcquireMoves ==
  ASSUME TypeOK, NEW q \in Req, Acquire(q)
  PROVE  /\ pc' \in [Req -> {"new", "waiting", "leased", "answered", "done"}]
         /\ pc'[q] \in {"leased", "waiting"}
         /\ \A r \in Req \ {q} : pc'[r] = pc[r]
<1>1. pc \in [Req -> {"new", "waiting", "leased", "answered", "done"}]
  BY DEF TypeOK
<1>2. pc' = [pc EXCEPT ![q] = "leased"] \/ pc' = [pc EXCEPT ![q] = "waiting"]
  BY DEF Acquire
<1> QED
  BY <1>1, <1>2

\* A connection goes to a request that holds none.
LEMMA LeaseCounts ==
  ASSUME TypeOK, NoneLost, NEW q \in Req, pc[q] \in {"new", "waiting"}, Acquire(q)
  PROVE  NoneLost' /\ free' \in 0..PoolSize
<1>1. free \in Nat /\ PoolSize \in Nat /\ free <= PoolSize /\ pc \in [Req -> {"new", "waiting", "leased", "answered", "done"}]
  BY BoundAssumption DEF TypeOK
<1>2. IsFiniteSet(Holding) /\ Cardinality(Holding) \in Nat /\ q \notin Holding
  BY FS_CardinalityType DEF NoneLost, Holding
<1>3. CASE free > 0
  <2>1. free' = free - 1 /\ pc' = [pc EXCEPT ![q] = "leased"]
    BY <1>3 DEF Acquire
  <2>2. Holding' = Holding \cup {q}
    BY <1>1, <2>1 DEF Holding
  <2>3. IsFiniteSet(Holding \cup {q}) /\ Cardinality(Holding \cup {q}) = Cardinality(Holding) + 1
    BY <1>2, FS_AddElement
  <2>4. IsFiniteSet(Holding)' /\ Cardinality(Holding)' = Cardinality(Holding) + 1
    BY <2>2, <2>3
  <2>5. PICK c \in Nat : c = Cardinality(Holding)
    BY <1>2
  <2>6. Cardinality(Holding)' = c + 1 /\ free + c = PoolSize
    BY <2>4, <2>5 DEF NoneLost
  <2>7. free' + (c + 1) = PoolSize /\ free' \in 0..PoolSize
    BY <1>1, <1>3, <2>1, <2>6
  <2> QED
    BY <2>4, <2>6, <2>7 DEF NoneLost
<1>4. CASE ~(free > 0)
  <2>1. free' = free /\ pc' = [pc EXCEPT ![q] = "waiting"]
    BY <1>4 DEF Acquire
  <2>2. Holding' = Holding
    BY <1>1, <1>2, <2>1 DEF Holding
  <2> QED
    BY <1>1, <2>1, <2>2 DEF NoneLost
<1> QED
  BY <1>3, <1>4

\* A request that gets no connection queues at the end; the woken one that asks
\* again is not woken any more.
LEMMA AcquireKeepsQueue ==
  ASSUME TypeOK, PoolInv, NEW q \in Req, Acquire(q),
         \/ pc[q] = "new" /\ woken' = woken
         \/ q \in woken /\ woken' = woken \ {q}
  PROVE  PoolInv' /\ free' \in 0..PoolSize /\ waiters' \in Seq(Req) /\ woken' \subseteq Req
<1>1. /\ free \in Nat
      /\ pc \in [Req -> {"new", "waiting", "leased", "answered", "done"}]
      /\ woken \subseteq Req
  BY DEF TypeOK
<1>2. pc[q] \in {"new", "waiting"} /\ q \notin woken' /\ woken' \subseteq woken
      /\ woken \subseteq woken' \cup {q}
  BY DEF PoolInv, WokenWait
<1>3. NoneLost' /\ free' \in 0..PoolSize
  BY <1>2, LeaseCounts DEF PoolInv
<1>4. IsFiniteSet(woken')
  <2>1. IsFiniteSet(woken)
    BY DEF PoolInv, WokenWait
  <2>2. IsFiniteSet(woken \ {q})
    BY <2>1, FS_RemoveElement
  <2> QED
    BY <2>1, <2>2
<1>5. \A i \in DOMAIN waiters : waiters[i] # q
  BY DEF PoolInv, QueueWaits
<1>6. CASE free > 0
  <2>1. free' = free - 1 /\ pc' = [pc EXCEPT ![q] = "leased"] /\ waiters' = waiters
    BY <1>6 DEF Acquire
  <2>2. QueueWaits' /\ QueuedOnce'
    BY <1>1, <1>2, <1>5, <2>1, QueueType DEF PoolInv, QueueWaits, QueuedOnce
  <2>3. WokenWait'
    BY <1>1, <1>2, <1>4, <2>1 DEF PoolInv, WokenWait
  <2>4. NoneForgotten'
    BY <1>1, <1>2, <2>1 DEF PoolInv, NoneForgotten
  <2>5. NoLostWakeup'
    <3>1. IsFiniteSet(woken) /\ Cardinality(woken) \in Nat
      BY FS_CardinalityType DEF PoolInv, WokenWait
    <3>2. \/ Cardinality(woken') = Cardinality(woken)
          \/ Cardinality(woken') = Cardinality(woken) - 1
      <4>1. Cardinality(woken \ {q}) \in {Cardinality(woken), Cardinality(woken) - 1}
        BY <3>1, FS_RemoveElement
      <4> QED
        BY <4>1
    <3>3. PICK c \in Nat : c = Cardinality(woken)
      BY <3>1
    <3>4. waiters # <<>> => free <= c
      BY <3>3 DEF PoolInv, NoLostWakeup
    <3>5. PICK d : d = Cardinality(woken')
      OBVIOUS
    <3>6. d = c \/ d = c - 1
      BY <3>2, <3>3, <3>5
    <3>7. waiters' # <<>> => free' <= d
      BY <1>1, <2>1, <3>4, <3>6
    <3> QED
      BY <3>5, <3>7 DEF NoLostWakeup
  <2> QED
    BY <1>1, <1>2, <1>3, <2>1, <2>2, <2>3, <2>4, <2>5, QueueType DEF PoolInv
<1>7. CASE ~(free > 0)
  <2>1. free' = free /\ pc' = [pc EXCEPT ![q] = "waiting"] /\ waiters' = Append(waiters, q)
    BY <1>7 DEF Acquire
  <2>2. PICK n \in Nat : n = Len(waiters)
    BY QueueType
  <2>3. /\ waiters' \in Seq(Req) /\ Len(waiters') = n + 1
        /\ \A i \in 1..n : waiters'[i] = waiters[i]
        /\ waiters'[n + 1] = q
    BY <2>1, <2>2, QueueType, AppendProperties
  <2>4. DOMAIN waiters = 1..n /\ DOMAIN waiters' = 1..(n + 1)
    BY <2>2, <2>3, QueueType, LenProperties
  <2>5. \A i \in DOMAIN waiters' : i \in 1..n \/ i = n + 1
    BY <2>4
  <2>6. QueueWaits'
    <3> SUFFICES ASSUME NEW i \in DOMAIN waiters'
                 PROVE  pc'[waiters'[i]] = "waiting" /\ waiters'[i] \notin woken'
      BY DEF QueueWaits
    <3>1. CASE i \in 1..n
      BY <1>1, <1>2, <2>1, <2>3, <2>4, <3>1, QueueType DEF PoolInv, QueueWaits
    <3>2. CASE i = n + 1
      BY <1>1, <1>2, <2>1, <2>3, <3>2
    <3> QED
      BY <2>5, <3>1, <3>2
  <2>7. QueuedOnce'
    <3> SUFFICES ASSUME NEW i \in DOMAIN waiters', NEW j \in DOMAIN waiters', i # j
                 PROVE  waiters'[i] # waiters'[j]
      BY DEF QueuedOnce
    <3>1. CASE i \in 1..n /\ j \in 1..n
      BY <2>3, <2>4, <3>1 DEF PoolInv, QueuedOnce
    <3>2. CASE i = n + 1 \/ j = n + 1
      BY <1>5, <2>3, <2>4, <2>5, <3>2
    <3> QED
      BY <2>5, <3>1, <3>2
  <2>8. WokenWait'
    BY <1>1, <1>2, <1>4, <2>1 DEF PoolInv, WokenWait
  <2>9. NoneForgotten'
    <3> SUFFICES ASSUME NEW r \in Req, pc'[r] = "waiting", r \notin woken'
                 PROVE  \E i \in DOMAIN waiters' : waiters'[i] = r
      BY DEF NoneForgotten
    <3>1. CASE r = q
      <4>1. n + 1 \in DOMAIN waiters'
        BY <2>4
      <4> QED
        BY <2>3, <3>1, <4>1
    <3>2. CASE r # q
      <4>1. pc[r] = "waiting" /\ r \notin woken
        BY <1>1, <1>2, <2>1, <3>2
      <4>2. PICK i \in DOMAIN waiters : waiters[i] = r
        BY <4>1 DEF PoolInv, NoneForgotten
      <4>3. i \in 1..n /\ i \in DOMAIN waiters'
        BY <2>4, <4>2
      <4> QED
        BY <2>3, <4>2, <4>3
    <3> QED
      BY <3>1, <3>2
  <2>10. NoLostWakeup'
    <3>1. Cardinality(woken') \in Nat
      BY <1>4, FS_CardinalityType
    <3>2. free' = 0
      BY <1>1, <1>7, <2>1
    <3>3. PICK d \in Nat : d = Cardinality(woken')
      BY <3>1
    <3>4. free' <= d
      BY <3>2, <3>3
    <3> QED
      BY <3>3, <3>4 DEF NoLostWakeup
  <2> QED
    BY <1>1, <1>2, <1>3, <2>3, <2>6, <2>7, <2>8, <2>9, <2>10 DEF PoolInv
<1> QED
  BY <1>6, <1>7

\* A connection that comes back wakes the request that waits longest.
LEMMA ReleaseKeepsQueue ==
  ASSUME TypeOK, PoolInv, NEW q \in Req, Release(q)
  PROVE  PoolInv' /\ free' \in 0..PoolSize /\ waiters' \in Seq(Req) /\ woken' \subseteq Req
<1>1. /\ free \in Nat /\ PoolSize \in Nat
      /\ pc \in [Req -> {"new", "waiting", "leased", "answered", "done"}]
      /\ woken \subseteq Req
  BY BoundAssumption DEF TypeOK
<1>2. pc[q] = "answered" /\ pc' = [pc EXCEPT ![q] = "done"] /\ free' = free + 1
  BY DEF Release, Answer
<1>3. NoneLost' /\ free' \in 0..PoolSize
  <2>1. IsFiniteSet(Holding) /\ Cardinality(Holding) \in Nat /\ q \in Holding
    BY <1>2, FS_CardinalityType DEF PoolInv, NoneLost, Holding
  <2>2. Holding' = Holding \ {q}
    BY <1>1, <1>2 DEF Holding
  <2>3. IsFiniteSet(Holding \ {q}) /\ Cardinality(Holding \ {q}) = Cardinality(Holding) - 1
    BY <2>1, FS_RemoveElement
  <2>4. IsFiniteSet(Holding \ {q}) /\ Cardinality(Holding \ {q}) \in Nat
    BY <2>3, FS_CardinalityType
  <2>5. PICK c \in Nat : c = Cardinality(Holding)
    BY <2>1
  <2>6. PICK d \in Nat : d = Cardinality(Holding \ {q})
    BY <2>4
  <2>7. d = c - 1 /\ free + c = PoolSize
    BY <2>3, <2>5, <2>6 DEF PoolInv, NoneLost
  <2>8. free' + d = PoolSize /\ free' \in 0..PoolSize
    BY <1>1, <1>2, <2>7
  <2>9. IsFiniteSet(Holding') /\ Cardinality(Holding)' = d
    BY <2>2, <2>3, <2>6
  <2> QED
    BY <2>8, <2>9 DEF NoneLost
<1>4. q \notin woken /\ \A i \in DOMAIN waiters : waiters[i] # q
  BY <1>2 DEF PoolInv, WokenWait, QueueWaits
<1>5. CASE waiters = <<>>
  <2>1. waiters' = waiters /\ woken' = woken
    BY <1>5 DEF Release
  <2>2. QueueWaits' /\ QueuedOnce'
    BY <1>1, <1>2, <1>4, <2>1, QueueType DEF PoolInv, QueueWaits, QueuedOnce
  <2>3. WokenWait' /\ NoneForgotten'
    BY <1>1, <1>2, <1>4, <2>1 DEF PoolInv, WokenWait, NoneForgotten
  <2>4. NoLostWakeup'
    BY <1>5, <2>1 DEF NoLostWakeup
  <2> QED
    BY <1>1, <1>3, <2>1, <2>2, <2>3, <2>4, QueueType DEF PoolInv
<1>6. CASE waiters # <<>>
  <2>1. waiters' = Tail(waiters) /\ woken' = woken \cup {Head(waiters)}
    BY <1>6 DEF Release
  <2>2. PICK n \in Nat : n = Len(waiters)
    BY QueueType
  <2>3. n >= 1 /\ DOMAIN waiters = 1..n /\ Head(waiters) = waiters[1]
    BY <1>6, <2>2, QueueType, EmptySeq
  <2>4. /\ waiters' \in Seq(Req) /\ Len(waiters') = n - 1
        /\ \A i \in 1..(n - 1) : waiters'[i] = waiters[i + 1]
    BY <1>6, <2>1, <2>2, QueueType, HeadTailProperties
  <2>5. DOMAIN waiters' = 1..(n - 1)
    BY <2>4, LenProperties
  <2>6. PICK h \in Req : h = waiters[1]
    BY <2>3, QueueType
  <2>7. pc[h] = "waiting" /\ h \notin woken /\ h # q
    BY <1>4, <2>3, <2>6 DEF PoolInv, QueueWaits
  <2>8. woken' = woken \cup {h}
    BY <2>1, <2>3, <2>6
  <2>9. \A i \in 1..(n - 1) : i + 1 \in DOMAIN waiters /\ waiters[i + 1] # h
    BY <2>3, <2>6 DEF PoolInv, QueuedOnce
  <2>10. QueueWaits'
    <3> SUFFICES ASSUME NEW i \in 1..(n - 1)
                 PROVE  pc'[waiters'[i]] = "waiting" /\ waiters'[i] \notin woken'
      BY <2>5 DEF QueueWaits
    <3>1. i + 1 \in DOMAIN waiters /\ waiters'[i] = waiters[i + 1] /\ waiters[i + 1] # h
      BY <2>4, <2>9
    <3>2. waiters[i + 1] \in Req /\ waiters[i + 1] # q
      BY <1>4, <3>1, QueueType
    <3>3. pc[waiters[i + 1]] = "waiting" /\ waiters[i + 1] \notin woken
      BY <3>1 DEF PoolInv, QueueWaits
    <3> QED
      BY <1>1, <1>2, <2>8, <3>1, <3>2, <3>3
  <2>11. QueuedOnce'
    <3> SUFFICES ASSUME NEW i \in 1..(n - 1), NEW j \in 1..(n - 1), i # j
                 PROVE  waiters'[i] # waiters'[j]
      BY <2>5 DEF QueuedOnce
    <3>1. i + 1 \in DOMAIN waiters /\ j + 1 \in DOMAIN waiters /\ i + 1 # j + 1
      BY <2>9
    <3>2. waiters[i + 1] # waiters[j + 1]
      BY <3>1 DEF PoolInv, QueuedOnce
    <3> QED
      BY <2>4, <3>2
  <2>12. IsFiniteSet(woken) /\ IsFiniteSet(woken \cup {h})
         /\ Cardinality(woken) \in Nat /\ Cardinality(woken \cup {h}) = Cardinality(woken) + 1
    <3>1. IsFiniteSet(woken)
      BY DEF PoolInv, WokenWait
    <3>2. Cardinality(woken) \in Nat
      BY <3>1, FS_CardinalityType
    <3>3. IsFiniteSet(woken \cup {h}) /\ Cardinality(woken \cup {h}) = Cardinality(woken) + 1
      BY <2>7, <3>1, FS_AddElement
    <3> QED
      BY <3>1, <3>2, <3>3
  <2>13. WokenWait'
    BY <1>1, <1>2, <1>4, <2>7, <2>8, <2>12 DEF PoolInv, WokenWait
  <2>14. NoneForgotten'
    <3> SUFFICES ASSUME NEW r \in Req, pc'[r] = "waiting", r \notin woken'
                 PROVE  \E i \in DOMAIN waiters' : waiters'[i] = r
      BY DEF NoneForgotten
    <3>1. pc[r] = "waiting" /\ r \notin woken /\ r # h
      BY <1>1, <1>2, <2>8
    <3>2. PICK i \in DOMAIN waiters : waiters[i] = r
      BY <3>1 DEF PoolInv, NoneForgotten
    <3>3. PICK k \in 1..(n - 1) : k + 1 = i
      <4>1. i \in 1..n /\ i # 1
        BY <2>3, <2>6, <3>1, <3>2
      <4>2. i - 1 \in 1..(n - 1) /\ (i - 1) + 1 = i
        BY <4>1
      <4> QED
        BY <4>2
    <3> QED
      BY <2>4, <2>5, <3>2, <3>3
  <2>15. NoLostWakeup'
    <3>1. PICK c \in Nat : c = Cardinality(woken)
      BY <2>12
    <3>2. free <= c
      BY <1>6, <3>1 DEF PoolInv, NoLostWakeup
    <3>3. Cardinality(woken)' = c + 1
      BY <2>8, <2>12, <3>1
    <3>4. free' <= c + 1
      BY <1>1, <1>2, <3>2
    <3> QED
      BY <3>3, <3>4 DEF NoLostWakeup
  <2> QED
    BY <1>1, <1>3, <2>4, <2>8, <2>10, <2>11, <2>13, <2>14, <2>15 DEF PoolInv
<1> QED
  BY <1>5, <1>6

\* The other steps of a request neither take nor return a connection.
LEMMA PoolUntouched ==
  ASSUME TypeOK, PoolInv, UNCHANGED pool,
         \/ pc' = pc
         \/ \E q \in Req : \/ pc[q] = "leased" /\ pc' = [pc EXCEPT ![q] = "answered"]
                           \/ pc[q] = "new" /\ pc' = [pc EXCEPT ![q] = "done"]
  PROVE  PoolInv'
<1>1. free' = free /\ waiters' = waiters /\ woken' = woken
  BY DEF pool
<1>2. pc \in [Req -> {"new", "waiting", "leased", "answered", "done"}]
  BY DEF TypeOK
<1>3. /\ \A r \in Req : pc'[r] = "waiting" <=> pc[r] = "waiting"
      /\ \A r \in Req : pc'[r] \in {"leased", "answered"} <=> pc[r] \in {"leased", "answered"}
  BY <1>2
<1>4. Holding' = Holding
  BY <1>3 DEF Holding
<1>5. NoneLost' /\ NoLostWakeup'
  BY <1>1, <1>4 DEF PoolInv, NoneLost, NoLostWakeup
<1>6. QueueWaits' /\ QueuedOnce'
  BY <1>1, <1>3, QueueType DEF PoolInv, QueueWaits, QueuedOnce
<1>7. WokenWait' /\ NoneForgotten'
  <2>1. woken \subseteq Req
    BY DEF TypeOK
  <2> QED
    BY <1>1, <1>3, <2>1 DEF PoolInv, WokenWait, NoneForgotten
<1> QED
  BY <1>5, <1>6, <1>7 DEF PoolInv

-----------------------------------------------------------------------------
\* The first row of ORDER BY confirmed_at DESC: every set of dates with an upper
\* bound has a latest one.
LEMMA LatestIsLast ==
  ASSUME NEW D \in SUBSET Nat, D # {}, NEW b \in Nat, \A d \in D : d <= b
  PROVE  Latest(D) \in D /\ \A d \in D : d <= Latest(D)
<1> DEFINE Bounds == {n \in Nat : \A d \in D : d <= n}
<1>1. b \in Bounds /\ Bounds \subseteq Nat
  OBVIOUS
<1>2. PICK m \in Bounds : \A k \in Bounds : ~(<<k, m>> \in OpToRel(<, Nat))
  <2> HIDE DEF Bounds
  <2> QED
    BY <1>1, NatLessThanWellFounded, WFMin
<1>3. m \in D
  <2> SUFFICES ASSUME m \notin D PROVE FALSE
    OBVIOUS
  <2>1. \A d \in D : d \in Nat /\ d < m
    OBVIOUS
  <2>2. PICK d \in D : TRUE
    OBVIOUS
  <2>3. m - 1 \in Nat /\ \A e \in D : e <= m - 1
    BY <2>1, <2>2
  <2>4. PICK k \in Nat : k = m - 1
    BY <2>3
  <2>5. k \in Bounds /\ k < m
    BY <2>3, <2>4
  <2> QED
    BY <1>2, <2>5 DEF OpToRel
<1>4. \E d \in D : \A e \in D : e <= d
  BY <1>3
<1> QED
  BY <1>4 DEF Latest

\* The dates of a request and the latest of them.
LEMMA DatesOf ==
  ASSUME TypeOK, LastSwap, NEW m, NEW type, NEW age
  PROVE  LET dates == SwapDates(m, type, age)
         IN  /\ dates \subseteq Nat \ {0}
             /\ Latest(dates) \in Nat
             /\ dates = {} => Latest(dates) = 0
             /\ dates # {} => Latest(dates) \in dates
             /\ \A d \in dates : d <= Latest(dates)
<1> DEFINE dates == SwapDates(m, type, age)
<1>1. \A v \in swaps : v.confirmed \in Nat \ {0}
  BY TableAssumption DEF TypeOK
<1>2. /\ dates \subseteq Nat \ {0}
      /\ \A d \in dates : \E v \in swaps : d = v.confirmed
  BY <1>1 DEF SwapDates
<1>3. CASE dates = {}
  BY <1>3 DEF Latest
<1>4. CASE dates # {}
  <2>1. swaps # {}
    BY <1>2, <1>4
  <2>2. PICK w \in swaps : \A v \in swaps : v.confirmed <= w.confirmed
    BY <2>1 DEF LastSwap
  <2>3. \A d \in dates : d <= w.confirmed
    BY <1>2, <2>2
  <2>4. dates \in SUBSET Nat /\ w.confirmed \in Nat
    BY <1>1, <1>2, <2>2
  <2>5. Latest(dates) \in dates /\ \A d \in dates : d <= Latest(dates)
    <3> HIDE DEF dates
    <3> QED
      BY <1>4, <2>3, <2>4, LatestIsLast
  <2> QED
    BY <1>2, <1>4, <2>5
<1> QED
  BY <1>3, <1>4

LEMMA RequestType ==
  ASSUME NEW q \in Req
  PROVE  Kind[q].endpoint \in {"verify", "check", "date"}
BY RequestAssumption

LEMMA ValueType ==
  ASSUME TypeOK, LastSwap, NEW q \in Req
  PROVE  ValueOf(q) \in Nat
<1>1. Latest(SwapDates(Kind[q].msisdn, Kind[q].type, Kind[q].maxAge)) \in Nat
  BY DatesOf
<1> QED
  BY <1>1, RequestType DEF ValueOf

\* The answer of one request, as VerifyIsCurrent and SwapIsLatest state it.
Mine(q) == {r \in Session : r.msisdn = Kind[q].msisdn}
VerifiedCurrent(q) ==
    /\ reply[q].value = 1 =>
          \E r \in Mine(q) \cap sessions :
              r.status = "Start" /\ r.ts >= SinceAnswer(q, Day)
              /\ ~\E s \in atArrival[q] : s.sess = r.sess /\ s.status = "Stop"
    /\ reply[q].value = 0 =>
          \A r \in Mine(q) : ~(/\ OpenIn(atArrival[q], r, SinceAnswer(q, Day))
                             /\ OpenIn(sessions, r, SinceAnswer(q, Day)))
YoungFor(table, q) ==
    {w \in table : /\ w.msisdn = Kind[q].msisdn /\ w.type = Kind[q].type
                   /\ Kind[q].maxAge # Null /\ w.confirmed >= SinceAnswer(q, Kind[q].maxAge)}
DateLatest(q) ==
    /\ reply[q].value > 0 => \E w \in YoungFor(swaps, q) :
          Kind[q].endpoint = "date" => w.confirmed = reply[q].value
    /\ \A w \in YoungFor(atArrival[q], q) :
          reply[q].value >= (IF Kind[q].endpoint = "date" THEN w.confirmed ELSE 1)

AllVerifiedCurrent == \A q \in Answered : Kind[q].endpoint = "verify" => VerifiedCurrent(q)
AllDatesLatest == \A q \in Answered : Kind[q].endpoint # "verify" => DateLatest(q)

LEMMA AnswerWise ==
  /\ VerifyIsCurrent <=> AllVerifiedCurrent
  /\ SwapIsLatest <=> AllDatesLatest
BY DEF VerifyIsCurrent, SwapIsLatest, VerifiedCurrent, Mine, DateLatest, YoungFor,
       AllVerifiedCurrent, AllDatesLatest

LEMMA AnswerWiseNext ==
  ASSUME \A q \in Answered' : /\ Kind[q].endpoint = "verify" => VerifiedCurrent(q)'
                              /\ Kind[q].endpoint # "verify" => DateLatest(q)'
  PROVE  VerifyIsCurrent' /\ SwapIsLatest'
<1>1. AllVerifiedCurrent'
  BY DEF AllVerifiedCurrent
<1>2. AllDatesLatest'
  BY DEF AllDatesLatest
<1> QED
  BY <1>1, <1>2, AnswerWise, PTL

\* An answer that is prepared stays right while the tables grow.
LEMMA AnswersKept ==
  ASSUME ArrivalKept, VerifyIsCurrent, SwapIsLatest,
         sessions \subseteq sessions', swaps \subseteq swaps',
         NEW q \in Answered, reply'[q] = reply[q],
         atArrival'[q] = atArrival[q], atAnswer'[q] = atAnswer[q]
  PROVE  /\ Kind[q].endpoint = "verify" => VerifiedCurrent(q)'
         /\ Kind[q].endpoint # "verify" => DateLatest(q)'
<1>0. q \in Req
  BY DEF Answered
<1>1. ASSUME Kind[q].endpoint = "verify" PROVE VerifiedCurrent(q)'
  <2>1. VerifiedCurrent(q) /\ atArrival[q] \subseteq sessions
    BY <1>0, <1>1, AnswerWise DEF ArrivalKept, AllVerifiedCurrent
  <2>2. SinceAnswer(q, Day)' = SinceAnswer(q, Day)
    BY DEF SinceAnswer
  <2>3. ASSUME NEW r, OpenIn(atArrival[q], r, SinceAnswer(q, Day)),
               OpenIn(sessions, r, SinceAnswer(q, Day))'
        PROVE  OpenIn(sessions, r, SinceAnswer(q, Day))
    BY <2>1, <2>2, <2>3 DEF OpenIn
  <2> QED
    BY <2>1, <2>2, <2>3 DEF VerifiedCurrent, Mine, OpenIn
<1>2. ASSUME Kind[q].endpoint # "verify" PROVE DateLatest(q)'
  <2>1. DateLatest(q)
    BY <1>2, AnswerWise DEF AllDatesLatest
  <2>2. SinceAnswer(q, Kind[q].maxAge)' = SinceAnswer(q, Kind[q].maxAge)
    BY DEF SinceAnswer
  <2>3. /\ YoungFor(swaps, q) \subseteq YoungFor(swaps, q)'
        /\ YoungFor(atArrival[q], q)' = YoungFor(atArrival[q], q)
    BY <2>2 DEF YoungFor
  <2> QED
    BY <2>1, <2>3 DEF DateLatest
<1> QED
  BY <1>1, <1>2

\* _QUERY_ACTIVE_SESSION against the reference that looks at the session only.
LEMMA QueryVerifies ==
  ASSUME TypeOK, ArrivalKept, NEW q \in Req, Kind[q].endpoint = "verify",
         Kind[q].bodyOk, Handle(q)
  PROVE  VerifiedCurrent(q)'
<1> DEFINE m == Kind[q].msisdn
           since == Since(Day)
<1>1. /\ UNCHANGED <<sessions, atArrival, swaps>>
      /\ reply' = [reply EXCEPT ![q] = [status |-> 200, value |-> ValueOf(q)]]
      /\ atAnswer' = [atAnswer EXCEPT ![q] = now]
  BY DEF Handle, Reply, tables
<1>2. reply'[q].value = (IF HasActiveSession(m) THEN 1 ELSE 0)
  BY <1>1 DEF TypeOK, ValueOf
<1>3. SinceAnswer(q, Day)' = since
  BY <1>1 DEF TypeOK, SinceAnswer, Since
<1>4. atArrival[q] \subseteq {r \in sessions : r.msisdn = m}
  BY DEF ArrivalKept
<1>5. sessions \subseteq Session
  BY DEF TypeOK
<1>6. ASSUME HasActiveSession(m)
      PROVE  \E r \in {r \in Session : r.msisdn = m} \cap sessions :
                r.status = "Start" /\ r.ts >= since
                /\ ~\E s \in atArrival[q] : s.sess = r.sess /\ s.status = "Stop"
  <2>1. PICK r \in sessions : /\ r.msisdn = m /\ r.status = "Start" /\ r.ts >= since
                              /\ ~\E s \in sessions : Stops(s, r)
    BY <1>6 DEF HasActiveSession
  <2>2. ~\E s \in atArrival[q] : s.sess = r.sess /\ s.status = "Stop"
    <3> SUFFICES ASSUME NEW s \in atArrival[q], s.sess = r.sess, s.status = "Stop" PROVE FALSE
      OBVIOUS
    <3>1. s \in sessions /\ s.msisdn = m /\ s \in Session /\ r \in Session
      BY <1>4, <1>5, <2>1
    <3>2. r.ts <= s.ts /\ r.ts \in Nat /\ s.ts \in Nat
      BY <2>1, <3>1, SessionAssumption, TableAssumption
    <3>3. s.ts >= r.ts
      BY <3>2
    <3> QED
      BY <2>1, <3>1, <3>3 DEF Stops
  <2> QED
    BY <1>5, <2>1, <2>2
<1>7. ASSUME ~HasActiveSession(m), NEW r, r.msisdn = m, OpenIn(atArrival[q], r, since),
             OpenIn(sessions, r, since)
      PROVE  FALSE
  <2>1. r \in sessions /\ r.status = "Start" /\ r.ts >= since
    BY <1>7 DEF OpenIn
  <2>2. PICK s \in sessions : Stops(s, r)
    BY <1>7, <2>1 DEF HasActiveSession
  <2> QED
    BY <1>7, <2>2 DEF Stops, OpenIn
<1>8. CASE HasActiveSession(m)
  <2>1. reply'[q].value = 1
    BY <1>2, <1>8
  <2> QED
    BY <1>1, <1>3, <1>6, <1>8, <2>1 DEF VerifiedCurrent, Mine
<1>9. CASE ~HasActiveSession(m)
  <2>1. reply'[q].value = 0
    BY <1>2, <1>9
  <2>2. ASSUME NEW r \in {r \in Session : r.msisdn = m}
        PROVE  ~(OpenIn(atArrival[q], r, since) /\ OpenIn(sessions, r, since))
    BY <1>7, <1>9
  <2> HIDE DEF since
  <2> QED
    BY <1>1, <1>3, <2>1, <2>2 DEF VerifiedCurrent, Mine, OpenIn
<1> QED
  BY <1>8, <1>9

\* The queries of swap_event, with and without their first row.
LEMMA QueryFindsLatest ==
  ASSUME TypeOK, ArrivalKept, LastSwap, NEW q \in Req, Kind[q].endpoint # "verify",
         Kind[q].bodyOk, Handle(q)
  PROVE  DateLatest(q)'
<1> DEFINE k == Kind[q]
           dates == SwapDates(k.msisdn, k.type, k.maxAge)
<1>1. /\ UNCHANGED <<sessions, atArrival, swaps>>
      /\ reply' = [reply EXCEPT ![q] = [status |-> 200, value |-> ValueOf(q)]]
      /\ atAnswer' = [atAnswer EXCEPT ![q] = now]
  BY DEF Handle, Reply, tables
<1>2. reply'[q].value = ValueOf(q)
  BY <1>1 DEF TypeOK
<1>3. SinceAnswer(q, k.maxAge)' = Since(k.maxAge)
  BY <1>1 DEF TypeOK, SinceAnswer, Since
<1>4. atArrival[q] \subseteq swaps
  BY DEF ArrivalKept
<1>5. \A S : YoungFor(S, q)' = {w \in S : /\ w.msisdn = k.msisdn /\ w.type = k.type
                                          /\ Young(w, k.maxAge)}
  BY <1>3 DEF YoungFor, Young
<1>6. /\ dates \subseteq Nat \ {0} /\ Latest(dates) \in Nat
      /\ dates = {} => Latest(dates) = 0
      /\ dates # {} => Latest(dates) \in dates
      /\ \A d \in dates : d <= Latest(dates)
  BY DatesOf
<1>7. \A d : d \in dates <=> \E w \in YoungFor(swaps, q)' : d = w.confirmed
  BY <1>1, <1>5 DEF SwapDates, YoungFor
<1>8. \A w \in YoungFor(atArrival[q], q)' : w.confirmed \in dates
  BY <1>1, <1>4, <1>5 DEF SwapDates
<1>9. ASSUME k.endpoint = "date" PROVE DateLatest(q)'
  <2>1. reply'[q].value = Latest(dates)
    BY <1>2, <1>9 DEF ValueOf
  <2>2. reply'[q].value > 0 => \E w \in YoungFor(swaps, q)' : w.confirmed = reply'[q].value
    BY <1>6, <1>7, <2>1
  <2>3. \A w \in YoungFor(atArrival[q], q)' : reply'[q].value >= w.confirmed
    BY <1>6, <1>8, <2>1
  <2> QED
    BY <1>9, <2>2, <2>3 DEF DateLatest
<1>10. ASSUME k.endpoint = "check" PROVE DateLatest(q)'
  <2>1. reply'[q].value = (IF dates # {} THEN 1 ELSE 0)
    BY <1>2, <1>10 DEF ValueOf
  <2>2. reply'[q].value > 0 => \E w \in YoungFor(swaps, q)' : TRUE
    BY <1>7, <2>1
  <2>3. \A w \in YoungFor(atArrival[q], q)' : reply'[q].value >= 1
    BY <1>8, <2>1
  <2> QED
    BY <1>10, <2>2, <2>3 DEF DateLatest
<1> QED
  BY <1>9, <1>10, RequestType

-----------------------------------------------------------------------------
LEMMA Initially == Init => IInv
<1> SUFFICES ASSUME Init PROVE IInv
  OBVIOUS
<1>1. /\ pc = [q \in Req |-> "new"] /\ free = PoolSize /\ waiters = <<>> /\ woken = {}
      /\ atArrival = [q \in Req |-> {}] /\ swaps = {}
  BY DEF Init
<1>2. TypeOK
  <2>1. waiters \in Seq(Req)
    BY <1>1, EmptySeq
  <2>2. free \in 0..PoolSize /\ now \in Day..MaxTime
    BY <1>1, BoundAssumption DEF Init
  <2>3. reply \in [Req -> [status : {0, 200, 422, 500}, value : Nat]]
    BY DEF Init, NoReply
  <2> QED
    BY <2>1, <2>2, <2>3 DEF Init, TypeOK
<1>3. PoolInv
  <2>1. Holding = {}
    BY <1>1 DEF Holding
  <2>2. NoneLost
    <3>1. IsFiniteSet({}) /\ Cardinality({}) = 0
      BY FS_EmptySet
    <3>2. IsFiniteSet(Holding) /\ Cardinality(Holding) = 0
      BY <2>1, <3>1
    <3> QED
      BY <1>1, <3>2, BoundAssumption DEF NoneLost
  <2>3. DOMAIN waiters = {}
    BY <1>1
  <2>4. QueueWaits /\ QueuedOnce /\ NoLostWakeup
    BY <1>1, <2>3 DEF QueueWaits, QueuedOnce, NoLostWakeup
  <2>5. WokenWait /\ NoneForgotten
    BY <1>1, FS_EmptySet DEF WokenWait, NoneForgotten
  <2> QED
    BY <2>2, <2>4, <2>5 DEF PoolInv
<1>4. QueryInv
  BY <1>1 DEF QueryInv, ArrivalKept, LastSwap, VerifyIsCurrent, SwapIsLatest, Answered
<1> QED
  BY <1>2, <1>3, <1>4 DEF IInv

\* The tables only grow, and what no answer is prepared from may change.
LEMMA QueriesKept ==
  ASSUME ArrivalKept, VerifyIsCurrent, SwapIsLatest,
         sessions \subseteq sessions', swaps \subseteq swaps',
         \A q \in Answered' : /\ q \in Answered /\ reply'[q] = reply[q]
                              /\ atArrival'[q] = atArrival[q] /\ atAnswer'[q] = atAnswer[q]
  PROVE  VerifyIsCurrent' /\ SwapIsLatest'
<1>1. \A q \in Answered' : /\ Kind[q].endpoint = "verify" => VerifiedCurrent(q)'
                           /\ Kind[q].endpoint # "verify" => DateLatest(q)'
  BY AnswersKept
<1> QED
  BY <1>1, AnswerWiseNext

LEMMA ArrivalStep ==
  ASSUME TypeOK, ArrivalKept, sessions \subseteq sessions', swaps \subseteq swaps',
         \A q \in Req : atArrival'[q] = atArrival[q] \/ atArrival'[q] = {}
  PROVE  ArrivalKept'
BY DEF ArrivalKept

LEMMA ArriveStep ==
  ASSUME IInv, NEW q \in Req, Arrive(q)
  PROVE  IInv'
<1>1. /\ TypeOK /\ PoolInv /\ ArrivalKept /\ LastSwap /\ VerifyIsCurrent /\ SwapIsLatest
  BY DEF IInv, QueryInv
<1>2. /\ pc[q] = "new" /\ Acquire(q)
      /\ atArrival' = [atArrival EXCEPT ![q] = Readable(q)]
      /\ UNCHANGED <<server, woken, reply, tables, now, atAnswer>>
  BY DEF Arrive
<1>3. sessions' = sessions /\ swaps' = swaps
  BY <1>2 DEF tables
<1>4. PoolInv' /\ free' \in 0..PoolSize /\ waiters' \in Seq(Req) /\ woken' \subseteq Req
  BY <1>1, <1>2, AcquireKeepsQueue
<1>5. pc' \in [Req -> {"new", "waiting", "leased", "answered", "done"}]
      /\ pc'[q] \in {"leased", "waiting"} /\ \A r \in Req \ {q} : pc'[r] = pc[r]
  BY <1>1, <1>2, AcquireMoves
<1>6. /\ Readable(q) \subseteq Session \cup Swap
      /\ Kind[q].endpoint = "verify" =>
             Readable(q) \subseteq {r \in sessions : r.msisdn = Kind[q].msisdn}
      /\ Kind[q].endpoint # "verify" => Readable(q) \subseteq swaps
  BY <1>1 DEF TypeOK, Readable
<1>7. PICK R : R = Readable(q)
  OBVIOUS
<1>8. /\ R \subseteq Session \cup Swap
      /\ Kind[q].endpoint = "verify" => R \subseteq {r \in sessions : r.msisdn = Kind[q].msisdn}
      /\ Kind[q].endpoint # "verify" => R \subseteq swaps
      /\ atArrival' = [atArrival EXCEPT ![q] = R]
  BY <1>2, <1>6, <1>7
<1>9. /\ atArrival' \in [Req -> SUBSET (Session \cup Swap)]
      /\ atArrival'[q] = R
      /\ \A r \in Req \ {q} : atArrival'[r] = atArrival[r]
  <2>1. atArrival \in [Req -> SUBSET (Session \cup Swap)]
    BY <1>1 DEF TypeOK
  <2> QED
    BY <1>8, <2>1
<1>10. TypeOK'
  BY <1>1, <1>2, <1>3, <1>4, <1>5, <1>9 DEF TypeOK
<1>11. ArrivalKept'
  BY <1>1, <1>3, <1>8, <1>9 DEF ArrivalKept
<1>12. LastSwap'
  BY <1>1, <1>3 DEF LastSwap
<1>13. \A r \in Answered' : /\ r \in Answered /\ reply'[r] = reply[r]
                            /\ atArrival'[r] = atArrival[r] /\ atAnswer'[r] = atAnswer[r]
  BY <1>2, <1>5, <1>9 DEF Answered
<1>14. VerifyIsCurrent' /\ SwapIsLatest'
  BY <1>1, <1>3, <1>13, QueriesKept
<1> QED
  BY <1>4, <1>10, <1>11, <1>12, <1>14 DEF IInv, QueryInv

LEMMA ResumeStep ==
  ASSUME IInv, NEW q \in Req, Resume(q)
  PROVE  IInv'
<1>1. /\ TypeOK /\ PoolInv /\ ArrivalKept /\ LastSwap /\ VerifyIsCurrent /\ SwapIsLatest
  BY DEF IInv, QueryInv
<1>2. /\ q \in woken /\ woken' = woken \ {q} /\ Acquire(q)
      /\ UNCHANGED <<server, reply, tables, now, history>>
  BY DEF Resume
<1>3. /\ sessions' = sessions /\ swaps' = swaps
      /\ atArrival' = atArrival /\ atAnswer' = atAnswer
  BY <1>2 DEF tables, history
<1>4. PoolInv' /\ free' \in 0..PoolSize /\ waiters' \in Seq(Req) /\ woken' \subseteq Req
  BY <1>1, <1>2, AcquireKeepsQueue
<1>5. pc' \in [Req -> {"new", "waiting", "leased", "answered", "done"}]
      /\ pc'[q] \in {"leased", "waiting"} /\ \A r \in Req \ {q} : pc'[r] = pc[r]
  BY <1>1, <1>2, AcquireMoves
<1>6. TypeOK'
  BY <1>1, <1>2, <1>3, <1>4, <1>5 DEF TypeOK
<1>7. ArrivalKept' /\ LastSwap'
  BY <1>1, <1>3 DEF ArrivalKept, LastSwap
<1>8. \A r \in Answered' : /\ r \in Answered /\ reply'[r] = reply[r]
                           /\ atArrival'[r] = atArrival[r] /\ atAnswer'[r] = atAnswer[r]
  BY <1>2, <1>3, <1>5 DEF Answered
<1>9. VerifyIsCurrent' /\ SwapIsLatest'
  BY <1>1, <1>3, <1>8, QueriesKept
<1> QED
  BY <1>4, <1>6, <1>7, <1>9 DEF IInv, QueryInv

LEMMA HandleStep ==
  ASSUME IInv, NEW q \in Req, Handle(q)
  PROVE  IInv'
<1>1. /\ TypeOK /\ PoolInv /\ ArrivalKept /\ LastSwap /\ VerifyIsCurrent /\ SwapIsLatest
  BY DEF IInv, QueryInv
<1>2. /\ pc[q] = "leased" /\ pc' = [pc EXCEPT ![q] = "answered"]
      /\ atAnswer' = [atAnswer EXCEPT ![q] = now]
      /\ UNCHANGED <<server, pool, tables, now, atArrival>>
  BY DEF Handle
<1>3. sessions' = sessions /\ swaps' = swaps /\ UNCHANGED <<free, waiters, woken>>
  BY <1>2 DEF tables, pool
<1>4. PICK status \in {200, 422}, value \in Nat :
          /\ reply' = [reply EXCEPT ![q] = [status |-> status, value |-> value]]
          /\ status = 200 => Kind[q].bodyOk
  BY <1>1, ValueType DEF Handle, Reply
<1>5. TypeOK'
  <2>1. reply' \in [Req -> [status : {0, 200, 422, 500}, value : Nat]]
    BY <1>1, <1>4 DEF TypeOK
  <2>2. now \in Nat
    BY <1>1, BoundAssumption DEF TypeOK
  <2> QED
    BY <1>1, <1>2, <1>3, <2>1, <2>2 DEF TypeOK
<1>6. PoolInv'
  BY <1>1, <1>2, PoolUntouched
<1>7. ArrivalKept' /\ LastSwap'
  BY <1>1, <1>2, <1>3 DEF ArrivalKept, LastSwap
<1>8. ASSUME NEW r \in Answered'
      PROVE  /\ Kind[r].endpoint = "verify" => VerifiedCurrent(r)'
             /\ Kind[r].endpoint # "verify" => DateLatest(r)'
  <2>1. CASE r = q
    <3>1. reply'[q].status = status
      BY <1>1, <1>4 DEF TypeOK
    <3>2. Kind[q].bodyOk
      BY <1>4, <2>1, <3>1 DEF Answered
    <3> QED
      BY <1>1, <2>1, <3>2, QueryVerifies, QueryFindsLatest
  <2>2. CASE r # q
    <3>1. /\ r \in Answered /\ reply'[r] = reply[r]
          /\ atArrival'[r] = atArrival[r] /\ atAnswer'[r] = atAnswer[r]
      BY <1>1, <1>2, <1>4, <2>2 DEF TypeOK, Answered
    <3> QED
      BY <1>1, <1>3, <3>1, AnswersKept
  <2> QED
    BY <2>1, <2>2
<1>9. VerifyIsCurrent' /\ SwapIsLatest'
  BY <1>8, AnswerWiseNext
<1> QED
  BY <1>5, <1>6, <1>7, <1>9 DEF IInv, QueryInv

LEMMA HandleFailsStep ==
  ASSUME IInv, NEW q \in Req, HandleFails(q)
  PROVE  IInv'
<1>1. /\ TypeOK /\ PoolInv /\ ArrivalKept /\ LastSwap /\ VerifyIsCurrent /\ SwapIsLatest
  BY DEF IInv, QueryInv
<1>2. /\ pc[q] = "leased" /\ pc' = [pc EXCEPT ![q] = "answered"]
      /\ reply' = [reply EXCEPT ![q] = [status |-> 500, value |-> 0]]
      /\ UNCHANGED <<server, pool, tables, now, history>>
  BY DEF HandleFails, Reply
<1>3. /\ sessions' = sessions /\ swaps' = swaps /\ UNCHANGED <<free, waiters, woken>>
      /\ atArrival' = atArrival /\ atAnswer' = atAnswer
  BY <1>2 DEF tables, pool, history
<1>4. TypeOK'
  BY <1>1, <1>2, <1>3 DEF TypeOK
<1>5. PoolInv'
  BY <1>1, <1>2, PoolUntouched
<1>6. ArrivalKept' /\ LastSwap'
  BY <1>1, <1>3 DEF ArrivalKept, LastSwap
<1>7. \A r \in Answered' : /\ r \in Answered /\ reply'[r] = reply[r]
                           /\ atArrival'[r] = atArrival[r] /\ atAnswer'[r] = atAnswer[r]
  BY <1>1, <1>2, <1>3 DEF TypeOK, Answered
<1>8. VerifyIsCurrent' /\ SwapIsLatest'
  BY <1>1, <1>3, <1>7, QueriesKept
<1> QED
  BY <1>4, <1>5, <1>6, <1>8 DEF IInv, QueryInv

LEMMA ReleaseStep ==
  ASSUME IInv, NEW q \in Req, Release(q)
  PROVE  IInv'
<1>1. /\ TypeOK /\ PoolInv /\ ArrivalKept /\ LastSwap /\ VerifyIsCurrent /\ SwapIsLatest
  BY DEF IInv, QueryInv
<1>2. /\ pc[q] = "answered" /\ pc' = [pc EXCEPT ![q] = "done"]
      /\ reply' = [reply EXCEPT ![q] = [status |-> 0, value |-> 0]]
      /\ atArrival' = [atArrival EXCEPT ![q] = {}]
      /\ atAnswer' = [atAnswer EXCEPT ![q] = 0]
      /\ UNCHANGED <<server, tables, now>>
  BY DEF Release, Answer, Reply
<1>3. sessions' = sessions /\ swaps' = swaps
  BY <1>2 DEF tables
<1>4. PoolInv' /\ free' \in 0..PoolSize /\ waiters' \in Seq(Req) /\ woken' \subseteq Req
  BY <1>1, ReleaseKeepsQueue
<1>5. TypeOK'
  BY <1>1, <1>2, <1>3, <1>4 DEF TypeOK
<1>6. ArrivalKept'
  <2>1. \A r \in Req : atArrival'[r] = atArrival[r] \/ atArrival'[r] = {}
    BY <1>1, <1>2 DEF TypeOK
  <2> QED
    BY <1>1, <1>3, <2>1, ArrivalStep
<1>7. LastSwap'
  BY <1>1, <1>3 DEF LastSwap
<1>8. \A r \in Answered' : /\ r \in Answered /\ reply'[r] = reply[r]
                           /\ atArrival'[r] = atArrival[r] /\ atAnswer'[r] = atAnswer[r]
  BY <1>1, <1>2 DEF TypeOK, Answered
<1>9. VerifyIsCurrent' /\ SwapIsLatest'
  BY <1>1, <1>3, <1>8, QueriesKept
<1> QED
  BY <1>4, <1>5, <1>6, <1>7, <1>9 DEF IInv, QueryInv

LEMMA RefuseStep ==
  ASSUME IInv, NEW q \in Req, Refuse(q)
  PROVE  IInv'
<1>1. /\ TypeOK /\ PoolInv /\ ArrivalKept /\ LastSwap /\ VerifyIsCurrent /\ SwapIsLatest
  BY DEF IInv, QueryInv
<1>2. /\ pc[q] = "new" /\ pc' = [pc EXCEPT ![q] = "done"]
      /\ UNCHANGED <<server, pool, reply, tables, now, history>>
  BY DEF Refuse
<1>3. /\ sessions' = sessions /\ swaps' = swaps /\ UNCHANGED <<free, waiters, woken>>
      /\ atArrival' = atArrival /\ atAnswer' = atAnswer
  BY <1>2 DEF tables, pool, history
<1>4. TypeOK'
  BY <1>1, <1>2, <1>3 DEF TypeOK
<1>5. PoolInv'
  BY <1>1, <1>2, PoolUntouched
<1>6. ArrivalKept' /\ LastSwap'
  BY <1>1, <1>3 DEF ArrivalKept, LastSwap
<1>7. \A r \in Answered' : /\ r \in Answered /\ reply'[r] = reply[r]
                           /\ atArrival'[r] = atArrival[r] /\ atAnswer'[r] = atAnswer[r]
  BY <1>1, <1>2, <1>3 DEF TypeOK, Answered
<1>8. VerifyIsCurrent' /\ SwapIsLatest'
  BY <1>1, <1>3, <1>7, QueriesKept
<1> QED
  BY <1>4, <1>5, <1>6, <1>8 DEF IInv, QueryInv

\* The steps of the other parts of the system: no request moves.
LEMMA OthersStep ==
  ASSUME IInv, UNCHANGED <<pc, pool, reply, history>>,
         sessions \subseteq sessions', sessions' \subseteq Session,
         \/ swaps' = swaps
         \/ \E w \in Swap : swaps' = swaps \cup {w},
         server' \in {"up", "stopping", "down"}, now' \in Day..MaxTime
  PROVE  IInv'
<1>1. /\ TypeOK /\ PoolInv /\ ArrivalKept /\ LastSwap /\ VerifyIsCurrent /\ SwapIsLatest
  BY DEF IInv, QueryInv
<1>2. /\ pc' = pc /\ UNCHANGED <<free, waiters, woken>> /\ reply' = reply
      /\ atArrival' = atArrival /\ atAnswer' = atAnswer
  BY DEF pool, history
<1>3. swaps \subseteq swaps' /\ swaps' \subseteq Swap
  BY <1>1 DEF TypeOK
<1>4. TypeOK'
  BY <1>1, <1>2, <1>3 DEF TypeOK
<1>5. PoolInv'
  BY <1>1, <1>2, PoolUntouched
<1>6. ArrivalKept'
  BY <1>1, <1>2, <1>3, ArrivalStep
<1>7. LastSwap'
  <2>1. CASE swaps' = swaps
    BY <1>1, <2>1 DEF LastSwap
  <2>2. ASSUME NEW w \in Swap, swaps' = swaps \cup {w} PROVE LastSwap'
    <3>1. \A v \in Swap : v.confirmed \in Nat
      BY TableAssumption
    <3>2. swaps \subseteq Swap
      BY <1>1 DEF TypeOK
    <3>3. CASE swaps = {}
      BY <2>2, <3>1, <3>3 DEF LastSwap
    <3>4. CASE swaps # {}
      <4>1. PICK u \in swaps : \A v \in swaps : v.confirmed <= u.confirmed
        BY <1>1, <3>4 DEF LastSwap
      <4>2. /\ u.confirmed \in Nat /\ w.confirmed \in Nat
            /\ \A v \in swaps : v.confirmed \in Nat
        BY <3>1, <3>2
      <4>3. CASE u.confirmed <= w.confirmed
        <5>1. \A v \in swaps : v.confirmed <= w.confirmed
          BY <4>1, <4>2, <4>3
        <5> QED
          BY <2>2, <4>2, <5>1 DEF LastSwap
      <4>4. CASE ~(u.confirmed <= w.confirmed)
        <5>1. w.confirmed <= u.confirmed
          BY <4>2, <4>4
        <5> QED
          BY <2>2, <4>1, <5>1 DEF LastSwap
      <4> QED
        BY <4>3, <4>4
    <3> QED
      BY <3>3, <3>4
  <2> QED
    BY <2>1, <2>2
<1>8. \A r \in Answered' : /\ r \in Answered /\ reply'[r] = reply[r]
                           /\ atArrival'[r] = atArrival[r] /\ atAnswer'[r] = atAnswer[r]
  BY <1>2 DEF Answered
<1>9. VerifyIsCurrent' /\ SwapIsLatest'
  BY <1>1, <1>3, <1>8, QueriesKept
<1> QED
  BY <1>4, <1>5, <1>6, <1>7, <1>9 DEF IInv, QueryInv

LEMMA Steps == IInv /\ [Next]_vars => IInv'
<1> SUFFICES ASSUME IInv, [Next]_vars PROVE IInv'
  OBVIOUS
<1>1. /\ sessions \subseteq Session /\ server \in {"up", "stopping", "down"}
      /\ now \in Day..MaxTime /\ Day \in Nat /\ MaxTime \in Nat
  BY BoundAssumption DEF IInv, TypeOK
<1>2. ASSUME NEW q \in Req, Refuse(q) \/ Arrive(q) \/ Serve(q) PROVE IInv'
  BY <1>2, RefuseStep, ArriveStep, ResumeStep, HandleStep, HandleFailsStep, ReleaseStep
     DEF Serve
<1>3. ASSUME NEW rows \in SUBSET (Session \ sessions), CommitSessions(rows) PROVE IInv'
  <2>1. /\ UNCHANGED <<pc, pool, reply, history>> /\ swaps' = swaps
        /\ sessions' = sessions \cup rows /\ server' = server /\ now' = now
    BY <1>3 DEF CommitSessions
  <2> QED
    BY <1>1, <2>1, OthersStep
<1>4. ASSUME NEW w \in Swap \ swaps, CommitSwap(w) PROVE IInv'
  <2>1. /\ UNCHANGED <<pc, pool, reply, history>> /\ swaps' = swaps \cup {w}
        /\ sessions' = sessions /\ server' = server /\ now' = now
    BY <1>4 DEF CommitSwap
  <2> QED
    BY <1>1, <2>1, OthersStep
<1>5. CASE Tick
  <2>1. /\ UNCHANGED <<pc, pool, reply, history>> /\ swaps' = swaps
        /\ sessions' = sessions /\ server' = server
    BY <1>5 DEF Tick, tables
  <2>2. now' \in Day..MaxTime
    BY <1>1, <1>5 DEF Tick
  <2> QED
    BY <1>1, <2>1, <2>2, OthersStep
<1>6. CASE Signal \/ Shutdown
  <2>1. /\ UNCHANGED <<pc, pool, reply, history>> /\ swaps' = swaps
        /\ sessions' = sessions /\ now' = now /\ server' \in {"stopping", "down"}
    BY <1>6 DEF Signal, Shutdown, tables
  <2> QED
    BY <1>1, <2>1, OthersStep
<1>7. CASE UNCHANGED vars
  <2>1. /\ UNCHANGED <<pc, pool, reply, history>> /\ swaps' = swaps
        /\ sessions' = sessions /\ now' = now /\ server' = server
    BY <1>7 DEF vars, tables
  <2> QED
    BY <1>1, <2>1, OthersStep
<1> QED
  BY <1>2, <1>3, <1>4, <1>5, <1>6, <1>7 DEF Next

LEMMA Invariance == Spec => []IInv
BY Initially, Steps, PTL DEF Spec

THEOREM TypeCorrect == Spec => []TypeOK
<1>1. IInv => TypeOK
  BY DEF IInv
<1> QED
  BY <1>1, Invariance, PTL

\* The pool neither loses a connection nor lends one twice, and a request that
\* waits for one is in its queue or woken: get_db with the release at the end of
\* "async with", whatever the endpoint or its query does.
THEOREM PoolIntact == Spec => [](NoneLost /\ QueuedOnce /\ NoneForgotten)
<1>1. IInv => NoneLost /\ QueuedOnce /\ NoneForgotten
  BY DEF IInv, PoolInv
<1> QED
  BY <1>1, Invariance, PTL

\* A connection is idle while a request sleeps only if another request was woken
\* for it, for pools of every size.
THEOREM NoneSleepsInVain == Spec => []NoLostWakeup
<1>1. IInv => NoLostWakeup
  BY DEF IInv, PoolInv
<1> QED
  BY <1>1, Invariance, PTL

\* Number verification is as current as its request, whatever stage 3 commits
\* between its arrival, its query and its answer.
THEOREM VerificationCurrent == Spec => []VerifyIsCurrent
<1>1. IInv => VerifyIsCurrent
  BY DEF IInv, QueryInv
<1> QED
  BY <1>1, Invariance, PTL

\* retrieve-date and check see every confirmed swap that was known when the
\* request arrived, and report none that is not confirmed.
THEOREM DatesLatest == Spec => []SwapIsLatest
<1>1. IInv => SwapIsLatest
  BY DEF IInv, QueryInv
<1> QED
  BY <1>1, Invariance, PTL

-----------------------------------------------------------------------------
(***************************************************************************)
(* Why every request ends. RequestsEnd itself needs fairness and is checked*)
(* by TLC; this is the part of its argument that holds of any number of    *)
(* requests: one of them can run, and what runs uses up what is owed.      *)
(***************************************************************************)
\* The guards of Resume, Handle, HandleFails and Release.
CanRun(q) == q \in woken \/ pc[q] \in {"leased", "answered"}

\* Of the open requests, one need not wait for another one.
SomeRequestRuns == Open # {} => \E q \in Open : CanRun(q)

\* How many steps an open request may still take. One that is woken may have to
\* queue again; a Release spends two steps, its own end and the wake-up it gives.
Weight(q) ==
    CASE pc[q] = "waiting" -> IF q \in woken THEN 4 ELSE 3
      [] pc[q] = "leased" -> 3
      [] pc[q] = "answered" -> 2
      [] OTHER -> 0
Owed == {w \in Req \X (1..4) : w[2] <= Weight(w[1])}

\* Each step of an open request lessens what all of them owe together, and only
\* an arrival adds to it.
OwedFalls ==
    /\ \A q \in Req : Serve(q) => Cardinality(Owed)' < Cardinality(Owed)
    /\ Owed' \subseteq Owed \/ \E q \in Req : Serve(q) \/ Arrive(q)

\* With no holder the pool is whole, so that an idle connection and a request
\* that waits unwoken exclude each other.
LEMMA RunsNow == IInv => SomeRequestRuns
<1> SUFFICES ASSUME IInv, NEW q \in Open, \A r \in Open : ~CanRun(r)
             PROVE  FALSE
  BY DEF SomeRequestRuns
<1>1. q \in Req /\ pc[q] = "waiting" /\ q \notin woken
  BY DEF Open, CanRun
<1>2. Holding = {}
  BY DEF Holding, Open, CanRun
<1>3. woken = {}
  BY DEF IInv, PoolInv, WokenWait, TypeOK, Open, CanRun
<1>4. Cardinality(Holding) = 0 /\ Cardinality(woken) = 0
  BY <1>2, <1>3, FS_EmptySet
<1>5. free > 0
  BY <1>4, BoundAssumption DEF IInv, TypeOK, PoolInv, NoneLost
<1>6. waiters # <<>>
  BY <1>1 DEF IInv, PoolInv, NoneForgotten
<1> QED
  BY <1>4, <1>5, <1>6 DEF IInv, TypeOK, PoolInv, NoLostWakeup

\* While requests are open, the event loop always has one that it can run: no
\* state in which all of them sleep, whatever the size of the pool.
THEOREM NeverAsleep == Spec => []SomeRequestRuns
BY RunsNow, Invariance, PTL

-----------------------------------------------------------------------------
LEMMA WeightFacts ==
    ASSUME TypeOK, NEW q \in Req
    PROVE  /\ Weight(q) \in 0..4
           /\ pc[q] \in {"new", "done"} => Weight(q) = 0
           /\ pc[q] = "answered" => Weight(q) = 2
           /\ pc[q] = "leased" => Weight(q) = 3
           /\ pc[q] = "waiting" /\ q \notin woken => Weight(q) = 3
           /\ pc[q] = "waiting" /\ q \in woken => Weight(q) = 4
<1>1. pc[q] \in {"new", "waiting", "leased", "answered", "done"}
  BY DEF TypeOK
<1> QED
  BY <1>1 DEF Weight

\* The tickets of the others stay.
LEMMA OthersOwe ==
    ASSUME NEW w \in Req \X (1..4),
           pc'[w[1]] = pc[w[1]], w[1] \in woken' <=> w[1] \in woken
    PROVE  w \in Owed' <=> w \in Owed
BY DEF Owed, Weight

LEMMA Tickets ==
    /\ \A w \in Req \X (1..4) : w[1] \in Req /\ w[2] \in 1..4 /\ w = <<w[1], w[2]>>
    /\ \A q \in Req : \A i \in 1..4 :
          <<q, i>> \in Req \X (1..4) /\ <<q, i>>[1] = q /\ <<q, i>>[2] = i
OBVIOUS

LEMMA LessOwed ==
    ASSUME IsFiniteSet(Owed), Owed' \subseteq Owed, Owed' # Owed
    PROVE  Cardinality(Owed') < Cardinality(Owed)
<1>1. IsFiniteSet(Owed') /\ Cardinality(Owed') <= Cardinality(Owed)
      /\ Cardinality(Owed) # Cardinality(Owed')
  BY FS_Subset
<1>2. Cardinality(Owed) \in Nat /\ Cardinality(Owed') \in Nat
  BY <1>1, FS_CardinalityType
<1> QED
  BY <1>1, <1>2

LEMMA ServeTakes ==
    ASSUME IInv, TypeOK', IsFiniteSet(Owed), NEW q \in Req,
           Resume(q) \/ Handle(q) \/ HandleFails(q)
    PROVE  Owed' \subseteq Owed /\ Cardinality(Owed') < Cardinality(Owed)
<1>1. TypeOK
  BY DEF IInv
<1>2. /\ \A r \in Req \ {q} : pc'[r] = pc[r] /\ (r \in woken' <=> r \in woken)
      /\ \/ pc[q] = "waiting" /\ q \in woken /\ q \notin woken' /\ pc'[q] \in {"waiting", "leased"}
         \/ pc[q] = "leased" /\ pc'[q] = "answered"
  <2>1. CASE Resume(q)
    <3>1. pc[q] = "waiting" /\ q \in woken /\ woken' = woken \ {q} /\ Acquire(q)
      BY <2>1 DEF Resume, IInv, PoolInv, WokenWait
    <3> QED
      BY <1>1, <3>1, AcquireMoves
  <2>2. CASE Handle(q) \/ HandleFails(q)
    BY <1>1, <2>2 DEF Handle, HandleFails, TypeOK, pool
  <2> QED
    BY <2>1, <2>2
<1>3. PICK n \in 3..4 : Weight(q) = n /\ Weight(q)' = n - 1
  <2>1. CASE pc[q] = "waiting" /\ q \in woken /\ q \notin woken' /\ pc'[q] \in {"waiting", "leased"}
    <3>1. Weight(q) = 4 /\ Weight(q)' = 3
      BY <2>1 DEF Weight
    <3> QED
      BY <3>1
  <2>2. CASE pc[q] = "leased" /\ pc'[q] = "answered"
    <3>1. Weight(q) = 3 /\ Weight(q)' = 2
      BY <2>2 DEF Weight
    <3> QED
      BY <3>1
  <2> QED
    BY <1>2, <2>1, <2>2
<1>4. <<q, n>> \in Owed /\ <<q, n>> \notin Owed'
  BY <1>3, Tickets DEF Owed
<1>5. ASSUME NEW w \in Owed' PROVE w \in Owed
  <2>1. w \in Req \X (1..4)
    BY <1>5 DEF Owed
  <2>2. CASE w[1] # q
    BY <1>2, <1>5, <2>1, <2>2, Tickets, OthersOwe
  <2>3. CASE w[1] = q
    <3>1. w[2] \in 1..4 /\ w[2] <= n - 1
      BY <1>3, <1>5, <2>1, <2>3, Tickets DEF Owed
    <3>2. w[2] <= Weight(w[1])
      BY <1>3, <2>3, <3>1
    <3> QED
      BY <2>1, <3>2 DEF Owed
  <2> QED
    BY <2>2, <2>3
<1> QED
  BY <1>4, <1>5, LessOwed

\* Two tickets of the request that ends for one of the request that is woken.
LEMMA ReleaseTakes ==
    ASSUME IInv, TypeOK', IsFiniteSet(Owed), NEW q \in Req, Release(q)
    PROVE  IsFiniteSet(Owed') /\ Cardinality(Owed') < Cardinality(Owed)
<1>1. TypeOK
  BY DEF IInv
<1>2. pc[q] = "answered" /\ q \notin woken /\ pc' = [pc EXCEPT ![q] = "done"]
  BY DEF Release, Answer, IInv, PoolInv, WokenWait
<1>3. pc'[q] = "done" /\ \A r \in Req \ {q} : pc'[r] = pc[r]
  BY <1>1, <1>2 DEF TypeOK
<1>4. Weight(q) = 2 /\ Weight(q)' = 0
  BY <1>2, <1>3 DEF Weight
<1>5. \A r \in Req : r \in woken => r \in woken'
  BY DEF Release
<1>6. ASSUME NEW w \in Owed' PROVE w[1] # q /\ w \in Req \X (1..4)
  <2>1. w \in Req \X (1..4) /\ w[2] <= Weight(w[1])'
    BY <1>6 DEF Owed
  <2>2. w[1] # q
    <3> SUFFICES ASSUME w[1] = q PROVE FALSE
      OBVIOUS
    <3>1. w[2] <= 0 /\ w[2] \in 1..4
      BY <1>4, <2>1, Tickets
    <3> QED
      BY <3>1
  <2> QED
    BY <2>1, <2>2
<1>7. \A i \in 1..2 : <<q, i>> \in Owed
  BY <1>4, Tickets DEF Owed
<1>8. CASE waiters = <<>>
  <2>1. woken' = woken
    BY <1>8 DEF Release
  <2>2. \A w \in Owed' : w \in Owed
    BY <1>3, <1>6, <2>1, Tickets, OthersOwe
  <2>3. <<q, 2>> \in Owed /\ <<q, 2>> \notin Owed'
    BY <1>6, <1>7, Tickets
  <2>4. Cardinality(Owed') < Cardinality(Owed)
    BY <2>2, <2>3, LessOwed
  <2> QED
    BY <2>2, <2>4, FS_Subset
<1>9. CASE waiters # <<>>
  <2>1. PICK h \in Req : /\ h = Head(waiters) /\ pc[h] = "waiting" /\ h \notin woken
                         /\ woken' = woken \cup {h}
    <3>1. Head(waiters) = waiters[1] /\ 1 \in DOMAIN waiters
      BY <1>1, <1>9, QueueType, EmptySeq
    <3>2. waiters[1] \in Req /\ pc[waiters[1]] = "waiting" /\ waiters[1] \notin woken
      BY <1>1, <3>1, QueueType DEF IInv, PoolInv, QueueWaits
    <3> QED
      BY <1>9, <3>1, <3>2 DEF Release
  <2> DEFINE one == Owed \ {<<q, 1>>}
             both == one \ {<<q, 2>>}
             added == both \cup {<<h, 4>>}
  <2>2. ASSUME NEW w \in Owed' PROVE w \in added
    <3>1. CASE w[1] # h
      BY <1>3, <1>6, <2>1, <2>2, <3>1, Tickets, OthersOwe
    <3>2. CASE w[1] = h
      <4>1. Weight(h) = 3 /\ w[2] \in 1..4 /\ w = <<h, w[2]>>
        BY <1>6, <2>1, <2>2, <3>2, Tickets DEF Weight
      <4>2. CASE w[2] = 4
        BY <4>1, <4>2
      <4>3. CASE w[2] # 4
        <5>1. w[2] <= 3
          BY <4>1, <4>3
        <5>2. w \in Owed
          BY <1>6, <2>2, <3>2, <4>1, <5>1 DEF Owed
        <5> QED
          BY <1>6, <2>2, <5>2, Tickets
      <4> QED
        BY <4>2, <4>3
    <3> QED
      BY <3>1, <3>2
  <2>3. PICK c \in Nat : c = Cardinality(Owed)
    BY FS_CardinalityType
  <2>4. IsFiniteSet(one) /\ Cardinality(one) = c - 1
    BY <1>7, <2>3, FS_RemoveElement
  <2>5. <<q, 2>> \in one
    BY <1>7
  <2>6. IsFiniteSet(both) /\ Cardinality(both) = c - 2
    <3> HIDE DEF one
    <3>1. IsFiniteSet(both) /\ Cardinality(both) = Cardinality(one) - 1
      BY <2>4, <2>5, FS_RemoveElement
    <3>2. Cardinality(both) = (c - 1) - 1
      BY <2>4, <3>1
    <3> QED
      BY <3>1, <3>2
  <2>7. IsFiniteSet(added) /\ (Cardinality(added) = c - 1 \/ Cardinality(added) = c - 2)
    <3> HIDE DEF both
    <3>1. IsFiniteSet(added) /\ (\/ Cardinality(added) = Cardinality(both) + 1
                                 \/ Cardinality(added) = Cardinality(both))
      BY <2>6, FS_AddElement
    <3> QED
      BY <2>6, <3>1
  <2>8. Owed' \subseteq added
    BY <2>2
  <2>9. IsFiniteSet(Owed') /\ Cardinality(Owed') <= Cardinality(added)
    <3> HIDE DEF added
    <3> QED
      BY <2>7, <2>8, FS_Subset
  <2>10. Cardinality(Owed') \in Nat
    BY <2>9, FS_CardinalityType
  <2>11. Cardinality(Owed') < c
    <3> HIDE DEF added
    <3>1. PICK d \in Nat : d = Cardinality(Owed')
      BY <2>10
    <3>2. d <= c - 1 \/ d <= c - 2
      BY <2>7, <2>9, <3>1
    <3> QED
      BY <3>1, <3>2
  <2> QED
    BY <2>3, <2>9, <2>11
<1> QED
  BY <1>8, <1>9

\* An arrival owes three steps, or four in all if it has to wait; nothing else
\* adds a ticket.
LEMMA ArriveOwes ==
    ASSUME IInv, IsFiniteSet(Owed), NEW q \in Req, Arrive(q)
    PROVE  IsFiniteSet(Owed')
<1>1. /\ \A r \in Req \ {q} : pc'[r] = pc[r]
      /\ woken' = woken
  BY AcquireMoves DEF Arrive, IInv
<1>2. Owed' \subseteq Owed \cup ({q} \X (1..4))
  <2>1. ASSUME NEW w \in Owed' PROVE w \in Owed \cup ({q} \X (1..4))
    <3>1. w \in Req \X (1..4)
      BY <2>1 DEF Owed
    <3>2. CASE w[1] # q
      BY <1>1, <2>1, <3>1, <3>2, Tickets, OthersOwe
    <3>3. CASE w[1] = q
      BY <3>1, <3>3, Tickets
    <3> QED
      BY <3>2, <3>3
  <2> QED
    BY <2>1
<1>3. IsFiniteSet({q} \X (1..4))
  <2>1. IsFiniteSet({q})
    BY FS_Singleton
  <2>2. IsFiniteSet(1..4)
    BY FS_Interval, 1 \in Int, 4 \in Int
  <2> QED
    BY <2>1, <2>2, FS_Product
<1>4. IsFiniteSet(Owed \cup ({q} \X (1..4)))
  BY <1>3, FS_Union
<1> QED
  BY <1>2, <1>4, FS_Subset

LEMMA OthersOweNothing ==
    ASSUME TypeOK, [Next]_vars, \A q \in Req : ~Serve(q) /\ ~Arrive(q)
    PROVE  Owed' \subseteq Owed
<1>1. \A q \in Req : Weight(q)' = Weight(q) \/ Weight(q)' = 0
  <2>1. CASE \E q \in Req : Refuse(q)
    BY <2>1 DEF Refuse, Weight, pool, TypeOK
  <2>2. CASE pc' = pc /\ woken' = woken
    BY <2>2 DEF Weight
  <2> QED
    BY <2>1, <2>2 DEF Next, CommitSessions, CommitSwap, Tick, Signal, Shutdown, pool, vars
<1>2. ASSUME NEW w \in Owed' PROVE w \in Owed
  <2>1. w \in Req \X (1..4) /\ w[2] <= Weight(w[1])'
    BY <1>2 DEF Owed
  <2>2. w[1] \in Req /\ w[2] \in 1..4
    BY <2>1, Tickets
  <2>3. CASE Weight(w[1])' = Weight(w[1])
    BY <2>1, <2>3 DEF Owed
  <2>4. CASE Weight(w[1])' = 0
    <3>1. w[2] <= 0
      BY <2>1, <2>4
    <3> QED
      BY <2>2, <3>1
  <2> QED
    BY <1>1, <2>2, <2>3, <2>4
<1> QED
  BY <1>2

FewOwed == IsFiniteSet(Owed)

LEMMA OwedStep == IInv /\ IInv' /\ FewOwed /\ [Next]_vars => FewOwed' /\ OwedFalls
<1> SUFFICES ASSUME IInv, IInv', FewOwed, [Next]_vars PROVE FewOwed' /\ OwedFalls
  OBVIOUS
<1>1. IsFiniteSet(Owed) /\ TypeOK /\ TypeOK'
  BY DEF FewOwed, IInv
<1>2. ASSUME NEW q \in Req, Serve(q)
      PROVE  IsFiniteSet(Owed') /\ Cardinality(Owed') < Cardinality(Owed)
  <2>1. CASE Release(q)
    BY <1>1, <2>1, ReleaseTakes
  <2>2. CASE Resume(q) \/ Handle(q) \/ HandleFails(q)
    <3>1. Owed' \subseteq Owed /\ Cardinality(Owed') < Cardinality(Owed)
      BY <1>1, <2>2, ServeTakes
    <3> QED
      BY <1>1, <3>1, FS_Subset
  <2> QED
    BY <1>2, <2>1, <2>2 DEF Serve
<1>3. (\A q \in Req : ~Serve(q) /\ ~Arrive(q)) => Owed' \subseteq Owed
  BY <1>1, OthersOweNothing
<1>4. IsFiniteSet(Owed')
  <2>1. CASE \E q \in Req : Arrive(q)
    BY <1>1, <2>1, ArriveOwes
  <2>2. CASE Owed' \subseteq Owed
    BY <1>1, <2>2, FS_Subset
  <2> QED
    BY <1>2, <1>3, <2>1, <2>2
<1> QED
  BY <1>2, <1>3, <1>4 DEF FewOwed, OwedFalls

\* However requests overtake each other at the pool, are woken in vain and queue
\* again: a step of one that is open leaves all of them together fewer steps to
\* take, and nothing but a new request adds some. Between two arrivals the open
\* requests can therefore take only finitely many steps.
THEOREM QueueUsedUp == Spec => [][OwedFalls]_vars
<1>1. Init => FewOwed
  <2>1. Init => Owed = {}
    <3> SUFFICES ASSUME Init, NEW w \in Owed PROVE FALSE
      OBVIOUS
    <3>1. w[1] \in Req /\ w[2] \in 1..4 /\ w[2] <= Weight(w[1])
      BY Tickets DEF Owed
    <3>2. Weight(w[1]) = 0
      BY <3>1 DEF Init, Weight
    <3>3. w[2] <= 0
      BY <3>1, <3>2
    <3> QED
      BY <3>1, <3>3
  <2> QED
    BY <2>1, FS_EmptySet DEF FewOwed
<1>2. IInv /\ IInv' /\ FewOwed /\ [Next]_vars => FewOwed' /\ [OwedFalls]_vars
  BY OwedStep
<1> QED
  BY <1>1, <1>2, Invariance, PTL DEF Spec
=============================================================================
