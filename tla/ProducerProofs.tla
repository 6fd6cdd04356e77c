--------------------------- MODULE ProducerProofs ---------------------------
(***************************************************************************)
(* Stage 1 for files of every length, every assignment of numbers to lines *)
(* and to partitions, chunks of every size and any number of failures: the *)
(* records of a number keep their order, at most one chunk waits for its   *)
(* acknowledgements, the count that is reported is accounted for, the      *)
(* steps to the end are bounded, and after the end nothing is sent.        *)
(*                                                                         *)
(* Then the orchestrator around it: what it calls complete it has waited   *)
(* for, it leaves no stage behind but for signals that have no handler,    *)
(* and it ends after so many steps.                                        *)
(***************************************************************************)
EXTENDS Producer, Orchestrator, FiniteSetTheorems, SequenceTheorems, WellFoundedInduction, TLAPS

Increasing(s) == \A i, j \in DOMAIN s : i < j => s[i] < s[j]
Before(s, t) == \A i \in DOMAIN s, j \in DOMAIN t : s[i] < t[j]
InPlace(s, p) == \A i \in DOMAIN s : s[i] <= count /\ PartitionFor(s[i]) = p

\* Before each copy of a line come copies of the earlier lines of the topic.
FirstsOrdered(s) ==
    \A m \in DOMAIN s : \A l \in LinesOf(s) : l < s[m] => \E n \in 1..(m - 1) : s[n] = l

\* The lines go through the accumulator in the order of the file.
QueueInOrder(p) ==
    /\ InPlace(queue[p], p) /\ InPlace(flight[p], p) /\ InPlace(topic[p], p)
    /\ Increasing(queue[p]) /\ Increasing(flight[p])
    /\ Before(flight[p], queue[p]) /\ Before(topic[p], queue[p])

\* A batch that is sent again is on the topic as a whole, and after it nothing is.
TopicInOrder(p) ==
    /\ FirstsOrdered(topic[p])
    /\ \A i \in DOMAIN topic[p] :
          \/ topic[p][i] \in LinesOf(flight[p])
          \/ \A j \in DOMAIN flight[p] : topic[p][i] < flight[p][j]
    /\ \/ LinesOf(flight[p]) \subseteq LinesOf(topic[p])
       \/ LinesOf(flight[p]) \cap LinesOf(topic[p]) = {}

InOrder == \A p \in Partition : QueueInOrder(p) /\ TopicInOrder(p)

OpenIsPending == \A l \in Line : future[l] = "open" => l \in pending

\* What has been sent since a boundary b is what gather() waits for.
OneChunk ==
    \E b \in 0..count : /\ b % FlushEvery = 0
                        /\ pending \subseteq (b + 1)..count
                        /\ count - b <= FlushEvery
                        /\ pc = "reading" => count - b < FlushEvery
BoundaryKept == pc = "gathering" => count % FlushEvery = 0

AckedOnTopic == \A l \in Line : future[l] = "acked" => OnTopic(l)
SentHasFuture == \A l \in 1..count : future[l] # "none"
ReportedSettled == pc \in {"reported", "ended"} => Settled(Line)

Waiting == OpenIsPending /\ OneChunk /\ BoundaryKept
Answered == AckedOnTopic /\ SentHasFuture /\ ReportedSettled

IInv == TypeOK /\ InOrder /\ Waiting /\ Answered

-----------------------------------------------------------------------------
LEMMA NextBoundary ==
  ASSUME NEW F \in Nat \ {0}, NEW b \in Nat, b % F = 0
  PROVE  (b + F) % F = 0
<1>1. PICK q \in Nat : b = q * F
  <2>1. b = F * (b \div F) + (b % F)
    OBVIOUS
  <2>2. b \div F \in Nat
    OBVIOUS
  <2> QED
    BY <2>1, <2>2
<1>2. PICK n \in Nat : b + F = n * F
  <2>1. PICK r \in Nat : r = q + 1
    OBVIOUS
  <2>2. b + F = r * F
    BY <1>1, <2>1
  <2> QED
    BY <2>2
<1>3. (n * F) % F = 0
  OBVIOUS
<1> QED
  BY <1>2, <1>3

LEMMA PlaceOfLine ==
  ASSUME NEW l \in Line
  PROVE  PartitionFor(l) \in Partition
BY LineAssumption, PartitionAssumption DEF PartitionFor

LEMMA LineIsNat ==
  ASSUME NEW s \in Seq(Line)
  PROVE  s \in Seq(Nat)
<1>1. Line \subseteq Nat
  BY LineAssumption DEF Line
<1> QED
  BY <1>1, SeqMonotonic

LEMMA Concatenation ==
  ASSUME NEW a \in Seq(Nat), NEW f \in Seq(Nat), NEW t, t = a \o f
  PROVE  /\ t \in Seq(Nat) /\ Len(a) \in Nat
         /\ DOMAIN t = 1..Len(t) /\ DOMAIN a = 1..Len(a) /\ DOMAIN f = 1..Len(f)
         /\ \A i \in DOMAIN t : \/ i \in DOMAIN a /\ t[i] = a[i]
                                \/ i > Len(a) /\ i - Len(a) \in DOMAIN f /\ t[i] = f[i - Len(a)]
         /\ \A i \in DOMAIN a : i \in DOMAIN t /\ t[i] = a[i]
         /\ \A i \in DOMAIN f : Len(a) + i \in DOMAIN t /\ t[Len(a) + i] = f[i]
         /\ LinesOf(t) = LinesOf(a) \cup LinesOf(f)
<1>1. /\ t \in Seq(Nat) /\ Len(a) \in Nat /\ Len(f) \in Nat /\ Len(t) = Len(a) + Len(f)
      /\ DOMAIN t = 1..Len(t) /\ DOMAIN a = 1..Len(a) /\ DOMAIN f = 1..Len(f)
  OBVIOUS
<1>2. /\ \A i \in 1..Len(a) : t[i] = a[i]
      /\ \A i \in 1..Len(f) : t[Len(a) + i] = f[i]
  OBVIOUS
<1>3. ASSUME NEW i \in DOMAIN t
      PROVE  \/ i \in DOMAIN a /\ t[i] = a[i]
             \/ i > Len(a) /\ i - Len(a) \in DOMAIN f /\ t[i] = f[i - Len(a)]
  <2>1. CASE i <= Len(a)
    BY <1>1, <1>2, <2>1
  <2>2. CASE i > Len(a)
    <3>1. i - Len(a) \in 1..Len(f) /\ i = Len(a) + (i - Len(a))
      BY <1>1, <2>2
    <3> QED
      BY <1>1, <1>2, <2>2, <3>1
  <2> QED
    BY <1>1, <2>1, <2>2
<1>4. /\ \A i \in DOMAIN a : i \in DOMAIN t /\ t[i] = a[i]
      /\ \A i \in DOMAIN f : Len(a) + i \in DOMAIN t /\ t[Len(a) + i] = f[i]
  BY <1>1, <1>2
<1>5. LinesOf(t) = LinesOf(a) \cup LinesOf(f)
  <2>1. \A i \in DOMAIN t : t[i] \in LinesOf(a) \cup LinesOf(f)
    BY <1>3 DEF LinesOf
  <2>2. /\ \A i \in DOMAIN a : a[i] \in LinesOf(t)
        /\ \A i \in DOMAIN f : f[i] \in LinesOf(t)
    BY Zenon, <1>4 DEF LinesOf
  <2> QED
    BY Zenon, <2>1, <2>2 DEF LinesOf
<1> QED
  BY Zenon, <1>1, <1>3, <1>4, <1>5

\* A batch goes after the lines of the topic, unless it is on it already.
LEMMA FirstsAppended ==
  ASSUME NEW a \in Seq(Nat), NEW f \in Seq(Nat), NEW t, t = a \o f,
         FirstsOrdered(a), Increasing(f),
         \A i \in DOMAIN a : a[i] \in LinesOf(f) \/ \A j \in DOMAIN f : a[i] < f[j],
         LinesOf(f) \subseteq LinesOf(a) \/ LinesOf(f) \cap LinesOf(a) = {}
  PROVE  FirstsOrdered(t)
<1> SUFFICES ASSUME NEW m \in DOMAIN t, NEW l \in LinesOf(t), l < t[m]
             PROVE  \E n \in 1..(m - 1) : t[n] = l
  BY DEF FirstsOrdered
<1>1. /\ t \in Seq(Nat) /\ Len(a) \in Nat
      /\ DOMAIN t = 1..Len(t) /\ DOMAIN a = 1..Len(a) /\ DOMAIN f = 1..Len(f)
      /\ \A i \in DOMAIN t : \/ i \in DOMAIN a /\ t[i] = a[i]
                             \/ i > Len(a) /\ i - Len(a) \in DOMAIN f /\ t[i] = f[i - Len(a)]
      /\ \A i \in DOMAIN a : i \in DOMAIN t /\ t[i] = a[i]
      /\ \A i \in DOMAIN f : Len(a) + i \in DOMAIN t /\ t[Len(a) + i] = f[i]
  BY Concatenation
<1>2. LinesOf(t) = LinesOf(a) \cup LinesOf(f)
  BY Concatenation
<1>3. /\ \A i \in DOMAIN a : a[i] \in Nat
      /\ \A i \in DOMAIN f : f[i] \in Nat
      /\ m \in Nat /\ t[m] \in Nat /\ l \in Nat
  <2>1. /\ \A i \in DOMAIN a : a[i] \in Nat
        /\ \A i \in DOMAIN f : f[i] \in Nat
    OBVIOUS
  <2>2. m \in Nat /\ \A i \in DOMAIN t : t[i] \in Nat
    BY <1>1
  <2>3. PICK i \in DOMAIN t : l = t[i]
    BY DEF LinesOf
  <2> QED
    BY <2>1, <2>2, <2>3
<1>4. ASSUME NEW n \in DOMAIN a, a[n] = l, m > Len(a)
      PROVE  \E k \in 1..(m - 1) : t[k] = l
  <2>1. n \in 1..(m - 1) /\ t[n] = l
    BY <1>1, <1>3, <1>4
  <2> QED
    BY <2>1
<1>5. ASSUME l \in LinesOf(a), m \in DOMAIN a
      PROVE  \E k \in 1..(m - 1) : t[k] = l
  <2>1. l < a[m]
    BY <1>1, <1>5
  <2>2. PICK n \in 1..(m - 1) : a[n] = l
    BY <1>5, <2>1 DEF FirstsOrdered
  <2>3. n \in DOMAIN a
    BY <1>1, <1>5
  <2> QED
    BY <1>1, <2>2, <2>3
<1>6. ASSUME NEW j \in DOMAIN f, f[j] = l, l \notin LinesOf(a), m \in DOMAIN a
      PROVE  FALSE
  <2>1. l \in LinesOf(f) /\ a[m] \in LinesOf(a)
    BY <1>6 DEF LinesOf
  <2>2. LinesOf(f) \cap LinesOf(a) = {}
    BY <1>6, <2>1
  <2>3. a[m] < f[j]
    BY <1>6, <2>1, <2>2
  <2>4. a[m] = t[m] /\ a[m] \in Nat
    BY <1>1, <1>3, <1>6
  <2> QED
    BY <1>3, <1>6, <2>3, <2>4
<1>7. ASSUME NEW j \in DOMAIN f, f[j] = l, m > Len(a)
      PROVE  \E k \in 1..(m - 1) : t[k] = l
  <2>1. PICK i \in DOMAIN f : i = m - Len(a) /\ t[m] = f[i]
    BY <1>1, <1>3, <1>7
  <2>2. i \in Nat /\ j \in Nat
    BY <1>1
  <2>3. f[j] < f[i]
    BY <1>7, <2>1
  <2>4. j < i
    <3>1. i < j => f[i] < f[j]
      BY DEF Increasing
    <3>2. f[i] \in Nat /\ f[j] \in Nat
      BY <1>3
    <3>3. ~(i < j) /\ i # j
      BY <2>3, <3>1, <3>2
    <3> QED
      BY <2>2, <3>3
  <2>5. Len(a) + j \in 1..(m - 1) /\ t[Len(a) + j] = l
    BY <1>1, <1>3, <1>7, <2>1, <2>2, <2>4
  <2> QED
    BY <2>5
<1>8. m \in DOMAIN a \/ m > Len(a)
  BY <1>1
<1>9. (\E n \in DOMAIN a : a[n] = l) \/ (\E j \in DOMAIN f : f[j] = l)
  BY <1>2 DEF LinesOf
<1>10. l \in LinesOf(a) <=> \E n \in DOMAIN a : a[n] = l
  BY DEF LinesOf
<1> QED
  BY <1>4, <1>5, <1>6, <1>7, <1>8, <1>9, <1>10

-----------------------------------------------------------------------------
LEMMA SeqFacts ==
  ASSUME TypeOK, NEW p \in Partition
  PROVE  /\ queue[p] \in Seq(Line) /\ flight[p] \in Seq(Line) /\ topic[p] \in Seq(Line)
         /\ queue[p] \in Seq(Nat) /\ flight[p] \in Seq(Nat) /\ topic[p] \in Seq(Nat)
         /\ \A i \in DOMAIN queue[p] : queue[p][i] \in Nat
         /\ \A i \in DOMAIN flight[p] : flight[p][i] \in Nat
         /\ \A i \in DOMAIN topic[p] : topic[p][i] \in Nat
         /\ count \in Nat
<1>1. queue[p] \in Seq(Line) /\ flight[p] \in Seq(Line) /\ topic[p] \in Seq(Line)
  BY DEF TypeOK
<1>2. queue[p] \in Seq(Nat) /\ flight[p] \in Seq(Nat) /\ topic[p] \in Seq(Nat)
  BY <1>1, LineIsNat
<1>3. ASSUME NEW s \in Seq(Nat) PROVE \A i \in DOMAIN s : s[i] \in Nat
  BY LenProperties, ElementOfSeq
<1>4. count \in Nat
  BY LineAssumption DEF TypeOK
<1> QED
  BY <1>1, <1>2, <1>3, <1>4

\* A step that touches one partition.
LEMMA OnePartition ==
  ASSUME InOrder, NEW p \in Partition, count' = count,
         \A q \in Partition \ {p} :
            queue'[q] = queue[q] /\ flight'[q] = flight[q] /\ topic'[q] = topic[q],
         QueueInOrder(p)', TopicInOrder(p)'
  PROVE  InOrder'
<1> SUFFICES ASSUME NEW q \in Partition, q # p PROVE QueueInOrder(q)' /\ TopicInOrder(q)'
  BY DEF InOrder
<1>1. queue'[q] = queue[q] /\ flight'[q] = flight[q] /\ topic'[q] = topic[q]
  OBVIOUS
<1>2. QueueInOrder(q)'
  BY <1>1 DEF InOrder, QueueInOrder, InPlace
<1>3. TopicInOrder(q)'
  BY <1>1 DEF InOrder, TopicInOrder
<1> QED
  BY <1>2, <1>3

LEMMA SameOrder ==
  ASSUME InOrder, UNCHANGED <<count, queue, flight, topic>>
  PROVE  InOrder'
BY DEF InOrder, QueueInOrder, TopicInOrder, InPlace

\* The next line is after all those sent before it.
LEMMA SendOrder ==
  ASSUME IInv, Send
  PROVE  InOrder'
<1> DEFINE l == count + 1  P == PartitionFor(l)
<1>1. /\ count' = l /\ l \in Line /\ l \in Nat /\ count \in Nat
      /\ UNCHANGED <<flight, topic>>
      /\ queue' = [queue EXCEPT ![P] = Append(@, l)]
  BY LineAssumption DEF Send, IInv, TypeOK, Line
<1>2. P \in Partition
  BY <1>1, PlaceOfLine
<1> SUFFICES ASSUME NEW p \in Partition PROVE QueueInOrder(p)' /\ TopicInOrder(p)'
  BY DEF InOrder
<1>3. /\ queue[p] \in Seq(Nat) /\ queue \in [Partition -> Seq(Line)]
      /\ \A i \in DOMAIN queue[p] : queue[p][i] \in Nat
      /\ \A i \in DOMAIN flight[p] : flight[p][i] \in Nat
      /\ \A i \in DOMAIN topic[p] : topic[p][i] \in Nat
  BY SeqFacts DEF IInv, TypeOK
<1>4. /\ \A i \in DOMAIN queue[p] : queue[p][i] <= count /\ PartitionFor(queue[p][i]) = p
      /\ \A i \in DOMAIN flight[p] : flight[p][i] <= count /\ PartitionFor(flight[p][i]) = p
      /\ \A i \in DOMAIN topic[p] : topic[p][i] <= count /\ PartitionFor(topic[p][i]) = p
  BY DEF IInv, InOrder, QueueInOrder, InPlace
<1>5. InPlace(flight[p], p)' /\ InPlace(topic[p], p)'
  <2>1. /\ \A i \in DOMAIN flight[p] : flight[p][i] <= l
        /\ \A i \in DOMAIN topic[p] : topic[p][i] <= l
    BY <1>1, <1>3, <1>4
  <2> QED
    BY <1>1, <1>4, <2>1 DEF InPlace, PartitionFor
<1>6. TopicInOrder(p)'
  BY <1>1 DEF IInv, InOrder, TopicInOrder
<1>7. CASE p # P
  <2>1. queue'[p] = queue[p]
    BY <1>1, <1>2, <1>3, <1>7
  <2>2. \A i \in DOMAIN queue[p] : queue[p][i] <= l
    BY <1>1, <1>3, <1>4
  <2>3. InPlace(queue[p], p)'
    BY <1>1, <1>4, <2>1, <2>2 DEF InPlace, PartitionFor
  <2> QED
    BY <1>1, <1>5, <1>6, <2>1, <2>3 DEF IInv, InOrder, QueueInOrder
<1>8. CASE p = P
  <2>1. queue'[p] = Append(queue[p], l)
    BY <1>1, <1>2, <1>3, <1>8
  <2> HIDE DEF l, P
  <2>2. /\ DOMAIN queue'[p] = 1..(Len(queue[p]) + 1) /\ DOMAIN queue[p] = 1..Len(queue[p])
        /\ Len(queue[p]) \in Nat
        /\ \A i \in DOMAIN queue[p] : queue'[p][i] = queue[p][i]
        /\ queue'[p][Len(queue[p]) + 1] = l
    BY <1>1, <1>3, <2>1
  <2>3. \A i \in DOMAIN queue'[p] :
           \/ i \in DOMAIN queue[p] /\ queue'[p][i] = queue[p][i]
           \/ i = Len(queue[p]) + 1 /\ queue'[p][i] = l
    BY <2>2
  <2>4. count < l
    BY <1>1 DEF l
  <2>5. \A i \in DOMAIN queue'[p] : queue'[p][i] <= l /\ PartitionFor(queue'[p][i]) = p
    BY <1>1, <1>3, <1>4, <1>8, <2>3, <2>4 DEF P
  <2>6. Increasing(queue'[p])
    <3> SUFFICES ASSUME NEW i \in DOMAIN queue'[p], NEW j \in DOMAIN queue'[p], i < j
                 PROVE  queue'[p][i] < queue'[p][j]
      BY DEF Increasing
    <3>1. i \in DOMAIN queue[p] /\ queue'[p][i] = queue[p][i]
      BY <2>2, <2>3
    <3>2. CASE j \in DOMAIN queue[p]
      BY <2>2, <3>1, <3>2 DEF IInv, InOrder, QueueInOrder, Increasing
    <3>3. CASE queue'[p][j] = l
      BY <1>1, <1>3, <1>4, <2>4, <3>1, <3>3
    <3> QED
      BY <2>3, <3>2, <3>3
  <2>7. Before(flight[p], queue'[p]) /\ Before(topic[p], queue'[p])
    <3>1. \A i \in DOMAIN flight[p], j \in DOMAIN queue'[p] : flight[p][i] < queue'[p][j]
      BY <1>1, <1>3, <1>4, <2>3, <2>4 DEF IInv, InOrder, QueueInOrder, Before
    <3>2. \A i \in DOMAIN topic[p], j \in DOMAIN queue'[p] : topic[p][i] < queue'[p][j]
      BY <1>1, <1>3, <1>4, <2>3, <2>4 DEF IInv, InOrder, QueueInOrder, Before
    <3> QED
      BY <3>1, <3>2 DEF Before
  <2>8. InPlace(queue[p], p)'
    BY <1>1, <2>5 DEF InPlace, PartitionFor
  <2> QED
    BY <1>1, <1>5, <1>6, <2>6, <2>7, <2>8 DEF IInv, InOrder, QueueInOrder
<1> QED
  BY <1>7, <1>8

\* The first n of a sequence, and the others.
LEMMA BatchSplit ==
  ASSUME NEW q \in Seq(Nat), NEW n \in DOMAIN q
  PROVE  /\ Len(q) \in Nat /\ n \in 1..Len(q) /\ DOMAIN q = 1..Len(q)
         /\ DOMAIN SubSeq(q, 1, n) = 1..n
         /\ \A i \in 1..n : SubSeq(q, 1, n)[i] = q[i]
         /\ DOMAIN SubSeq(q, n + 1, Len(q)) = 1..(Len(q) - n)
         /\ \A i \in 1..(Len(q) - n) : /\ n + i \in DOMAIN q
                                       /\ SubSeq(q, n + 1, Len(q))[i] = q[n + i]
<1>1. Len(q) \in Nat /\ n \in 1..Len(q) /\ DOMAIN q = 1..Len(q)
  OBVIOUS
<1>2. \A i \in 1..Len(q) : q[i] \in Nat
  OBVIOUS
<1>3. /\ DOMAIN SubSeq(q, 1, n) = 1..n
      /\ \A i \in 1..n : SubSeq(q, 1, n)[i] = q[i]
  BY <1>1, <1>2
<1>4. \A i \in (n + 1)..Len(q) : q[i] \in Nat
  BY <1>1, <1>2
<1>5. /\ SubSeq(q, n + 1, Len(q)) \in Seq(Nat)
      /\ Len(SubSeq(q, n + 1, Len(q))) = Len(q) - n
      /\ \A i \in 1..(Len(q) - n) : SubSeq(q, n + 1, Len(q))[i] = q[n + i]
  <2>1. n + 1 \in 1..(Len(q) + 1) /\ Len(q) \in n..Len(q) /\ Len(q) - (n + 1) + 1 = Len(q) - n
    BY <1>1
  <2> QED
    BY <1>1, <1>4, <2>1, SubSeqProperties, SMTT(30)
<1>6. DOMAIN SubSeq(q, n + 1, Len(q)) = 1..(Len(q) - n)
  BY <1>5, LenProperties
<1>7. \A i \in 1..(Len(q) - n) : n + i \in 1..Len(q)
  BY <1>1
<1> QED
  BY <1>1, <1>3, <1>5, <1>6, <1>7

\* The client takes the first lines of the accumulator.
LEMMA TakeOrder ==
  ASSUME IInv, NEW p \in Partition, TakeBatch(p)
  PROVE  InOrder'
<1> DEFINE q == queue[p]
<1>1. PICK n \in DOMAIN q :
         /\ flight' = [flight EXCEPT ![p] = SubSeq(q, 1, n)]
         /\ queue' = [queue EXCEPT ![p] = SubSeq(q, n + 1, Len(q))]
  BY DEF TakeBatch
<1>2. flight[p] = <<>> /\ count' = count /\ topic' = topic
  BY DEF TakeBatch
<1>3. /\ q \in Seq(Nat) /\ queue \in [Partition -> Seq(Line)]
      /\ flight \in [Partition -> Seq(Line)]
  BY SeqFacts DEF IInv, TypeOK
<1>4. flight'[p] = SubSeq(q, 1, n) /\ queue'[p] = SubSeq(q, n + 1, Len(q))
  BY <1>1, <1>3
<1>5. \A r \in Partition \ {p} :
         queue'[r] = queue[r] /\ flight'[r] = flight[r] /\ topic'[r] = topic[r]
  BY <1>1, <1>2, <1>3
<1>6. /\ InPlace(q, p) /\ InPlace(topic[p], p) /\ Increasing(q) /\ Before(topic[p], q)
      /\ FirstsOrdered(topic[p])
  BY DEF IInv, InOrder, QueueInOrder, TopicInOrder
<1> HIDE DEF q
<1>7. Len(q) \in Nat /\ n \in 1..Len(q) /\ DOMAIN q = 1..Len(q)
  BY <1>3
<1>8. /\ \A i \in DOMAIN flight'[p] : i \in 1..n /\ flight'[p][i] = q[i]
      /\ \A i \in DOMAIN queue'[p] : n + i \in DOMAIN q /\ i \in Nat /\ i > 0
                                     /\ queue'[p][i] = q[n + i]
  <2>1. /\ DOMAIN SubSeq(q, 1, n) = 1..n
        /\ \A i \in 1..n : SubSeq(q, 1, n)[i] = q[i]
        /\ DOMAIN SubSeq(q, n + 1, Len(q)) = 1..(Len(q) - n)
        /\ \A i \in 1..(Len(q) - n) : SubSeq(q, n + 1, Len(q))[i] = q[n + i]
    BY <1>1, <1>3, BatchSplit
  <2>2. \A i \in 1..(Len(q) - n) : n + i \in 1..Len(q) /\ i \in Nat /\ i > 0
    BY <1>7
  <2> QED
    BY Zenon, <1>4, <1>7, <2>1, <2>2
<1>9. \A i \in DOMAIN flight'[p] : i \in DOMAIN q
  BY <1>7, <1>8
<1>10. QueueInOrder(p)'
  <2>1. InPlace(queue[p], p)' /\ InPlace(flight[p], p)' /\ InPlace(topic[p], p)'
    BY <1>2, <1>6, <1>8, <1>9 DEF InPlace, PartitionFor
  <2>2. Increasing(queue'[p])
    <3> SUFFICES ASSUME NEW i \in DOMAIN queue'[p], NEW j \in DOMAIN queue'[p], i < j
                 PROVE  queue'[p][i] < queue'[p][j]
      BY DEF Increasing
    <3>1. n + i \in DOMAIN q /\ n + j \in DOMAIN q /\ n + i < n + j
      BY <1>7, <1>8
    <3> QED
      BY <1>6, <1>8, <3>1 DEF Increasing
  <2>3. Increasing(flight'[p])
    BY <1>6, <1>8, <1>9 DEF Increasing
  <2>4. Before(flight'[p], queue'[p])
    <3> SUFFICES ASSUME NEW i \in DOMAIN flight'[p], NEW j \in DOMAIN queue'[p]
                 PROVE  flight'[p][i] < queue'[p][j]
      BY DEF Before
    <3>1. i \in DOMAIN q /\ n + j \in DOMAIN q /\ i < n + j
      BY <1>7, <1>8, <1>9
    <3> QED
      BY <1>6, <1>8, <3>1 DEF Increasing
  <2>5. Before(topic[p], queue'[p])
    BY <1>6, <1>8 DEF Before
  <2> QED
    BY <1>2, <2>1, <2>2, <2>3, <2>4, <2>5 DEF QueueInOrder
<1>11. TopicInOrder(p)'
  <2>1. \A i \in DOMAIN topic[p], j \in DOMAIN flight'[p] : topic[p][i] < flight'[p][j]
    BY <1>6, <1>8, <1>9 DEF Before
  <2>2. LinesOf(flight'[p]) \cap LinesOf(topic[p]) = {}
    <3>1. \A i \in DOMAIN topic[p] : topic[p][i] \in Nat
      BY SeqFacts DEF IInv
    <3>2. \A i \in DOMAIN topic[p], j \in DOMAIN flight'[p] : topic[p][i] # flight'[p][j]
      BY <2>1, <3>1
    <3> QED
      BY <3>2 DEF LinesOf
  <2> QED
    BY <1>2, <1>6, <2>1, <2>2 DEF TopicInOrder
<1> QED
  BY <1>2, <1>5, <1>10, <1>11, OnePartition DEF IInv

\* The batch in flight reaches the topic, once or once more.
LEMMA WrittenOrder ==
  ASSUME IInv, NEW p \in Partition, topic' = Written(p), count' = count, queue' = queue,
         flight' = flight \/ flight' = [flight EXCEPT ![p] = <<>>]
  PROVE  InOrder' /\ LinesOf(topic'[p]) = LinesOf(topic[p]) \cup LinesOf(flight[p])
<1> DEFINE a == topic[p]  f == flight[p]
<1>1. /\ a \in Seq(Nat) /\ f \in Seq(Nat)
      /\ topic \in [Partition -> Seq(Line)] /\ flight \in [Partition -> Seq(Line)]
  BY SeqFacts DEF IInv, TypeOK
<1>2. topic'[p] = a \o f
  BY <1>1 DEF Written
<1>3. \A r \in Partition \ {p} :
         queue'[r] = queue[r] /\ flight'[r] = flight[r] /\ topic'[r] = topic[r]
  BY <1>1 DEF Written
<1>4. flight'[p] = f \/ flight'[p] = <<>>
  BY <1>1
<1>5. /\ InPlace(queue[p], p) /\ InPlace(f, p) /\ InPlace(a, p)
      /\ Increasing(queue[p]) /\ Increasing(f)
      /\ Before(f, queue[p]) /\ Before(a, queue[p])
      /\ FirstsOrdered(a)
      /\ \A i \in DOMAIN a : a[i] \in LinesOf(f) \/ \A j \in DOMAIN f : a[i] < f[j]
      /\ LinesOf(f) \subseteq LinesOf(a) \/ LinesOf(f) \cap LinesOf(a) = {}
  BY DEF IInv, InOrder, QueueInOrder, TopicInOrder
<1> HIDE DEF a, f
<1>6. PICK t : t = topic'[p]
  OBVIOUS
<1>7. /\ \A i \in DOMAIN t : \/ i \in DOMAIN a /\ t[i] = a[i]
                             \/ \E j \in DOMAIN f : t[i] = f[j]
      /\ LinesOf(t) = LinesOf(a) \cup LinesOf(f)
  <2>1. \A i \in DOMAIN t : \/ i \in DOMAIN a /\ t[i] = a[i]
                            \/ i - Len(a) \in DOMAIN f /\ t[i] = f[i - Len(a)]
    BY <1>1, <1>2, <1>6, Concatenation
  <2>2. LinesOf(t) = LinesOf(a) \cup LinesOf(f)
    BY <1>1, <1>2, <1>6, Concatenation
  <2> QED
    BY Zenon, <2>1, <2>2
<1>8. FirstsOrdered(t)
  BY <1>1, <1>2, <1>5, <1>6, FirstsAppended
<1>9. InPlace(t, p) /\ Before(t, queue[p])
  BY <1>5, <1>7 DEF InPlace, Before
<1>10. \A i \in DOMAIN t : t[i] \in LinesOf(f) \/ \A j \in DOMAIN f : t[i] < f[j]
  BY <1>5, <1>7 DEF LinesOf
<1>11. /\ DOMAIN <<>> = {} /\ LinesOf(<<>>) = {}
       /\ InPlace(<<>>, p) /\ Increasing(<<>>) /\ Before(<<>>, queue[p])
  BY DEF LinesOf, InPlace, Increasing, Before
<1>12. QueueInOrder(p)'
  <2>1. InPlace(queue[p], p)' /\ InPlace(topic[p], p)'
    BY <1>5, <1>6, <1>9 DEF InPlace, PartitionFor
  <2>2. InPlace(flight[p], p)' /\ Increasing(flight'[p]) /\ Before(flight'[p], queue'[p])
    BY <1>4, <1>5, <1>11 DEF InPlace, PartitionFor
  <2> QED
    BY <1>5, <1>6, <1>9, <2>1, <2>2 DEF QueueInOrder
<1>13. TopicInOrder(p)'
  <2>1. CASE flight'[p] = f
    BY <1>6, <1>7, <1>8, <1>10, <2>1 DEF TopicInOrder
  <2>2. CASE flight'[p] = <<>>
    BY <1>6, <1>8, <1>11, <2>2 DEF TopicInOrder
  <2> QED
    BY <1>4, <2>1, <2>2
<1>14. InOrder'
  BY <1>3, <1>12, <1>13, OnePartition DEF IInv
<1> QED
  BY <1>6, <1>7, <1>14 DEF a, f

\* Batches that get no acknowledgement, and those that a kill discards, are gone.
LEMMA GoneOrder ==
  ASSUME IInv, count' = count, topic' = topic, NEW S \in SUBSET Partition,
         \A q \in Partition : flight'[q] = IF q \in S THEN <<>> ELSE flight[q],
         \A q \in Partition : queue'[q] \in {queue[q], <<>>}
  PROVE  InOrder'
<1> SUFFICES ASSUME NEW p \in Partition PROVE QueueInOrder(p)' /\ TopicInOrder(p)'
  BY DEF InOrder
<1>1. flight'[p] \in {flight[p], <<>>} /\ queue'[p] \in {queue[p], <<>>}
  OBVIOUS
<1>2. \A s : DOMAIN <<>> = {} /\ LinesOf(<<>>) = {} /\ Increasing(<<>>)
             /\ Before(<<>>, s) /\ Before(s, <<>>) /\ InPlace(<<>>, p)
  BY DEF LinesOf, InPlace, Increasing, Before
<1>3. QueueInOrder(p) /\ TopicInOrder(p)
  BY DEF IInv, InOrder
<1>4. QueueInOrder(p)'
  BY <1>1, <1>2, <1>3 DEF QueueInOrder, InPlace, PartitionFor
<1>5. TopicInOrder(p)'
  BY <1>1, <1>2, <1>3 DEF TopicInOrder
<1> QED
  BY <1>4, <1>5

-----------------------------------------------------------------------------
\* Steps that send nothing: what waits for an answer waited before.
LEMMA WaitingKept ==
  ASSUME IInv, count' = count, pending' = pending,
         \A l \in Line : future'[l] = "open" => future[l] = "open",
         pc' = pc \/ pc' \notin {"reading", "gathering"}
  PROVE  Waiting'
<1>1. OpenIsPending'
  BY DEF IInv, Waiting, OpenIsPending
<1>2. OneChunk' /\ BoundaryKept'
  BY DEF IInv, Waiting, OneChunk, BoundaryKept
<1> QED
  BY <1>1, <1>2 DEF Waiting

LEMMA AnsweredKept ==
  ASSUME IInv, count' = count,
         \A l \in Line : /\ future'[l] = "open" => future[l] = "open"
                         /\ future'[l] = "none" => future[l] = "none"
                         /\ future'[l] = "acked" => future[l] = "acked" \/ OnTopic(l)',
         \A p \in Partition : LinesOf(topic[p]) \subseteq LinesOf(topic'[p]),
         pc' \in {"reported", "ended"} => pc \in {"reported", "ended"} \/ Settled(Line)
  PROVE  Answered'
<1>1. \A l \in Line : OnTopic(l) => OnTopic(l)'
  BY DEF OnTopic
<1>2. AckedOnTopic'
  BY <1>1 DEF IInv, Answered, AckedOnTopic
<1>3. SentHasFuture'
  <2>1. \A l \in 1..count : l \in Line
    BY LineAssumption DEF IInv, TypeOK, Line
  <2> QED
    BY <2>1 DEF IInv, Answered, SentHasFuture
<1>4. ReportedSettled'
  BY DEF IInv, Answered, ReportedSettled, Settled
<1> QED
  BY <1>2, <1>3, <1>4 DEF Answered

\* gather() starts a new chunk at a boundary, with nothing open.
LEMMA GatheredWaiting ==
  ASSUME IInv, Settled(pending), pending' = {}, UNCHANGED <<count, future>>,
         pc = "gathering" \/ pc' \notin {"reading", "gathering"},
         pc' # "gathering"
  PROVE  Waiting'
<1>1. OpenIsPending'
  BY DEF IInv, Waiting, OpenIsPending, Settled
<1>2. count \in Nat /\ FlushEvery \in Nat \ {0}
  BY LineAssumption, FlushAssumption DEF IInv, TypeOK
<1>3. OneChunk'
  <2>1. CASE pc = "gathering"
    <3>1. count % FlushEvery = 0
      BY <2>1 DEF IInv, Waiting, BoundaryKept
    <3>2. count \in 0..count' /\ count' - count <= FlushEvery /\ count' - count < FlushEvery
      BY <1>2
    <3> QED
      BY <3>1, <3>2 DEF OneChunk
  <2>2. CASE pc' \notin {"reading", "gathering"}
    BY <2>2 DEF IInv, Waiting, OneChunk
  <2> QED
    BY <2>1, <2>2
<1> QED
  BY <1>1, <1>3 DEF Waiting, BoundaryKept

LEMMA SendStep ==
  ASSUME IInv, Send
  PROVE  IInv'
<1> DEFINE l == count + 1
<1>1. /\ pc = "reading" /\ count' = l /\ l \in Line /\ count \in Nat
      /\ future' = [future EXCEPT ![l] = "open"] /\ pending' = pending \cup {l}
      /\ pc' = IF l % FlushEvery = 0 THEN "gathering" ELSE "reading"
      /\ UNCHANGED <<flight, topic, faults>>
      /\ queue' = [queue EXCEPT ![PartitionFor(l)] = Append(@, l)]
      /\ FlushEvery \in Nat \ {0} /\ MaxLines \in Nat
  BY LineAssumption, FlushAssumption DEF Send, AtBoundary, IInv, TypeOK, Line
<1>2. PartitionFor(l) \in Partition
  BY <1>1, PlaceOfLine
<1>3. TypeOK'
  <2>1. queue' \in [Partition -> Seq(Line)]
    BY <1>1, <1>2 DEF IInv, TypeOK
  <2>2. future' \in [Line -> {"none", "open", "acked", "failed"}]
        /\ \A k \in Line : k > count' => future'[k] = "none"
    BY <1>1 DEF IInv, TypeOK, Line
  <2>3. count' \in 0..MaxLines /\ pending' \subseteq 1..count'
    BY <1>1 DEF IInv, TypeOK, Line
  <2> QED
    BY <1>1, <2>1, <2>2, <2>3 DEF IInv, TypeOK
<1>4. OpenIsPending'
  BY <1>1 DEF IInv, TypeOK, Waiting, OpenIsPending
<1>5. OneChunk' /\ BoundaryKept'
  <2>1. PICK b \in 0..count : /\ b % FlushEvery = 0
                              /\ pending \subseteq (b + 1)..count
                              /\ count - b < FlushEvery
    BY <1>1 DEF IInv, Waiting, OneChunk
  <2>2. /\ b \in 0..l /\ b \in Nat
        /\ pending' \subseteq (b + 1)..l
        /\ l - b <= FlushEvery
    BY <1>1, <2>1
  <2>3. l - b = FlushEvery => l % FlushEvery = 0
    <3>1. l - b = FlushEvery => l = b + FlushEvery
      BY <1>1, <2>2
    <3>2. (b + FlushEvery) % FlushEvery = 0
      BY <1>1, <2>1, <2>2, NextBoundary
    <3> QED
      BY <3>1, <3>2
  <2>4. pc' = "reading" => l - b # FlushEvery
    BY <1>1, <2>3
  <2>5. l - b \in Int
    BY <1>1, <2>2
  <2>6. pc' = "reading" => l - b < FlushEvery
    BY <1>1, <2>2, <2>4, <2>5
  <2> HIDE DEF l
  <2> QED
    BY <1>1, <2>1, <2>2, <2>6 DEF OneChunk, BoundaryKept
<1>6. Answered'
  <2>1. AckedOnTopic'
    BY <1>1 DEF IInv, TypeOK, Answered, AckedOnTopic, OnTopic
  <2>2. SentHasFuture'
    <3>1. \A k \in 1..l : k = l \/ k \in 1..count
      BY <1>1
    <3>2. \A k \in 1..l : k \in Line
      BY <1>1 DEF Line
    <3> QED
      BY <1>1, <3>1, <3>2 DEF IInv, TypeOK, Answered, SentHasFuture
  <2> QED
    BY <1>1, <2>1, <2>2 DEF Answered, ReportedSettled
<1> QED
  BY <1>3, <1>4, <1>5, <1>6, SendOrder DEF IInv, Waiting

\* The other steps of publish_csv, and its end.
LEMMA ClientStep ==
  ASSUME IInv, SendRaises \/ Gather \/ EndOfFile \/ LastGather \/ Flush \/ Stop \/ Kill
  PROVE  IInv'
<1>1. /\ UNCHANGED <<count, future, topic>> /\ faults' \in Nat
      /\ pending' = pending \/ pending' = {}
  BY DEF SendRaises, Gather, EndOfFile, LastGather, Flush, Stop, Kill, CountFault, client,
     IInv, TypeOK
<1>2. /\ pc' \in {"reading", "gathering", "lastGather", "flushing", "reported", "stopping",
                  "ended", "failed", "killed"}
      /\ pc' # "gathering"
      /\ pc' \in {"reported", "ended"} => pc \in {"reported", "ended"} \/ Settled(Line)
  BY DEF SendRaises, Gather, EndOfFile, LastGather, Flush, Stop, Kill
<1>3. \/ UNCHANGED <<queue, flight>>
      \/ queue' = NoLines /\ flight' = NoLines
  BY DEF SendRaises, Gather, EndOfFile, LastGather, Flush, Stop, Kill, client
<1>4. TypeOK'
  <2>1. NoLines \in [Partition -> Seq(Line)]
    BY DEF NoLines
  <2>2. queue' \in [Partition -> Seq(Line)] /\ flight' \in [Partition -> Seq(Line)]
    BY <1>3, <2>1 DEF IInv, TypeOK
  <2> QED
    BY <1>1, <1>2, <2>2 DEF IInv, TypeOK
<1>5. InOrder'
  <2>1. CASE UNCHANGED <<queue, flight>>
    BY <1>1, <2>1, SameOrder DEF IInv
  <2>2. CASE queue' = NoLines /\ flight' = NoLines
    <3>1. /\ \A q \in Partition : flight'[q] = IF q \in Partition THEN <<>> ELSE flight[q]
          /\ \A q \in Partition : queue'[q] \in {queue[q], <<>>}
      BY <2>2 DEF NoLines
    <3> QED
      BY <1>1, <3>1, GoneOrder
  <2> QED
    BY <1>3, <2>1, <2>2
<1>6. Waiting'
  <2>1. CASE Gather \/ LastGather
    <3>1. /\ Settled(pending) /\ pending' = {}
          /\ pc = "gathering" \/ pc' \notin {"reading", "gathering"}
      BY <2>1 DEF Gather, LastGather
    <3> QED
      BY <1>1, <1>2, <3>1, GatheredWaiting
  <2>2. CASE SendRaises \/ EndOfFile \/ Flush \/ Stop \/ Kill
    <3>1. pending' = pending /\ pc' \notin {"reading", "gathering"}
      BY <2>2 DEF SendRaises, EndOfFile, Flush, Stop, Kill
    <3> QED
      BY <1>1, <3>1, WaitingKept
  <2> QED
    BY <2>1, <2>2
<1>7. Answered'
  BY <1>1, <1>2, AnsweredKept
<1> QED
  BY <1>4, <1>5, <1>6, <1>7 DEF IInv

\* The sender of aiokafka.
LEMMA SenderStepInv ==
  ASSUME IInv, NEW p \in Partition,
         TakeBatch(p) \/ Deliver(p) \/ AckLost(p) \/ BatchExpires(p)
  PROVE  IInv'
<1>1. /\ UNCHANGED <<pc, count, pending>> /\ faults' \in Nat
  BY DEF TakeBatch, Deliver, AckLost, BatchExpires, CountFault, IInv, TypeOK
<1>2. /\ queue \in [Partition -> Seq(Line)] /\ flight \in [Partition -> Seq(Line)]
      /\ topic \in [Partition -> Seq(Line)]
      /\ future \in [Line -> {"none", "open", "acked", "failed"}]
  BY DEF IInv, TypeOK
<1>3. \A l \in LinesOf(flight[p]) : l \in Line /\ l <= count
  <2>1. \A i \in DOMAIN flight[p] : flight[p][i] \in Line
    BY <1>2
  <2>2. \A i \in DOMAIN flight[p] : flight[p][i] <= count
    BY DEF IInv, InOrder, QueueInOrder, InPlace
  <2> QED
    BY <2>1, <2>2 DEF LinesOf
<1>4. CASE TakeBatch(p)
  <2>1. UNCHANGED <<future, topic>>
    BY <1>4 DEF TakeBatch
  <2>2. PICK n \in DOMAIN queue[p] :
           /\ flight' = [flight EXCEPT ![p] = SubSeq(queue[p], 1, n)]
           /\ queue' = [queue EXCEPT ![p] = SubSeq(queue[p], n + 1, Len(queue[p]))]
    BY <1>4 DEF TakeBatch
  <2>3. /\ SubSeq(queue[p], 1, n) \in Seq(Line)
        /\ SubSeq(queue[p], n + 1, Len(queue[p])) \in Seq(Line)
    <3>1. Len(queue[p]) \in Nat /\ n \in 1..Len(queue[p])
          /\ \A i \in 1..Len(queue[p]) : queue[p][i] \in Line
      BY <1>2
    <3>2. /\ \A i \in 1..n : queue[p][i] \in Line
          /\ \A i \in (n + 1)..Len(queue[p]) : queue[p][i] \in Line
      BY <3>1
    <3> QED
      BY <3>1, <3>2, SubSeqProperties
  <2>4. flight' \in [Partition -> Seq(Line)] /\ queue' \in [Partition -> Seq(Line)]
    BY <1>2, <2>2, <2>3
  <2>5. TypeOK'
    BY <1>1, <2>1, <2>4 DEF IInv, TypeOK
  <2>6. Waiting' /\ Answered'
    BY <1>1, <2>1, WaitingKept, AnsweredKept DEF IInv, Answered, ReportedSettled
  <2> QED
    BY <1>4, <2>5, <2>6, TakeOrder DEF IInv
<1>5. CASE Deliver(p) \/ AckLost(p)
  <2>1. /\ topic' = Written(p) /\ queue' = queue
        /\ flight' = flight \/ flight' = [flight EXCEPT ![p] = <<>>]
        /\ \/ future' = future
           \/ future' = [l \in Line |-> IF l \in LinesOf(flight[p]) THEN "acked" ELSE future[l]]
    BY <1>5 DEF Deliver, AckLost, EndBatch
  <2>2. InOrder' /\ LinesOf(topic'[p]) = LinesOf(topic[p]) \cup LinesOf(flight[p])
    BY <1>1, <2>1, WrittenOrder
  <2>3. /\ topic' \in [Partition -> Seq(Line)] /\ flight' \in [Partition -> Seq(Line)]
        /\ future' \in [Line -> {"none", "open", "acked", "failed"}]
    <3>1. topic[p] \o flight[p] \in Seq(Line)
      BY <1>2, ConcatProperties
    <3>2. topic' = [topic EXCEPT ![p] = topic[p] \o flight[p]]
      BY <1>2, <2>1 DEF Written
    <3>3. topic' \in [Partition -> Seq(Line)]
      BY <1>2, <3>1, <3>2
    <3>4. flight' \in [Partition -> Seq(Line)]
      <4>1. <<>> \in Seq(Line)
        BY EmptySeq
      <4> QED
        BY <1>2, <2>1, <4>1
    <3>5. future' \in [Line -> {"none", "open", "acked", "failed"}]
      BY <1>2, <2>1
    <3> QED
      BY <3>3, <3>4, <3>5
  <2>4. \A l \in Line : /\ future'[l] = "open" => future[l] = "open"
                        /\ future'[l] = "none" => future[l] = "none"
                        /\ future'[l] = "acked" => future[l] = "acked" \/ l \in LinesOf(flight[p])
                        /\ l > count => future'[l] = future[l]
    <3>1. \A l \in Line : l > count => l \notin LinesOf(flight[p])
      BY <1>3, LineAssumption DEF IInv, TypeOK, Line
    <3> QED
      BY <2>1, <3>1
  <2>5. TypeOK'
    BY <1>1, <2>1, <2>3, <2>4 DEF IInv, TypeOK
  <2>6. \A q \in Partition : LinesOf(topic[q]) \subseteq LinesOf(topic'[q])
    <3>1. \A q \in Partition \ {p} : topic'[q] = topic[q]
      BY <1>2, <2>1 DEF Written
    <3> QED
      BY <2>2, <3>1
  <2>7. \A l \in LinesOf(flight[p]) : OnTopic(l)'
    BY <2>2 DEF OnTopic
  <2>8. Waiting'
    BY <1>1, <2>4, WaitingKept
  <2>9. Answered'
    BY <1>1, <2>4, <2>6, <2>7, AnsweredKept
  <2> QED
    BY <2>2, <2>5, <2>8, <2>9 DEF IInv
<1>6. CASE BatchExpires(p)
  <2>1. /\ topic' = topic /\ queue' = queue /\ flight' = [flight EXCEPT ![p] = <<>>]
        /\ future' = [l \in Line |-> IF l \in LinesOf(flight[p]) THEN "failed" ELSE future[l]]
    BY <1>6 DEF BatchExpires, EndBatch
  <2>2. InOrder'
    <3>1. /\ \A q \in Partition : flight'[q] = IF q \in {p} THEN <<>> ELSE flight[q]
          /\ \A q \in Partition : queue'[q] \in {queue[q], <<>>}
      BY <1>2, <2>1
    <3> QED
      BY <1>1, <2>1, <3>1, GoneOrder
  <2>3. /\ flight' \in [Partition -> Seq(Line)]
        /\ future' \in [Line -> {"none", "open", "acked", "failed"}]
    BY <1>2, <2>1
  <2>4. \A l \in Line : /\ future'[l] = "open" => future[l] = "open"
                        /\ future'[l] = "none" => future[l] = "none"
                        /\ future'[l] = "acked" => future[l] = "acked"
                        /\ l > count => future'[l] = future[l]
    <3>1. \A l \in Line : l > count => l \notin LinesOf(flight[p])
      BY <1>3, LineAssumption DEF IInv, TypeOK, Line
    <3> QED
      BY <2>1, <3>1
  <2>5. TypeOK'
    BY <1>1, <2>1, <2>3, <2>4 DEF IInv, TypeOK
  <2>6. Waiting'
    BY <1>1, <2>4, WaitingKept
  <2>7. Answered'
    BY <1>1, <2>1, <2>4, AnsweredKept
  <2> QED
    BY <2>2, <2>5, <2>6, <2>7 DEF IInv
<1> QED
  BY <1>4, <1>5, <1>6

LEMMA Initially == Init => IInv
<1> SUFFICES ASSUME Init PROVE IInv
  OBVIOUS
<1>1. /\ NoLines \in [Partition -> Seq(Line)]
      /\ \A p \in Partition : NoLines[p] = <<>>
  BY DEF NoLines
<1>2. MaxLines \in Nat /\ FlushEvery \in Nat \ {0}
  BY LineAssumption, FlushAssumption
<1>3. TypeOK
  BY <1>1, <1>2 DEF Init, TypeOK, Line
<1>4. InOrder
  BY <1>1 DEF Init, InOrder, QueueInOrder, TopicInOrder, InPlace, Increasing, Before,
     FirstsOrdered, LinesOf
<1>5. OneChunk
  <2>1. 0 % FlushEvery = 0
    BY <1>2
  <2> QED
    BY <1>2, <2>1 DEF Init, OneChunk
<1>6. Waiting
  BY <1>5 DEF Init, Waiting, OpenIsPending, BoundaryKept
<1>7. Answered
  BY DEF Init, Answered, AckedOnTopic, SentHasFuture, ReportedSettled
<1> QED
  BY <1>3, <1>4, <1>6, <1>7 DEF IInv

LEMMA Inductive == IInv /\ [Next]_vars => IInv'
<1> SUFFICES ASSUME IInv, [Next]_vars PROVE IInv'
  OBVIOUS
<1>1. CASE UNCHANGED vars
  <2>1. UNCHANGED <<pc, count, pending, future, queue, flight, topic, faults>>
    BY <1>1 DEF vars, client
  <2>2. TypeOK'
    BY <2>1 DEF IInv, TypeOK
  <2>3. InOrder'
    BY <2>1, SameOrder DEF IInv
  <2>4. Waiting'
    BY <2>1, WaitingKept
  <2>5. Answered'
    BY <2>1, AnsweredKept
  <2> QED
    BY <2>2, <2>3, <2>4, <2>5 DEF IInv
<1> QED
  BY <1>1, SendStep, ClientStep, SenderStepInv DEF Next, ProducerStep, SenderStep

LEMMA Invariance == Spec => []IInv
BY Initially, Inductive, PTL DEF Spec

-----------------------------------------------------------------------------
\* The lines and the futures stay well typed.
THEOREM TypeCorrect == Spec => []TypeOK
<1>1. IInv => TypeOK
  BY DEF IInv
<1> QED
  BY <1>1, Invariance, PTL

\* A line on the topic has a first copy.
LEMMA FirstCopy ==
  ASSUME NEW p \in Partition, topic[p] \in Seq(Line), NEW l \in LinesOf(topic[p])
  PROVE  \E n \in DOMAIN topic[p] : FirstAt(p, l, n)
<1> DEFINE S == {n \in DOMAIN topic[p] : topic[p][n] = l}
<1>1. S # {} /\ S \subseteq Nat /\ DOMAIN topic[p] = 1..Len(topic[p]) /\ Len(topic[p]) \in Nat
  BY DEF LinesOf
<1>2. PICK n \in S : \A k \in S : ~(<<k, n>> \in OpToRel(<, Nat))
  <2> HIDE DEF S
  <2> QED
    BY <1>1, NatLessThanWellFounded, WFMin
<1>3. \A k \in 1..(n - 1) : topic[p][k] # l
  <2> SUFFICES ASSUME NEW k \in 1..(n - 1), topic[p][k] = l PROVE FALSE
    OBVIOUS
  <2>1. k \in S /\ k < n /\ k \in Nat /\ n \in Nat
    BY <1>1
  <2> QED
    BY <1>2, <2>1 DEF OpToRel
<1> QED
  BY <1>3 DEF FirstAt

\* The records of a number reach one partition in the order of the file, however
\* often batches are sent again and whichever expire.
THEOREM NumbersInOrder == Spec => []OrderPerNumber
<1>1. ASSUME IInv PROVE OrderPerNumber
  <2> SUFFICES ASSUME NEW i \in Line, NEW j \in Line, i < j, MsisdnOf[i] = MsisdnOf[j],
                      OnTopic(i), OnTopic(j)
               PROVE  \E p \in Partition : \E n, m \in DOMAIN topic[p] :
                         n < m /\ FirstAt(p, i, n) /\ FirstAt(p, j, m)
    BY DEF OrderPerNumber
  <2>1. PICK p \in Partition : i \in LinesOf(topic[p])
    BY DEF OnTopic
  <2>2. PICK q \in Partition : j \in LinesOf(topic[q])
    BY DEF OnTopic
  <2>3. p = q
    <3>1. PartitionFor(i) = p /\ PartitionFor(j) = q
      BY <1>1, <2>1, <2>2 DEF IInv, InOrder, QueueInOrder, InPlace, LinesOf
    <3> QED
      BY <3>1 DEF PartitionFor
  <2>4. topic[p] \in Seq(Line)
    BY <1>1 DEF IInv, TypeOK
  <2>5. PICK n \in DOMAIN topic[p] : FirstAt(p, i, n)
    BY <2>1, <2>4, FirstCopy
  <2>6. PICK m \in DOMAIN topic[p] : FirstAt(p, j, m)
    BY <2>2, <2>3, <2>4, FirstCopy
  <2>7. PICK k \in 1..(m - 1) : topic[p][k] = i
    <3>1. topic[p][m] = j
      BY <2>6 DEF FirstAt
    <3> QED
      BY <1>1, <2>1, <3>1 DEF IInv, InOrder, TopicInOrder, FirstsOrdered
  <2>8. n < m
    <3>1. n \in Nat /\ m \in Nat
      BY <2>4
    <3>2. k \notin 1..(n - 1)
      BY <2>5, <2>7 DEF FirstAt
    <3> QED
      BY <3>1, <3>2
  <2> QED
    BY <2>5, <2>6, <2>8
<1> QED
  BY <1>1, Invariance, PTL

\* Never more than one chunk waits for acknowledgements.
THEOREM HeldBack == Spec => []BackPressure
<1>1. ASSUME IInv PROVE BackPressure
  <2>1. PICK b \in 0..count : pending \subseteq (b + 1)..count /\ count - b <= FlushEvery
    BY <1>1 DEF IInv, Waiting, OneChunk
  <2>2. count \in Nat /\ b \in Nat /\ FlushEvery \in Nat
    BY <1>1, LineAssumption, FlushAssumption DEF IInv, TypeOK
  <2> DEFINE O == {l \in Line : future[l] = "open"}
  <2>3. O \subseteq (b + 1)..count
    BY <1>1, <2>1 DEF IInv, Waiting, OpenIsPending
  <2>4. IsFiniteSet((b + 1)..count) /\ Cardinality((b + 1)..count) = count - b
    <3>1. b + 1 \in Int /\ count \in Int
      BY <2>2
    <3>2. /\ IsFiniteSet((b + 1)..count)
          /\ Cardinality((b + 1)..count) = IF b + 1 > count THEN 0 ELSE count - (b + 1) + 1
      BY <3>1, FS_Interval
    <3> QED
      BY <2>1, <2>2, <3>2
  <2> HIDE DEF O
  <2>5. Cardinality(O) <= Cardinality((b + 1)..count)
    BY <2>3, <2>4, FS_Subset
  <2>6. IsFiniteSet(O)
    BY <2>3, <2>4, FS_Subset
  <2>7. Cardinality(O) \in Nat
    BY <2>6, FS_CardinalityType
  <2> QED
    BY <2>1, <2>2, <2>4, <2>5, <2>7 DEF BackPressure, O
<1> QED
  BY <1>1, Invariance, PTL

\* Each line that publish_csv counts in its report is on the topic, or its
\* delivery has failed.
THEOREM ReportsTrue == Spec => []ReportAccounted
<1>1. ASSUME IInv PROVE ReportAccounted
  <2> SUFFICES ASSUME pc \in {"reported", "ended"}, NEW l \in 1..count
               PROVE  OnTopic(l) \/ future[l] = "failed"
    BY DEF ReportAccounted
  <2>1. l \in Line
    BY <1>1, LineAssumption DEF IInv, TypeOK, Line
  <2>2. future[l] \in {"none", "open", "acked", "failed"}
    BY <1>1, <2>1 DEF IInv, TypeOK
  <2>3. future[l] # "none" /\ future[l] # "open"
    BY <1>1, <2>1 DEF IInv, Answered, SentHasFuture, ReportedSettled, Settled
  <2> QED
    BY <1>1, <2>1, <2>2, <2>3 DEF IInv, Answered, AckedOnTopic
<1> QED
  BY <1>1, Invariance, PTL

-----------------------------------------------------------------------------
(***************************************************************************)
(* Why publish_csv ends. PublishEnds itself needs fairness and is checked  *)
(* by TLC; what holds without it is that gather() never waits for a future *)
(* that nobody holds, and that the steps of a run can be counted.          *)
(***************************************************************************)
InClient(l) == LinesOf(queue[PartitionFor(l)]) \cup LinesOf(flight[PartitionFor(l)])

\* What is open is still in the hands of the client.
OpenIsUnderway == pc # "killed" => \A l \in Line : future[l] = "open" => l \in InClient(l)

\* publish_csv, while it lives, need not wait, or the client has a line to send
\* or an answer to wait for: the guards of ProducerStep and SenderStep.
SomebodyMoves ==
    \/ pc \in {"reading", "ended", "failed", "killed"}
    \/ pc \in {"gathering", "lastGather"} /\ Settled(pending)
    \/ pc \in {"flushing", "reported", "stopping"} /\ Settled(Line)
    \/ \E p \in Partition : queue[p] # <<>> \/ flight[p] # <<>>

\* What is ahead of a line: it is sent, taken, answered.
LineWeight(l) ==
    CASE future[l] = "none" -> 4
      [] future[l] # "none" /\ l \in LinesOf(queue[PartitionFor(l)]) -> 2
      [] /\ future[l] # "none" /\ l \notin LinesOf(queue[PartitionFor(l)])
         /\ l \in LinesOf(flight[PartitionFor(l)]) -> 1
      [] OTHER -> 0
LinesAhead == {w \in Line \X (1..4) : w[2] <= LineWeight(w[1])}

\* What is ahead of publish_csv, apart from its lines; one that is sent may be
\* the last of a chunk.
CallsAhead ==
    CASE pc = "gathering" -> 5 [] pc = "reading" -> 4 [] pc = "lastGather" -> 3
      [] pc = "flushing" -> 2 [] pc \in {"reported", "stopping"} -> 1 [] OTHER -> 0

Ahead == Cardinality(LinesAhead) + CallsAhead

AheadBounded == Ahead \in 0..(4 * MaxLines + 5)

\* A step of the process lessens what is ahead. A batch whose acknowledgement is
\* lost stays ahead, and costs a fault.
AheadFalls ==
    \/ Ahead' < Ahead
    \/ Ahead' = Ahead /\ faults' = faults + 1

-----------------------------------------------------------------------------
\* A batch that the client takes: the first lines of the accumulator, one at least.
LEMMA TakeMoves ==
  ASSUME IInv, NEW p \in Partition, TakeBatch(p)
  PROVE  /\ \A r \in Partition \ {p} : queue'[r] = queue[r] /\ flight'[r] = flight[r]
         /\ LinesOf(flight[p]) = {}
         /\ LinesOf(queue[p]) = LinesOf(queue'[p]) \cup LinesOf(flight'[p])
         /\ \E l \in Line : /\ l \in LinesOf(queue[p]) /\ l \notin LinesOf(queue'[p])
                            /\ PartitionFor(l) = p /\ l <= count
<1> DEFINE q == queue[p]
<1>1. PICK n \in DOMAIN q :
         /\ flight' = [flight EXCEPT ![p] = SubSeq(q, 1, n)]
         /\ queue' = [queue EXCEPT ![p] = SubSeq(q, n + 1, Len(q))]
  BY DEF TakeBatch
<1>2. /\ q \in Seq(Nat) /\ q \in Seq(Line) /\ queue \in [Partition -> Seq(Line)]
      /\ flight \in [Partition -> Seq(Line)]
  BY SeqFacts DEF IInv, TypeOK
<1>3. flight'[p] = SubSeq(q, 1, n) /\ queue'[p] = SubSeq(q, n + 1, Len(q))
  BY <1>1, <1>2
<1>4. \A r \in Partition \ {p} : queue'[r] = queue[r] /\ flight'[r] = flight[r]
  BY <1>1, <1>2
<1>5. LinesOf(flight[p]) = {}
  BY DEF TakeBatch, LinesOf
<1>6. InPlace(q, p) /\ Increasing(q)
  BY DEF IInv, InOrder, QueueInOrder
<1>7. \A i \in DOMAIN q : q[i] \in Nat /\ q[i] \in Line
  BY SeqFacts, <1>2, ElementOfSeq, LenProperties DEF IInv
<1> HIDE DEF q
<1>8. /\ Len(q) \in Nat /\ n \in 1..Len(q) /\ DOMAIN q = 1..Len(q)
      /\ DOMAIN flight'[p] = 1..n
      /\ \A i \in 1..n : flight'[p][i] = q[i]
      /\ DOMAIN queue'[p] = 1..(Len(q) - n)
      /\ \A i \in 1..(Len(q) - n) : n + i \in DOMAIN q /\ queue'[p][i] = q[n + i]
  <2> DEFINE first == SubSeq(q, 1, n)
  <2> DEFINE rest == SubSeq(q, n + 1, Len(q))
  <2>1. /\ Len(q) \in Nat /\ n \in 1..Len(q) /\ DOMAIN q = 1..Len(q)
        /\ DOMAIN first = 1..n
        /\ \A i \in 1..n : first[i] = q[i]
        /\ DOMAIN rest = 1..(Len(q) - n)
        /\ \A i \in 1..(Len(q) - n) : n + i \in DOMAIN q /\ rest[i] = q[n + i]
    BY <1>2, BatchSplit
  <2>2. flight'[p] = first /\ queue'[p] = rest
    BY <1>3
  <2> HIDE DEF first, rest
  <2> QED
    BY <2>1, <2>2
<1>9. \A i \in DOMAIN q : q[i] \in LinesOf(queue'[p]) \cup LinesOf(flight'[p])
  <2> SUFFICES ASSUME NEW i \in DOMAIN q
               PROVE  q[i] \in LinesOf(queue'[p]) \cup LinesOf(flight'[p])
    OBVIOUS
  <2>1. CASE i <= n
    <3>1. i \in DOMAIN flight'[p] /\ flight'[p][i] = q[i]
      BY <1>8, <2>1
    <3> QED
      BY <3>1 DEF LinesOf
  <2>2. CASE i > n
    <3>1. PICK k \in 1..(Len(q) - n) : n + k = i
      <4>1. i - n \in 1..(Len(q) - n) /\ n + (i - n) = i
        BY <1>8, <2>2
      <4> QED
        BY <4>1
    <3>2. k \in DOMAIN queue'[p] /\ queue'[p][k] = q[i]
      BY <1>8, <3>1
    <3> QED
      BY <3>2 DEF LinesOf
  <2> QED
    BY <1>8, <2>1, <2>2
<1>10. /\ \A i \in DOMAIN flight'[p] : i \in DOMAIN q /\ flight'[p][i] = q[i]
       /\ \A i \in DOMAIN queue'[p] : n + i \in DOMAIN q /\ queue'[p][i] = q[n + i]
  BY <1>8
<1>11. LinesOf(q) = LinesOf(queue'[p]) \cup LinesOf(flight'[p])
  BY <1>9, <1>10 DEF LinesOf
<1>12. 1 \in DOMAIN q /\ q[1] \notin LinesOf(queue'[p])
  <2>1. 1 \in DOMAIN q
    BY <1>8
  <2>2. ASSUME NEW i \in DOMAIN queue'[p] PROVE queue'[p][i] # q[1]
    <3>1. n + i \in DOMAIN q /\ queue'[p][i] = q[n + i] /\ 1 < n + i
      BY <1>8
    <3> QED
      BY <1>6, <1>7, <2>1, <3>1 DEF Increasing
  <2> QED
    BY <2>1, <2>2 DEF LinesOf
<1>13. /\ q[1] \in Line /\ q[1] \in LinesOf(q) /\ PartitionFor(q[1]) = p /\ q[1] <= count
  BY <1>6, <1>7, <1>12 DEF InPlace, LinesOf
<1> QED
  BY <1>4, <1>5, <1>11, <1>12, <1>13 DEF q

\* The line that is sent joins the accumulator of its partition.
LEMMA SendJoins ==
  ASSUME IInv, Send
  PROVE  /\ count' = count + 1 /\ count' \in Line
         /\ future[count'] = "none" /\ future' = [future EXCEPT ![count'] = "open"]
         /\ flight' = flight
         /\ \A l \in Line : LinesOf(queue[PartitionFor(l)]) \subseteq LinesOf(queue'[PartitionFor(l)])
         /\ \A l \in Line : l \in LinesOf(queue'[PartitionFor(l)])
                            => l = count' \/ l \in LinesOf(queue[PartitionFor(l)])
         /\ count' \in LinesOf(queue'[PartitionFor(count')])
<1> DEFINE k == count + 1  P == PartitionFor(k)
<1>1. /\ count' = k /\ k \in Line /\ k > count
      /\ flight' = flight /\ future' = [future EXCEPT ![k] = "open"]
      /\ queue' = [queue EXCEPT ![P] = Append(@, k)]
  BY LineAssumption DEF Send, IInv, TypeOK, Line
<1>2. future[k] = "none"
  BY <1>1 DEF IInv, TypeOK
<1>3. \A l \in Line : PartitionFor(l) \in Partition
  BY LineAssumption, PartitionAssumption DEF PartitionFor
<1>4. queue \in [Partition -> Seq(Line)] /\ queue[P] \in Seq(Line)
  BY <1>1, <1>3 DEF IInv, TypeOK
<1>5. queue'[P] = Append(queue[P], k) /\ \A r \in Partition \ {P} : queue'[r] = queue[r]
  BY <1>1, <1>3, <1>4
<1>6. LinesOf(queue'[P]) = LinesOf(queue[P]) \cup {k}
  <2>1. PICK s \in Seq(Line) : s = queue[P]
    BY <1>4
  <2>2. PICK n \in Nat : n = Len(s)
    BY <2>1, LenProperties
  <2>3. /\ DOMAIN s = 1..n
        /\ DOMAIN Append(s, k) = 1..(n + 1)
        /\ \A i \in 1..n : Append(s, k)[i] = s[i]
        /\ Append(s, k)[n + 1] = k
    <3> HIDE DEF k
    <3>1. /\ Append(s, k) \in Seq(Line) /\ Len(Append(s, k)) = n + 1
          /\ \A i \in 1..n : Append(s, k)[i] = s[i]
          /\ Append(s, k)[n + 1] = k
      BY <1>1, <2>1, <2>2, AppendProperties
    <3> QED
      BY <2>1, <2>2, <3>1, LenProperties
  <2> HIDE DEF k
  <2>4. \A i \in 1..(n + 1) : i \in 1..n \/ i = n + 1
    OBVIOUS
  <2>5. 1..n \subseteq 1..(n + 1) /\ n + 1 \in 1..(n + 1)
    OBVIOUS
  <2>6. LinesOf(Append(s, k)) = LinesOf(s) \cup {k}
    <3>1. \A i \in DOMAIN Append(s, k) : Append(s, k)[i] \in LinesOf(s) \cup {k}
      BY <2>3, <2>4 DEF LinesOf
    <3>2. /\ \A i \in DOMAIN s : s[i] \in LinesOf(Append(s, k))
          /\ k \in LinesOf(Append(s, k))
      BY <2>3, <2>5 DEF LinesOf
    <3> QED
      BY Zenon, <3>1, <3>2 DEF LinesOf
  <2> QED
    BY <1>5, <2>1, <2>6
<1>7. P \in Partition
  BY <1>1, <1>3
<1> HIDE DEF k, P
<1>8. ASSUME NEW l \in Line
      PROVE  /\ LinesOf(queue[PartitionFor(l)]) \subseteq LinesOf(queue'[PartitionFor(l)])
             /\ l \in LinesOf(queue'[PartitionFor(l)])
                            => l = k \/ l \in LinesOf(queue[PartitionFor(l)])
  <2>1. CASE PartitionFor(l) = P
    BY <1>6, <2>1
  <2>2. CASE PartitionFor(l) # P
    BY <1>3, <1>5, <2>2
  <2> QED
    BY <2>1, <2>2
<1>9. k \in LinesOf(queue'[PartitionFor(k)])
  BY <1>6 DEF P
<1> QED
  BY <1>1, <1>2, <1>8, <1>9 DEF k

\* The client's other steps: a batch ends, and takes its futures with it.
LEMMA BatchGoes ==
  ASSUME IInv, NEW p \in Partition, Deliver(p) \/ BatchExpires(p)
  PROVE  /\ flight[p] # <<>> /\ flight' = [flight EXCEPT ![p] = <<>>] /\ queue' = queue
         /\ \A l \in LinesOf(flight[p]) : future'[l] \in {"acked", "failed"} /\ l \in Line
         /\ \A l \in Line \ LinesOf(flight[p]) : future'[l] = future[l]
         /\ pc' = pc /\ count' = count
<1>1. \A l \in LinesOf(flight[p]) : l \in Line
  BY SeqFacts, ElementOfSeq, LenProperties DEF LinesOf, IInv
<1> QED
  BY <1>1 DEF Deliver, BatchExpires, EndBatch

LEMMA UnderwayStep ==
  ASSUME IInv, OpenIsUnderway, [Next]_vars
  PROVE  OpenIsUnderway'
<1> SUFFICES ASSUME pc' # "killed", NEW l \in Line, future'[l] = "open"
             PROVE  l \in LinesOf(queue'[PartitionFor(l)]) \cup LinesOf(flight'[PartitionFor(l)])
  BY DEF OpenIsUnderway, InClient, PartitionFor
<1>1. PartitionFor(l) \in Partition
  BY LineAssumption, PartitionAssumption DEF PartitionFor
<1>2. future \in [Line -> {"none", "open", "acked", "failed"}]
      /\ flight \in [Partition -> Seq(Line)]
  BY DEF IInv, TypeOK
<1>3. pc # "killed" /\ future[l] = "open"
         => l \in LinesOf(queue[PartitionFor(l)]) \cup LinesOf(flight[PartitionFor(l)])
  BY DEF OpenIsUnderway, InClient
<1>4. CASE Send
  <2>1. pc # "killed"
    BY <1>4 DEF Send
  <2> QED
    BY <1>2, <1>3, <1>4, <2>1, SendJoins
<1>5. CASE SendRaises \/ Gather \/ EndOfFile \/ LastGather \/ Flush \/ Stop \/ Kill \/ UNCHANGED vars
  <2>1. pc # "killed" /\ UNCHANGED <<future, queue, flight>>
    BY <1>5 DEF SendRaises, Gather, EndOfFile, LastGather, Flush, Stop, Kill, vars, client
  <2> QED
    BY <1>3, <2>1
<1>6. ASSUME NEW p \in Partition, TakeBatch(p)
      PROVE  l \in LinesOf(queue'[PartitionFor(l)]) \cup LinesOf(flight'[PartitionFor(l)])
  <2>1. pc # "killed" /\ future[l] = "open"
    BY <1>6 DEF TakeBatch
  <2> QED
    BY <1>1, <1>3, <1>6, <2>1, TakeMoves
<1>7. ASSUME NEW p \in Partition, Deliver(p) \/ BatchExpires(p)
      PROVE  l \in LinesOf(queue'[PartitionFor(l)]) \cup LinesOf(flight'[PartitionFor(l)])
  <2>1. l \notin LinesOf(flight[p]) /\ future[l] = "open" /\ pc # "killed" /\ queue' = queue
    BY <1>7, BatchGoes
  <2>2. \A r \in Partition \ {p} : flight'[r] = flight[r]
    BY <1>2, <1>7, BatchGoes
  <2> QED
    BY <1>1, <1>3, <2>1, <2>2
<1>8. ASSUME NEW p \in Partition, AckLost(p)
      PROVE  l \in LinesOf(queue'[PartitionFor(l)]) \cup LinesOf(flight'[PartitionFor(l)])
  <2>1. pc # "killed" /\ UNCHANGED <<future, queue, flight>>
    BY <1>8 DEF AckLost
  <2> QED
    BY <1>3, <2>1
<1> QED
  BY <1>4, <1>5, <1>6, <1>7, <1>8 DEF Next, ProducerStep, SenderStep

\* publish_csv waits for open futures only, and those are underway.
LEMMA MovesNow == IInv /\ OpenIsUnderway => SomebodyMoves
<1> SUFFICES ASSUME IInv, OpenIsUnderway, pc # "killed",
                    \A p \in Partition : queue[p] = <<>> /\ flight[p] = <<>>
             PROVE  SomebodyMoves
  BY DEF SomebodyMoves
<1>1. \A l \in Line : future[l] # "open"
  <2> SUFFICES ASSUME NEW l \in Line PROVE l \notin InClient(l)
    BY DEF OpenIsUnderway
  <2>1. PartitionFor(l) \in Partition
    BY LineAssumption, PartitionAssumption DEF PartitionFor
  <2> QED
    BY <2>1 DEF InClient, LinesOf
<1>2. pending \subseteq Line
  BY LineAssumption DEF IInv, TypeOK, Line
<1> QED
  BY <1>1, <1>2 DEF SomebodyMoves, Settled, IInv, TypeOK

\* gather(), flush() and stop() never wait for a future that nobody will
\* complete: each is a line in the accumulator or in a batch on its way, for any
\* file, chunk size and partitions, whatever was lost, expired or sent again.
THEOREM NobodyWaitsInVain == Spec => []SomebodyMoves
<1>1. Init => OpenIsUnderway
  BY DEF Init, OpenIsUnderway
<1>2. IInv /\ OpenIsUnderway /\ [Next]_vars => OpenIsUnderway'
  BY UnderwayStep
<1> QED
  BY <1>1, <1>2, MovesNow, Invariance, PTL DEF Spec

-----------------------------------------------------------------------------
LEMMA WeightOf ==
  ASSUME NEW l
  PROVE  /\ LineWeight(l) \in {0, 1, 2, 4}
         /\ future[l] = "none" => LineWeight(l) = 4
         /\ future[l] # "none" => LineWeight(l) <= 2
         /\ future[l] # "none" /\ l \in LinesOf(queue[PartitionFor(l)]) => LineWeight(l) = 2
         /\ future[l] # "none" /\ l \notin LinesOf(queue[PartitionFor(l)]) => LineWeight(l) <= 1
         /\ /\ future[l] # "none" /\ l \notin LinesOf(queue[PartitionFor(l)])
            /\ l \in LinesOf(flight[PartitionFor(l)])
            => LineWeight(l) = 1
         /\ /\ future[l] # "none" /\ l \notin LinesOf(queue[PartitionFor(l)])
            /\ l \notin LinesOf(flight[PartitionFor(l)])
            => LineWeight(l) = 0
BY DEF LineWeight

\* The same of the next state.
LEMMA WeightOfNext ==
  ASSUME NEW l
  PROVE  /\ LineWeight(l)' \in {0, 1, 2, 4}
         /\ future'[l] = "none" => LineWeight(l)' = 4
         /\ future'[l] # "none" => LineWeight(l)' <= 2
         /\ future'[l] # "none" /\ l \in LinesOf(queue'[PartitionFor(l)]) => LineWeight(l)' = 2
         /\ future'[l] # "none" /\ l \notin LinesOf(queue'[PartitionFor(l)]) => LineWeight(l)' <= 1
         /\ /\ future'[l] # "none" /\ l \notin LinesOf(queue'[PartitionFor(l)])
            /\ l \in LinesOf(flight'[PartitionFor(l)])
            => LineWeight(l)' = 1
         /\ /\ future'[l] # "none" /\ l \notin LinesOf(queue'[PartitionFor(l)])
            /\ l \notin LinesOf(flight'[PartitionFor(l)])
            => LineWeight(l)' = 0
BY DEF LineWeight, PartitionFor

LEMMA TicketOf ==
  /\ \A w \in Line \X (1..4) : w[1] \in Line /\ w[2] \in 1..4 /\ w = <<w[1], w[2]>>
  /\ \A l \in Line : \A i \in 1..4 :
        <<l, i>> \in Line \X (1..4) /\ <<l, i>>[1] = l /\ <<l, i>>[2] = i
OBVIOUS

LEMMA AllTickets ==
  /\ IsFiniteSet(Line \X (1..4))
  /\ Cardinality(Line \X (1..4)) = MaxLines * 4
<1>1. IsFiniteSet(Line) /\ Cardinality(Line) = MaxLines
  <2>1. MaxLines \in Nat /\ 1 \in Int /\ MaxLines \in Int
    BY LineAssumption
  <2>2. IsFiniteSet(1..MaxLines)
        /\ Cardinality(1..MaxLines) = IF 1 > MaxLines THEN 0 ELSE MaxLines - 1 + 1
    BY <2>1, FS_Interval
  <2> QED
    BY <2>1, <2>2 DEF Line
<1>2. IsFiniteSet(1..4) /\ Cardinality(1..4) = 4
  <2>1. IsFiniteSet(1..4) /\ Cardinality(1..4) = IF 1 > 4 THEN 0 ELSE 4 - 1 + 1
    BY FS_Interval, 1 \in Int, 4 \in Int
  <2> QED
    BY <2>1
<1> HIDE DEF Line
<1> QED
  BY <1>1, <1>2, FS_Product

LEMMA AheadFinite ==
  /\ IsFiniteSet(LinesAhead) /\ Cardinality(LinesAhead) \in 0..(4 * MaxLines)
  /\ IsFiniteSet(LinesAhead') /\ Cardinality(LinesAhead') \in 0..(4 * MaxLines)
<1>1. ASSUME NEW S \in SUBSET (Line \X (1..4))
      PROVE  IsFiniteSet(S) /\ Cardinality(S) \in 0..(4 * MaxLines)
  <2>1. IsFiniteSet(S) /\ Cardinality(S) <= Cardinality(Line \X (1..4))
    BY AllTickets, FS_Subset
  <2>2. Cardinality(S) \in Nat
    BY <2>1, FS_CardinalityType
  <2> QED
    BY <2>1, <2>2, AllTickets, LineAssumption
<1>2. LinesAhead \in SUBSET (Line \X (1..4)) /\ LinesAhead' \in SUBSET (Line \X (1..4))
  BY DEF LinesAhead
<1> QED
  BY <1>1, <1>2

\* No line gets heavier: no ticket is added, and where one gets lighter, one goes.
LEMMA LinesLighter ==
  ASSUME \A l \in Line : LineWeight(l)' <= LineWeight(l)
  PROVE  /\ LinesAhead' \subseteq LinesAhead
         /\ Cardinality(LinesAhead') <= Cardinality(LinesAhead)
         /\ (\E l \in Line : LineWeight(l)' < LineWeight(l))
               => Cardinality(LinesAhead') < Cardinality(LinesAhead)
<1>1. ASSUME NEW w \in LinesAhead' PROVE w \in LinesAhead
  <2>1. w \in Line \X (1..4) /\ w[1] \in Line /\ w[2] \in 1..4 /\ w[2] <= LineWeight(w[1])'
    BY <1>1, TicketOf DEF LinesAhead
  <2>2. LineWeight(w[1])' <= LineWeight(w[1])
    BY <2>1
  <2>3. LineWeight(w[1]) \in {0, 1, 2, 4} /\ LineWeight(w[1])' \in {0, 1, 2, 4}
    BY WeightOf, WeightOfNext
  <2>4. w[2] <= LineWeight(w[1])
    BY <2>1, <2>2, <2>3
  <2> QED
    BY <2>1, <2>4 DEF LinesAhead
<1>2. LinesAhead' \subseteq LinesAhead
  BY <1>1
<1>3. /\ Cardinality(LinesAhead') <= Cardinality(LinesAhead)
      /\ Cardinality(LinesAhead) = Cardinality(LinesAhead') => LinesAhead' = LinesAhead
  BY <1>2, AheadFinite, FS_Subset
<1>4. ASSUME NEW l \in Line, LineWeight(l)' < LineWeight(l) PROVE LinesAhead' # LinesAhead
  <2>1. PICK n \in {0, 1, 2, 4}, m \in {0, 1, 2, 4} : n = LineWeight(l) /\ m = LineWeight(l)'
    BY WeightOf, WeightOfNext
  <2>2. n \in 1..4 /\ ~(n <= m)
    BY <1>4, <2>1
  <2>3. <<l, n>> \in LinesAhead /\ <<l, n>> \notin LinesAhead'
    BY <2>1, <2>2, TicketOf DEF LinesAhead
  <2> QED
    BY <2>3
<1>5. Cardinality(LinesAhead) \in Int /\ Cardinality(LinesAhead') \in Int
  BY AheadFinite
<1> QED
  BY <1>2, <1>3, <1>4, <1>5

\* A line that is sent loses two tickets.
LEMMA SendTakesTwo ==
  ASSUME IInv, Send
  PROVE  Cardinality(LinesAhead') <= Cardinality(LinesAhead) - 2
<1>0. PICK k \in Line : k = count'
  BY SendJoins
<1> DEFINE one == LinesAhead \ {<<k, 4>>}
           both == one \ {<<k, 3>>}
<1>1. LineWeight(k) = 4 /\ LineWeight(k)' = 2
  <2>1. future[k] = "none" /\ future'[k] = "open"
    BY <1>0, SendJoins DEF IInv, TypeOK
  <2>2. k \in LinesOf(queue'[PartitionFor(k)])
    BY <1>0, SendJoins
  <2> QED
    BY <2>1, <2>2, WeightOf, WeightOfNext
<1>2. ASSUME NEW l \in Line PROVE LineWeight(l)' <= LineWeight(l)
  <2>1. CASE l = k
    <3>1. LineWeight(k)' <= LineWeight(k)
      BY <1>1
    <3> QED
      BY <2>1, <3>1
  <2>2. CASE l # k
    <3>1. future'[l] = future[l]
      BY <1>0, <2>2, SendJoins DEF IInv, TypeOK
    <3>2. /\ l \in LinesOf(queue'[PartitionFor(l)]) <=> l \in LinesOf(queue[PartitionFor(l)])
          /\ flight' = flight
      BY <1>0, <2>2, SendJoins
    <3>3. LineWeight(l)' = LineWeight(l)
      BY <3>1, <3>2, WeightOf, WeightOfNext
    <3> QED
      BY <3>3, WeightOf
  <2> QED
    BY <2>1, <2>2
<1>3. LinesAhead' \subseteq LinesAhead
  BY <1>2, LinesLighter
<1>4. /\ <<k, 4>> \in LinesAhead /\ <<k, 4>> \notin LinesAhead'
      /\ <<k, 3>> \in LinesAhead /\ <<k, 3>> \notin LinesAhead'
  BY <1>1, TicketOf DEF LinesAhead
<1>5. PICK c \in Nat : c = Cardinality(LinesAhead)
  BY AheadFinite
<1>6. IsFiniteSet(one) /\ Cardinality(one) = c - 1
  BY <1>4, <1>5, AheadFinite, FS_RemoveElement
<1>7. <<k, 3>> \in one
  BY <1>4
<1>8. IsFiniteSet(both) /\ Cardinality(both) = c - 2
  <2> HIDE DEF one
  <2>1. IsFiniteSet(both) /\ Cardinality(both) = Cardinality(one) - 1
    BY <1>6, <1>7, FS_RemoveElement
  <2>2. Cardinality(both) = (c - 1) - 1
    BY <1>6, <2>1
  <2> QED
    BY <2>1, <2>2
<1>9. LinesAhead' \subseteq both
  BY <1>3, <1>4
<1> HIDE DEF both
<1>10. Cardinality(LinesAhead') <= Cardinality(both)
  BY <1>8, <1>9, FS_Subset
<1> QED
  BY <1>5, <1>8, <1>10

\* Only Send makes a call more, and it takes two tickets for it.
LEMMA AheadStep ==
  ASSUME IInv, IInv', Next
  PROVE  AheadFalls
<1> DEFINE T == Cardinality(LinesAhead)  U == Cardinality(LinesAhead')
<1>1. T \in Nat /\ U \in Nat
  BY AheadFinite
<1>2. CallsAhead \in 0..5 /\ CallsAhead' \in 0..5
  BY DEF CallsAhead
<1>3. Ahead = T + CallsAhead /\ Ahead' = U + CallsAhead'
  BY DEF Ahead
<1> HIDE DEF T, U
<1>sum. PICK t \in Nat, u \in Nat, a \in 0..5, b \in 0..5 :
         /\ t = T /\ u = U /\ a = CallsAhead /\ b = CallsAhead'
         /\ Ahead = t + a /\ Ahead' = u + b
  BY <1>1, <1>2, <1>3
<1>4. CASE Send
  <2>1. CallsAhead = 4 /\ CallsAhead' \in 4..5
    BY <1>4 DEF Send, CallsAhead
  <2>2. U <= T - 2
    BY <1>4, SendTakesTwo DEF T, U
  <2>3. a = 4 /\ b \in 4..5 /\ u <= t - 2
    BY <1>sum, <2>1, <2>2
  <2>4. u + b < t + a
    BY <2>3
  <2> QED
    BY <1>sum, <2>4 DEF AheadFalls
<1>5. CASE SendRaises \/ Gather \/ EndOfFile \/ LastGather \/ Flush \/ Stop \/ Kill
  <2>1. CallsAhead' < CallsAhead
    BY <1>5 DEF SendRaises, Gather, EndOfFile, LastGather, Flush, Stop, Kill, CallsAhead, IInv, TypeOK
  <2>2. ASSUME NEW l \in Line PROVE LineWeight(l)' <= LineWeight(l)
    <3>1. CASE UNCHANGED <<future, queue, flight>>
      <4>1. LineWeight(l)' = LineWeight(l)
        BY <3>1 DEF LineWeight, PartitionFor
      <4> QED
        BY <4>1, WeightOf
    <3>2. CASE future' = future /\ queue' = NoLines /\ flight' = NoLines
      <4>1. PartitionFor(l) \in Partition
        BY LineAssumption, PartitionAssumption DEF PartitionFor
      <4>2. LinesOf(queue'[PartitionFor(l)]) = {} /\ LinesOf(flight'[PartitionFor(l)]) = {}
        BY <3>2, <4>1 DEF NoLines, LinesOf
      <4>3. CASE future[l] = "none"
        BY <3>2, <4>3, WeightOf, WeightOfNext
      <4>4. CASE future[l] # "none"
        <5>1. LineWeight(l)' = 0
          BY <3>2, <4>2, <4>4, WeightOfNext
        <5> QED
          BY <5>1, WeightOf
      <4> QED
        BY <4>3, <4>4
    <3> QED
      BY <1>5, <3>1, <3>2
      DEF SendRaises, Gather, EndOfFile, LastGather, Flush, Stop, Kill, client
  <2>3. U <= T
    BY <2>2, LinesLighter DEF T, U
  <2>4. b < a /\ u <= t
    BY <1>sum, <2>1, <2>3
  <2>5. u + b < t + a
    BY <2>4
  <2> QED
    BY <1>sum, <2>5 DEF AheadFalls
<1>6. ASSUME NEW p \in Partition, TakeBatch(p) PROVE AheadFalls
  <2>1. future' = future /\ CallsAhead' = CallsAhead
    BY <1>6 DEF TakeBatch, CallsAhead
  <2>2. \A l \in Line : PartitionFor(l) \in Partition
    BY LineAssumption, PartitionAssumption DEF PartitionFor
  <2>3. ASSUME NEW l \in Line PROVE LineWeight(l)' <= LineWeight(l)
    <3>1. CASE PartitionFor(l) # p
      <4>1. LineWeight(l)' = LineWeight(l)
        <5>1. queue'[PartitionFor(l)] = queue[PartitionFor(l)]
              /\ flight'[PartitionFor(l)] = flight[PartitionFor(l)]
          BY <1>6, <2>2, <3>1, TakeMoves
        <5> QED
          BY <2>1, <5>1, WeightOf, WeightOfNext
      <4> QED
        BY <4>1, WeightOf
    <3>2. CASE PartitionFor(l) = p
      <4>1. CASE l \in LinesOf(queue[p])
        BY <2>1, <3>2, <4>1, WeightOf, WeightOfNext
      <4>2. CASE l \notin LinesOf(queue[p])
        <5>1. l \notin LinesOf(queue'[p]) /\ l \notin LinesOf(flight'[p])
          BY <1>6, <4>2, TakeMoves
        <5> QED
          BY <2>1, <3>2, <5>1, WeightOf, WeightOfNext
      <4> QED
        BY <4>1, <4>2
    <3> QED
      BY <3>1, <3>2
  <2>4. PICK l \in Line : /\ l \in LinesOf(queue[p]) /\ l \notin LinesOf(queue'[p])
                          /\ PartitionFor(l) = p /\ l <= count
    BY <1>6, TakeMoves
  <2>5. future[l] # "none"
    <3>1. l \in 1..count
      BY <2>4, LineIsNat DEF Line, IInv, TypeOK
    <3> QED
      BY <3>1 DEF IInv, Answered, SentHasFuture
  <2>6. LineWeight(l) = 2 /\ LineWeight(l)' <= 1
    BY <2>1, <2>4, <2>5, WeightOf, WeightOfNext
  <2>7. LineWeight(l)' < LineWeight(l)
    BY <2>6, WeightOfNext
  <2>8. U < T
    BY <2>3, <2>7, LinesLighter DEF T, U
  <2> QED
    BY <1>sum, <2>1, <2>8 DEF AheadFalls
<1>7. ASSUME NEW p \in Partition, Deliver(p) \/ BatchExpires(p) PROVE AheadFalls
  <2>1. /\ queue' = queue /\ CallsAhead' = CallsAhead
        /\ flight'[p] = <<>> /\ \A r \in Partition \ {p} : flight'[r] = flight[r]
    <3>1. queue' = queue /\ pc' = pc /\ flight' = [flight EXCEPT ![p] = <<>>]
      BY <1>7, BatchGoes
    <3>2. flight \in [Partition -> Seq(Line)]
      BY DEF IInv, TypeOK
    <3> QED
      BY <3>1, <3>2 DEF CallsAhead
  <2>2. \A l \in Line : PartitionFor(l) \in Partition
    BY LineAssumption, PartitionAssumption DEF PartitionFor
  <2>3. \A l \in LinesOf(flight[p]) : /\ l \in Line /\ l \in 1..count /\ PartitionFor(l) = p
                                      /\ l \notin LinesOf(queue[p]) /\ future[l] # "none"
    <3> SUFFICES ASSUME NEW i \in DOMAIN flight[p]
                 PROVE  LET l == flight[p][i]
                        IN  /\ l \in Line /\ l \in 1..count /\ PartitionFor(l) = p
                            /\ l \notin LinesOf(queue[p]) /\ future[l] # "none"
      BY DEF LinesOf
    <3>1. flight[p][i] <= count /\ PartitionFor(flight[p][i]) = p
      BY DEF IInv, InOrder, QueueInOrder, InPlace
    <3>2. flight[p][i] \in Line
      BY SeqFacts, ElementOfSeq, LenProperties DEF IInv
    <3>3. flight[p][i] \in 1..count
      BY <3>1, <3>2, LineIsNat DEF Line, IInv, TypeOK
    <3>4. \A j \in DOMAIN queue[p] : queue[p][j] # flight[p][i]
      BY SeqFacts DEF IInv, InOrder, QueueInOrder, Before
    <3>5. future[flight[p][i]] # "none"
      BY <3>3 DEF IInv, Answered, SentHasFuture
    <3> QED
      BY <3>1, <3>2, <3>3, <3>4, <3>5 DEF LinesOf
  <2>4. ASSUME NEW l \in LinesOf(flight[p]) PROVE LineWeight(l) = 1 /\ LineWeight(l)' = 0
    <3>1. l \notin LinesOf(flight'[p])
      BY <2>1 DEF LinesOf
    <3>2. future'[l] # "none"
      BY <1>7, BatchGoes
    <3> QED
      BY <2>1, <2>3, <3>1, <3>2, WeightOf, WeightOfNext
  <2>5. ASSUME NEW l \in Line, l \notin LinesOf(flight[p]) PROVE LineWeight(l)' = LineWeight(l)
    <3>1. future'[l] = future[l]
      BY <1>7, <2>5, BatchGoes
    <3>2. l \in LinesOf(flight'[PartitionFor(l)]) <=> l \in LinesOf(flight[PartitionFor(l)])
      <4>1. CASE PartitionFor(l) = p
        BY <2>1, <2>5, <4>1 DEF LinesOf
      <4>2. CASE PartitionFor(l) # p
        BY <2>1, <2>2, <4>2
      <4> QED
        BY <4>1, <4>2
    <3> QED
      BY <2>1, <3>1, <3>2, WeightOf, WeightOfNext
  <2>6. \A l \in Line : LineWeight(l)' <= LineWeight(l)
    <3> SUFFICES ASSUME NEW l \in Line PROVE LineWeight(l)' <= LineWeight(l)
      OBVIOUS
    <3>1. CASE l \in LinesOf(flight[p])
      BY <2>4, <3>1
    <3>2. CASE l \notin LinesOf(flight[p])
      <4>1. LineWeight(l)' = LineWeight(l)
        BY <2>5, <3>2
      <4> QED
        BY <4>1, WeightOf
    <3> QED
      BY <3>1, <3>2
  <2>7. \E l \in Line : LineWeight(l)' < LineWeight(l)
    <3>1. flight[p] # <<>> /\ flight[p] \in Seq(Line)
      BY <1>7, BatchGoes, SeqFacts DEF IInv
    <3>2. 1 \in DOMAIN flight[p]
      BY <3>1, LenProperties, EmptySeq
    <3>3. flight[p][1] \in LinesOf(flight[p])
      BY <3>2 DEF LinesOf
    <3>4. PICK l \in LinesOf(flight[p]) : TRUE
      BY <3>3
    <3>5. l \in Line /\ LineWeight(l) = 1 /\ LineWeight(l)' = 0
      BY <2>3, <2>4
    <3> QED
      BY <3>5
  <2>8. U < T
    BY <2>6, <2>7, LinesLighter DEF T, U
  <2> QED
    BY <1>sum, <2>1, <2>8 DEF AheadFalls
<1>8. ASSUME NEW p \in Partition, AckLost(p) PROVE AheadFalls
  <2>1. UNCHANGED <<future, queue, flight, pc>> /\ faults' = faults + 1
    BY <1>8 DEF AckLost, CountFault
  <2>2. Ahead' = Ahead
    BY <2>1 DEF Ahead, LinesAhead, LineWeight, CallsAhead, PartitionFor
  <2> QED
    BY <2>1, <2>2 DEF AheadFalls
<1> QED
  BY <1>4, <1>5, <1>6, <1>7, <1>8 DEF Next, ProducerStep, SenderStep

\* publish_csv takes at most 4 * MaxLines + 5 steps with its client, and one for
\* each acknowledgement that is lost: no failure sends it back, and a line is
\* sent, taken and answered once.
THEOREM PublishIsBounded == Spec => []AheadBounded /\ [][AheadFalls]_vars
<1>1. AheadBounded
  <2>1. CallsAhead \in 0..5
    BY DEF CallsAhead
  <2>2. Cardinality(LinesAhead) \in 0..(4 * MaxLines) /\ MaxLines \in Nat
    BY AheadFinite, LineAssumption
  <2> QED
    BY <2>1, <2>2 DEF AheadBounded, Ahead
<1>2. IInv /\ IInv' /\ [Next]_vars => [AheadFalls]_vars
  BY AheadStep
<1> QED
  BY <1>1, <1>2, Invariance, PTL DEF Spec

-----------------------------------------------------------------------------
(***************************************************************************)
(* What main() counts on when S1 has ended: that radius.raw is at its end. *)
(* ProducerEnds of Orchestrator stands for the end of publish_csv.         *)
(***************************************************************************)
AtEnd == pc \in {"ended", "failed", "killed"}
QuietAtEnd == AtEnd => UNCHANGED <<topic, future>>

\* What is in the hands of the client is open.
UnderwayIsOpen == \A l \in Line : l \in InClient(l) => future[l] = "open"
NothingLeft == AtEnd => \A p \in Partition : queue[p] = <<>> /\ flight[p] = <<>>

\* A line is in the client only at the place of its partition, and in one batch.
LEMMA LineInClient ==
  ASSUME IInv, NEW p \in Partition
  PROVE  /\ \A l \in LinesOf(queue[p]) : l \in Line /\ PartitionFor(l) = p /\ l \in InClient(l)
         /\ \A l \in LinesOf(flight[p]) : l \in Line /\ PartitionFor(l) = p /\ l \in InClient(l)
         /\ LinesOf(queue[p]) \cap LinesOf(flight[p]) = {}
<1>1. /\ \A i \in DOMAIN queue[p] : queue[p][i] \in Line /\ queue[p][i] \in Nat
      /\ \A i \in DOMAIN flight[p] : flight[p][i] \in Line /\ flight[p][i] \in Nat
  BY SeqFacts, ElementOfSeq, LenProperties DEF IInv
<1>2. InPlace(queue[p], p) /\ InPlace(flight[p], p) /\ Before(flight[p], queue[p])
  BY DEF IInv, InOrder, QueueInOrder
<1>3. \A l \in LinesOf(queue[p]) : l \in Line /\ PartitionFor(l) = p
  BY <1>1, <1>2 DEF LinesOf, InPlace
<1>4. \A l \in LinesOf(flight[p]) : l \in Line /\ PartitionFor(l) = p
  BY <1>1, <1>2 DEF LinesOf, InPlace
<1>5. LinesOf(queue[p]) \cap LinesOf(flight[p]) = {}
  BY <1>1, <1>2 DEF LinesOf, Before
<1> QED
  BY <1>3, <1>4, <1>5 DEF InClient

LEMMA IsOpenStep ==
  ASSUME IInv, UnderwayIsOpen, [Next]_vars
  PROVE  UnderwayIsOpen'
<1> SUFFICES ASSUME NEW l \in Line,
                    l \in LinesOf(queue'[PartitionFor(l)]) \cup LinesOf(flight'[PartitionFor(l)])
             PROVE  future'[l] = "open"
  BY DEF UnderwayIsOpen, InClient, PartitionFor
<1>1. PartitionFor(l) \in Partition
  BY PlaceOfLine
<1>2. future \in [Line -> {"none", "open", "acked", "failed"}]
      /\ flight \in [Partition -> Seq(Line)]
  BY DEF IInv, TypeOK
<1>3. l \in LinesOf(queue[PartitionFor(l)]) \cup LinesOf(flight[PartitionFor(l)])
         => future[l] = "open"
  BY DEF UnderwayIsOpen, InClient
<1>4. CASE Send
  BY <1>2, <1>3, <1>4, SendJoins
<1>5. CASE SendRaises \/ Gather \/ EndOfFile \/ LastGather \/ Flush \/ Stop \/ UNCHANGED vars
  <2>1. UNCHANGED <<future, queue, flight>>
    BY <1>5 DEF SendRaises, Gather, EndOfFile, LastGather, Flush, Stop, vars, client
  <2> QED
    BY <1>3, <2>1
<1>6. CASE Kill
  <2>1. queue'[PartitionFor(l)] = <<>> /\ flight'[PartitionFor(l)] = <<>>
    BY <1>1, <1>6 DEF Kill, NoLines
  <2> QED
    BY <2>1 DEF LinesOf
<1>7. ASSUME NEW p \in Partition, TakeBatch(p) PROVE future'[l] = "open"
  <2>1. UNCHANGED future
    BY <1>7 DEF TakeBatch
  <2> QED
    BY <1>1, <1>3, <1>7, <2>1, TakeMoves
<1>8. ASSUME NEW p \in Partition, Deliver(p) \/ BatchExpires(p) PROVE future'[l] = "open"
  <2>1. /\ flight' = [flight EXCEPT ![p] = <<>>] /\ queue' = queue
        /\ \A k \in Line \ LinesOf(flight[p]) : future'[k] = future[k]
    BY <1>8, BatchGoes
  <2>2. LinesOf(flight'[p]) = {}
    BY <1>2, <2>1 DEF LinesOf
  <2>3. l \notin LinesOf(flight[p])
    <3>1. CASE PartitionFor(l) = p
      BY <1>1, <2>1, <2>2, <3>1, LineInClient
    <3>2. CASE PartitionFor(l) # p
      BY <3>2, LineInClient
    <3> QED
      BY <3>1, <3>2
  <2>4. l \in LinesOf(queue[PartitionFor(l)]) \cup LinesOf(flight[PartitionFor(l)])
    <3>1. CASE PartitionFor(l) = p
      BY <2>1, <2>2, <3>1
    <3>2. CASE PartitionFor(l) # p
      BY <1>1, <1>2, <2>1, <3>2
    <3> QED
      BY <3>1, <3>2
  <2> QED
    BY <1>3, <2>1, <2>3, <2>4
<1>9. ASSUME NEW p \in Partition, AckLost(p) PROVE future'[l] = "open"
  <2>1. UNCHANGED <<future, queue, flight>>
    BY <1>9 DEF AckLost
  <2> QED
    BY <1>3, <2>1
<1> QED
  BY <1>4, <1>5, <1>6, <1>7, <1>8, <1>9 DEF Next, ProducerStep, SenderStep

\* flush() and stop() wait for every future, and a process that is dead sends nothing.
LEMMA NothingLeftStep ==
  ASSUME IInv, UnderwayIsOpen, NothingLeft, [Next]_vars
  PROVE  NothingLeft' /\ (AtEnd => UNCHANGED <<topic, future>>)
<1>1. ASSUME AtEnd
      PROVE  UNCHANGED <<pc, topic, future, queue, flight>>
  <2>1. \A p \in Partition : queue[p] = <<>> /\ flight[p] = <<>>
    BY <1>1 DEF NothingLeft
  <2>2. ASSUME NEW p \in Partition
        PROVE  ~TakeBatch(p) /\ ~Deliver(p) /\ ~AckLost(p) /\ ~BatchExpires(p)
    BY <2>1 DEF TakeBatch, Deliver, AckLost, BatchExpires, EndBatch
  <2>3. ~ProducerStep /\ ~SendRaises /\ ~Kill
    BY <1>1 DEF AtEnd, ProducerStep, Send, Gather, EndOfFile, LastGather, Flush, Stop, SendRaises, Kill
  <2>4. UNCHANGED vars
    BY <2>2, <2>3 DEF Next, SenderStep
  <2> QED
    BY <2>4 DEF vars, client
<1>2. ASSUME ~AtEnd, AtEnd'
      PROVE  \A p \in Partition : queue'[p] = <<>> /\ flight'[p] = <<>>
  <2>1. CASE Stop
    <3>1. Settled(Line) /\ UNCHANGED <<queue, flight>>
      BY <2>1 DEF Stop, client
    <3>2. ASSUME NEW p \in Partition PROVE LinesOf(queue[p]) = {} /\ LinesOf(flight[p]) = {}
      BY <3>1, LineInClient DEF Settled, UnderwayIsOpen
    <3>3. ASSUME NEW s \in Seq(Line), LinesOf(s) = {} PROVE s = <<>>
      <4>1. DOMAIN s = {}
        BY <3>3 DEF LinesOf
      <4>2. Len(s) \in Nat /\ DOMAIN s = 1..Len(s)
        OBVIOUS
      <4>3. Len(s) = 0
        BY <4>1, <4>2
      <4> QED
        BY <4>3, EmptySeq
    <3>4. \A p \in Partition : queue[p] \in Seq(Line) /\ flight[p] \in Seq(Line)
      BY DEF IInv, TypeOK
    <3> QED
      BY <3>1, <3>2, <3>3, <3>4
  <2>2. CASE Kill
    BY <2>2 DEF Kill, NoLines
  <2>3. CASE Next /\ ~Stop /\ ~Kill
    <3>1. pc' = pc \/ pc' \in {"reading", "gathering", "lastGather", "flushing", "reported", "stopping"}
      BY <2>3 DEF Next, ProducerStep, Send, SendRaises, Gather, EndOfFile, LastGather, Flush,
         SenderStep, TakeBatch, Deliver, AckLost, BatchExpires
    <3> QED
      BY <1>2, <3>1 DEF AtEnd
  <2>4. CASE UNCHANGED vars
    BY <1>2, <2>4 DEF AtEnd, vars
  <2> QED
    BY <2>1, <2>2, <2>3, <2>4
<1>3. NothingLeft'
  <2>1. CASE AtEnd
    BY <1>1, <2>1 DEF NothingLeft
  <2>2. CASE ~AtEnd
    BY <1>2, <2>2 DEF NothingLeft
  <2> QED
    BY <2>1, <2>2
<1> QED
  BY <1>1, <1>3

\* Once publish_csv has ended, whether with its count or with an exception, no
\* record of it reaches radius.raw any more and none is still waited for: what
\* main() reads as the end of the topic when S1 is gone is the end, also after
\* batches that were sent twice or that expired.
THEOREM FileIsOut == Spec => [][QuietAtEnd]_vars
<1>1. Init => UnderwayIsOpen /\ NothingLeft
  <2> SUFFICES ASSUME Init, NEW l \in Line PROVE l \notin InClient(l)
    BY DEF Init, UnderwayIsOpen, NothingLeft, AtEnd
  <2>1. PartitionFor(l) \in Partition
    BY PlaceOfLine
  <2> QED
    BY <2>1 DEF Init, NoLines, InClient, LinesOf
<1>2. IInv /\ UnderwayIsOpen /\ NothingLeft /\ [Next]_vars => UnderwayIsOpen' /\ NothingLeft'
  BY IsOpenStep, NothingLeftStep
<1>3. IInv /\ UnderwayIsOpen /\ NothingLeft /\ [Next]_vars => [QuietAtEnd]_vars
  BY NothingLeftStep DEF QuietAtEnd
<1> QED
  BY <1>1, <1>2, <1>3, Invariance, PTL DEF Spec

-----------------------------------------------------------------------------
\* run_pipeline.py, which launches this stage after the two others, waits for
\* its end and then for theirs: the invariants of Orchestrator for every number
\* of polls, every file and any number of deaths and signals.

\* The outcome is known when main() has begun to stop, not before.
OutcomeAtEnd == outcome = "none" <=> phase \notin {"terminate", "reap", "ended"}
\* S1 ends by itself only at the end of its file.
FileSent == proc["S1"] = "finished" => left = 0
FirstBatch == \A s \in Query : planned[s] = NoOffset => done[s] = 0

\* What main() has behind it in these phases, and in a run that is called complete.
Behind(phases) == phase \in phases \/ outcome = "complete"
Ingested ==
    Behind({"drainS2", "drainS3", "countRows", "hung", "grace"}) => proc["S1"] = "finished"
ReadToEnd ==
    Behind({"drainS3", "countRows", "hung", "grace"}) /\ "S2" \notin gaveUp \cup unseen
        => planned["S2"] >= raw

\* The handlers come after the last launch, that of SIGINT first; a signal that
\* ends main() at once had none.
Appending == {"appendS2", "appendS3", "appendS1"}
HandlersFollow ==
    /\ phase \in {"launchS2", "readyS2", "launchS3", "readyS3", "launchS1", "handleInt"} \cup Appending
          => handlers = {}
    /\ phase = "handleTerm" => "SIGINT" \in handlers
    /\ "SIGINT" \notin handlers => handlers = {}
    /\ outcome = "killed" => phase = "ended" /\ "SIGTERM" \notin handlers
    /\ outcome = "cut" => phase = "ended" /\ "SIGINT" \notin handlers

\* The stages that main() does not know of: between Popen and append, or for
\* ever if the first SIGINT comes there.
Unknown(s) ==
    \/ <<phase, s>> \in {<<"appendS2", "S2">>, <<"appendS3", "S3">>, <<"appendS1", "S1">>}
    \/ outcome = "interrupted" /\ handlers = {}
    \/ outcome \in {"killed", "cut"}
StagesKnown == \A s \in Stage : Alive(s) => s \in processes \/ Unknown(s)

\* Those behind the loop of stop_all are dead.
StagesReaped ==
    /\ phase = "reap" => \A s \in processes : Alive(s) => s \in todo
    /\ phase = "ended" /\ outcome \notin {"killed", "cut"} => \A s \in processes : ~Alive(s)

RInv ==
    /\ RunTypeOK /\ FirstBatch
    /\ OutcomeAtEnd /\ FileSent /\ Ingested /\ ReadToEnd
    /\ HandlersFollow /\ StagesKnown /\ StagesReaped

LEMMA RunInitially == RunInit => RInv
<1> SUFFICES ASSUME RunInit PROVE RInv
  OBVIOUS
<1>1. RunTypeOK
  <2>1. poll \in [polls : 0..MaxPolls, last : Nat \cup {NoOffset}, same : Nat]
    BY LimitAssumption DEF RunInit, NewLoop
  <2>2. left \in 0..Records /\ raw \in Nat /\ clean \in Nat /\ rows \in Nat
    BY BoundAssumption DEF RunInit
  <2>3. /\ planned \in [Query -> Nat \cup {NoOffset}] /\ done \in [Query -> Nat]
        /\ \A s \in Query : planned[s] = NoOffset
    BY DEF RunInit
  <2>4. \A s \in Query : planned[s] >= 0 => done[s] <= planned[s]
    BY <2>3 DEF NoOffset
  <2> QED
    BY <2>1, <2>2, <2>3, <2>4 DEF RunInit, RunTypeOK
<1>2. FirstBatch /\ OutcomeAtEnd /\ FileSent /\ Ingested /\ ReadToEnd
  BY DEF RunInit, FirstBatch, OutcomeAtEnd, FileSent, Ingested, ReadToEnd, Behind, Stage
<1>3. HandlersFollow /\ StagesKnown /\ StagesReaped
  BY DEF RunInit, HandlersFollow, StagesKnown, StagesReaped, Alive, Appending
<1> QED
  BY <1>1, <1>2, <1>3 DEF RInv

\* The steps of the stages: main() sees none of them, and where it is stays. No
\* stage comes to life.
LEMMA StagesStep ==
  ASSUME RInv, UNCHANGED main,
         \/ \E s \in Query : StageReady(s) \/ PlanBatch(s) \/ ProcessBatch(s)
         \/ \E s \in Stage : StageDies(s) \/ StageExits(s)
         \/ SendLine \/ SendFails \/ ProducerEnds
  PROVE  RInv'
<1>1. /\ phase' = phase /\ outcome' = outcome /\ poll' = poll /\ gaveUp' = gaveUp
      /\ unseen' = unseen /\ processes' = processes /\ handlers' = handlers
      /\ todo' = todo /\ asked' = asked
  BY DEF main, known, looked
<1>2. /\ RunTypeOK /\ FirstBatch /\ OutcomeAtEnd /\ FileSent /\ Ingested /\ ReadToEnd
      /\ HandlersFollow /\ StagesKnown /\ StagesReaped
  BY DEF RInv
<1>3. OutcomeAtEnd' /\ HandlersFollow'
  BY <1>1, <1>2 DEF OutcomeAtEnd, HandlersFollow
<1>4. /\ proc \in [Stage -> {"none", "starting", "running", "finished", "failed", "stopped"}]
      /\ raw \in Nat /\ clean \in Nat /\ rows \in Nat /\ left \in 0..Records /\ Records \in Nat
      /\ planned \in [Query -> Nat \cup {NoOffset}] /\ done \in [Query -> Nat]
      /\ metadata \subseteq Query /\ runFaults \in Nat
      /\ \A s \in Query : planned[s] >= 0 => done[s] <= planned[s]
  BY <1>2, BoundAssumption DEF RunTypeOK
<1>5. Query = {"S2", "S3"} /\ Stage = {"S1", "S2", "S3"} /\ NoOffset = -1
  BY DEF Query, Stage, NoOffset
<1>6. ASSUME \A s \in Stage : Alive(s)' => Alive(s)
      PROVE  StagesKnown' /\ StagesReaped'
  <2>1. \A s \in Stage : Unknown(s)' <=> Unknown(s)
    BY <1>1 DEF Unknown
  <2>2. StagesKnown'
    BY <1>1, <1>2, <1>6, <2>1 DEF StagesKnown
  <2>3. processes \subseteq Stage
    BY <1>2 DEF RunTypeOK
  <2>4. StagesReaped'
    BY <1>1, <1>2, <1>6, <2>3 DEF StagesReaped
  <2> QED
    BY <2>2, <2>4
<1>7. ASSUME NEW s \in Query, StageReady(s) PROVE RInv'
  <2>1. /\ proc[s] = "starting" /\ proc' = [proc EXCEPT ![s] = "running"]
        /\ metadata' = metadata \cup {s}
        /\ UNCHANGED <<left, raw, clean, rows, planned, done, runFaults>>
    BY <1>7 DEF StageReady, data
  <2>2. RunTypeOK'
    BY <1>1, <1>2, <1>4, <1>5, <2>1 DEF RunTypeOK
  <2>3. FirstBatch' /\ FileSent' /\ Ingested' /\ ReadToEnd'
    BY <1>1, <1>2, <1>4, <1>5, <2>1 DEF FirstBatch, FileSent, Ingested, ReadToEnd, Behind
  <2>4. \A t \in Stage : Alive(t)' => Alive(t)
    BY <1>4, <1>5, <2>1 DEF Alive
  <2> QED
    BY <1>3, <1>6, <2>2, <2>3, <2>4 DEF RInv
<1>8. ASSUME NEW s \in Stage, StageDies(s) \/ StageExits(s) PROVE RInv'
  <2>1. /\ Alive(s)
        /\ \/ proc' = [proc EXCEPT ![s] = "failed"]
           \/ proc' = [proc EXCEPT ![s] = "stopped"]
        /\ UNCHANGED <<left, raw, clean, rows, planned, done, metadata>>
        /\ runFaults' \in {runFaults, runFaults + 1}
    BY <1>8 DEF StageDies, StageExits, CountRunFault, data, queries
  <2>2. RunTypeOK'
    BY <1>1, <1>2, <1>4, <2>1 DEF RunTypeOK
  <2>3. FirstBatch' /\ FileSent' /\ Ingested' /\ ReadToEnd'
    BY <1>1, <1>2, <1>4, <1>5, <2>1
       DEF FirstBatch, FileSent, Ingested, ReadToEnd, Behind, Alive
  <2>4. \A t \in Stage : Alive(t)' => Alive(t)
    BY <1>4, <2>1 DEF Alive
  <2> QED
    BY <1>3, <1>6, <2>2, <2>3, <2>4 DEF RInv
<1>9. ASSUME SendLine \/ SendFails \/ ProducerEnds PROVE RInv'
  <2>1. /\ proc["S1"] = "running"
        /\ \/ left' = left - 1 /\ left > 0 /\ proc' = proc /\ raw' \in {raw, raw + 1}
           \/ left' = left /\ left = 0 /\ proc' = [proc EXCEPT !["S1"] = "finished"] /\ raw' = raw
        /\ UNCHANGED <<clean, rows, planned, done, metadata>>
        /\ runFaults' \in {runFaults, runFaults + 1}
    BY <1>9 DEF SendLine, SendFails, ProducerEnds, CountRunFault, data, queries
  <2>2. RunTypeOK'
    BY <1>1, <1>2, <1>4, <2>1 DEF RunTypeOK
  <2>3. ~Behind({"drainS2", "drainS3", "countRows", "hung", "grace"})
    BY <1>2, <2>1 DEF Ingested
  <2>4. Ingested' /\ ReadToEnd'
    BY <1>1, <2>3 DEF Ingested, ReadToEnd, Behind
  <2>5. FirstBatch' /\ FileSent'
    BY <1>2, <1>4, <1>5, <2>1 DEF FirstBatch, FileSent
  <2>6. \A t \in Stage : Alive(t)' => Alive(t)
    BY <1>4, <1>5, <2>1 DEF Alive
  <2> QED
    BY <1>3, <1>6, <2>2, <2>4, <2>5, <2>6 DEF RInv
<1>10. ASSUME NEW s \in Query, PlanBatch(s) PROVE RInv'
  <2>1. /\ planned[s] = NoOffset \/ (planned[s] = done[s] /\ done[s] < Input(s))
        /\ planned' = [planned EXCEPT ![s] = BatchEnd(s)]
        /\ UNCHANGED <<proc, left, raw, clean, rows, done, metadata, runFaults>>
    BY <1>10 DEF PlanBatch, data
  <2>2. Input(s) \in Nat /\ (s = "S2" => Input(s) = raw)
    BY <1>4 DEF Input
  <2>3. BatchEnd(s) \in Nat /\ done[s] <= BatchEnd(s)
    <3>1. done[s] <= Input(s) /\ done[s] \in Nat
      BY <1>2, <1>4, <2>1, <2>2 DEF FirstBatch
    <3>2. BatchLimit \in Nat
      BY LimitAssumption
    <3>3. BatchEnd(s) = Input(s) \/ BatchEnd(s) = done[s] + BatchLimit
      BY DEF BatchEnd
    <3> QED
      BY <2>2, <3>1, <3>2, <3>3
  <2>4. RunTypeOK'
    <3>1. /\ planned' \in [Query -> Nat \cup {NoOffset}]
          /\ \A q \in Query : planned'[q] >= 0 => done[q] <= planned'[q]
      BY <1>4, <2>1, <2>3
    <3> QED
      BY <1>1, <1>2, <2>1, <3>1 DEF RunTypeOK
  <2>5. FirstBatch'
    BY <1>2, <1>4, <1>5, <2>1, <2>3 DEF FirstBatch
  <2>6. FileSent' /\ Ingested'
    BY <1>1, <1>2, <2>1 DEF FileSent, Ingested, Behind
  <2>7. ReadToEnd'
    <3>1. CASE s = "S2"
      <4>1. ~(planned["S2"] >= raw)
        BY <1>4, <1>5, <2>1, <2>2, <3>1
      <4> QED
        BY <1>1, <1>2, <4>1 DEF ReadToEnd, Behind
    <3>2. CASE s # "S2"
      <4>1. planned'["S2"] = planned["S2"]
        BY <1>4, <1>5, <2>1, <3>2
      <4> QED
        BY <1>1, <1>2, <2>1, <4>1 DEF ReadToEnd, Behind
    <3> QED
      BY <3>1, <3>2
  <2>8. \A t \in Stage : Alive(t)' => Alive(t)
    BY <2>1 DEF Alive
  <2> QED
    BY <1>3, <1>6, <2>4, <2>5, <2>6, <2>7, <2>8 DEF RInv
<1>11. ASSUME NEW s \in Query, ProcessBatch(s) PROVE RInv'
  <2>1. /\ done[s] < planned[s] /\ done' = [done EXCEPT ![s] = planned[s]]
        /\ UNCHANGED <<proc, left, raw, planned, metadata, runFaults>>
    BY <1>11 DEF ProcessBatch
  <2>2. PICK n \in 0..(planned[s] - done[s]) :
            IF s = "S2" THEN clean' = clean + n /\ UNCHANGED rows
                        ELSE rows' = rows + n /\ UNCHANGED clean
    BY <1>11 DEF ProcessBatch
  <2>3. planned[s] \in Nat /\ done[s] \in Nat
    BY <1>4, <1>5, <2>1
  <2>4. n \in Nat
    BY <2>2, <2>3
  <2>5. clean' \in Nat /\ rows' \in Nat
    BY <1>4, <2>2, <2>4
  <2>6. RunTypeOK'
    <3>1. /\ done' \in [Query -> Nat]
          /\ \A q \in Query : planned[q] >= 0 => done'[q] <= planned[q]
      BY <1>4, <2>1, <2>3
    <3> QED
      BY <1>1, <1>2, <2>1, <2>5, <3>1 DEF RunTypeOK
  <2>7. FirstBatch'
    BY <1>2, <1>4, <1>5, <2>1, <2>3 DEF FirstBatch
  <2>8. FileSent' /\ Ingested' /\ ReadToEnd'
    BY <1>1, <1>2, <2>1 DEF FileSent, Ingested, ReadToEnd, Behind
  <2>9. \A t \in Stage : Alive(t)' => Alive(t)
    BY <2>1 DEF Alive
  <2> QED
    BY <1>3, <1>6, <2>6, <2>7, <2>8, <2>9 DEF RInv
<1> QED
  BY <1>7, <1>8, <1>9, <1>10, <1>11

\* What main() is told of a poll stays in its range.
LEMMA PollType ==
  ASSUME RunTypeOK
  PROVE  /\ NewLoop \in [polls : 0..MaxPolls, last : Nat \cup {NoOffset}, same : Nat]
         /\ CountPoll \in 0..MaxPolls
         /\ poll.polls # MaxPolls => poll.polls + 1 \in 0..MaxPolls
         /\ \A s \in Query : ConsumedSum(s) \in Nat
BY LimitAssumption DEF RunTypeOK, NewLoop, CountPoll, ConsumedSum

\* Steps of main() that only look at the stages.
Looks ==
    /\ UNCHANGED <<stages, known, asked>>
    /\ poll' \in [polls : 0..MaxPolls, last : Nat \cup {NoOffset}, same : Nat]
    /\ gaveUp \subseteq gaveUp' /\ gaveUp' \subseteq Query
    /\ unseen \subseteq unseen' /\ unseen' \subseteq Query
    /\ runFaults' \in Nat

LEMMA LookKeeps ==
  ASSUME RInv, Looks
  PROVE  /\ proc' = proc /\ UNCHANGED <<left, raw, clean, rows, planned, done, metadata>>
         /\ processes' = processes /\ handlers' = handlers
         /\ FirstBatch' /\ FileSent'
         /\ \A s \in Stage : Alive(s)' <=> Alive(s)
         /\ phase' \in {"launchS2", "appendS2", "readyS2", "launchS3", "appendS3", "readyS3",
                        "launchS1", "appendS1", "handleInt", "handleTerm", "waitS1", "drainS2",
                        "drainS3", "countRows", "hung", "grace", "terminate", "reap", "ended"}
            /\ outcome' \in {"none", "complete", "failed", "interrupted", "cut", "killed"}
            /\ todo' \subseteq processes
            => RunTypeOK'
<1>1. /\ proc' = proc /\ UNCHANGED <<left, raw, clean, rows, planned, done, metadata>>
      /\ processes' = processes /\ handlers' = handlers /\ asked' = asked
  BY DEF Looks, stages, data, queries, known
<1>2. RunTypeOK /\ FirstBatch /\ FileSent
  BY DEF RInv
<1>3. FirstBatch' /\ FileSent' /\ \A s \in Stage : Alive(s)' <=> Alive(s)
  BY <1>1, <1>2 DEF FirstBatch, FileSent, Alive
<1>4. ASSUME phase' \in {"launchS2", "appendS2", "readyS2", "launchS3", "appendS3", "readyS3",
                         "launchS1", "appendS1", "handleInt", "handleTerm", "waitS1", "drainS2",
                         "drainS3", "countRows", "hung", "grace", "terminate", "reap", "ended"},
             outcome' \in {"none", "complete", "failed", "interrupted", "cut", "killed"},
             todo' \subseteq processes
      PROVE  RunTypeOK'
  BY <1>1, <1>2, <1>4 DEF RunTypeOK, Looks
<1> QED
  BY <1>1, <1>3, <1>4

\* main() waits on or goes on to what comes next.
Launching == {"launchS2", "readyS2", "launchS3", "readyS3", "launchS1"}
Watching == {"waitS1", "drainS2", "drainS3", "countRows", "hung", "grace"}
LEMMA GoesOnStep ==
  ASSUME RInv, Looks, GoTo(phase'),
         phase \in Launching \cup Watching, phase' \in Launching \cup Watching,
         phase' \in Launching => phase \in Launching,
         phase' \in Watching \ {"waitS1"} => phase \in Watching \ {"waitS1"} \/ proc["S1"] = "finished",
         phase' \in {"drainS3", "countRows", "hung", "grace"} =>
            \/ phase \in {"drainS3", "countRows", "hung", "grace"}
            \/ "S2" \in gaveUp' \cup unseen'
            \/ planned["S2"] >= raw
  PROVE  RInv'
<1>1. outcome' = outcome /\ todo' = todo
  BY DEF GoTo
<1>2. /\ RunTypeOK /\ OutcomeAtEnd /\ Ingested /\ ReadToEnd
      /\ HandlersFollow /\ StagesKnown
  BY DEF RInv
<1>3. outcome = "none"
  BY <1>2 DEF OutcomeAtEnd, Launching, Watching
<1>4. proc' = proc /\ planned' = planned /\ raw' = raw /\ processes' = processes /\ handlers' = handlers
  BY LookKeeps
<1>5. RunTypeOK'
  BY <1>1, <1>2, LookKeeps DEF RunTypeOK, Launching, Watching
<1>6. OutcomeAtEnd'
  BY <1>1, <1>3 DEF OutcomeAtEnd, Launching, Watching
<1>7. Ingested'
  BY <1>1, <1>2, <1>3, <1>4 DEF Ingested, Behind, Watching
<1>8. ReadToEnd'
  BY <1>1, <1>2, <1>3, <1>4 DEF ReadToEnd, Behind, Looks
<1>9. HandlersFollow'
  BY <1>1, <1>2, <1>3, <1>4 DEF HandlersFollow, Appending, Launching, Watching
<1>10. StagesKnown'
  <2>1. \A s \in Stage : ~Unknown(s)
    BY <1>3 DEF Unknown, Stage, Launching, Watching
  <2> QED
    BY <1>2, <1>4, <2>1, LookKeeps DEF StagesKnown
<1>11. StagesReaped'
  BY DEF StagesReaped, Launching, Watching
<1> QED
  BY <1>5, <1>6, <1>7, <1>8, <1>9, <1>10, <1>11, LookKeeps DEF RInv

\* An exception, a signal or the end of the run leads to stop_all.
LEMMA StopsStep ==
  ASSUME RInv, Looks, phase # "ended", UNCHANGED <<gaveUp, unseen>>,
         NEW result \in {"complete", "failed", "interrupted"}, StopWith(result),
         result = "complete" => phase = "grace",
         \/ phase \notin {"terminate", "reap"} \cup Appending
         \/ result = "interrupted" /\ ("SIGINT" \in handlers \/ phase \in Appending)
  PROVE  RInv'
<1>1. outcome' = result /\ todo' = processes /\ phase' = "terminate"
  BY DEF StopWith
<1>2. /\ RunTypeOK /\ OutcomeAtEnd /\ Ingested /\ ReadToEnd
      /\ HandlersFollow /\ StagesKnown
  BY DEF RInv
<1>3. proc' = proc /\ planned' = planned /\ raw' = raw /\ processes' = processes /\ handlers' = handlers
  BY LookKeeps
<1>4. RunTypeOK'
  BY <1>1, LookKeeps
<1>5. OutcomeAtEnd' /\ StagesReaped'
  BY <1>1 DEF OutcomeAtEnd, StagesReaped
<1>6. Ingested' /\ ReadToEnd'
  BY <1>1, <1>2, <1>3 DEF Ingested, ReadToEnd, Behind
<1>7. HandlersFollow'
  BY <1>1, <1>2, <1>3 DEF HandlersFollow, Appending
<1>8. StagesKnown'
  <2> SUFFICES ASSUME NEW s \in Stage, Alive(s), s \notin processes PROVE Unknown(s)'
    BY <1>3, LookKeeps DEF StagesKnown
  <2>1. Unknown(s)
    BY <1>2 DEF StagesKnown
  <2>2. outcome \notin {"killed", "cut"}
    BY <1>2 DEF HandlersFollow
  <2>3. CASE phase \in Appending
    BY <1>1, <1>2, <1>3, <2>3 DEF HandlersFollow, Unknown, Appending
  <2>4. CASE phase \notin Appending
    <3>1. outcome = "interrupted" /\ handlers = {}
      BY <2>1, <2>2, <2>4 DEF Unknown, Appending, Stage
    <3>2. phase \in {"terminate", "reap"}
      BY <1>2, <3>1 DEF OutcomeAtEnd
    <3> QED
      BY <2>4, <3>1, <3>2
  <2> QED
    BY <2>3, <2>4
<1> QED
  BY <1>4, <1>5, <1>6, <1>7, <1>8, LookKeeps DEF RInv

\* A signal without a handler ends main() at once.
LEMMA EndsAtOnceStep ==
  ASSUME RInv, CutShort \/ Killed
  PROVE  RInv'
<1>1. /\ phase' = "ended" /\ todo' = todo
      /\ \/ outcome' = "cut" /\ "SIGINT" \notin handlers
         \/ outcome' = "killed" /\ "SIGTERM" \notin handlers
      /\ UNCHANGED <<stages, known, asked, looked>> /\ runFaults' = runFaults + 1
  BY DEF CutShort, Killed, CountRunFault
<1>2. RunTypeOK /\ HandlersFollow
  BY DEF RInv
<1>3. Looks
  BY <1>1, <1>2 DEF Looks, looked, RunTypeOK
<1>4. processes' = processes /\ handlers' = handlers
  BY <1>3, LookKeeps
<1>5. RunTypeOK'
  BY <1>1, <1>2, <1>3, LookKeeps DEF RunTypeOK
<1>6. OutcomeAtEnd' /\ Ingested' /\ ReadToEnd' /\ StagesReaped'
  BY <1>1 DEF OutcomeAtEnd, Ingested, ReadToEnd, StagesReaped, Behind
<1>7. HandlersFollow'
  BY <1>1, <1>2, <1>4 DEF HandlersFollow, Appending
<1>8. StagesKnown'
  BY <1>1 DEF StagesKnown, Unknown
<1> QED
  BY <1>3, <1>5, <1>6, <1>7, <1>8, LookKeeps DEF RInv

LEMMA LaunchStep ==
  ASSUME RInv, NEW s \in Stage, NEW from, NEW to, Launch(s, from, to),
         \/ s = "S1" /\ from = "launchS1" /\ to = "appendS1"
         \/ s = "S2" /\ from = "launchS2" /\ to = "appendS2"
         \/ s = "S3" /\ from = "launchS3" /\ to = "appendS3"
  PROVE  RInv'
<1>1. /\ phase = from /\ phase' = to /\ outcome' = outcome /\ todo' = todo
      /\ \/ s = "S1" /\ proc' = [proc EXCEPT ![s] = "running"]
         \/ s # "S1" /\ proc' = [proc EXCEPT ![s] = "starting"]
      /\ UNCHANGED <<left, raw, clean, rows, planned, done, metadata, runFaults>>
      /\ UNCHANGED <<processes, handlers, asked, poll, gaveUp, unseen>>
  BY DEF Launch, GoTo, data, queries, known, looked
<1>2. /\ RunTypeOK /\ FirstBatch /\ OutcomeAtEnd /\ FileSent /\ Ingested /\ ReadToEnd
      /\ HandlersFollow /\ StagesKnown
  BY DEF RInv
<1>3. proc \in [Stage -> {"none", "starting", "running", "finished", "failed", "stopped"}]
      /\ "S1" \in Stage
  BY <1>2 DEF RunTypeOK, Stage
<1>4. RunTypeOK'
  BY <1>1, <1>2, <1>3 DEF RunTypeOK
<1>5. outcome = "none"
  BY <1>1, <1>2 DEF OutcomeAtEnd
<1>6. FirstBatch' /\ FileSent'
  BY <1>1, <1>2, <1>3 DEF FirstBatch, FileSent
<1>7. OutcomeAtEnd' /\ StagesReaped' /\ Ingested' /\ ReadToEnd'
  BY <1>1, <1>5 DEF OutcomeAtEnd, StagesReaped, Ingested, ReadToEnd, Behind
<1>8. HandlersFollow'
  BY <1>1, <1>2, <1>5 DEF HandlersFollow, Appending
<1>9. StagesKnown'
  <2>1. \A t \in Stage : ~Unknown(t)
    BY <1>1, <1>5 DEF Unknown, Stage
  <2>2. \A t \in Stage : t # s => (Alive(t)' <=> Alive(t))
    BY <1>1, <1>3 DEF Alive
  <2>3. Unknown(s)'
    BY <1>1 DEF Unknown
  <2> QED
    BY <1>1, <1>2, <2>1, <2>2, <2>3 DEF StagesKnown
<1> QED
  BY <1>4, <1>6, <1>7, <1>8, <1>9 DEF RInv

LEMMA AppendStep ==
  ASSUME RInv, NEW s \in Stage, NEW from, NEW to, AppendProcess(s, from, to),
         \/ s = "S1" /\ from = "appendS1" /\ to = "handleInt"
         \/ s = "S2" /\ from = "appendS2" /\ to = "readyS2"
         \/ s = "S3" /\ from = "appendS3" /\ to = "readyS3"
  PROVE  RInv'
<1>1. /\ phase = from /\ phase' = to /\ outcome' = outcome /\ todo' = todo
      /\ processes' = processes \cup {s}
      /\ UNCHANGED <<proc, left, raw, clean, rows, planned, done, metadata, runFaults>>
      /\ UNCHANGED <<handlers, asked, poll, gaveUp, unseen>>
  BY DEF AppendProcess, GoTo, stages, data, queries, looked
<1>2. /\ RunTypeOK /\ FirstBatch /\ OutcomeAtEnd /\ FileSent /\ HandlersFollow /\ StagesKnown
  BY DEF RInv
<1>3. RunTypeOK'
  BY <1>1, <1>2 DEF RunTypeOK
<1>4. outcome = "none"
  BY <1>1, <1>2 DEF OutcomeAtEnd
<1>5. FirstBatch' /\ FileSent'
  BY <1>1, <1>2 DEF FirstBatch, FileSent
<1>6. OutcomeAtEnd' /\ StagesReaped' /\ Ingested' /\ ReadToEnd'
  BY <1>1, <1>4 DEF OutcomeAtEnd, StagesReaped, Ingested, ReadToEnd, Behind
<1>7. HandlersFollow'
  BY <1>1, <1>2, <1>4 DEF HandlersFollow, Appending
<1>8. StagesKnown'
  <2>1. \A t \in Stage : t # s => ~Unknown(t)
    BY <1>1, <1>4 DEF Unknown, Stage
  <2>2. \A t \in Stage : Alive(t)' <=> Alive(t)
    BY <1>1 DEF Alive
  <2> QED
    BY <1>1, <1>2, <2>1, <2>2 DEF StagesKnown
<1> QED
  BY <1>3, <1>5, <1>6, <1>7, <1>8 DEF RInv

LEMMA InstallStep ==
  ASSUME RInv,
         Install("SIGINT", "handleInt", "handleTerm") \/ Install("SIGTERM", "handleTerm", "waitS1")
  PROVE  RInv'
<1>1. /\ \/ phase = "handleInt" /\ phase' = "handleTerm" /\ handlers' = handlers \cup {"SIGINT"}
         \/ phase = "handleTerm" /\ phase' = "waitS1" /\ handlers' = handlers \cup {"SIGTERM"}
      /\ outcome' = outcome /\ todo' = todo /\ processes' = processes
      /\ UNCHANGED <<proc, left, raw, clean, rows, planned, done, metadata, runFaults>>
      /\ UNCHANGED <<asked, poll, gaveUp, unseen>>
  BY DEF Install, GoTo, stages, data, queries, looked
<1>2. /\ RunTypeOK /\ FirstBatch /\ OutcomeAtEnd /\ FileSent /\ HandlersFollow /\ StagesKnown
  BY DEF RInv
<1>3. RunTypeOK'
  BY <1>1, <1>2 DEF RunTypeOK, Handled
<1>4. outcome = "none"
  BY <1>1, <1>2 DEF OutcomeAtEnd
<1>5. FirstBatch' /\ FileSent'
  BY <1>1, <1>2 DEF FirstBatch, FileSent
<1>6. OutcomeAtEnd' /\ StagesReaped' /\ Ingested' /\ ReadToEnd'
  BY <1>1, <1>4 DEF OutcomeAtEnd, StagesReaped, Ingested, ReadToEnd, Behind
<1>7. HandlersFollow'
  BY <1>1, <1>2, <1>4 DEF HandlersFollow, Appending
<1>8. StagesKnown'
  <2>1. \A t \in Stage : ~Unknown(t)
    BY <1>1, <1>4 DEF Unknown, Stage
  <2>2. \A t \in Stage : Alive(t)' <=> Alive(t)
    BY <1>1 DEF Alive
  <2> QED
    BY <1>1, <1>2, <2>1, <2>2 DEF StagesKnown
<1> QED
  BY <1>3, <1>5, <1>6, <1>7, <1>8 DEF RInv

LEMMA StopStep ==
  ASSUME RInv, Terminate \/ Reap
  PROVE  RInv'
<1>1. /\ phase \in {"terminate", "reap"} /\ phase' \in {"terminate", "reap", "ended"}
      /\ outcome' = outcome
      /\ UNCHANGED <<left, raw, clean, rows, planned, done, metadata, runFaults>>
      /\ UNCHANGED <<processes, handlers, poll, gaveUp, unseen>>
  BY DEF Terminate, Reap, stages, data, queries, known, looked
<1>2. /\ RunTypeOK /\ FirstBatch /\ OutcomeAtEnd /\ FileSent /\ Ingested /\ ReadToEnd
      /\ HandlersFollow /\ StagesKnown /\ StagesReaped
  BY DEF RInv
<1>3. /\ proc \in [Stage -> {"none", "starting", "running", "finished", "failed", "stopped"}]
      /\ "S1" \in Stage /\ todo \subseteq processes /\ processes \subseteq Stage
      /\ asked \subseteq processes
  BY <1>2 DEF RunTypeOK, Stage
<1>4. /\ proc' \in [Stage -> {"none", "starting", "running", "finished", "failed", "stopped"}]
      /\ \A s \in Stage : /\ proc'[s] = "finished" <=> proc[s] = "finished"
                          /\ Alive(s)' => Alive(s)
  <2>1. CASE proc' = proc
    BY <1>3, <2>1 DEF Alive
  <2>2. ASSUME NEW s \in todo, Alive(s), proc' = [proc EXCEPT ![s] = "stopped"]
        PROVE  /\ proc' \in [Stage -> {"none", "starting", "running", "finished", "failed", "stopped"}]
               /\ \A t \in Stage : /\ proc'[t] = "finished" <=> proc[t] = "finished"
                                   /\ Alive(t)' => Alive(t)
    BY <1>3, <2>2 DEF Alive
  <2>3. proc' = proc \/ \E s \in todo : Alive(s) /\ proc' = [proc EXCEPT ![s] = "stopped"]
    BY DEF Terminate, Reap, stages
  <2> QED
    BY <2>1, <2>2, <2>3
<1>5. todo' \subseteq processes /\ asked' \subseteq processes
  BY <1>3 DEF Terminate, Reap
<1>6. RunTypeOK'
  BY <1>1, <1>2, <1>4, <1>5 DEF RunTypeOK
<1>7. FirstBatch' /\ FileSent' /\ OutcomeAtEnd'
  BY <1>1, <1>2, <1>3, <1>4 DEF FirstBatch, FileSent, OutcomeAtEnd
<1>8. Ingested' /\ ReadToEnd' /\ HandlersFollow'
  BY <1>1, <1>2, <1>3, <1>4 DEF Ingested, ReadToEnd, Behind, HandlersFollow, Appending
<1>9. StagesKnown'
  <2>1. \A s \in Stage : Unknown(s) => Unknown(s)'
    BY <1>1 DEF Unknown, Stage
  <2> QED
    BY <1>1, <1>2, <1>4, <2>1 DEF StagesKnown
<1>10. StagesReaped'
  <2>1. CASE Terminate
    BY <1>1, <2>1 DEF Terminate, StagesReaped
  <2>2. CASE Reap /\ phase' = "ended"
    <3>1. todo = {} /\ phase = "reap" /\ proc' = proc /\ processes' = processes
      BY <1>1, <2>2 DEF Reap
    <3> QED
      BY <1>2, <1>3, <2>2, <3>1 DEF StagesReaped, Alive
  <2>3. CASE Reap /\ phase' # "ended"
    <3>1. PICK s \in todo : /\ todo' = todo \ {s} /\ phase' = phase /\ phase = "reap"
                            /\ proc' = IF Alive(s) THEN [proc EXCEPT ![s] = "stopped"] ELSE proc
      BY <2>3 DEF Reap
    <3>2. ~Alive(s)'
      BY <1>3, <3>1 DEF Alive
    <3> QED
      BY <1>1, <1>2, <1>3, <1>4, <3>1, <3>2 DEF StagesReaped
  <2> QED
    BY <2>1, <2>2, <2>3
<1> QED
  BY <1>6, <1>7, <1>8, <1>9, <1>10 DEF RInv

LEMMA RunSteps == RInv /\ [RunNext]_runVars => RInv'
<1> SUFFICES ASSUME RInv, [RunNext]_runVars PROVE RInv'
  OBVIOUS
<1>1. RunTypeOK /\ poll \in [polls : 0..MaxPolls, last : Nat \cup {NoOffset}, same : Nat]
      /\ runFaults \in Nat /\ gaveUp \subseteq Query /\ unseen \subseteq Query
  BY DEF RInv, RunTypeOK
<1>2. Query = {"S2", "S3"} /\ Stage = {"S1", "S2", "S3"}
  BY DEF Query, Stage
<1>3. ASSUME NEW s \in Query, StageReady(s) \/ PlanBatch(s) \/ ProcessBatch(s)
      PROVE  RInv'
  <2>1. UNCHANGED main
    BY <1>3 DEF StageReady, PlanBatch, ProcessBatch
  <2> QED
    BY <1>3, <2>1, StagesStep
<1>4. ASSUME NEW s \in Stage, StageDies(s) \/ StageExits(s) PROVE RInv'
  <2>1. UNCHANGED main
    BY <1>4 DEF StageDies, StageExits
  <2> QED
    BY <1>4, <2>1, StagesStep
<1>5. CASE S1Step \/ SendFails
  <2>1. UNCHANGED main
    BY <1>5 DEF S1Step, SendLine, ProducerEnds, SendFails
  <2> QED
    BY <1>5, <2>1, StagesStep DEF S1Step
<1>6. CASE Launch("S2", "launchS2", "appendS2") \/ Launch("S3", "launchS3", "appendS3")
           \/ Launch("S1", "launchS1", "appendS1")
  BY <1>2, <1>6, LaunchStep
<1>7. CASE AppendProcess("S2", "appendS2", "readyS2") \/ AppendProcess("S3", "appendS3", "readyS3")
           \/ AppendProcess("S1", "appendS1", "handleInt")
  BY <1>2, <1>7, AppendStep
<1>8. ASSUME UNCHANGED <<stages, known, asked, looked>>, runFaults' \in {runFaults, runFaults + 1}
      PROVE  Looks /\ UNCHANGED <<gaveUp, unseen>>
  BY <1>1, <1>8 DEF Looks, looked
<1>9. ASSUME NEW s, NEW from, NEW to, WaitReady(s, from, to),
             \/ from = "readyS2" /\ to = "launchS3"
             \/ from = "readyS3" /\ to = "launchS1"
      PROVE  RInv'
  <2>1. /\ phase = from /\ UNCHANGED <<gaveUp, unseen>>
        /\ StopWith("failed") \/ GoTo(to) \/ GoTo(phase)
    BY <1>9 DEF WaitReady, Fail, GoTo
  <2>2. Looks
    <3>1. \/ poll' = NewLoop
          \/ poll.polls # MaxPolls /\ poll' = [poll EXCEPT !.polls = @ + 1]
      BY <1>9 DEF WaitReady
    <3>2. poll' \in [polls : 0..MaxPolls, last : Nat \cup {NoOffset}, same : Nat]
      BY <1>1, <3>1, PollType
    <3> QED
      BY <1>1, <1>9, <3>2 DEF WaitReady, Looks
  <2>3. CASE StopWith("failed")
    BY <1>9, <2>1, <2>2, <2>3, StopsStep DEF Appending
  <2>4. CASE GoTo(to) \/ GoTo(phase)
    <3>1. GoTo(phase') /\ phase' \in {to, phase}
      BY <2>4 DEF GoTo
    <3> QED
      BY <1>9, <2>1, <2>2, <3>1, GoesOnStep DEF Launching, Watching
  <2> QED
    BY <2>1, <2>3, <2>4
<1>10. CASE WaitS1
  <2>1. /\ phase = "waitS1" /\ UNCHANGED <<stages, known, asked, looked, runFaults>>
        /\ (proc["S1"] = "finished" /\ GoTo("drainS2")) \/ StopWith("failed")
    BY <1>10 DEF WaitS1, Fail
  <2>2. Looks /\ UNCHANGED <<gaveUp, unseen>>
    BY <1>8, <2>1
  <2>3. CASE StopWith("failed")
    BY <2>1, <2>2, <2>3, StopsStep DEF Appending
  <2>4. CASE proc["S1"] = "finished" /\ GoTo("drainS2")
    <3>1. GoTo(phase') /\ phase' = "drainS2"
      BY <2>4 DEF GoTo
    <3> QED
      BY <2>1, <2>2, <2>4, <3>1, GoesOnStep DEF Launching, Watching
  <2> QED
    BY <2>1, <2>3, <2>4
<1>11. ASSUME NEW s \in Query, NEW from, NEW to, Drain(s, from, to),
              \/ s = "S2" /\ from = "drainS2" /\ to = "drainS3"
              \/ s = "S3" /\ from = "drainS3" /\ to = "countRows"
       PROVE  RInv'
  <2>1. /\ phase = from /\ unseen' = unseen
        /\ \/ StopWith("failed") /\ gaveUp' = gaveUp
           \/ GoTo(to) /\ gaveUp' = gaveUp /\ CaughtUp(s)
           \/ GoTo(to) /\ gaveUp' = gaveUp \cup {s}
           \/ GoTo(phase) /\ gaveUp' = gaveUp
    BY <1>11 DEF Drain, Fail, GoTo
  <2>2. poll' \in [polls : 0..MaxPolls, last : Nat \cup {NoOffset}, same : Nat]
    <3>1. \/ poll' = NewLoop
          \/ poll' = [poll EXCEPT !.polls = CountPoll, !.same = @ + 1]
          \/ poll' = [polls |-> CountPoll, last |-> ConsumedSum(s), same |-> 0]
      BY <1>11 DEF Drain
    <3>2. PICK n \in 0..MaxPolls : n = CountPoll
      BY <1>1, PollType
    <3>3. PICK l \in Nat : l = ConsumedSum(s)
      BY <1>1, PollType
    <3>4. PICK m \in Nat : m = poll.same + 1
      BY <1>1
    <3>5. \/ poll' = NewLoop
          \/ poll' = [poll EXCEPT !.polls = n, !.same = m]
          \/ poll' = [polls |-> n, last |-> l, same |-> 0]
      BY <3>1, <3>2, <3>3, <3>4
    <3>6. NewLoop \in [polls : 0..MaxPolls, last : Nat \cup {NoOffset}, same : Nat]
      BY <1>1, PollType
    <3>7. [poll EXCEPT !.polls = n, !.same = m]
              \in [polls : 0..MaxPolls, last : Nat \cup {NoOffset}, same : Nat]
      BY <1>1
    <3>8. [polls |-> n, last |-> l, same |-> 0]
              \in [polls : 0..MaxPolls, last : Nat \cup {NoOffset}, same : Nat]
      OBVIOUS
    <3> QED
      BY <3>5, <3>6, <3>7, <3>8
  <2>3. Looks
    <3>1. gaveUp \subseteq gaveUp' /\ gaveUp' \subseteq Query
      BY <1>1, <2>1
    <3> QED
      BY <1>1, <1>11, <2>1, <2>2, <3>1 DEF Drain, Looks
  <2>4. CASE StopWith("failed") /\ gaveUp' = gaveUp
    BY <1>11, <2>1, <2>3, <2>4, StopsStep DEF Appending
  <2>5. CASE GoTo(phase)
    <3>1. GoTo(phase') /\ phase' = phase
      BY <2>5 DEF GoTo
    <3> QED
      BY <1>11, <2>1, <2>3, <3>1, GoesOnStep DEF Launching, Watching
  <2>6. CASE GoTo(to) /\ (CaughtUp(s) \/ s \in gaveUp')
    <3>1. GoTo(phase') /\ phase' = to
      BY <2>6 DEF GoTo
    <3>2. s = "S2" /\ CaughtUp(s) => planned["S2"] >= raw
      BY DEF CaughtUp, Input
    <3> QED
      BY <1>11, <2>1, <2>3, <2>6, <3>1, <3>2, GoesOnStep DEF Launching, Watching
  <2> QED
    BY <2>1, <2>4, <2>5, <2>6
<1>12. ASSUME NEW s \in Query, NEW from, NEW to, TopicUnseen(s, from, to),
              \/ s = "S2" /\ from = "drainS2" /\ to = "drainS3"
              \/ s = "S3" /\ from = "drainS3" /\ to = "countRows"
              \/ s = "S3" /\ from = "countRows" /\ to = "grace"
       PROVE  RInv'
  <2>1. /\ phase = from /\ GoTo(to) /\ poll' = NewLoop
        /\ unseen' = unseen \cup {s} /\ gaveUp' = gaveUp
        /\ UNCHANGED <<stages, known, asked>> /\ runFaults' = runFaults + 1
    BY <1>12 DEF TopicUnseen, CountRunFault
  <2>2. Looks
    BY <1>1, <2>1, PollType DEF Looks
  <2>3. GoTo(phase') /\ phase' = to
    BY <2>1 DEF GoTo
  <2> QED
    BY <1>12, <2>1, <2>2, <2>3, GoesOnStep DEF Launching, Watching
<1>13. ASSUME NEW read \in BOOLEAN, CountRows(read) PROVE RInv'
  <2>1. /\ phase = "countRows" /\ UNCHANGED <<stages, known, asked, gaveUp, unseen, runFaults>>
        /\ GoTo("grace") \/ GoTo(phase)
    BY <1>13 DEF CountRows, GoTo
  <2>2. poll' \in [polls : 0..MaxPolls, last : Nat \cup {NoOffset}, same : Nat]
    <3>1. \/ poll' = NewLoop
          \/ poll' = [polls |-> CountPoll, last |-> rows, same |-> poll.same + 1]
          \/ poll' = [polls |-> CountPoll, last |-> rows, same |-> 0]
          \/ poll' = [poll EXCEPT !.polls = CountPoll]
      BY <1>13 DEF CountRows
    <3>2. PICK n \in 0..MaxPolls : n = CountPoll
      BY <1>1, PollType
    <3>3. rows \in Nat /\ poll.same + 1 \in Nat
      BY <1>1 DEF RunTypeOK
    <3> QED
      BY <1>1, <3>1, <3>2, <3>3, PollType
  <2>3. Looks
    BY <1>1, <2>1, <2>2 DEF Looks
  <2>4. GoTo(phase') /\ phase' \in {"grace", "countRows"}
    BY <2>1 DEF GoTo
  <2> QED
    BY <2>1, <2>3, <2>4, GoesOnStep DEF Launching, Watching
<1>14. CASE DbSilent \/ DbAnswers
  <2>1. /\ UNCHANGED <<stages, known, asked, gaveUp, unseen>>
        /\ runFaults' \in {runFaults, runFaults + 1}
        /\ \/ phase = "countRows" /\ GoTo("hung") /\ poll' = poll
           \/ /\ phase = "hung" /\ GoTo("countRows")
              /\ \E n \in {poll.polls, MaxPolls} : poll' = [poll EXCEPT !.polls = n]
    BY <1>14 DEF DbSilent, DbAnswers, CountRunFault, looked
  <2>2. poll' \in [polls : 0..MaxPolls, last : Nat \cup {NoOffset}, same : Nat]
    BY <1>1, <2>1, LimitAssumption
  <2>3. Looks
    BY <1>1, <2>1, <2>2 DEF Looks
  <2>4. GoTo(phase') /\ phase' \in {"hung", "countRows"} /\ phase \in {"hung", "countRows"}
    BY <2>1 DEF GoTo
  <2> QED
    BY <2>1, <2>3, <2>4, GoesOnStep DEF Launching, Watching
<1>15. CASE Grace
  <2>1. /\ phase = "grace" /\ StopWith("complete")
        /\ UNCHANGED <<stages, known, asked, looked, runFaults>>
    BY <1>15 DEF Grace
  <2>2. Looks /\ UNCHANGED <<gaveUp, unseen>>
    BY <1>8, <2>1
  <2> QED
    BY <2>1, <2>2, StopsStep DEF Appending
<1>16. CASE PollRaises
  <2>1. /\ StopWith("failed") /\ UNCHANGED <<stages, known, asked, looked>>
        /\ phase \in {"launchS2", "launchS3", "launchS1", "waitS1", "drainS2", "drainS3", "countRows"}
        /\ runFaults' = runFaults + 1
    BY <1>16 DEF PollRaises, Fail, CountRunFault
  <2>2. Looks /\ UNCHANGED <<gaveUp, unseen>>
    BY <1>8, <2>1
  <2> QED
    BY <2>1, <2>2, StopsStep DEF Appending
<1>17. CASE Interrupt \/ \E sig \in Handled : Shutdown(sig)
  <2>1. /\ StopWith("interrupted") /\ UNCHANGED <<stages, known, asked, looked>>
        /\ phase # "ended" /\ runFaults' = runFaults + 1
        /\ phase \notin {"terminate", "reap"} \/ handlers # {}
    BY <1>17 DEF Interrupt, Shutdown, Stopping, CountRunFault
  <2>2. Looks /\ UNCHANGED <<gaveUp, unseen>>
    BY <1>8, <2>1
  <2>3. handlers # {} => "SIGINT" \in handlers
    BY DEF RInv, HandlersFollow
  <2> QED
    BY <2>1, <2>2, <2>3, StopsStep DEF Appending
<1>18. CASE CutShort \/ Killed
  BY <1>18, EndsAtOnceStep
<1>19. CASE Terminate \/ Reap
  BY <1>19, StopStep
<1>20. CASE Install("SIGINT", "handleInt", "handleTerm") \/ Install("SIGTERM", "handleTerm", "waitS1")
  BY <1>20, InstallStep
<1>21. CASE UNCHANGED runVars
  BY <1>21 DEF runVars, main, known, looked, stages, data, queries, RInv, RunTypeOK, FirstBatch,
     OutcomeAtEnd, FileSent, Ingested, ReadToEnd, Behind, HandlersFollow, StagesKnown,
     StagesReaped, Unknown, Alive
<1>22. ASSUME MainStep PROVE RInv'
  BY <1>2, <1>6, <1>7, <1>9, <1>10, <1>11, <1>13, <1>15, <1>19, <1>20, <1>22 DEF MainStep
<1>23. ASSUME ServiceFails \/ DbAnswers \/ Signal PROVE RInv'
  BY <1>2, <1>12, <1>14, <1>16, <1>17, <1>18, <1>23 DEF ServiceFails, Signal
<1> QED
  BY <1>3, <1>4, <1>5, <1>21, <1>22, <1>23 DEF RunNext

LEMMA RunInvariance == RunSpec => []RInv
BY RunInitially, RunSteps, PTL DEF RunSpec

\* Once main() has ended, stop_all has left no stage running, whatever died,
\* stalled or raised before and however often a signal started it again; but for
\* the signals that had no handler yet, and a stage that was not appended yet.
THEOREM StagesStopped == RunSpec => []NoStageLeft
<1>1. RInv => NoStageLeft
  <2> SUFFICES ASSUME RInv, phase = "ended", NEW s \in Stage, Alive(s)
               PROVE  \/ outcome = "killed" /\ "SIGTERM" \notin handlers
                      \/ outcome = "cut" /\ "SIGINT" \notin handlers
                      \/ outcome = "interrupted" /\ handlers = {} /\ s \notin processes
    BY DEF NoStageLeft
  <2>1. CASE outcome \in {"killed", "cut"}
    BY <2>1 DEF RInv, HandlersFollow
  <2>2. CASE outcome \notin {"killed", "cut"}
    <3>1. s \notin processes
      BY <2>2 DEF RInv, StagesReaped
    <3> QED
      BY <2>2, <3>1 DEF RInv, StagesKnown, Unknown
  <2> QED
    BY <2>1, <2>2
<1> QED
  BY <1>1, RunInvariance, PTL

\* A run that is called complete has planned a batch up to the end of radius.raw
\* unless the drain loop gave S2 up or saw its topic without partitions: the
\* order of the waits in main().
THEOREM CompleteIsRead == RunSpec => []CompleteMeansRead
<1>1. RInv => CompleteMeansRead
  BY DEF RInv, ReadToEnd, Behind, CompleteMeansRead, Complete
<1> QED
  BY <1>1, RunInvariance, PTL

\* A run is called complete only if S1 sent the whole file and ended by itself.
THEOREM CompleteIsIngested == RunSpec => []CompleteMeansIngested
<1>1. RInv => CompleteMeansIngested
  BY DEF RInv, FileSent, Ingested, Behind, CompleteMeansIngested, Complete
<1> QED
  BY <1>1, RunInvariance, PTL

-----------------------------------------------------------------------------
(***************************************************************************)
(* Why main() ends. MainEnds itself needs fairness and is checked by TLC;  *)
(* this is the bound on what main() can do before it does.                 *)
(***************************************************************************)
\* The processes that a loop of stop_all has yet to visit.
ToVisit ==
    (IF "S2" \in todo THEN 1 ELSE 0) + (IF "S3" \in todo THEN 1 ELSE 0)
        + (IF "S1" \in todo THEN 1 ELSE 0)

PhasesLeft ==
    CASE phase = "launchS2" -> 23 [] phase = "appendS2" -> 22 [] phase = "readyS2" -> 21
      [] phase = "launchS3" -> 20 [] phase = "appendS3" -> 19 [] phase = "readyS3" -> 18
      [] phase = "launchS1" -> 17 [] phase = "appendS1" -> 16
      [] phase = "handleInt" -> 15 [] phase = "handleTerm" -> 14 [] phase = "waitS1" -> 13
      [] phase = "drainS2" -> 12 [] phase = "drainS3" -> 11
      [] phase \in {"countRows", "hung"} -> 10 [] phase = "grace" -> 9
      [] phase = "terminate" -> 5 + ToVisit [] phase = "reap" -> 1 + ToVisit [] phase = "ended" -> 0

\* How many steps main() may still take, if each loop polls up to its deadline.
StepsLeft == PhasesLeft * (MaxPolls + 1) + (MaxPolls - poll.polls)

\* A step of main() lessens them, and nothing that happens around it adds any,
\* but for a signal that starts stop_all again.
MainAdvances ==
    /\ MainStep => StepsLeft' < StepsLeft
    /\ StepsLeft' <= StepsLeft \/ (Stopping /\ \E sig \in Handled : Shutdown(sig))

StepsBounded == StepsLeft \in 0..(24 * (MaxPolls + 1) - 1)

LEMMA VisitFacts == ToVisit \in 0..3
BY DEF ToVisit

LEMMA PhaseFacts ==
    ASSUME RunTypeOK
    PROVE  /\ PhasesLeft \in 0..23
           /\ poll.polls \in 0..MaxPolls /\ MaxPolls \in Nat
           /\ StepsLeft \in Nat
<1>1. PhasesLeft \in 0..23
  BY VisitFacts DEF RunTypeOK, PhasesLeft
<1>2. poll.polls \in 0..MaxPolls /\ MaxPolls \in Nat
  BY LimitAssumption DEF RunTypeOK
<1>3. PICK r \in 0..23, p \in 0..MaxPolls : r = PhasesLeft /\ p = poll.polls
  BY <1>1, <1>2
<1>4. r * (MaxPolls + 1) + (MaxPolls - p) \in Nat
  BY <1>2
<1> QED
  BY <1>1, <1>2, <1>3, <1>4 DEF StepsLeft

\* The same after a step.
LEMMA PhaseFactsNext ==
    ASSUME RunTypeOK'
    PROVE  /\ PhasesLeft' \in 0..23
           /\ poll'.polls \in 0..MaxPolls /\ MaxPolls \in Nat
           /\ StepsLeft' \in Nat
<1>1. PhasesLeft' \in 0..23
  <2>1. ToVisit' \in 0..3
    BY DEF ToVisit
  <2> QED
    BY <2>1 DEF RunTypeOK, PhasesLeft
<1>2. poll'.polls \in 0..MaxPolls /\ MaxPolls \in Nat
  BY LimitAssumption DEF RunTypeOK
<1>3. PICK r \in 0..23, p \in 0..MaxPolls : r = PhasesLeft' /\ p = poll'.polls
  BY <1>1, <1>2
<1>4. r * (MaxPolls + 1) + (MaxPolls - p) \in Nat
  BY <1>2
<1> QED
  BY <1>1, <1>2, <1>3, <1>4 DEF StepsLeft

LEMMA PhaseWeighs ==
    ASSUME NEW M \in Nat, NEW r \in 0..23, NEW s \in 0..23, s < r,
           NEW p \in 0..M, NEW q \in 0..M
    PROVE  s * (M + 1) + (M - q) < r * (M + 1) + (M - p)
<1>1. s * (M + 1) + (M + 1) <= r * (M + 1)
  <2>1. PICK d \in Nat : r = s + 1 + d
    <3>1. r - s - 1 \in Nat /\ r = s + 1 + (r - s - 1)
      OBVIOUS
    <3> QED
      BY <3>1
  <2>2. (s + 1 + d) * (M + 1) = s * (M + 1) + (M + 1) + d * (M + 1)
    OBVIOUS
  <2>3. d * (M + 1) >= 0
    OBVIOUS
  <2> QED
    BY <2>1, <2>2, <2>3
<1>2. PICK x \in Int, y \in Int : x = s * (M + 1) /\ y = r * (M + 1)
  OBVIOUS
<1>3. x + (M - q) < y + (M - p)
  BY <1>1, <1>2
<1> QED
  BY <1>2, <1>3

LEMMA FewerPhases ==
    ASSUME RunTypeOK, RunTypeOK', PhasesLeft' < PhasesLeft
    PROVE  StepsLeft' < StepsLeft
BY PhaseFacts, PhaseFactsNext, PhaseWeighs DEF StepsLeft

LEMMA MorePolls ==
    ASSUME RunTypeOK, RunTypeOK', PhasesLeft' = PhasesLeft
    PROVE  /\ poll'.polls = poll.polls + 1 => StepsLeft' < StepsLeft
           /\ poll'.polls >= poll.polls => StepsLeft' <= StepsLeft
<1>1. /\ PhasesLeft \in 0..23 /\ poll.polls \in 0..MaxPolls /\ MaxPolls \in Nat
      /\ poll'.polls \in 0..MaxPolls
  BY PhaseFacts, PhaseFactsNext
<1>2. PICK x \in Int, p \in Nat, q \in Nat :
          x = PhasesLeft * (MaxPolls + 1) /\ p = poll.polls /\ q = poll'.polls
  BY <1>1
<1>3. /\ q = p + 1 => x + (MaxPolls - q) < x + (MaxPolls - p)
      /\ q >= p => x + (MaxPolls - q) <= x + (MaxPolls - p)
  BY <1>1, <1>2
<1>4. StepsLeft = x + (MaxPolls - p) /\ StepsLeft' = x + (MaxPolls - q)
  BY <1>2 DEF StepsLeft
<1> QED
  BY <1>2, <1>3, <1>4

\* A poll that stays in its loop is counted.
LEMMA PollCounted ==
    ASSUME RunTypeOK, poll.polls # MaxPolls
    PROVE  CountPoll = poll.polls + 1
BY DEF CountPoll

\* main() goes on to a later phase, polls once more, or visits a process.
LEMMA MainGoesOn ==
    ASSUME RunTypeOK, RunTypeOK', MainStep
    PROVE  \/ PhasesLeft' < PhasesLeft
           \/ PhasesLeft' = PhasesLeft /\ poll'.polls = poll.polls + 1
<1>0. /\ \A c, a : [poll EXCEPT !.polls = c, !.same = a].polls = c
      /\ \A c : [poll EXCEPT !.polls = c].polls = c
  BY DEF RunTypeOK
<1>1. /\ \A s, from, to : Launch(s, from, to) => phase = from /\ phase' = to
      /\ \A s, from, to : AppendProcess(s, from, to) => phase = from /\ phase' = to
      /\ \A sig, from, to : Install(sig, from, to) => phase = from /\ phase' = to
  BY DEF Launch, AppendProcess, Install, GoTo
<1>2. ASSUME NEW s, NEW from, NEW to, WaitReady(s, from, to)
      PROVE  /\ phase = from
             /\ \/ phase' \in {to, "terminate"}
                \/ phase' = phase /\ todo' = todo /\ poll'.polls = poll.polls + 1
  BY <1>0, <1>2 DEF WaitReady, GoTo, Fail, StopWith
<1>3. WaitS1 => phase = "waitS1" /\ phase' \in {"drainS2", "terminate"}
  BY DEF WaitS1, GoTo, Fail, StopWith
<1>4. ASSUME NEW s, NEW from, NEW to, Drain(s, from, to)
      PROVE  /\ phase = from
             /\ \/ phase' \in {to, "terminate"}
                \/ phase' = phase /\ todo' = todo /\ poll'.polls = poll.polls + 1
  <2>1. phase = from
    BY <1>4 DEF Drain
  <2>2. CASE phase' \in {to, "terminate"}
    BY <2>1, <2>2
  <2>3. CASE phase' \notin {to, "terminate"}
    <3>1. poll.polls # MaxPolls /\ phase' = phase /\ todo' = todo
      BY <1>4, <2>3 DEF Drain, Fail, StopWith, GoTo, PastDeadline
    <3>2. \/ poll' = [poll EXCEPT !.polls = CountPoll, !.same = @ + 1]
          \/ poll' = [polls |-> CountPoll, last |-> ConsumedSum(s), same |-> 0]
      BY <1>4, <2>3 DEF Drain, Fail, StopWith, GoTo
    <3>3. PICK c, a, b : c = CountPoll /\ b = ConsumedSum(s) /\ a = poll.same + 1
      OBVIOUS
    <3>4. \/ poll' = [poll EXCEPT !.polls = c, !.same = a]
          \/ poll' = [polls |-> c, last |-> b, same |-> 0]
      BY <3>2, <3>3
    <3>5. poll'.polls = c
      <4>1. CASE poll' = [poll EXCEPT !.polls = c, !.same = a]
        BY <1>0, <4>1
      <4>2. CASE poll' = [polls |-> c, last |-> b, same |-> 0]
        BY <4>2
      <4> QED
        BY <3>4, <4>1, <4>2
    <3> QED
      BY <2>1, <3>1, <3>3, <3>5, PollCounted
  <2> QED
    BY <2>2, <2>3
<1>5. ASSUME NEW read \in BOOLEAN, CountRows(read)
      PROVE  /\ phase = "countRows"
             /\ \/ phase' = "grace"
                \/ phase' = phase /\ todo' = todo /\ poll'.polls = poll.polls + 1
  <2>1. phase = "countRows"
    BY <1>5 DEF CountRows
  <2>2. CASE phase' # "grace"
    <3>1. poll.polls # MaxPolls /\ phase' = phase /\ todo' = todo
      BY <1>5, <2>2 DEF CountRows, GoTo, PastDeadline
    <3>2. PICK same : \/ poll' = [polls |-> CountPoll, last |-> rows, same |-> same]
                      \/ poll' = [poll EXCEPT !.polls = CountPoll]
      BY <1>5, <2>2 DEF CountRows, GoTo
    <3>3. poll'.polls = CountPoll
      <4>1. PICK c : c = CountPoll
        OBVIOUS
      <4>2. CASE poll' = [polls |-> c, last |-> rows, same |-> same]
        BY <4>1, <4>2
      <4>3. CASE poll' = [poll EXCEPT !.polls = c]
        BY <1>0, <4>1, <4>3
      <4> QED
        BY <3>2, <4>1, <4>2, <4>3
    <3> QED
      BY <2>1, <3>1, <3>3, PollCounted
  <2> QED
    BY <2>1, <2>2
<1>6. Grace => phase = "grace" /\ phase' = "terminate"
  BY DEF Grace, StopWith
<1>7. ASSUME NEW s \in todo, todo' = todo \ {s}
      PROVE  ToVisit' < ToVisit
  <2>1. s \in {"S1", "S2", "S3"}
    BY DEF RunTypeOK, Stage
  <2> QED
    BY <1>7, <2>1 DEF ToVisit
<1>8. ASSUME Terminate \/ Reap
      PROVE  \/ phase = "terminate" /\ phase' = "reap"
             \/ phase = "reap" /\ phase' = "ended"
             \/ phase \in {"terminate", "reap"} /\ phase' = phase /\ ToVisit' < ToVisit
  BY <1>7, <1>8 DEF Terminate, Reap
<1> HIDE DEF MainStep
<1>9. \/ phase' = phase /\ todo' = todo /\ poll'.polls = poll.polls + 1
      \/ phase = "launchS2" /\ phase' = "appendS2"
      \/ phase = "appendS2" /\ phase' = "readyS2"
      \/ phase = "readyS2" /\ phase' \in {"launchS3", "terminate"}
      \/ phase = "launchS3" /\ phase' = "appendS3"
      \/ phase = "appendS3" /\ phase' = "readyS3"
      \/ phase = "readyS3" /\ phase' \in {"launchS1", "terminate"}
      \/ phase = "launchS1" /\ phase' = "appendS1"
      \/ phase = "appendS1" /\ phase' = "handleInt"
      \/ phase = "handleInt" /\ phase' = "handleTerm"
      \/ phase = "handleTerm" /\ phase' = "waitS1"
      \/ phase = "waitS1" /\ phase' \in {"drainS2", "terminate"}
      \/ phase = "drainS2" /\ phase' \in {"drainS3", "terminate"}
      \/ phase = "drainS3" /\ phase' \in {"countRows", "terminate"}
      \/ phase = "countRows" /\ phase' = "grace"
      \/ phase = "grace" /\ phase' = "terminate"
      \/ phase = "terminate" /\ phase' = "reap"
      \/ phase = "reap" /\ phase' = "ended"
      \/ phase \in {"terminate", "reap"} /\ phase' = phase /\ ToVisit' < ToVisit
  <2>1. CASE WaitReady("S2", "readyS2", "launchS3") \/ WaitReady("S3", "readyS3", "launchS1")
    BY <1>2, <2>1
  <2>2. CASE Drain("S2", "drainS2", "drainS3") \/ Drain("S3", "drainS3", "countRows")
    BY <1>4, <2>2
  <2>3. CASE Terminate \/ Reap
    BY <1>8, <2>3
  <2> QED
    BY <1>1, <1>3, <1>5, <1>6, <2>1, <2>2, <2>3 DEF MainStep
<1>10. ToVisit \in 0..3 /\ ToVisit' \in 0..3 /\ (todo' = todo => ToVisit' = ToVisit)
  BY DEF ToVisit
<1>11. CASE phase' = phase /\ todo' = todo /\ poll'.polls = poll.polls + 1
  BY <1>10, <1>11 DEF PhasesLeft
<1>12. CASE phase \in {"terminate", "reap"} /\ phase' = phase /\ ToVisit' < ToVisit
  BY <1>10, <1>12 DEF PhasesLeft
<1>13. CASE \/ phase = "terminate" /\ phase' = "reap"
            \/ phase' \in {"terminate", "ended"} /\ phase # phase'
  BY <1>9, <1>10, <1>13 DEF PhasesLeft
<1>14. CASE phase' \notin {"terminate", "reap", "ended"} /\ phase' # phase
  BY <1>9, <1>10, <1>14 DEF PhasesLeft
<1> QED
  BY <1>9, <1>11, <1>12, <1>13, <1>14

\* The others leave phase and poll alone, add to the polls or end the run early;
\* only a signal to a main() that is stopping sends it back.
LEMMA OthersGoNowhere ==
    ASSUME RunTypeOK, RunTypeOK', [RunNext]_runVars, ~MainStep
    PROVE  \/ PhasesLeft' = PhasesLeft /\ poll'.polls >= poll.polls
           \/ PhasesLeft' < PhasesLeft
           \/ Stopping /\ \E sig \in Handled : Shutdown(sig)
<1>0. ToVisit \in 0..3 /\ ToVisit' \in 0..3 /\ (todo' = todo => ToVisit' = ToVisit)
      /\ poll.polls \in 0..MaxPolls /\ MaxPolls \in Nat
  BY PhaseFacts DEF ToVisit
<1>1. ASSUME UNCHANGED main
      PROVE  PhasesLeft' = PhasesLeft /\ poll'.polls >= poll.polls
  BY <1>0, <1>1 DEF main, looked, PhasesLeft
<1>2. CASE PollRaises \/ Interrupt \/ \E sig \in Handled : Shutdown(sig)
  <2>1. phase' = "terminate" /\ phase # "ended"
    BY <1>2 DEF PollRaises, Interrupt, Shutdown, Fail, StopWith
  <2>2. phase \in {"terminate", "reap"} => \E sig \in Handled : Shutdown(sig)
    BY <1>2 DEF PollRaises, Interrupt, Stopping
  <2>3. CASE phase \in {"terminate", "reap"}
    BY <2>2, <2>3 DEF Stopping
  <2>4. CASE phase \notin {"terminate", "reap"}
    BY <1>0, <2>1, <2>4 DEF RunTypeOK, PhasesLeft
  <2> QED
    BY <2>3, <2>4
<1>3. CASE CutShort \/ Killed
  <2>1. phase # "ended" /\ phase' = "ended"
    BY <1>3 DEF CutShort, Killed, Stopping
  <2> QED
    BY <1>0, <2>1 DEF RunTypeOK, PhasesLeft
<1>4. CASE DbSilent \/ DbAnswers
  <2>1. /\ phase \in {"countRows", "hung"} /\ phase' \in {"countRows", "hung"}
        /\ \E n \in {poll.polls, MaxPolls} : poll' = poll \/ poll' = [poll EXCEPT !.polls = n]
    BY <1>4 DEF DbSilent, DbAnswers, GoTo, looked
  <2>2. poll'.polls \in {poll.polls, MaxPolls}
    BY <2>1 DEF RunTypeOK
  <2> QED
    BY <1>0, <2>1, <2>2 DEF PhasesLeft
<1>5. ASSUME NEW s, NEW from, NEW to, TopicUnseen(s, from, to),
             \/ from = "drainS2" /\ to = "drainS3"
             \/ from = "drainS3" /\ to = "countRows"
             \/ from = "countRows" /\ to = "grace"
      PROVE  PhasesLeft' < PhasesLeft
  <2>1. phase = from /\ phase' = to
    BY <1>5 DEF TopicUnseen, GoTo
  <2> QED
    BY <1>5, <2>1 DEF PhasesLeft
<1>6. /\ S1Step \/ SendFails => UNCHANGED main
      /\ \A s : StageReady(s) \/ PlanBatch(s) \/ ProcessBatch(s) \/ StageDies(s) \/ StageExits(s)
             => UNCHANGED main
      /\ UNCHANGED runVars => UNCHANGED main
  BY DEF S1Step, SendLine, ProducerEnds, StageReady, PlanBatch, ProcessBatch, StageDies,
     StageExits, SendFails, runVars
<1>7. CASE ServiceFails
  BY <1>2, <1>4, <1>5, <1>7 DEF ServiceFails
<1>8. CASE Signal
  BY <1>2, <1>3, <1>8 DEF Signal
<1> QED
  BY <1>1, <1>4, <1>6, <1>7, <1>8 DEF RunNext

\* main() takes fewer than 24 * (MaxPolls + 1) steps, whatever the stages, Kafka
\* and PostgreSQL do: every loop counts its polls towards its deadline, none is
\* entered again, and no failure sends it back; a signal does so only from
\* stop_all to its beginning. (A PostgreSQL that never answers stops it before.)
THEOREM MainIsBounded == RunSpec => []StepsBounded /\ [][MainAdvances]_runVars
<1>1. RInv => StepsBounded
  <2> SUFFICES ASSUME RunTypeOK PROVE StepsBounded
    BY DEF RInv
  <2>1. /\ PhasesLeft \in 0..23 /\ poll.polls \in 0..MaxPolls /\ MaxPolls \in Nat
        /\ StepsLeft \in Nat
    BY PhaseFacts
  <2>2. \A r \in 0..23, p \in 0..MaxPolls :
            r * (MaxPolls + 1) + (MaxPolls - p) <= 24 * (MaxPolls + 1) - 1
    <3> SUFFICES ASSUME NEW r \in 0..23, NEW p \in 0..MaxPolls
                 PROVE  r * (MaxPolls + 1) + (MaxPolls - p) <= 24 * (MaxPolls + 1) - 1
      OBVIOUS
    <3>1. r * (MaxPolls + 1) <= 23 * (MaxPolls + 1)
      BY <2>1
    <3>2. PICK x \in Int : x = r * (MaxPolls + 1)
      BY <2>1
    <3> QED
      BY <2>1, <3>1, <3>2
  <2> QED
    BY <2>1, <2>2 DEF StepsBounded, StepsLeft
<1>2. RInv /\ RInv' /\ [RunNext]_runVars => [MainAdvances]_runVars
  <2> SUFFICES ASSUME RunTypeOK, RunTypeOK', [RunNext]_runVars PROVE MainAdvances
    BY DEF RInv
  <2>1. StepsLeft \in Nat /\ StepsLeft' \in Nat
    BY PhaseFacts, PhaseFactsNext
  <2>2. CASE MainStep
    <3>1. StepsLeft' < StepsLeft
      BY <2>2, MainGoesOn, FewerPhases, MorePolls
    <3> QED
      BY <2>1, <3>1 DEF MainAdvances
  <2>3. CASE ~MainStep
    <3>1. \/ StepsLeft' <= StepsLeft
          \/ StepsLeft' < StepsLeft
          \/ Stopping /\ \E sig \in Handled : Shutdown(sig)
      BY <2>3, OthersGoNowhere, FewerPhases, MorePolls
    <3> QED
      BY <2>1, <2>3, <3>1 DEF MainAdvances
  <2> QED
    BY <2>2, <2>3
<1> QED
  BY <1>1, <1>2, RunInvariance, PTL DEF RunSpec
=============================================================================
